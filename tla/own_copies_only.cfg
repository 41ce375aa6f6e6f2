SPECIFICATION Spec
CONSTANTS
    Nil = Nil
    Services <- TwoServices
    Rendered <- TwoRendered
    Specs <- DroppedSpecs
    MaxRetries = 1
    MaxEdits = 1
    MaxFaults = 0
    MaxRestarts = 0
INVARIANT OwnCopiesOnly
CHECK_DEADLOCK FALSE
