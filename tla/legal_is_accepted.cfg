SPECIFICATION Spec
CONSTANTS
    Nil = Nil
    Services <- TwoServices
    Rendered <- TwoRendered
    Specs <- HeavySpecs
    MaxRetries = 1
    MaxEdits = 1
    MaxFaults = 0
    MaxRestarts = 0
INVARIANT LegalIsAccepted
CHECK_DEADLOCK FALSE
