SPECIFICATION FairSpec
CONSTANTS
    Nil = Nil
    Services <- TwoServices
    Rendered <- TwoRendered
    Specs <- AllSpecs
    MaxRetries = 1
    MaxEdits = 2
    MaxFaults = 1
    MaxRestarts = 1
INVARIANT TypeOK
INVARIANT SplitAsAsked
INVARIANT RestIsUpToDate
INVARIANT WeightsMoveNothing
PROPERTY RolledOut
CHECK_DEADLOCK FALSE
