SPECIFICATION FairSpec
CONSTANTS
    s1 = s1
    s2 = s2
    c1 = c1
    c2 = c2
    l1 = l1
    l2 = l2
    Services <- OneService
    Cfgs <- TwoConfigs
    Layouts <- TwoLayouts
    LayoutOf <- LayoutTwo
    Exact = {}
    Plans <- EditPlans
    MaxUid = 1
    MaxFaults = 0
    MaxRetries = 1
    RecoverSteps = 2
    MaxRev = 2
PROPERTY TakeoverIsPrepared
PROPERTY DeprecationCompletes
PROPERTY ConfigIsRolledOut
CHECK_DEADLOCK FALSE
