SPECIFICATION FairSpec
CONSTANTS
    s1 = s1
    s2 = s2
    c1 = c1
    c2 = c2
    l1 = l1
    l2 = l2
    Services <- OneService
    Cfgs <- OneConfig
    Layouts <- TwoLayouts
    LayoutOf <- LayoutOne
    Exact <- OneService
    Plans <- AdoptPlans
    MaxUid = 1
    MaxFaults = 0
    MaxRetries = 3
    RecoverSteps = 5
    MaxRev = 4
PROPERTY AdoptionEnds
CHECK_DEADLOCK FALSE
