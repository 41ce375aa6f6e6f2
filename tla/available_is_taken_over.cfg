SPECIFICATION Spec
CONSTANTS
    s1 = s1
    s2 = s2
    c1 = c1
    c2 = c2
    l1 = l1
    l2 = l2
    Services <- OneService
    Cfgs <- OneConfig
    Layouts <- TwoLayouts
    LayoutOf <- LayoutOne
    Exact <- OneService
    Plans <- NoPlans
    MaxUid = 1
    MaxFaults = 1
    MaxRetries = 3
    RecoverSteps = 5
    MaxRev = 2
INVARIANT AvailableIsTakenOver
CHECK_DEADLOCK FALSE
