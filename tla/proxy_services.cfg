SPECIFICATION Spec
CONSTANTS
    s1 = s1
    s2 = s2
    c1 = c1
    c2 = c2
    l1 = l1
    l2 = l2
    Services <- TwoServices
    Cfgs <- OneConfig
    Layouts <- TwoLayouts
    LayoutOf <- LayoutOne
    Exact <- TwoServices
    Plans <- EndPlans
    MaxUid = 1
    MaxFaults = 1
    MaxRetries = 1
    RecoverSteps = 1
    MaxRev = 2
INVARIANT BackendsAlive
INVARIANT AdoptedIsApplied
PROPERTY ImplementsRouting
CHECK_DEADLOCK FALSE
SYMMETRY ServiceSymmetry
