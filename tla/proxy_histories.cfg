SPECIFICATION Spec
CONSTANTS
    s1 = s1
    s2 = s2
    c1 = c1
    c2 = c2
    l1 = l1
    l2 = l2
    Services <- OneService
    Cfgs <- OneConfig
    Layouts <- TwoLayouts
    LayoutOf <- LayoutOne
    Exact <- OneService
    Plans <- Histories
    MaxUid = 2
    MaxFaults = 0
    MaxRetries = 0
    RecoverSteps = 2
    MaxRev = 3
INVARIANT TypeOK
INVARIANT BackendsInv
PROPERTY AdoptsItsVersion
PROPERTY PhaseIsFinal
PROPERTY TakeoverSurvivesFormer
CHECK_DEADLOCK FALSE
