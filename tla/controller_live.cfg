SPECIFICATION FairSpec
CONSTANTS
    w1 = w1
    w2 = w2
    Workers <- TwoWorkers
    Names <- TwoNames
    Prefixed <- TwoNames
    Own = 1
    UserOps = {"deprecate", "deleteRelease", "moveRelease", "restartPod"}
    MaxOps = 1
    MaxUid = 1
    MaxFaults = 0
    MaxRestarts = 1
    MaxRetries = 0
    UpdateSteps = 1
    PodsLag = FALSE
    Services = {}
    Attempts = 1
PROPERTY ProxyIsKept
PROPERTY ProxyRunsOn
PROPERTY LiveGetsProxy
PROPERTY OneProxyIsLeft
PROPERTY FinishedLosesProxy
PROPERTY ReleaseGoneDeletes
CHECK_DEADLOCK FALSE
