SPECIFICATION SystemSpec
CONSTANTS
    w1 = w1
    Workers <- OneWorker
    s1 = s1
    Services <- OneService
    Names <- OneName
    Prefixed <- OneName
    Own = 1
    UserOps = {"deprecate", "delete", "recreate", "deleteRelease"}
    MaxOps = 2
    MaxUid = 2
    MaxFaults = 1
    MaxRestarts = 0
    MaxRetries = 0
    UpdateSteps = 2
    PodsLag = FALSE
    Attempts = 1
INVARIANT TypeOK
INVARIANT TrafficHasProxy
PROPERTY StagesFollow
CHECK_DEADLOCK FALSE
