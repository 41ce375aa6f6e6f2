SPECIFICATION Spec
CONSTANTS
    w1 = w1
    w2 = w2
    Workers <- TwoWorkers
    Names <- OneName
    Prefixed <- OneName
    Own = 1
    UserOps = {"delete", "recreate"}
    MaxOps = 2
    MaxUid = 2
    MaxFaults = 0
    MaxRestarts = 0
    MaxRetries = 0
    UpdateSteps = 1
    PodsLag = FALSE
    Services = {}
    Attempts = 1
PROPERTY OnlyFinishedIsCleanedUp
CHECK_DEADLOCK FALSE
