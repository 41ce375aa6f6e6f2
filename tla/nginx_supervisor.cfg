SPECIFICATION FairSpec
CONSTANTS
    c1 = c1
    c2 = c2
    shipped = shipped
    broken = broken
    Nil = Nil
    Configs <- TwoConfigs
    Templates <- TwoTemplates
    MaxRetries = 1
    MaxEdits = 2
    MaxFaults = 1
    MaxAccidents = 1
INVARIANT TypeOK
INVARIANT FileIsTested
INVARIANT ReloadReaches
PROPERTY ServedAgain
PROPERTY StopEnds
CHECK_DEADLOCK FALSE
