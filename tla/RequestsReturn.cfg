CONSTANTS
    NULL = NULL
    Thread = {t1, t2}
    t1 = t1
    t2 = t2
    Ops = {"list", "save"}
    Daemons <- OldAndYoung
    AllocMayFail = FALSE
    TagSpace = 4
    MaxFd = 2
    MaxCalls = 2
    MaxFaults = 0
SPECIFICATION FairSpec
CHECK_DEADLOCK FALSE
PROPERTY
    Returns
