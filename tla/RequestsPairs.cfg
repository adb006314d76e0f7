CONSTANTS
    NULL = NULL
    Thread = {t1, t2}
    t1 = t1
    t2 = t2
    Ops = {"connect", "listen", "list", "lookup", "buid", "read", "save", "delete"}
    Daemons <- AllDaemons
    AllocMayFail = TRUE
    TagSpace = 8
    MaxFd = 2
    MaxCalls = 2
    MaxFaults = 0
SPECIFICATION Spec
SYMMETRY Symmetry
CHECK_DEADLOCK FALSE
INVARIANTS
    
    Honest
    OwnConnections
