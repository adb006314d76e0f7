CONSTANTS
    NULL = NULL
    Thread = {t1}
    t1 = t1
    Ops = {"connect", "listen", "list", "lookup", "buid", "read", "save", "delete"}
    Daemons <- AllDaemons
    AllocMayFail = TRUE
    TagSpace = 8
    MaxFd = 3
    MaxCalls = 4
    MaxFaults = 1
SPECIFICATION Spec
CHECK_DEADLOCK FALSE
INVARIANTS
    LockDiscipline
    Negotiated
    Honest
    SocketsAccounted
