SPECIFICATION FairSpec
CONSTANTS
    Udid = {u1}
    NULL = NULL
    BadMessages = {"unexpected", "noid"}
    HAVE_INOTIFY = FALSE
    Remote = TRUE
    SpawnMayFail = TRUE
    Retries = 1
    MaxHandle = 2
    MaxRestarts = 1
    MaxSubs = 2
    MaxBad = 1
CHECK_DEADLOCK FALSE
INVARIANT NeverAborts
PROPERTIES Discovered UnsubscribeReturns
