SPECIFICATION FairSpec
CONSTANTS
    Udid = {u1}
    NULL = NULL
    BadMessages = {}
    HAVE_INOTIFY = TRUE
    Remote = FALSE
    SpawnMayFail = FALSE
    Retries = 1
    MaxHandle = 1
    MaxRestarts = 1
    MaxSubs = 1
    MaxBad = 0
CHECK_DEADLOCK FALSE
PROPERTY UnsubscribeReturns
