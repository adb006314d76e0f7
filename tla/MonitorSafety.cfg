SPECIFICATION Spec
CONSTANTS
    Udid = {u1, u2}
    NULL = NULL
    BadMessages = {"unexpected"}
    HAVE_INOTIFY = TRUE
    Remote = FALSE
    SpawnMayFail = TRUE
    Retries = 1
    MaxHandle = 2
    MaxRestarts = 1
    MaxSubs = 2
    MaxBad = 1
SYMMETRY Symmetry
CHECK_DEADLOCK FALSE
INVARIANT ViewMatches
PROPERTY DiscoverySpec
