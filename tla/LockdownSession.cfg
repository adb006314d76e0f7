SPECIFICATION Spec
CONSTANTS
    Thread = {t1}
    Models <- PlainOnly
    Calls <- AllCalls
    MaxPairs = 3
    MaxCalls = 1
    MaxLate = 0
    MaxDrops = 0
    MaxMeddle = 0
PROPERTY SessionBacked
CHECK_DEADLOCK FALSE
