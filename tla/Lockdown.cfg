SPECIFICATION FairSpec
CONSTANTS
    Thread = {t1}
    Models <- AllModels
    Calls <- AllCalls
    MaxPairs = 3
    MaxCalls = 3
    MaxLate = 1
    MaxDrops = 1
    MaxMeddle = 1
INVARIANTS InAgreement OnlyAccepted OneConnection FallbackTried
PROPERTY Returns
CHECK_DEADLOCK FALSE
