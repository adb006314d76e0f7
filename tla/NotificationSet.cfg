SPECIFICATION FairSpec
CONSTANTS
    Caller = {a}
    MaxNotifiers = 2
    MaxNotes = 1
    MaxCalls = 3
PROPERTY SetReturns
CHECK_DEADLOCK FALSE
