SPECIFICATION FairServicesSpec
CONSTANTS
    Active = {"plist", "sr", "server"}
    HeaderLen = 2
    Lengths <- MCLengths
    Limit = 5
    WordSize = 16
    MaxMessages = 2
    MaxSends = 1
    MaxStalls = 2
    Caller = {}
    MaxNotifiers = 0
    MaxNotes = 0
    MaxCalls = 0
    User = {}
    MaxRequests = 0
    MaxParts = 0
    MaxSilences = 0
    MaxChars = 3
    MaxWorkers = 2
    MaxStale = 1
    Task = {}
    MaxPackets = 0
    MaxLapses = 0
    MaxSessions = 0
    MaxTalk = 0
    Command = {"INSTALL", "EXIT"}
    MaxClients = 2
    MaxCommands = 2
    MaxCareless = 1
    MaxTries = 0
    MaxReplies = 0
    MaxPauses = 0
    Uploader = {}
    MaxUploads = 0
    MaxSize = 0
    MaxGivenUp = 0
    Asker = {}
    MaxAsked = 0
    MaxUnheard = 0
    Patience = 0
    NotePatience = 0
    ArchiveSize = 0
    MaxProgress = 0
    OthersInstall = FALSE
    MaxNodes = 0
    Key = {}
    Retries = 0
    MaxOps = 0
    Base = 3
    Fill = 3
    Documents = {}
PROPERTIES ReceiveReturns StopReturns ServerListens
CHECK_DEADLOCK FALSE
