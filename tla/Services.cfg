SPECIFICATION ServicesSpec
CONSTANTS
    Active = {"plist", "np", "ip", "sr", "afc", "sync", "debug", "mounter", "answers", "server", "commands", "installer", "tree", "binary"}
    HeaderLen = 2
    Lengths <- MCLengths
    Limit = 5
    WordSize = 16
    MaxMessages = 3
    MaxSends = 1
    MaxStalls = 1
    Caller = {a, b}
    MaxNotifiers = 2
    MaxNotes = 2
    MaxCalls = 2
    User = {a}
    MaxRequests = 3
    MaxParts = 1
    MaxSilences = 1
    MaxChars = 3
    MaxWorkers = 2
    MaxStale = 1
    Task = {a, b}
    MaxPackets = 3
    MaxLapses = 1
    MaxSessions = 2
    MaxTalk = 3
    Command = {"LIST", "INSTALL", "EXIT"}
    MaxClients = 2
    MaxCommands = 2
    MaxCareless = 1
    MaxTries = 6
    MaxReplies = 2
    MaxPauses = 2
    Uploader = {a, b}
    MaxUploads = 3
    MaxSize = 2
    MaxGivenUp = 2
    Asker = {a, b}
    MaxAsked = 3
    MaxUnheard = 1
    Patience = 2
    NotePatience = 1
    ArchiveSize = 2
    MaxProgress = 1
    OthersInstall = TRUE
    MaxNodes = 5
    Key = {k}
    Retries = 2
    MaxOps = 3
    Base = 3
    Fill = 3
    Documents <- MCDocuments
INVARIANTS TypesOK InStep WholeMessages SentWhole NotesReported SuccessIsComplete LogWhole AnswerIsOwn DirectionAgreed PacketsInOrder ImageWhole DoneAsSaid AnsweredInWhole StopsClean SaidIsSo ArchiveKept ListsSound ReadsBack
PROPERTY CallbackCurrent
CHECK_DEADLOCK FALSE
