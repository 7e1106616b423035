CONSTANTS
    build = build
    report = report
    NoTask = NoTask
    Tasks <- MCTasks
    Deps <- MCDeps
    Proof <- MCProof
    Evidence <- MCSomeEvidence
    Threads = {loop, tool}
    MaxAttempts = 2
    Clients = {a, b}
    NoClient = NoClient
    Askers = {1}
    MaxRequests = 2
    MaxEvents = 2
    HardLimit = 1
    ReplayLimit = 2
    MaxMessages = 4
    MaxFailedSaves = 1
    KeepExchanges = 2
    Facts = {f1}
    KeyInFile = TRUE
    Modes = {"auto", "sqlcipher"}
    MaxRelease = 2
    MaxSnapshots = 1
    MaxKeys = 1
    MaxArchives = 1
SPECIFICATION RecordsSpec
SYMMETRY MCThreadSymmetry
INVARIANTS
    RunningHasLease
    DoneIsDelivered
    AttemptsRestOnDelivered
    EventsOnce
    HistoryIsKept
    ExclusionsHold
    RecordsAreKept
PROPERTIES
    LostToRetryOnly
    OnlyHolderDecides
    ImplementsTaskLease
    VerdictFinal
    SupersededIsSilent
    CopiesBeforeLive
CHECK_DEADLOCK FALSE
