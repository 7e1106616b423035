CONSTANTS
    first = first
    second = second
    Loop = Loop
    NoTask = NoTask
    Tasks <- MCTasks
    Deps <- MCNoDeps
    Proof <- MCProof
    Evidence <- MCEvidence
    Threads = {Loop}
    MaxAttempts = 2
    MaxConcurrent = 1
    MaxIncidents = 2
    telegram = telegram
    Worker = Worker
    NoMessage = NoMessage
    BatchLimit = 2
    EarlyTraffic = FALSE
    MaxGenerations = 3
    Files = {1}
    MaxUpdates = 1
    MaxBuilds = 2
    MaxCrashes = 1
SPECIFICATION WorkSpec
INVARIANTS
    WithinCapacity
PROPERTIES
    RunningEnds
    WaitingIsTaken
    EveryMessageIsAnswered
