CONSTANTS
    MaxTasks = 2
    MaxEntries = 2
    MaxAmendments = 3
    Jobs = {job}
    MaxPending = 2
    MaxRounds = 1
    MaxTurns = 3
    MaxCalls = 2
    MaxToolRounds = 1
    KeepTurns = 1
    hello = hello
    bye = bye
    telegram = telegram
    slack = slack
    Messages <- MCMessages
    Providers <- MCProviders
    Provider <- MCProvider
    Handlers = {h}
    Worker = Worker
    NoMessage = NoMessage
    MaxAttempts = 2
    BatchLimit = 2
    EarlyTraffic = TRUE
    MaxGenerations = 2
SPECIFICATION ConversationSpec
INVARIANTS
    OneLiveRequest
    RunningIsListed
    RequestsArePaired
    InFlightIsOwned
    PostsAccounted
PROPERTIES
    AnsweredInOrder
    QueueKeepsAll
    EveryRequestEnds
    CallsRunOnce
    ImplementsDelivery
    RepliesAreSettled
CHECK_DEADLOCK FALSE
