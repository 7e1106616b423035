CONSTANTS
    hello = hello
    bye = bye
    telegram = telegram
    slack = slack
    Messages <- MCMessages
    Providers <- MCProviders
    Provider <- MCProvider
    Handlers = {h}
    Worker = Worker
    NoMessage = NoMessage
    MaxAttempts = 2
    BatchLimit = 2
    EarlyTraffic = TRUE
    MaxGenerations = 3
SPECIFICATION Spec
INVARIANT NoOverlap
CHECK_DEADLOCK FALSE
