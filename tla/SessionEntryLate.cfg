CONSTANTS
    MaxTasks = 1
    MaxEntries = 1
    MaxAmendments = 1
    Jobs = {}
    MaxPending = 1
    MaxRounds = 1
SPECIFICATION EntrySpec
PROPERTY AnswerTakesAll
CHECK_DEADLOCK FALSE
