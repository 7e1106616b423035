CONSTANTS
    Turns = {1}
    Replays = {}
    MaxAttempts = 2
    MaxPurges = 1
    MaxRestarts = 0
SPECIFICATION LearningSpec
INVARIANT PurgedCasesAreRemoved
CHECK_DEADLOCK FALSE
