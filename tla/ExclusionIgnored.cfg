CONSTANTS
    MaxMessages = 3
    MaxFailedSaves = 0
    KeepExchanges = 1
SPECIFICATION HistorySpec
INVARIANT ExclusionInvalidates
CHECK_DEADLOCK FALSE
