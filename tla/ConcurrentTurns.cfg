CONSTANTS
    MaxTurns = 1
    MaxCalls = 1
    MaxToolRounds = 1
    KeepTurns = 1
SPECIFICATION TurnsSpec
PROPERTY RoundsArePaired
CHECK_DEADLOCK FALSE
