CONSTANTS
    Facts = {f1}
    KeyInFile = TRUE
    Modes = {"auto", "off", "sqlcipher"}
    MaxRelease = 2
    MaxSnapshots = 1
    MaxKeys = 1
    MaxArchives = 0
SPECIFICATION DatabaseSpec
PROPERTY InterruptionIsResumable
CHECK_DEADLOCK FALSE
