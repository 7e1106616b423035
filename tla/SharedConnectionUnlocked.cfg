CONSTANTS
    Threads = {loop, tool}
    Unlocked = {loop}
    Writes = {w1, w2}
    NoThread = NoThread
    NoWrite = NoWrite
SPECIFICATION ConnectionSpec
INVARIANT AtomicClaims
