CONSTANTS
    Threads = {th1, th2}
    Unlocked = {th1}
    Writes = {w1, w2}
    NoThread = NoThread
    NoWrite = NoWrite
    lead = lead
    help = help
    Agents <- MCAgents
    Delegates <- MCDelegates
    Places <- MCPlaces
    MaxRuns = 4
    Turns = {1, 2}
    Replays = {1}
    MaxAttempts = 2
    MaxPurges = 1
    MaxRestarts = 1
    hi = hi
    again = again
    ad = ad
    Messages <- MCMessages
    Verdict <- MCVerdict
    Key <- MCKey
    LookBack = 2
    MaxDeliveries = 2
    MaxStops = 1
    Calendars = {p, w}
    Events = {x}
    Tagged = {p}
    Tokened = {w}
    MaxRevision = 3
    MaxTogether = 3
    once = once
    Jobs = {once, typo}
    Due <- MCDue
    Malformed = {typo}
    OnceJobs = {once}
    MaxMinute = 2
    MaxErrors = 1
    MaxToggles = 1
    Admins = {c1, c2}
    Sessions = {s}
    MaxUpgrades = 2
    Files = {2}
    MaxUpdates = 2
    MaxBuilds = 3
    MaxCrashes = 1
    Platforms <- MCPlatforms
    EnabledFirst = {"telegram", "slack"}
    Fragile = {"slack"}
    Unstoppable = {}
    Clients = {c1, c2}
    NotLoadable = NotLoadable
    MaxChanges = 2
SPECIFICATION ServicesSpec
INVARIANTS
    DamageIsLimited
    RepliesAreLimited
    ClockStartsOnce
    OneUpgrade
    DelegatesAreWatched
    HandedOver
PROPERTIES
    EveryCallEnds
    ScrubbedStaysScrubbed
    LearntFromAvailable
    QueueSettles
    SyncIsExact
    ConfigTakesEffect
CHECK_DEADLOCK FALSE
