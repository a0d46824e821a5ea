SPECIFICATION FairSpec
CONSTANTS
    Callers = {c1, c2, c3}
    Keys = {k1}
    Limit = 2
    Window = 2
    Interval = 3
    MaxLag = 1
    MaxClock = 7
    MaxRequests = 3
INVARIANTS
    TypeOK
    BurstBound
PROPERTIES
    CleanupKeepsOpenWindows
    ExpiredWindowsGo
    StopEndsCleanup
CHECK_DEADLOCK FALSE
