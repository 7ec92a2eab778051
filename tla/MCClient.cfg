CONSTANTS
    Seed = {s1}
    Pub = {p1, p2}
    Id = {d1}
    BoxKey = {k1, k2}
    Nothing = Nothing
    Erased = Erased
    Torn = Torn
    Stray = Stray
    Bare = Bare
    AscendingPage = TRUE
    DebugAvailable = TRUE
    MySeed = s1
    MyPub = p1
    MyId = d1
    MaxFaults = 3
SPECIFICATION ClientSpec
INVARIANTS
    RetryIsSafe
    ConclusionHolds
