CONSTANTS
    Seed = {s1, s2}
    Pub = {p1, p2}
    Id = {d1}
    BoxKey = {k1, k2}
    Nothing = Nothing
    Erased = Erased
    Torn = Torn
    Stray = Stray
    Bare = Bare
    AscendingPage = TRUE
    DebugAvailable = TRUE
SYMMETRY Symmetry
SPECIFICATION DiagSpec
INVARIANTS
    CacheSound
    AnswersTrue
    IInv
    DeathIsNamed
    NoStaleStage
PROPERTIES
    CutLeavesNoLockout
    CorruptIsFinal
    KeepsPromise
