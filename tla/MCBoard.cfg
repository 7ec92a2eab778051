CONSTANTS
    Period = 60
    ResetDelay = 2
    Words = 14
    WordTime = 1
    PollTime = 1
    OpenTime = 3
    BoxTime = 6
    EraseTime = 8
    ProgramTime = 1
    CryptoTime = 12
    Beat = 1
SPECIFICATION BoardSpec
INVARIANTS
    BoardTypeOK
    EnoughTimeLeft
    ReadyIsLit
PROPERTIES
    NoSpuriousReset
    StallsRecover
    LedSettles
