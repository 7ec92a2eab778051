CONSTANTS
    Conn = {c1, c2}
    MaxConn = 1
    MaxBody = 2
    FormLimit = 1
    BufSize = 7
SPECIFICATION FairSpec
INVARIANTS
    TypeOK
    StatesAreOwned
    HandledOnce
    DispatchedWhole
PROPERTIES
    SlotsComeBack
