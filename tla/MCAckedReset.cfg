CONSTANTS
    Conn = {c1}
    MaxConn = 1
    MaxBody = 2
    FormLimit = 1
    BufSize = 7
SPECIFICATION Spec
INVARIANTS
    AckedResetReboots
