SPECIFICATION Spec
CONSTANTS
    Conn = {a, b, c}
    MaxFd = 2
    SlaveAmount = 2
    MayReset = {a}
    MayRunOut = {b}
    MaxSends = 1
    Nobody = nobody
CHECK_DEADLOCK FALSE
INVARIANTS
    Descriptors
PROPERTIES
    OnlyResetClosed
    DataIsRead
