SPECIFICATION SafeSpec
CONSTANTS
    Message = {m1, m2, m3, m4}
    User = {u1, u2}
    SlaveAmount = 2
    CountMod = 4
    PipeCap = 1
    Master = master
    Null = null
SYMMETRY Symmetry
INVARIANTS
    TypeOK
    QueueMatchesNotifications
    RunAtMostOnce
    BoundedOvertaking
