SPECIFICATION Spec
CONSTANTS
    Message = {m1, m2, m3}
    User = {u1}
    SlaveAmount = 2
    CountMod = 4
    PipeCap = 1
    Master = master
    Null = null
PROPERTIES
    EveryPostRuns
    PoolSpec
