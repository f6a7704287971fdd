SPECIFICATION Spec
CONSTANTS
    SlabArrayMaxNum = 3
    DataMinSize = 1
    MempoolCapacity = 0
    SlabHeader = 1
    Asked = {2, 3, 5}
    MaxPools = 3
    MaxHuge = 1
    MaxCount = 1
INVARIANTS
    TypeOK
    SlabsApart
    NothingLost
    LeakReported
PROPERTIES
    NewPoolOnlyIfFull
    BlocksSpec
