SPECIFICATION MCSpec
CONSTANTS
    Node = {n1, n2, n3}
    HeadNode = head
    ListThread = {t1, t2}
    Nowhere = nowhere
    a = a
    ab = ab
    z = z
    MapNode = {n1, n2, n3}
    MapKey = {a, ab, z}
    BeginsWith <- MCBeginsWith
    BucketSize = 3
    BucketOf <- MCBucketOf
    Inserter = {t1}
    Null = null
    small = small
    large = large
    Message = {small, large}
    LenOf <- MCLenOf
    HeadLen = 2
    BufferLen = 11
    Nothing = nothing
    Element = {x, y}
    FirstCapacity = 1
    MaxCapacity = 4
    Garbage = garbage
    Keys = 7
    Name = {a, ab}
    Root = root
    Unset = unset
    NameLen <- MCNameLen
    Extensions <- MCExtensions
    Number <- MCNumber
    String <- MCString
    Buffer <- MCBuffer
    BlobLen = 34
    StackLen = 17
    Step = 8
    MaxDepth = 2
    Policy <- MCPolicy
CHECK_DEADLOCK FALSE
INVARIANTS
    RbTreeIsMap
    WellNested
    LookupFindsOwn
PROPERTIES
    ListIsDeque
    HashMapIsMap
    RingIsFifo
    VectorIsSequence
    DocumentSpec
