SPECIFICATION SafeSpec
CONSTANTS
    applying = applying
    waiting = waiting
    scanning = scanning
    State = {applying, waiting, scanning}
    Uninited = uninited
    TimeoutTarget <- Target
    Forced = {waiting}
    Slave = slave
    MemoryZeroed = FALSE
    CommandCap = 1
    MaxChanges = 3
    MaxPosted = 3
    NoObj = none
INVARIANTS
    NoWildTimer
