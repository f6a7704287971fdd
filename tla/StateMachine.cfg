SPECIFICATION Spec
CONSTANTS
    applying = applying
    waiting = waiting
    scanning = scanning
    State = {applying, waiting, scanning}
    Uninited = uninited
    TimeoutTarget <- Target
    Forced = {waiting}
    Slave = slave
    MemoryZeroed = TRUE
    CommandCap = 1
    MaxChanges = 5
    MaxPosted = 3
    NoObj = none
INVARIANTS
    TimerDiscipline
    ArmedIsCurrent
    TimeoutInOwnState
PROPERTIES
    StateIsLeft
