SPECIFICATION Spec
CONSTANTS
    Obj = {sock, tmr}
    Persistent = {sock}
    Caller = {main}
    MayDestroy = TRUE
    CommandCap = 1
    MaxRequests = 6
    MaxPosted = 2
    NoObj = none
INVARIANTS
    TypeOK
    CommandsFitRequests
    NoAssignWhileAdded
    LastRequestWins
    FreedLeavesBase
PROPERTIES
    RequestsDrain
    RegistrySpec
