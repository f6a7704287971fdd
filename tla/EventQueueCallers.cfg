SPECIFICATION SafeSpec
CONSTANTS
    Obj = {sock, tmr}
    Persistent = {sock}
    Caller = {main, slave}
    MayDestroy = FALSE
    CommandCap = 1
    MaxRequests = 4
    MaxPosted = 2
    NoObj = none
INVARIANTS
    CommandsFitRequests
