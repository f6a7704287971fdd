SPECIFICATION SafeSpec
CONSTANTS
    Obj = {sock, tmr}
    Persistent = {sock}
    Caller = {main}
    MayDestroy = TRUE
    CommandCap = 1
    MaxRequests = 4
    MaxPosted = 2
    NoObj = none
INVARIANTS
    NoUseAfterFree
