SPECIFICATION Spec
CONSTANTS
    p = p
    c = c
    d = d
    obj = obj
    ghost = ghost
    hello = hello
    help = help
    bye = bye
    None = None
    Bus = {p, c, d}
    Name = {obj, ghost}
    Method = {hello, help, bye}
    Prefix <- MCPrefix
    MethodsOf <- MCMethodsOf
    Result <- MCResult
    FdOf <- MCFdOf
    Asks <- MCAsks
    MayLeave = {p}
    MaxRequests <- MCMaxRequests
CHECK_DEADLOCK FALSE
INVARIANTS
    TypeOK
    Routed
    RanAsAsked
    SyncAnswerOwn
PROPERTIES
    RpcSpec
    InvocationEnds
