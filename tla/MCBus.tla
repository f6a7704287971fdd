-------------------------------- MODULE MCBus --------------------------------
(* Instances of Bus for the model checker: a bus p that adds an object; a bus *)
(* c that makes two requests, of one kind or of two, one of which may add the *)
(* other object; and a bus d that adds an object of the same name as p or     *)
(* invokes either.  Of the three methods two compare equal.                   *)
EXTENDS Bus

CONSTANTS p, c, d, obj, ghost, hello, help, bye

MCPrefix == [m \in Method |-> IF m = bye THEN bye ELSE hello]
MCMethodsOf == [n \in Name |-> IF n = obj THEN <<help, hello>> ELSE <<>>]
MCResult == [m \in Method |-> IF m = hello THEN 1 ELSE 2]
MCFdOf == [b \in Bus |-> CASE b = p -> 5 [] b = c -> 7 [] OTHER -> 255]

Ask(op, n, m) == [op |-> op, name |-> n, method |-> m]

MCAsks == [b \in Bus |->
    CASE b = p -> {Ask("add", obj, None)}
      [] b = c -> {Ask("sync", obj, hello), Ask("sync", obj, bye),
                   Ask("lookup", obj, None), Ask("add", ghost, None)}
      [] OTHER -> {Ask("add", obj, None), Ask("invoke", obj, help),
                   Ask("invoke", ghost, help)}]

MCMaxRequests == [b \in Bus |-> IF b = c THEN 2 ELSE 1]
==============================================================================
