-------------------------------- MODULE Rpc --------------------------------
(***************************************************************************)
(* What the bus promises of the invocations made over it: one is run only  *)
(* after it was sent and at most once, it is answered only after it was    *)
(* run and at most once, and one that is lost is neither.                  *)
(***************************************************************************)
CONSTANT Call (* the invocations that may be made                          *)

VARIABLE status (* how far each of them is                                 *)

Status == {"none", "sent", "run", "answered", "lost"}

(* Where one step may take a call.                                            *)
Onward == [none     |-> {"none", "sent"},
           sent     |-> {"sent", "run", "lost"},
           run      |-> {"run", "answered", "lost"},
           answered |-> {"answered"},
           lost     |-> {"lost"}]

Init == status = [c \in Call |-> "none"]

(* A read that returns several messages moves one call on and loses others,    *)
(* so that a step may move any number of calls.                               *)
Next ==
    /\ status' \in [Call -> Status]
    /\ \A c \in Call : status'[c] \in Onward[status[c]]

Spec == Init /\ [][Next]_status
=============================================================================
