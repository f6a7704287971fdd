--------------------------- MODULE EventRegistry ---------------------------
(***************************************************************************)
(* What concurrent_add_event_to_master and concurrent_del_event_of_master  *)
(* promise to one thread that uses them: its requests are applied to the   *)
(* master's event base one at a time, in the order they were made, and an  *)
(* event whose handler may run is one whose last applied request added it. *)
(***************************************************************************)
EXTENDS Naturals, Sequences

CONSTANTS Obj,       (* the objects whose event is registered               *)
          Persistent (* those whose event stays registered when it fires    *)

VARIABLES requests,  (* requests made and not applied, oldest first         *)
          registered (* objects whose event is in the event base            *)

vars == <<requests, registered>>

Request == [op : {"add", "del"}, obj : Obj]

Init == requests = <<>> /\ registered = {}

Ask(r) ==
    /\ requests' = Append(requests, r)
    /\ UNCHANGED registered

Apply ==
    /\ requests # <<>>
    /\ LET r == Head(requests) IN
       registered' = IF r.op = "add" THEN registered \cup {r.obj}
                                     ELSE registered \ {r.obj}
    /\ requests' = Tail(requests)

Fire(o) ==
    /\ o \in registered \ Persistent
    /\ registered' = registered \ {o}
    /\ UNCHANGED requests

Next ==
    \/ \E r \in Request : Ask(r)
    \/ Apply
    \/ \E o \in Obj : Fire(o)

SafeSpec == Init /\ [][Next]_vars

(* Every request is applied: the queue does not stall.                       *)
Spec == SafeSpec /\ WF_vars(Apply)
=============================================================================
