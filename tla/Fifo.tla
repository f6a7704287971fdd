-------------------------------- MODULE Fifo --------------------------------
(***************************************************************************)
(* What the ring buffer promises: messages are read whole and in the order *)
(* in which they were written, and one is refused only if the buffer has   *)
(* no room for it, where one byte may go unused.  It promises nothing more *)
(* once a message was read before any was written, or one that begins too  *)
(* close to the end of the buffer for its head to fit there.               *)
(***************************************************************************)
EXTENDS Integers, Sequences

CONSTANTS Message,
          LenOf,   (* LenOf[m]: its length                                  *)
          HeadLen, (* the length of its head                                *)
          Room,    (* the length of the buffer                              *)
          Nothing

VARIABLES queue,   (* the messages written and not read                     *)
          at,      (* where in the buffer the next one begins               *)
          fresh,   (* nothing was written yet                               *)
          broken,
          last     (* the operation that was last completed                 *)

vars == <<queue, at, fresh, broken, last>>

Init ==
    /\ queue = <<>>
    /\ at = 0
    /\ fresh = TRUE
    /\ broken = FALSE
    /\ last = [op |-> "init"]

Used == LET sum[k \in 0..Len(queue)] == IF k = 0 THEN 0 ELSE sum[k - 1] + LenOf[queue[k]]
        IN  sum[Len(queue)]

Write(m) ==
    /\ last' = [op |-> "write", message |-> m]
    /\ Used + LenOf[m] <= Room
    /\ queue' = Append(queue, m)
    /\ fresh' = FALSE
    /\ UNCHANGED <<at, broken>>

Refuse(m) ==
    /\ last' = [op |-> "full", message |-> m]
    /\ Used + LenOf[m] >= Room
    /\ UNCHANGED <<queue, at, fresh, broken>>

Read ==
    /\ queue # <<>>
    /\ last' = [op |-> "read", message |-> Head(queue)]
    /\ queue' = Tail(queue)
    /\ LET end == at + LenOf[Head(queue)] IN at' = IF end > Room THEN end - Room ELSE end
    /\ UNCHANGED <<fresh, broken>>

ReadNothing ==
    /\ last' = [op |-> "read", message |-> Nothing]
    /\ queue = <<>> /\ ~fresh
    /\ UNCHANGED <<queue, at, fresh, broken>>

Break ==
    /\ fresh \/ (queue # <<>> /\ at + HeadLen > Room)
    /\ broken' = TRUE
    /\ UNCHANGED <<queue, at, fresh, last>>

Next ==
    /\ broken = FALSE
    /\ \/ \E m \in Message : Write(m) \/ Refuse(m)
       \/ Read \/ ReadNothing
       \/ Break

Spec == Init /\ [][Next]_vars
=============================================================================
