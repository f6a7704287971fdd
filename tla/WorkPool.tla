------------------------------ MODULE WorkPool ------------------------------
(***************************************************************************)
(* What the thread pool of libconcurrent promises to the code that posts   *)
(* work to it: submitted messages are taken in the order they were         *)
(* submitted, each by one worker that holds nothing else, and each is      *)
(* finished.                                                               *)
(***************************************************************************)
EXTENDS Naturals, Sequences, FiniteSets

CONSTANTS Message,   (* the messages that may be submitted, each once      *)
          Worker,    (* the workers                                        *)
          NoMessage  (* what an idle worker holds                          *)

VARIABLES submitted, (* every message submitted so far                     *)
          pending,   (* submitted and not taken yet, oldest first          *)
          running,   (* running[w]: the message worker w holds             *)
          finished   (* messages whose work is done                        *)

vars == <<submitted, pending, running, finished>>

Init ==
    /\ submitted = {}
    /\ pending = <<>>
    /\ running = [w \in Worker |-> NoMessage]
    /\ finished = {}

Submit(m) ==
    /\ m \notin submitted
    /\ submitted' = submitted \cup {m}
    /\ pending' = Append(pending, m)
    /\ UNCHANGED <<running, finished>>

Take(w) ==
    /\ running[w] = NoMessage
    /\ pending # <<>>
    /\ running' = [running EXCEPT ![w] = Head(pending)]
    /\ pending' = Tail(pending)
    /\ UNCHANGED <<submitted, finished>>

Finish(w) ==
    /\ running[w] \in Message
    /\ running[w] \notin finished
    /\ finished' = finished \cup {running[w]}
    /\ running' = [running EXCEPT ![w] = NoMessage]
    /\ UNCHANGED <<submitted, pending>>

Next ==
    \/ \E m \in Message : Submit(m)
    \/ \E w \in Worker : Take(w) \/ Finish(w)

SafeSpec == Init /\ [][Next]_vars

Spec ==
    /\ SafeSpec
    /\ WF_vars(\E w \in Worker : Take(w))
    /\ \A w \in Worker : WF_vars(Finish(w))
=============================================================================
