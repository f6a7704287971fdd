----------------------------- MODULE EventQueue -----------------------------
(***************************************************************************)
(* Registration of events with the master thread: concurrent_add_event_to_ *)
(* master and concurrent_del_event_of_master of libconcurrent/concurrent.c *)
(* and the objects built on them, io_user.c (sockets) and tmr_user.c       *)
(* (timers).                                                               *)
(*                                                                         *)
(* A caller appends a request to new_ev_que, under the queue's lock, and   *)
(* then writes a command, 'r' or 'd', to a pipe.  The master reads the     *)
(* command and takes the request from the front of the queue: it trusts    *)
(* the command, not the request, to say what is to be done, and a request  *)
(* made by del has only its event field set.                               *)
(*                                                                         *)
(* The event of a socket or timer is embedded in the object.  When it      *)
(* fires the master posts the object to the slaves (module Concurrent; its *)
(* queue is the sequence posted here) and a slave runs its callback.       *)
(***************************************************************************)
EXTENDS Naturals, Sequences, FiniteSets

CONSTANTS Obj,          (* the objects: io_user_t and tmr_user_t            *)
          Persistent,   (* those registered with EV_PERSIST                 *)
          Caller,       (* threads that make requests                       *)
          MayDestroy,   (* TRUE if callers also destroy objects             *)
          CommandCap,   (* bytes the command pipe holds                     *)
          MaxRequests,  (* bound: requests made in a run                    *)
          MaxPosted,    (* bound: callbacks posted and not run              *)
          NoObj         (* no object                                        *)

ASSUME EventQueueAssumption ==
    /\ Persistent \subseteq Obj
    /\ MayDestroy \in BOOLEAN
    /\ CommandCap \in Nat \ {0}
    /\ MaxRequests \in Nat
    /\ MaxPosted \in Nat
    /\ NoObj \notin Obj
    /\ IsFiniteSet(Caller)

VARIABLES
    master_inited, (* concurrent_master_inited_flag                         *)
    new_ev_que,    (* requests, oldest first: [op, obj]                     *)
    command_pipe,  (* unread commands, oldest first                         *)
    cstate,        (* where each caller is in its call                      *)
    creq,          (* the request it is making                              *)
    mem,           (* mem[o]: "none", "live" or "freed"                     *)
    last,          (* last[o]: the op of the last request pushed for o      *)
    added,         (* objects whose event is in the master's event base     *)
    posted,        (* objects whose callback is posted, oldest first        *)
    fault,         (* the first undefined thing the process did, or "none"  *)
    requests       (* history: requests pushed so far                       *)

vars == <<master_inited, new_ev_que, command_pipe, cstate, creq, mem, last,
          added, posted, fault, requests>>

Request == [op : {"add", "del"}, obj : Obj]
NoRequest == [op |-> "none", obj |-> NoObj]
Command == {"r", "d"}

Init ==
    /\ master_inited = 0
    /\ new_ev_que = <<>>
    /\ command_pipe = <<>>
    /\ cstate = [c \in Caller |-> "idle"]
    /\ creq = [c \in Caller |-> NoRequest]
    /\ mem = [o \in Obj |-> "none"]
    /\ last = [o \in Obj |-> "none"]
    /\ added = {}
    /\ posted = <<>>
    /\ fault = "none"
    /\ requests = 0

InUse(o) == \E c \in Caller : cstate[c] # "idle" /\ creq[c].obj = o
-----------------------------------------------------------------------------
(***************************************************************************)
(* Calls.  All spin until the master has created its event base.  A call   *)
(* concerns an object no other caller is in a call for: what two threads   *)
(* do to one object is theirs to order, what they do to different objects  *)
(* is not.                                                                 *)
(***************************************************************************)
Call(c, o, op, next) ==
    /\ fault = "none"
    /\ master_inited = 1
    /\ cstate[c] = "idle"
    /\ ~InUse(o)
    /\ requests + Cardinality({d \in Caller : cstate[d] # "idle"}) < MaxRequests
    /\ cstate' = [cstate EXCEPT ![c] = next]
    /\ creq' = [creq EXCEPT ![c] = [op |-> op, obj |-> o]]

(* io_user and tmr_user: allocate the object and add its event.              *)
Create(c, o) ==
    /\ mem[o] = "none"
    /\ Call(c, o, "add", "push")
    /\ mem' = [mem EXCEPT ![o] = "live"]
    /\ UNCHANGED <<master_inited, new_ev_que, command_pipe, last, added, posted,
                   fault, requests>>

(* Variant for mutation: a timer is reused without having been stopped.      *)
ReuseUnstopped(c, o) ==
    /\ mem[o] = "live"
    /\ Call(c, o, "add", "push")
    /\ UNCHANGED <<master_inited, new_ev_que, command_pipe, mem, last, added,
                   posted, fault, requests>>

(* tmr_user_reuse, after a stop.                                             *)
Reuse(c, o) ==
    /\ mem[o] = "live"
    /\ last[o] = "del"
    /\ Call(c, o, "add", "push")
    /\ UNCHANGED <<master_inited, new_ev_que, command_pipe, mem, last, added,
                   posted, fault, requests>>

(* tmr_user_stop.                                                            *)
Stop(c, o) ==
    /\ mem[o] = "live"
    /\ Call(c, o, "del", "push")
    /\ UNCHANGED <<master_inited, new_ev_que, command_pipe, mem, last, added,
                   posted, fault, requests>>

(* Variant for mutation: the object is freed without a del.                  *)
DestroyWithoutDel(c, o) ==
    /\ MayDestroy
    /\ mem[o] = "live"
    /\ Call(c, o, "del", "free")
    /\ UNCHANGED <<master_inited, new_ev_que, command_pipe, mem, last, added,
                   posted, fault, requests>>

(* io_user_destroy and tmr_user_destroy: a del, and then the object is freed. *)
Destroy(c, o) ==
    /\ MayDestroy
    /\ mem[o] = "live"
    /\ Call(c, o, "del", "pushDestroy")
    /\ UNCHANGED <<master_inited, new_ev_que, command_pipe, mem, last, added,
                   posted, fault, requests>>

Destroying(c) == cstate[c] \in {"pushDestroy", "writeDestroy"}

(* Variant for mutation: the request is pushed at the front.                 *)
PushedFront(que, request) == <<request>> \o que

PushedBack(que, request) == Append(que, request)

(* llist_push_back of the request.                                           *)
PushRequest(c) ==
    /\ fault = "none"
    /\ cstate[c] \in {"push", "pushDestroy"}
    /\ new_ev_que' = PushedBack(new_ev_que, creq[c])
    /\ last' = [last EXCEPT ![creq[c].obj] = creq[c].op]
    /\ cstate' = [cstate EXCEPT ![c] = IF Destroying(c) THEN "writeDestroy" ELSE "write"]
    /\ requests' = requests + 1
    /\ UNCHANGED <<master_inited, command_pipe, creq, mem, added, posted, fault>>

(* Variants for mutation: the wrong letter, and a letter the master ignores.  *)
CommandAlwaysAdd(op) == "r"
CommandIgnored(op) == "p"

CommandFor(op) == IF op = "add" THEN "r" ELSE "d"

(* Variant for mutation: the master is woken only if the queue was empty.     *)
WriteWhenEmpty(c) ==
    /\ fault = "none"
    /\ cstate[c] \in {"write", "writeDestroy"}
    /\ \/ /\ Len(new_ev_que) > 1
          /\ UNCHANGED command_pipe
       \/ /\ Len(new_ev_que) <= 1
          /\ Len(command_pipe) < CommandCap
          /\ command_pipe' = Append(command_pipe, CommandFor(creq[c].op))
    /\ cstate' = [cstate EXCEPT ![c] = IF Destroying(c) THEN "free" ELSE "idle"]
    /\ UNCHANGED <<master_inited, new_ev_que, creq, mem, last, added, posted,
                   fault, requests>>

(* write() of the command; it blocks while the pipe is full.                 *)
WriteCommand(c) ==
    /\ fault = "none"
    /\ cstate[c] \in {"write", "writeDestroy"}
    /\ Len(command_pipe) < CommandCap
    /\ command_pipe' = Append(command_pipe, CommandFor(creq[c].op))
    /\ cstate' = [cstate EXCEPT ![c] = IF Destroying(c) THEN "free" ELSE "idle"]
    /\ UNCHANGED <<master_inited, new_ev_que, creq, mem, last, added, posted,
                   fault, requests>>

(* allocator_mem_free of the object, whether or not the master is done with it. *)
FreeObject(c) ==
    /\ fault = "none"
    /\ cstate[c] = "free"
    /\ mem' = [mem EXCEPT ![creq[c].obj] = "freed"]
    /\ cstate' = [cstate EXCEPT ![c] = "idle"]
    /\ UNCHANGED <<master_inited, new_ev_que, command_pipe, creq, last, added,
                   posted, fault, requests>>
-----------------------------------------------------------------------------
(* concurrent_master_thread: event base, pipe event, flag, loop.             *)
MasterStart ==
    /\ master_inited = 0
    /\ master_inited' = 1
    /\ UNCHANGED <<new_ev_que, command_pipe, cstate, creq, mem, last, added,
                   posted, fault, requests>>

TakeRequest ==
    /\ fault = "none"
    /\ command_pipe # <<>>
    /\ command_pipe' = Tail(command_pipe)
    /\ new_ev_que' = Tail(new_ev_que)
    /\ UNCHANGED <<master_inited, cstate, creq, mem, last, posted, requests>>

EventAdd(base, o) == base \cup {o}

EventDel(base, o) == base \ {o}

(* The 'r' arm: event_assign overwrites the event, then event_add inserts it. *)
(* A request made by del has no event base to assign, and assigning an event  *)
(* that is in the base destroys the base's links.                             *)
MasterAdd ==
    /\ TakeRequest
    /\ Head(command_pipe) = "r"
    /\ LET o == Head(new_ev_que).obj IN
       /\ fault' = CASE mem[o] = "freed" -> "use after free"
                     [] mem[o] # "freed" /\ Head(new_ev_que).op = "del" -> "mismatch"
                     [] mem[o] # "freed" /\ Head(new_ev_que).op = "add" /\ o \in added
                            -> "assigned while added"
                     [] OTHER -> "none"
       /\ added' = EventAdd(added, o)

(* Variant for mutation: the request is taken and the event left alone.       *)
MasterDelForgets ==
    /\ TakeRequest
    /\ Head(command_pipe) = "d"
    /\ UNCHANGED <<added, fault>>

(* The 'd' arm: event_del of the request's event, harmless if it is assigned  *)
(* and not in the base; of a request made by add it may not be assigned yet.  *)
MasterDel ==
    /\ TakeRequest
    /\ Head(command_pipe) = "d"
    /\ LET o == Head(new_ev_que).obj IN
       /\ fault' = CASE mem[o] = "freed" -> "use after free"
                     [] mem[o] # "freed" /\ Head(new_ev_que).op = "add" -> "mismatch"
                     [] OTHER -> "none"
       /\ added' = EventDel(added, o)

(* The event fires: io_event_handler or timer_event_handler posts the object. *)
Fire(o) ==
    /\ fault = "none"
    /\ o \in added
    /\ Len(posted) < MaxPosted
    /\ fault' = IF mem[o] = "freed" THEN "use after free" ELSE "none"
    /\ added' = IF o \in Persistent THEN added ELSE added \ {o}
    /\ posted' = Append(posted, o)
    /\ UNCHANGED <<master_inited, new_ev_que, command_pipe, cstate, creq, mem,
                   last, requests>>

(* slave_work_function: the callback reads the object.                        *)
RunCallback ==
    /\ fault = "none"
    /\ posted # <<>>
    /\ fault' = IF mem[Head(posted)] = "freed" THEN "use after free" ELSE "none"
    /\ posted' = Tail(posted)
    /\ UNCHANGED <<master_inited, new_ev_que, command_pipe, cstate, creq, mem,
                   last, added, requests>>
-----------------------------------------------------------------------------
CallerStep(c) == PushRequest(c) \/ WriteCommand(c) \/ FreeObject(c)
MasterStep == MasterStart \/ MasterAdd \/ MasterDel

(* The requests of the run are spent, or no object is left to make one for,   *)
(* and everybody waits, or the process is past an undefined step.             *)
Done ==
    /\ \/ fault # "none"
       \/ /\ requests = MaxRequests \/ \A o \in Obj : mem[o] = "freed"
          /\ new_ev_que = <<>> /\ posted = <<>>
          /\ \A c \in Caller : cstate[c] = "idle"
    /\ UNCHANGED vars

Next ==
    \/ \E c \in Caller, o \in Obj :
          Create(c, o) \/ Reuse(c, o) \/ Stop(c, o) \/ Destroy(c, o)
    \/ \E c \in Caller : CallerStep(c)
    \/ MasterStep
    \/ \E o \in Obj : Fire(o)
    \/ RunCallback
    \/ Done

SafeSpec == Init /\ [][Next]_vars

(* The master's loop and the threads in a call are scheduled; events need not *)
(* fire and callers need not call.                                            *)
Spec ==
    /\ SafeSpec
    /\ WF_vars(MasterStep)
    /\ \A c \in Caller : WF_vars(CallerStep(c))
    /\ WF_vars(RunCallback)
-----------------------------------------------------------------------------
(* Every variable has its type.                                               *)
TypeOK ==
    /\ master_inited \in {0, 1}
    /\ new_ev_que \in Seq(Request)
    /\ command_pipe \in Seq(Command)
    /\ cstate \in [Caller -> {"idle", "push", "write", "pushDestroy", "writeDestroy", "free"}]
    /\ creq \in [Caller -> Request \cup {NoRequest}]
    /\ mem \in [Obj -> {"none", "live", "freed"}]
    /\ last \in [Obj -> {"none", "add", "del"}]
    /\ added \subseteq Obj
    /\ posted \in Seq(Obj)
    /\ fault \in {"none", "mismatch", "assigned while added", "use after free"}
    /\ requests \in Nat

(* The command the master reads says what the request it takes asked for: a   *)
(* push and its write are not one step, and only the order of all pushes and  *)
(* of all writes pairs them.                                                  *)
CommandsFitRequests == fault # "mismatch"

(* The master never re-assigns an event that its base holds, though requests  *)
(* are applied late and timers remove themselves when they fire.              *)
NoAssignWhileAdded == fault # "assigned while added"

(* The master and the slaves never touch an object after its destroy freed it. *)
NoUseAfterFree == fault # "use after free"

(* Once all requests are applied, the base holds exactly the persistent       *)
(* events whose last request was an add, and no timer that was stopped.       *)
LastRequestWins ==
    (new_ev_que = <<>> /\ \A c \in Caller : cstate[c] = "idle") =>
        \A o \in Obj :
            /\ o \in added => last[o] = "add"
            /\ o \in Persistent /\ last[o] = "add" => o \in added

(* What bounds the window of a use after free: the event of a freed object    *)
(* is in the base only as long as the del its destroy queued is not applied,  *)
(* and the destroy comes too late for callbacks already posted, never for one *)
(* posted after the del was applied.                                          *)
FreedLeavesBase ==
    \A o \in Obj : mem[o] = "freed" /\ o \in added =>
        \E i \in DOMAIN new_ev_que : new_ev_que[i] = [op |-> "del", obj |-> o]

(* The command pipe may be full and the master late, but every request that   *)
(* was pushed is applied in the end: none waits for a command never written.  *)
RequestsDrain ==
    \A k \in 1..MaxRequests :
        requests >= k ~> (requests - Len(new_ev_que) >= k \/ fault # "none")

(* One caller sees an event registry: its requests are applied in order, each *)
(* exactly once, also when the master applies them late.                      *)
Registry == INSTANCE EventRegistry WITH
                requests   <- new_ev_que,
                registered <- added

RegistrySpec == Registry!SafeSpec
=============================================================================
