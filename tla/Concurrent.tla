----------------------------- MODULE Concurrent -----------------------------
(***************************************************************************)
(* The thread pool of src/src/libconcurrent/concurrent.c.                  *)
(*                                                                         *)
(* Posters append a message to message_que, which all slaves share, and    *)
(* then write one byte 'c' to the notification pipe of the slave that      *)
(* assignment_count selects.  A slave reads one byte from its own pipe and *)
(* detaches the front of the shared queue: the message it runs need not be *)
(* the one whose byte it read.  Nothing checks that the queue is not       *)
(* empty, so the pool is safe only if every byte is matched by a message.  *)
(*                                                                         *)
(* Posters are the master thread, whose event handlers count and post, and *)
(* the application's own threads, which post with or without a task.       *)
(* assignment_count++ is a load and a store; the handlers of the master do *)
(* it without the lock the other threads take.                             *)
(***************************************************************************)
EXTENDS Naturals, Sequences, FiniteSets

CONSTANTS Message,      (* the messages of one run, each posted at most once *)
          User,         (* application threads that post                     *)
          Master,       (* the master thread                                 *)
          SlaveAmount,  (* number of slave threads (slave_amount)            *)
          CountMod,     (* assignment_count wraps here: 256 for a uint8_t    *)
          PipeCap,      (* bytes a notification pipe holds                   *)
          Null          (* no message, no thread                             *)

ASSUME ConcurrentAssumption ==
    /\ SlaveAmount \in Nat \ {0}
    /\ CountMod \in Nat \ {0}
    /\ PipeCap \in Nat \ {0}
    /\ IsFiniteSet(Message)
    /\ Null \notin Message
    /\ Null \notin User \cup {Master}
    /\ Master \notin User

Slave == 0..(SlaveAmount - 1)
Poster == User \cup {Master}

VARIABLES
    message_que,      (* the shared queue, oldest first                      *)
    assignment_count, (* master->assignment_count                            *)
    admin_lock,       (* holder of task_admin->admin_lock, or Null           *)
    notify_pipe,      (* notify_pipe[s]: unread bytes, each named by the     *)
                      (* message it was written for (the slave cannot tell)  *)
    slave_inited,     (* concurrent_slave_inited_flag, set by any slave      *)
    pstate,           (* where each poster is in its post                    *)
    pmsg,             (* the message it is posting                           *)
    pcount,           (* its copy of assignment_count, then the slave chosen *)
    sstate,           (* where each slave is in its loop                     *)
    sbyte,            (* the byte a slave has read and not yet served        *)
    smsg,             (* the message a slave has detached                    *)
    log,              (* history: messages in the order they were queued     *)
    runs              (* history: how often each message was run             *)

postVars == <<pstate, pmsg, pcount>>
slaveVars == <<sstate, sbyte, smsg>>
vars == <<message_que, assignment_count, admin_lock, notify_pipe, slave_inited,
          pstate, pmsg, pcount, sstate, sbyte, smsg, log, runs>>

Posted == {log[i] : i \in DOMAIN log}
InPost == {pmsg[p] : p \in {q \in Poster : pstate[q] # "idle"}}
Fresh == Message \ (Posted \cup InPost)

Init ==
    /\ message_que = <<>>
    /\ assignment_count = 0
    /\ admin_lock = Null
    /\ notify_pipe = [s \in Slave |-> {}]
    /\ slave_inited = 0
    /\ pstate = [p \in Poster |-> "idle"]
    /\ pmsg = [p \in Poster |-> Null]
    /\ pcount = [p \in Poster |-> 0]
    /\ sstate = [s \in Slave |-> "starting"]
    /\ sbyte = [s \in Slave |-> Null]
    /\ smsg = [s \in Slave |-> Null]
    /\ log = <<>>
    /\ runs = [m \in Message |-> 0]
-----------------------------------------------------------------------------
(***************************************************************************)
(* Posting.  A poster starts once concurrent_master_create_slaves has seen *)
(* slave_inited: one slave runs its loop, the others may still be starting.*)
(***************************************************************************)
Begin(p, m, next) ==
    /\ slave_inited = 1
    /\ pstate[p] = "idle"
    /\ m \in Fresh
    /\ pstate' = [pstate EXCEPT ![p] = next]
    /\ pmsg' = [pmsg EXCEPT ![p] = m]

(* An event handler of the master fires and loads assignment_count.          *)
MasterLoadCount(m) ==
    /\ Begin(Master, m, "count")
    /\ pcount' = [pcount EXCEPT ![Master] = assignment_count]
    /\ UNCHANGED <<message_que, assignment_count, admin_lock, notify_pipe,
                   slave_inited, slaveVars, log, runs>>

(* concurrent_master_add_task: the lock, the task, and the load of the count. *)
(* The search that follows finds the key, which was inserted just before; the *)
(* return for a key not found, which keeps the lock, is not in the model.     *)
UserAddTask(u, m) ==
    /\ Begin(u, m, "count")
    /\ admin_lock = Null
    /\ admin_lock' = u
    /\ pcount' = [pcount EXCEPT ![u] = assignment_count]
    /\ UNCHANGED <<message_que, assignment_count, notify_pipe,
                   slave_inited, slaveVars, log, runs>>

(* concurrent_master_add_message called directly, nothing counted.           *)
UserPost(u, m) ==
    /\ Begin(u, m, "push")
    /\ UNCHANGED <<message_que, assignment_count, admin_lock, notify_pipe,
                   slave_inited, pcount, slaveVars, log, runs>>

NextCount(n) == (n + 1) % CountMod

(* The store of assignment_count++; a user thread gives admin_lock back.      *)
StoreCount(p) ==
    /\ pstate[p] = "count"
    /\ assignment_count' = NextCount(pcount[p])
    /\ admin_lock' = IF admin_lock = p THEN Null ELSE admin_lock
    /\ pstate' = [pstate EXCEPT ![p] = "push"]
    /\ UNCHANGED <<message_que, notify_pipe, slave_inited, pmsg, pcount,
                   slaveVars, log, runs>>

(* Variant for mutation: llist_push_front in place of llist_push_back.        *)
PushedFront(que, m) == <<m>> \o que

PushedBack(que, m) == Append(que, m)

(* llist_push_back of a copy of the message, under the queue's lock.          *)
PushMessage(p) ==
    /\ pstate[p] = "push"
    /\ message_que' = PushedBack(message_que, pmsg[p])
    /\ log' = Append(log, pmsg[p])
    /\ pstate' = [pstate EXCEPT ![p] = "choose"]
    /\ UNCHANGED <<assignment_count, admin_lock, notify_pipe, slave_inited,
                   pmsg, pcount, slaveVars, runs>>

(* Variant for mutation: one slave too many.                                  *)
ChosenOffByOne(n) == n % (SlaveAmount + 1)

ChosenSlave(n) == n % SlaveAmount

(* concurrent_master_choose_slave reads the count again, without the lock.    *)
ChooseSlave(p) ==
    /\ pstate[p] = "choose"
    /\ pcount' = [pcount EXCEPT ![p] = ChosenSlave(assignment_count)]
    /\ pstate' = [pstate EXCEPT ![p] = "write"]
    /\ UNCHANGED <<message_que, assignment_count, admin_lock, notify_pipe,
                   slave_inited, pmsg, slaveVars, log, runs>>

(* write() of one byte to the pipes of S; it blocks while a pipe is full.     *)
WriteByte(p, S) ==
    /\ pstate[p] = "write"
    /\ \A s \in S : Cardinality(notify_pipe[s]) < PipeCap
    /\ notify_pipe' = [s \in Slave |-> IF s \in S THEN notify_pipe[s] \cup {pmsg[p]}
                                               ELSE notify_pipe[s]]
    /\ pstate' = [pstate EXCEPT ![p] = "idle"]
    /\ pmsg' = [pmsg EXCEPT ![p] = Null]
    /\ UNCHANGED <<message_que, assignment_count, admin_lock, slave_inited,
                   pcount, slaveVars, log, runs>>

(* Variants for mutation: all slaves are woken; a byte is written only when   *)
(* the queue was empty before the push.                                       *)
NotifyEverySlave(p) == WriteByte(p, Slave)
NotifyWhenEmpty(p) == WriteByte(p, IF Len(message_que) > 1 THEN {} ELSE {pcount[p]})

(* concurrent_master_notify_slave writes to the chosen slave only.            *)
NotifySlave(p) == WriteByte(p, {pcount[p]})
-----------------------------------------------------------------------------
(* concurrent_slave_thread: the event base, the pipe's event, then the flag.  *)
SlaveStart(s) ==
    /\ sstate[s] = "starting"
    /\ sstate' = [sstate EXCEPT ![s] = "loop"]
    /\ slave_inited' = 1
    /\ UNCHANGED <<message_que, assignment_count, admin_lock, notify_pipe,
                   postVars, sbyte, smsg, log, runs>>

(* slave_event_handler_process_message reads one byte ...                    *)
ReadByte(s) ==
    /\ sstate[s] = "loop"
    /\ \E m \in notify_pipe[s] :
          /\ notify_pipe' = [notify_pipe EXCEPT ![s] = @ \ {m}]
          /\ sbyte' = [sbyte EXCEPT ![s] = m]
    /\ sstate' = [sstate EXCEPT ![s] = "detach"]
    /\ UNCHANGED <<message_que, assignment_count, admin_lock, slave_inited,
                   postVars, smsg, log, runs>>

(* Variant for mutation: the front is read and left in the queue.             *)
FrontLeftIn(que) == que

FrontDetached(que) == Tail(que)

(* ... and uses what llist_detach_front returns without a test: on an empty   *)
(* queue that is NULL and l->data stops the process.                          *)
DetachMessage(s) ==
    /\ sstate[s] = "detach"
    /\ sbyte' = [sbyte EXCEPT ![s] = Null]
    /\ IF message_que = <<>>
       THEN /\ sstate' = [sstate EXCEPT ![s] = "crashed"]
            /\ UNCHANGED <<message_que, smsg>>
       ELSE /\ sstate' = [sstate EXCEPT ![s] = "work"]
            /\ smsg' = [smsg EXCEPT ![s] = Head(message_que)]
            /\ message_que' = FrontDetached(message_que)
    /\ UNCHANGED <<assignment_count, admin_lock, notify_pipe, slave_inited,
                   postVars, log, runs>>

(* work_func returns and the node is freed.                                   *)
FinishWork(s) ==
    /\ sstate[s] = "work"
    /\ runs' = [runs EXCEPT ![smsg[s]] = @ + 1]
    /\ smsg' = [smsg EXCEPT ![s] = Null]
    /\ sstate' = [sstate EXCEPT ![s] = "loop"]
    /\ UNCHANGED <<message_que, assignment_count, admin_lock, notify_pipe,
                   slave_inited, postVars, sbyte, log>>
-----------------------------------------------------------------------------
(* The steps of a poster once its post has begun, and the steps of a slave.   *)
PostStep(p) ==
    \/ StoreCount(p)
    \/ PushMessage(p)
    \/ ChooseSlave(p)
    \/ NotifySlave(p)

SlaveStep(s) ==
    \/ SlaveStart(s)
    \/ ReadByte(s)
    \/ DetachMessage(s)
    \/ FinishWork(s)

(* Every message of the run has been executed and nobody is in a post.        *)
Done ==
    /\ \A m \in Message : runs[m] > 0
    /\ \A p \in Poster : pstate[p] = "idle"
    /\ \A s \in Slave : sstate[s] = "loop"
    /\ UNCHANGED vars

Next ==
    \/ \E m \in Message :
          \/ MasterLoadCount(m)
          \/ \E u \in User : UserAddTask(u, m) \/ UserPost(u, m)
    \/ \E p \in Poster : PostStep(p)
    \/ \E s \in Slave : SlaveStep(s)
    \/ Done

SafeSpec == Init /\ [][Next]_vars

(* The threads are scheduled by the system and a work function returns; when  *)
(* or whether anybody posts is up to the application.                         *)
Fairness ==
    /\ \A p \in Poster : WF_vars(PostStep(p))
    /\ \A s \in Slave : WF_vars(SlaveStep(s))

Spec == SafeSpec /\ Fairness
-----------------------------------------------------------------------------
PosterStates == {"idle", "count", "push", "choose", "write"}
SlaveStates == {"starting", "loop", "detach", "work", "crashed"}

(* Every variable has its type; in particular the slave a poster is about to  *)
(* notify indexes snd_notify_fd within bounds whatever assignment_count did.  *)
TypeOK ==
    /\ message_que \in Seq(Message)
    /\ assignment_count \in 0..(CountMod - 1)
    /\ admin_lock \in User \cup {Null}
    /\ notify_pipe \in [Slave -> SUBSET Message]
    /\ slave_inited \in {0, 1}
    /\ pstate \in [Poster -> PosterStates]
    /\ pmsg \in [Poster -> Message \cup {Null}]
    /\ \A p \in Poster : pstate[p] # "idle" => pmsg[p] \in Message
    /\ pcount \in [Poster -> Nat]
    /\ \A p \in Poster : pstate[p] = "write" => pcount[p] \in Slave
    /\ sstate \in [Slave -> SlaveStates]
    /\ sbyte \in [Slave -> Message \cup {Null}]
    /\ smsg \in [Slave -> Message \cup {Null}]
    /\ \A s \in Slave : sstate[s] = "work" => smsg[s] \in Message
    /\ log \in Seq(Message)
    /\ runs \in [Message -> Nat]

(* What is still owed a detach: the message a poster has pushed and not yet   *)
(* notified, and the bytes a slave has unread or is about to serve.           *)
Notice(p) == IF pstate[p] \in {"choose", "write"} THEN {pmsg[p]} ELSE {}
Held(s) == IF sstate[s] = "detach" THEN {sbyte[s]} ELSE {}
Bytes(s) == notify_pipe[s] \cup Held(s)
Owed ==
    {m \in Message : \/ \E p \in Poster : m \in Notice(p)
                     \/ \E s \in Slave : m \in Bytes(s)}

(* The queue holds one message for each detach still owed, no fewer (a slave  *)
(* would detach from an empty queue) and no more (a message would be lost):   *)
(* push and write are separate steps of racing posters, and any slave may     *)
(* detach any message.                                                        *)
QueueMatchesNotifications == Len(message_que) = Cardinality(Owed)

(* No slave dereferences the NULL that llist_detach_front returns when the    *)
(* queue is empty: slave_event_handler_process_message does not test for it.  *)
NoNullDetach == \A s \in Slave : sstate[s] # "crashed"

(* The parts that make the two facts above inductive: posters post different  *)
(* messages, a post reaches the queue at its push, bytes are written only for *)
(* what was queued, and a message's byte is in one place at a time.           *)
DistinctPosts ==
    \A p, q \in Poster :
        p # q /\ pstate[p] # "idle" /\ pstate[q] # "idle" => pmsg[p] # pmsg[q]

QueuedAtPush ==
    \A p \in Poster : pstate[p] # "idle" =>
        (pmsg[p] \in Posted <=> pstate[p] \in {"choose", "write"})

BytesForQueued == \A s \in Slave : Bytes(s) \subseteq Posted

OneByteEach ==
    \A s \in Slave :
        /\ \A m \in Held(s) : m \notin notify_pipe[s]
        /\ \A m \in Bytes(s) :
              /\ \A p \in Poster : m \notin Notice(p)
              /\ \A t \in Slave : t # s => m \notin Bytes(t)

IInv ==
    /\ TypeOK
    /\ DistinctPosts
    /\ QueuedAtPush
    /\ BytesForQueued
    /\ OneByteEach
    /\ QueueMatchesNotifications
    /\ NoNullDetach

(* A message is run once: never a second time, never by two slaves, and never *)
(* while the queue still holds it.                                            *)
RunAtMostOnce ==
    \A s \in Slave : sstate[s] = "work" =>
        /\ runs[smsg[s]] = 0
        /\ \A i \in DOMAIN message_que : message_que[i] # smsg[s]
        /\ \A t \in Slave : t # s /\ sstate[t] = "work" => smsg[t] # smsg[s]

(* Work may finish out of order only by what the other slaves hold: with the  *)
(* default of one slave the messages finish in the order they were posted.    *)
BoundedOvertaking ==
    \A j \in DOMAIN log : runs[log[j]] > 0 =>
        Cardinality({i \in 1..(j - 1) : runs[log[i]] = 0}) < SlaveAmount

(* Whatever is queued is eventually run, also when the posting thread still   *)
(* has the byte to write, the pipe is full or the notified slave is starting. *)
EveryPostRuns == \A m \in Message : (m \in Posted) ~> (runs[m] = 1)

(* The pool is a work pool: its slaves are the workers, what they detach is   *)
(* what they run, and every submitted message is finished.                    *)
Pool == INSTANCE WorkPool WITH
            Message   <- Message,
            Worker    <- Slave,
            NoMessage <- Null,
            submitted <- Posted,
            pending   <- message_que,
            running   <- smsg,
            finished  <- {m \in Message : runs[m] > 0}

PoolSpec == Pool!Spec
=============================================================================
