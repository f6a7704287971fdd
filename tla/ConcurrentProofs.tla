-------------------------- MODULE ConcurrentProofs --------------------------
(***************************************************************************)
(* Proofs about Concurrent for any number of messages, slaves and posting  *)
(* threads, any pipe capacity and any width of assignment_count.           *)
(***************************************************************************)
EXTENDS Concurrent, SequenceFacts, FiniteSetTheorems, SequenceTheorems, TLAPS

USE ConcurrentAssumption DEF ConcurrentAssumption

(* assignment_count % slave_amount always names a slave.                     *)
LEMMA ModInRange ==
    ASSUME NEW n \in Nat, NEW d \in Nat \ {0}
    PROVE  n % d \in 0..(d - 1)
  OBVIOUS

(* Whatever assignment_count holds, the slave it chooses exists.             *)
LEMMA ChosenSlaveIsSlave ==
    ASSUME NEW n \in Nat
    PROVE  ChosenSlave(n) \in Slave
  BY ModInRange DEF ChosenSlave, Slave

(* assignment_count wraps within its width.                                  *)
LEMMA NextCountInRange ==
    ASSUME NEW n \in Nat
    PROVE  NextCount(n) \in 0..(CountMod - 1)
  BY ModInRange DEF NextCount

-----------------------------------------------------------------------------
(* The variables have their types when the threads are created.              *)
LEMMA InitType == Init => TypeOK
<1> SUFFICES ASSUME Init PROVE TypeOK
  OBVIOUS
<1>1. 0 \in 0..(CountMod - 1)
  OBVIOUS
<1>2. QED
  BY <1>1 DEF Init, TypeOK, PosterStates, SlaveStates

(* No step of a poster or a slave breaks a type.                             *)
LEMMA StepType == TypeOK /\ [Next]_vars => TypeOK'
<1> SUFFICES ASSUME TypeOK, [Next]_vars PROVE TypeOK'
  OBVIOUS
<1> USE DEF TypeOK, PosterStates, SlaveStates, postVars, slaveVars
<1>1. ASSUME NEW m \in Message, MasterLoadCount(m) PROVE TypeOK'
  BY <1>1 DEF MasterLoadCount, Begin, Fresh, Poster
<1>2. ASSUME NEW m \in Message, NEW u \in User, UserAddTask(u, m) PROVE TypeOK'
  BY <1>2 DEF UserAddTask, Begin, Fresh, Poster
<1>3. ASSUME NEW m \in Message, NEW u \in User, UserPost(u, m) PROVE TypeOK'
  BY <1>3 DEF UserPost, Begin, Fresh, Poster
<1>4. ASSUME NEW p \in Poster, StoreCount(p) PROVE TypeOK'
  BY <1>4, NextCountInRange DEF StoreCount
<1>5. ASSUME NEW p \in Poster, PushMessage(p) PROVE TypeOK'
  BY <1>5, AppendProperties DEF PushMessage, PushedBack
<1>6. ASSUME NEW p \in Poster, ChooseSlave(p) PROVE TypeOK'
  <2> assignment_count \in Nat
    OBVIOUS
  <2>1. ChosenSlave(assignment_count) \in Slave /\ Slave \subseteq Nat
    <3>1. ChosenSlave(assignment_count) \in Slave
      BY ChosenSlaveIsSlave
    <3>2. QED
      BY <3>1 DEF Slave
  <2>2. pcount' \in [Poster -> Nat]
    BY <1>6, <2>1 DEF ChooseSlave
  <2>3. \A q \in Poster : pstate'[q] = "write" => pcount'[q] \in Slave
    BY <1>6, <2>1 DEF ChooseSlave
  <2>4. QED
    BY <1>6, <2>2, <2>3 DEF ChooseSlave
<1>7. ASSUME NEW p \in Poster, NotifySlave(p) PROVE TypeOK'
  BY <1>7 DEF NotifySlave, WriteByte
<1>8. ASSUME NEW s \in Slave, SlaveStart(s) PROVE TypeOK'
  BY <1>8 DEF SlaveStart
<1>9. ASSUME NEW s \in Slave, ReadByte(s) PROVE TypeOK'
  BY <1>9 DEF ReadByte
<1>10. ASSUME NEW s \in Slave, DetachMessage(s) PROVE TypeOK'
  <2>1. message_que # <<>> =>
            Head(message_que) \in Message /\ Tail(message_que) \in Seq(Message)
    BY HeadTailProperties
  <2>2. CASE message_que = <<>>
    BY ZenonT(60), <1>10, <2>2 DEF DetachMessage
  <2>3. CASE message_que # <<>>
    <3>1. \A t \in Slave : sstate'[t] = "work" => smsg'[t] \in Message
      BY ZenonT(60), <1>10, <2>1, <2>3 DEF DetachMessage
    <3>2. smsg' \in [Slave -> Message \cup {Null}]
      BY <1>10, <2>1, <2>3 DEF DetachMessage
    <3>3. message_que' \in Seq(Message)
      BY <1>10, <2>1, <2>3 DEF DetachMessage, FrontDetached
    <3>4. QED
      BY <1>10, <2>3, <3>1, <3>2, <3>3 DEF DetachMessage
  <2>4. QED
    BY <2>2, <2>3
<1>11. ASSUME NEW s \in Slave, FinishWork(s) PROVE TypeOK'
  BY <1>11 DEF FinishWork
<1>12. CASE UNCHANGED vars
  BY <1>12 DEF vars
<1>13. QED
  BY <1>1, <1>2, <1>3, <1>4, <1>5, <1>6, <1>7, <1>8, <1>9, <1>10, <1>11, <1>12
     DEF Next, PostStep, SlaveStep, Done

(* Every variable keeps its type; in particular the slave that a post         *)
(* notifies is one of the slaves, for every race on assignment_count.         *)
THEOREM TypeCorrect == SafeSpec => []TypeOK
<1>1. QED
  BY InitType, StepType, PTL DEF SafeSpec
-----------------------------------------------------------------------------
(* The shape of the posts and bytes, without the count.                      *)
Shape == TypeOK /\ DistinctPosts /\ QueuedAtPush /\ BytesForQueued /\ OneByteEach

(* Nothing is posted at first.                                               *)
LEMMA InitPosted == Init => Posted = {}
  BY DEF Init, Posted

(* A push adds just its own message to those posted.                         *)
LEMMA PostedAppend ==
    ASSUME NEW m \in Message, log \in Seq(Message), log' = Append(log, m)
    PROVE  Posted' = Posted \cup {m}
<1>1. /\ Len(log') = Len(log) + 1
      /\ \A i \in 1..Len(log) : log'[i] = log[i]
      /\ log'[Len(log) + 1] = m
      /\ DOMAIN log = 1..Len(log)
      /\ DOMAIN log' = 1..Len(log')
      /\ Len(log) \in Nat
  BY AppendProperties, LenProperties
<1>2. QED
  BY <1>1 DEF Posted

(* The parts of the invariant that do not count hold at first.               *)
LEMMA InitShape == Init => Shape
<1> SUFFICES ASSUME Init PROVE Shape
  OBVIOUS
<1>1. TypeOK
  BY InitType
<1>2. DistinctPosts /\ QueuedAtPush
  BY DEF Init, DistinctPosts, QueuedAtPush
<1>3. BytesForQueued /\ OneByteEach
  BY DEF Init, BytesForQueued, OneByteEach, Bytes, Held, Notice
<1>4. QED
  BY <1>1, <1>2, <1>3 DEF Shape

(* A post begins: the message is in no post and not in the queue's log.       *)
LEMMA BeginShape ==
    ASSUME Shape, TypeOK', NEW p \in Poster, NEW m \in Message,
           NEW next \in {"count", "push"}, Begin(p, m, next),
           UNCHANGED <<log, notify_pipe, sstate, sbyte>>
    PROVE  Shape' /\ Owed' = Owed
<1> USE DEF Shape, TypeOK
<1>1. Posted' = Posted
  BY DEF Posted
<1>2. /\ m \notin Posted
      /\ \A q \in Poster : pstate[q] # "idle" => pmsg[q] # m
  BY DEF Begin, Fresh, InPost
<1>3. /\ pstate' = [pstate EXCEPT ![p] = next]
      /\ pmsg' = [pmsg EXCEPT ![p] = m]
      /\ pstate[p] = "idle"
  BY DEF Begin
<1>4. DistinctPosts'
  BY SMTT(60), <1>2, <1>3 DEF DistinctPosts
<1>5. QueuedAtPush'
  BY SMTT(60), <1>1, <1>2, <1>3 DEF QueuedAtPush
<1>6. \A s \in Slave : Held(s)' = Held(s) /\ Bytes(s)' = Bytes(s)
  BY DEF Held, Bytes
<1>7. \A q \in Poster : Notice(q)' = Notice(q)
  BY <1>3 DEF Notice
<1>8. BytesForQueued'
  BY <1>1, <1>6 DEF BytesForQueued
<1>9. OneByteEach'
  BY SMTT(60), <1>6, <1>7 DEF OneByteEach
<1>10. Owed' = Owed
  BY <1>6, <1>7 DEF Owed
<1>11. QED
  BY <1>4, <1>5, <1>8, <1>9, <1>10

(* Storing the count and choosing the slave move no message.                  *)
LEMMA QuietPostShape ==
    ASSUME Shape, TypeOK', NEW p \in Poster, StoreCount(p) \/ ChooseSlave(p)
    PROVE  Shape' /\ Owed' = Owed
<1> USE DEF Shape, TypeOK, PosterStates
<1>1. /\ UNCHANGED <<log, notify_pipe, sstate, sbyte, pmsg>>
      /\ \E next \in PosterStates :
            /\ pstate' = [pstate EXCEPT ![p] = next]
            /\ next # "idle" /\ pstate[p] # "idle"
            /\ next \in {"choose", "write"} <=> pstate[p] \in {"choose", "write"}
  BY DEF StoreCount, ChooseSlave, slaveVars
<1>2. Posted' = Posted
  BY <1>1 DEF Posted
<1>3. DistinctPosts' /\ QueuedAtPush'
  BY SMTT(60), <1>1, <1>2 DEF DistinctPosts, QueuedAtPush
<1>4. \A s \in Slave : Held(s)' = Held(s) /\ Bytes(s)' = Bytes(s)
  BY <1>1 DEF Held, Bytes
<1>5. \A q \in Poster : Notice(q)' = Notice(q)
  BY <1>1 DEF Notice
<1>6. BytesForQueued' /\ OneByteEach'
  BY <1>1, <1>2, <1>4, <1>5 DEF BytesForQueued, OneByteEach
<1>7. Owed' = Owed
  BY <1>4, <1>5 DEF Owed
<1>8. QED
  BY <1>3, <1>6, <1>7

(* The push: the message is owed a detach from here on.                       *)
LEMMA PushShape ==
    ASSUME Shape, TypeOK', NEW p \in Poster, PushMessage(p)
    PROVE  Shape' /\ Owed' = Owed \cup {pmsg[p]} /\ pmsg[p] \in Message \ Owed
<1>1. /\ UNCHANGED <<notify_pipe, sstate, sbyte, pmsg>>
      /\ DistinctPosts /\ QueuedAtPush /\ BytesForQueued /\ OneByteEach
      /\ pstate \in [Poster -> PosterStates]
      /\ pstate[p] = "push"
      /\ pstate' = [pstate EXCEPT ![p] = "choose"]
      /\ log' = Append(log, pmsg[p])
      /\ pmsg[p] \in Message
      /\ log \in Seq(Message)
  BY DEF PushMessage, slaveVars, Shape, TypeOK
<1>2. Posted' = Posted \cup {pmsg[p]}
  BY <1>1, PostedAppend
<1>3. pmsg[p] \notin Posted
  BY <1>1 DEF QueuedAtPush
<1>4. \A s \in Slave : Held(s)' = Held(s) /\ Bytes(s)' = Bytes(s)
  BY <1>1 DEF Held, Bytes
<1>5. /\ Notice(p)' = {pmsg[p]}
      /\ \A q \in Poster : q # p => Notice(q)' = Notice(q)
  BY <1>1 DEF Notice
<1>6. DistinctPosts'
  BY <1>1 DEF DistinctPosts
<1>7. QueuedAtPush'
  BY <1>1, <1>2 DEF QueuedAtPush, DistinctPosts
<1>8. BytesForQueued'
  BY <1>1, <1>2, <1>4 DEF BytesForQueued
<1>9. OneByteEach'
  BY <1>1, <1>3, <1>4, <1>5 DEF OneByteEach, BytesForQueued
<1>10. Notice(p) = {}
  BY <1>1 DEF Notice
<1>11. Owed' = Owed \cup {pmsg[p]}
  <2>1. \A m : (\E q \in Poster : m \in Notice(q)') <=>
                    m = pmsg[p] \/ \E q \in Poster : m \in Notice(q)
    BY <1>5, <1>10
  <2>2. \A m : (\E s \in Slave : m \in Bytes(s)') <=> \E s \in Slave : m \in Bytes(s)
    BY <1>4
  <2>3. QED
    BY <1>1, <2>1, <2>2 DEF Owed
<1>12. \A q \in Poster : pmsg[p] \notin Notice(q)
  BY <1>1, <1>3 DEF Notice, QueuedAtPush
<1>13. pmsg[p] \notin Owed
  <2>1. \A s \in Slave : pmsg[p] \notin Bytes(s)
    BY <1>1, <1>3 DEF BytesForQueued
  <2>2. QED
    BY <1>12, <2>1 DEF Owed
<1>14. QED
  BY <1>1, <1>6, <1>7, <1>8, <1>9, <1>11, <1>13 DEF Shape

(* The write hands the message's claim from the poster to the pipe.           *)
LEMMA NotifyShape ==
    ASSUME Shape, TypeOK', NEW p \in Poster, NotifySlave(p)
    PROVE  Shape' /\ Owed' = Owed
<1>0. PICK j \in Slave : j = pcount[p]
  BY DEF NotifySlave, WriteByte, Shape, TypeOK
<1>1. /\ UNCHANGED <<log, sstate, sbyte>>
      /\ DistinctPosts /\ QueuedAtPush /\ BytesForQueued /\ OneByteEach
      /\ pstate \in [Poster -> PosterStates]
      /\ pmsg \in [Poster -> Message \cup {Null}]
      /\ pmsg[p] \in Message
      /\ pstate[p] = "write"
      /\ pstate' = [pstate EXCEPT ![p] = "idle"]
      /\ pmsg' = [pmsg EXCEPT ![p] = Null]
      /\ \A s \in Slave : notify_pipe'[s] =
            IF s = j THEN notify_pipe[s] \cup {pmsg[p]} ELSE notify_pipe[s]
  BY <1>0 DEF NotifySlave, WriteByte, slaveVars, Shape, TypeOK
<1>2. Posted' = Posted
  BY <1>1 DEF Posted
<1>3. pmsg[p] \in Posted /\ Notice(p) = {pmsg[p]}
  BY <1>1 DEF QueuedAtPush, Notice
<1>4. /\ \A s \in Slave : Held(s)' = Held(s)
      /\ Bytes(j)' = Bytes(j) \cup {pmsg[p]}
      /\ \A s \in Slave : s # j => Bytes(s)' = Bytes(s)
  <2>1. \A s \in Slave : Held(s)' = Held(s)
    BY <1>1 DEF Held
  <2>2. notify_pipe'[j] = notify_pipe[j] \cup {pmsg[p]}
    BY <1>1
  <2>3. \A s \in Slave : s # j => notify_pipe'[s] = notify_pipe[s]
    BY <1>1
  <2>4. Bytes(j)' = Bytes(j) \cup {pmsg[p]}
    BY <1>1, <2>1, <2>2 DEF Bytes
  <2>5. QED
    BY <2>1, <2>3, <2>4 DEF Bytes
<1>5. /\ Notice(p)' = {}
      /\ \A q \in Poster : q # p => Notice(q)' = Notice(q)
  BY <1>1 DEF Notice
<1>6. DistinctPosts' /\ QueuedAtPush'
  BY <1>1, <1>2 DEF DistinctPosts, QueuedAtPush
<1>7. BytesForQueued'
  <2>1. Bytes(j)' \subseteq Posted'
    BY <1>1, <1>2, <1>3, <1>4 DEF BytesForQueued
  <2>2. \A s \in Slave : s # j => Bytes(s)' \subseteq Posted'
    BY <1>1, <1>2, <1>4 DEF BytesForQueued
  <2>3. QED
    BY <2>1, <2>2 DEF BytesForQueued
<1>8. \A q \in Poster : q # p => pmsg[p] \notin Notice(q)
  BY <1>1 DEF Notice, DistinctPosts
<1>9. \A s \in Slave : pmsg[p] \notin Bytes(s) /\ pmsg[p] \notin Held(s)
  BY <1>1, <1>3 DEF OneByteEach, Bytes
<1>10. OneByteEach'
  <2>1. \A s \in Slave : \A m \in Held(s)' : m \notin notify_pipe'[s]
    <3>1. \A s \in Slave : \A m \in Held(s) : m \notin notify_pipe[s] /\ m # pmsg[p]
      BY <1>1, <1>9 DEF OneByteEach
    <3>2. \A s \in Slave : notify_pipe'[s] \subseteq notify_pipe[s] \cup {pmsg[p]}
      BY <1>1
    <3>3. QED
      BY <1>4, <3>1, <3>2
  <2>2. \A s \in Slave : \A m \in Bytes(s)' : \A q \in Poster : m \notin Notice(q)'
    BY <1>1, <1>4, <1>5, <1>8 DEF OneByteEach
  <2>3. \A s, t \in Slave : s # t => \A m \in Bytes(s)' : m \notin Bytes(t)'
    BY <1>1, <1>4, <1>9 DEF OneByteEach
  <2>4. QED
    BY <2>1, <2>2, <2>3 DEF OneByteEach
<1>11. Owed' = Owed
  <2>1. \A m : (\E q \in Poster : m \in Notice(q)) <=>
                    m = pmsg[p] \/ \E q \in Poster : m \in Notice(q)'
    BY <1>3, <1>5
  <2>2. \A m : (\E s \in Slave : m \in Bytes(s)') <=>
                    m = pmsg[p] \/ \E s \in Slave : m \in Bytes(s)
    BY <1>1, <1>4
  <2>3. QED
    BY <2>1, <2>2 DEF Owed
<1>12. QED
  BY <1>6, <1>7, <1>10, <1>11 DEF Shape

(* A slave's start and its finish touch neither bytes nor posts.             *)
LEMMA QuietSlaveShape ==
    ASSUME Shape, TypeOK', NEW s \in Slave, SlaveStart(s) \/ FinishWork(s)
    PROVE  Shape' /\ Owed' = Owed
<1>1. /\ UNCHANGED <<log, notify_pipe, sbyte, pstate, pmsg>>
      /\ DistinctPosts /\ QueuedAtPush /\ BytesForQueued /\ OneByteEach
      /\ sstate \in [Slave -> SlaveStates]
      /\ sstate[s] # "detach"
      /\ sstate' = [sstate EXCEPT ![s] = "loop"]
  BY DEF SlaveStart, FinishWork, postVars, Shape, TypeOK
<1>2. Posted' = Posted
  BY <1>1 DEF Posted
<1>3. \A t \in Slave : Held(t)' = Held(t) /\ Bytes(t)' = Bytes(t)
  BY <1>1 DEF Held, Bytes
<1>4. \A q \in Poster : Notice(q)' = Notice(q)
  BY <1>1 DEF Notice
<1>5. DistinctPosts' /\ QueuedAtPush'
  BY <1>1, <1>2 DEF DistinctPosts, QueuedAtPush
<1>6. BytesForQueued' /\ OneByteEach'
  BY <1>1, <1>2, <1>3, <1>4 DEF BytesForQueued, OneByteEach
<1>7. Owed' = Owed
  BY <1>3, <1>4 DEF Owed
<1>8. QED
  BY <1>5, <1>6, <1>7 DEF Shape

(* Reading moves a byte from the pipe into the slave's hand.                  *)
LEMMA ReadShape ==
    ASSUME Shape, TypeOK', NEW s \in Slave, ReadByte(s)
    PROVE  Shape' /\ Owed' = Owed
<1>0. PICK m \in notify_pipe[s] :
        /\ notify_pipe' = [notify_pipe EXCEPT ![s] = @ \ {m}]
        /\ sbyte' = [sbyte EXCEPT ![s] = m]
  BY DEF ReadByte
<1>1. /\ UNCHANGED <<log, pstate, pmsg>>
      /\ DistinctPosts /\ QueuedAtPush /\ BytesForQueued /\ OneByteEach
      /\ notify_pipe \in [Slave -> SUBSET Message]
      /\ sbyte \in [Slave -> Message \cup {Null}]
      /\ sstate \in [Slave -> SlaveStates]
      /\ sstate[s] = "loop"
      /\ sstate' = [sstate EXCEPT ![s] = "detach"]
  BY DEF ReadByte, postVars, Shape, TypeOK
<1>2. Posted' = Posted
  BY <1>1 DEF Posted
<1>3. \A q \in Poster : Notice(q)' = Notice(q)
  BY <1>1 DEF Notice
<1>4. /\ Held(s)' = {m} /\ Held(s) = {}
      /\ \A t \in Slave : t # s => Held(t)' = Held(t)
  BY <1>0, <1>1 DEF Held
<1>5. /\ notify_pipe'[s] = notify_pipe[s] \ {m}
      /\ \A t \in Slave : t # s => notify_pipe'[t] = notify_pipe[t]
  BY <1>0, <1>1
<1>6. \A t \in Slave : Bytes(t)' = Bytes(t)
  <2>1. Bytes(s)' = Bytes(s)
    BY <1>0, <1>4, <1>5 DEF Bytes
  <2>2. QED
    BY <1>4, <1>5, <2>1 DEF Bytes
<1>7. DistinctPosts' /\ QueuedAtPush'
  BY <1>1, <1>2 DEF DistinctPosts, QueuedAtPush
<1>8. BytesForQueued'
  BY <1>1, <1>2, <1>6 DEF BytesForQueued
<1>9. OneByteEach'
  <2>1. \A t \in Slave : \A n \in Held(t)' : n \notin notify_pipe'[t]
    BY <1>1, <1>4, <1>5 DEF OneByteEach
  <2>2. QED
    BY <1>1, <1>3, <1>6, <2>1 DEF OneByteEach
<1>10. Owed' = Owed
  BY <1>3, <1>6 DEF Owed
<1>11. QED
  BY <1>7, <1>8, <1>9, <1>10 DEF Shape

(* The detach, or the crash, uses the byte up.                                *)
LEMMA DetachShape ==
    ASSUME Shape, TypeOK', NEW s \in Slave, DetachMessage(s)
    PROVE  Shape' /\ Owed' = Owed \ {sbyte[s]} /\ sbyte[s] \in Owed
<1>1. /\ UNCHANGED <<log, pstate, pmsg, notify_pipe>>
      /\ DistinctPosts /\ QueuedAtPush /\ BytesForQueued /\ OneByteEach
      /\ sstate \in [Slave -> SlaveStates]
      /\ sbyte \in [Slave -> Message \cup {Null}]
      /\ sstate[s] = "detach"
      /\ sstate'[s] # "detach"
      /\ \A t \in Slave : t # s => sstate'[t] = sstate[t] /\ sbyte'[t] = sbyte[t]
  BY DEF DetachMessage, postVars, Shape, TypeOK
<1>2. Posted' = Posted
  BY <1>1 DEF Posted
<1>3. \A q \in Poster : Notice(q)' = Notice(q)
  BY <1>1 DEF Notice
<1>4. /\ Held(s)' = {} /\ Held(s) = {sbyte[s]}
      /\ \A t \in Slave : t # s => Held(t)' = Held(t)
  BY <1>1 DEF Held
<1>5. sbyte[s] \notin notify_pipe[s]
  BY <1>1, <1>4 DEF OneByteEach
<1>6. /\ Bytes(s)' = Bytes(s) \ {sbyte[s]}
      /\ sbyte[s] \in Bytes(s)
      /\ \A t \in Slave : t # s => Bytes(t)' = Bytes(t)
  BY <1>1, <1>4, <1>5 DEF Bytes
<1>7. DistinctPosts' /\ QueuedAtPush'
  BY <1>1, <1>2 DEF DistinctPosts, QueuedAtPush
<1>8. BytesForQueued'
  BY <1>1, <1>2, <1>6 DEF BytesForQueued
<1>9. OneByteEach'
  <2>1. \A t \in Slave : \A n \in Held(t)' : n \notin notify_pipe'[t]
    BY <1>1, <1>4 DEF OneByteEach
  <2>2. \A t \in Slave : \A n \in Bytes(t)' : n \in Bytes(t)
    BY <1>6
  <2>3. QED
    BY <1>1, <1>3, <2>1, <2>2 DEF OneByteEach
<1>10. sbyte[s] \in Message
  <2>1. sbyte[s] \in Posted /\ log \in Seq(Message)
    BY <1>1, <1>6 DEF BytesForQueued, Shape, TypeOK
  <2>2. QED
    BY <2>1, LenProperties DEF Posted
<1>11. sbyte[s] \in Owed
  BY <1>6, <1>10 DEF Owed
<1>12. Owed' = Owed \ {sbyte[s]}
  <2>1. \A t \in Slave : t # s => sbyte[s] \notin Bytes(t)
    BY <1>1, <1>6 DEF OneByteEach
  <2>2. \A q \in Poster : sbyte[s] \notin Notice(q)
    BY <1>1, <1>6 DEF OneByteEach
  <2>3. \A m : (\E t \in Slave : m \in Bytes(t)') <=>
                    m # sbyte[s] /\ \E t \in Slave : m \in Bytes(t)
    BY <1>6, <2>1
  <2>4. QED
    BY <1>3, <2>2, <2>3 DEF Owed
<1>13. QED
  BY <1>7, <1>8, <1>9, <1>11, <1>12 DEF Shape
-----------------------------------------------------------------------------
(* What is owed can be counted.                                              *)
LEMMA OwedFinite == IsFiniteSet(Owed)
  BY FS_Subset DEF Owed

(* The invariant holds when the threads are created.                         *)
LEMMA InitIInv == Init => IInv
<1> SUFFICES ASSUME Init PROVE IInv
  OBVIOUS
<1>1. Shape
  BY InitShape
<1>2. Owed = {}
  BY DEF Init, Owed, Bytes, Held, Notice
<1>3. QueueMatchesNotifications
  BY <1>2, FS_EmptySet DEF QueueMatchesNotifications, Init
<1>4. NoNullDetach
  BY DEF Init, NoNullDetach
<1>5. QED
  BY <1>1, <1>3, <1>4 DEF IInv, Shape

(* Steps that move no claim and leave the queue and the slaves' health alone. *)
LEMMA KeepsCount ==
    ASSUME IInv, Shape', Owed' = Owed, message_que' = message_que,
           \A s \in Slave : sstate'[s] = "crashed" => sstate[s] = "crashed"
    PROVE  IInv'
<1>1. QueueMatchesNotifications'
  BY DEF IInv, QueueMatchesNotifications
<1>2. NoNullDetach'
  BY DEF IInv, NoNullDetach
<1>3. QED
  BY <1>1, <1>2 DEF IInv, Shape

(* Every step keeps the invariant, case by case over the actions.            *)
LEMMA StepIInv == IInv /\ [Next]_vars => IInv'
<1> SUFFICES ASSUME IInv, [Next]_vars PROVE IInv'
  OBVIOUS
<1>1. Shape
  BY DEF IInv, Shape
<1>2. TypeOK'
  BY StepType DEF IInv
<1>3. ASSUME NEW m \in Message, MasterLoadCount(m) PROVE IInv'
  <2>1. Master \in Poster /\ Begin(Master, m, "count")
        /\ UNCHANGED <<message_que, log, notify_pipe, sstate, sbyte>>
    BY <1>3 DEF MasterLoadCount, Poster, slaveVars
  <2>2. QED
    BY <1>1, <1>2, <2>1, BeginShape, KeepsCount
<1>4. ASSUME NEW m \in Message, NEW u \in User, UserAddTask(u, m) PROVE IInv'
  <2>1. u \in Poster /\ Begin(u, m, "count")
        /\ UNCHANGED <<message_que, log, notify_pipe, sstate, sbyte>>
    BY <1>4 DEF UserAddTask, Poster, slaveVars
  <2>2. QED
    BY <1>1, <1>2, <2>1, BeginShape, KeepsCount
<1>5. ASSUME NEW m \in Message, NEW u \in User, UserPost(u, m) PROVE IInv'
  <2>1. u \in Poster /\ Begin(u, m, "push")
        /\ UNCHANGED <<message_que, log, notify_pipe, sstate, sbyte>>
    BY <1>5 DEF UserPost, Poster, slaveVars
  <2>2. QED
    BY <1>1, <1>2, <2>1, BeginShape, KeepsCount
<1>6. ASSUME NEW p \in Poster, StoreCount(p) \/ ChooseSlave(p) PROVE IInv'
  <2>1. message_que' = message_que /\ sstate' = sstate
    BY <1>6 DEF StoreCount, ChooseSlave, slaveVars
  <2>2. QED
    BY <1>1, <1>2, <1>6, <2>1, QuietPostShape, KeepsCount
<1>7. ASSUME NEW p \in Poster, PushMessage(p) PROVE IInv'
  <2>1. Shape' /\ Owed' = Owed \cup {pmsg[p]} /\ pmsg[p] \in Message \ Owed
    BY <1>1, <1>2, <1>7, PushShape
  <2>2. Cardinality(Owed') = Cardinality(Owed) + 1
    BY <2>1, OwedFinite, FS_AddElement
  <2>3. Len(message_que') = Len(message_que) + 1
    BY <1>1, <1>7, <2>1, AppendProperties DEF PushMessage, PushedBack, Shape, TypeOK
  <2>4. QueueMatchesNotifications'
    BY <2>2, <2>3 DEF IInv, QueueMatchesNotifications
  <2>5. NoNullDetach'
    BY <1>7 DEF IInv, NoNullDetach, PushMessage, slaveVars
  <2>6. QED
    BY <2>1, <2>4, <2>5 DEF IInv, Shape
<1>8. ASSUME NEW p \in Poster, NotifySlave(p) PROVE IInv'
  <2>1. message_que' = message_que /\ sstate' = sstate
    BY <1>8 DEF NotifySlave, WriteByte, slaveVars
  <2>2. QED
    BY <1>1, <1>2, <1>8, <2>1, NotifyShape, KeepsCount
<1>9. ASSUME NEW s \in Slave, SlaveStart(s) \/ FinishWork(s) PROVE IInv'
  <2>1. /\ message_que' = message_que
        /\ \A t \in Slave : sstate'[t] = "crashed" => sstate[t] = "crashed"
    BY <1>1, <1>9 DEF SlaveStart, FinishWork, Shape, TypeOK
  <2>2. QED
    BY <1>1, <1>2, <1>9, <2>1, QuietSlaveShape, KeepsCount
<1>10. ASSUME NEW s \in Slave, ReadByte(s) PROVE IInv'
  <2>1. /\ message_que' = message_que
        /\ \A t \in Slave : sstate'[t] = "crashed" => sstate[t] = "crashed"
    BY <1>1, <1>10 DEF ReadByte, Shape, TypeOK
  <2>2. QED
    BY <1>1, <1>2, <1>10, <2>1, ReadShape, KeepsCount
<1>11. ASSUME NEW s \in Slave, DetachMessage(s) PROVE IInv'
  <2>1. Shape' /\ Owed' = Owed \ {sbyte[s]} /\ sbyte[s] \in Owed
    BY <1>1, <1>2, <1>11, DetachShape
  <2>2. Cardinality(Owed') = Cardinality(Owed) - 1
    BY <2>1, OwedFinite, FS_RemoveElement
  <2>3. Cardinality(Owed) # 0
    BY <2>1, OwedFinite, FS_EmptySet
  <2>4. message_que # <<>> /\ message_que \in Seq(Message)
    BY <2>3 DEF IInv, QueueMatchesNotifications, TypeOK
  <2>5. Len(message_que') = Len(message_que) - 1
    BY <1>11, <2>4, HeadTailProperties DEF DetachMessage, FrontDetached
  <2>6. QueueMatchesNotifications'
    BY <2>2, <2>5 DEF IInv, QueueMatchesNotifications
  <2>7. NoNullDetach'
    BY <1>1, <1>11, <2>4 DEF IInv, NoNullDetach, DetachMessage, Shape, TypeOK
  <2>8. QED
    BY <2>1, <2>6, <2>7 DEF IInv, Shape
<1>12. CASE UNCHANGED vars
  BY <1>12 DEF vars, IInv, TypeOK, DistinctPosts, QueuedAtPush, BytesForQueued,
     OneByteEach, QueueMatchesNotifications, NoNullDetach, Owed, Bytes, Held, Notice, Posted
<1>13. QED
  BY <1>3, <1>4, <1>5, <1>6, <1>7, <1>8, <1>9, <1>10, <1>11, <1>12
     DEF Next, PostStep, SlaveStep, Done

(* The inductive invariant: claims are distinct, each is in one place, and   *)
(* the queue holds one message for each.                                     *)
THEOREM PoolInvariant == SafeSpec => []IInv
<1>1. QED
  BY InitIInv, StepIInv, PTL DEF SafeSpec

(* However many threads post, whatever slave each byte goes to, and however   *)
(* the slaves race for the queue: a slave that has read a byte finds a        *)
(* message to detach.                                                         *)
THEOREM SlaveNeverDetachesNull == SafeSpec => []NoNullDetach
<1>1. IInv => NoNullDetach
  BY DEF IInv
<1>2. QED
  BY <1>1, PoolInvariant, PTL

(* The queue never holds a message without a detach owed for it: no posted    *)
(* message is stranded.                                                       *)
THEOREM NoMessageStranded == SafeSpec => []QueueMatchesNotifications
<1>1. IInv => QueueMatchesNotifications
  BY DEF IInv
<1>2. QED
  BY <1>1, PoolInvariant, PTL
-----------------------------------------------------------------------------
(* What keeps a message from being run twice: it is queued once, at its push, *)
(* and is then in the queue, with one slave, or run.                          *)
Working(s) == sstate[s] = "work"

QueuedUnrun ==
    /\ Distinct(message_que)
    /\ Elements(message_que) \subseteq Posted
    /\ \A m \in Elements(message_que) : runs[m] = 0
    /\ \A m \in Message : m \notin Posted => runs[m] = 0

HeldUnrun ==
    \A s \in Slave : Working(s) =>
        /\ smsg[s] \in Posted
        /\ smsg[s] \notin Elements(message_que)
        /\ runs[smsg[s]] = 0
        /\ \A t \in Slave : t # s /\ Working(t) => smsg[t] # smsg[s]

RunInv == QueuedUnrun /\ HeldUnrun

(* Nothing is queued or run when the threads are created.                     *)
LEMMA InitRuns == Init => RunInv
  BY EmptyElements DEF Init, RunInv, QueuedUnrun, HeldUnrun, Working, Elements, Distinct

(* A push queues a message that was neither queued nor run before.            *)
LEMMA PushRuns ==
    ASSUME IInv, RunInv, NEW p \in Poster, PushMessage(p)
    PROVE  RunInv'
<1>1. PICK m : m = pmsg[p]
  OBVIOUS
<1>2. /\ m \in Message /\ m \notin Posted
      /\ message_que \in Seq(Message) /\ log \in Seq(Message)
  BY <1>1 DEF PushMessage, IInv, TypeOK, QueuedAtPush
<1>3. /\ message_que' = Append(message_que, m)
      /\ log' = Append(log, m)
      /\ UNCHANGED <<sstate, smsg, runs>>
  BY <1>1 DEF PushMessage, PushedBack, slaveVars
<1>4. Posted' = Posted \cup {m}
  BY <1>2, <1>3, PostedAppend
<1>5. m \notin Elements(message_que) /\ runs[m] = 0
  BY <1>2 DEF RunInv, QueuedUnrun
<1>6. /\ Distinct(message_que')
      /\ Elements(message_que') = Elements(message_que) \cup {m}
  BY <1>2, <1>3, <1>5, AppendDistinct DEF RunInv, QueuedUnrun
<1>7. /\ Distinct(message_que)'
      /\ Elements(message_que)' = Elements(message_que) \cup {m}
  BY <1>6 DEF Distinct, Elements
<1>8. QueuedUnrun'
  BY <1>3, <1>4, <1>5, <1>7 DEF RunInv, QueuedUnrun
<1>9. HeldUnrun'
  BY <1>2, <1>3, <1>4, <1>7 DEF RunInv, HeldUnrun, Working
<1>10. QED
  BY <1>8, <1>9 DEF RunInv

(* The message a slave detaches leaves the queue with it.                     *)
LEMMA DetachRuns ==
    ASSUME IInv, RunInv, NEW s \in Slave, DetachMessage(s), message_que # <<>>
    PROVE  RunInv'
<1>1. PICK m : m = Head(message_que)
  OBVIOUS
<1>2. /\ message_que \in Seq(Message)
      /\ sstate \in [Slave -> SlaveStates]
      /\ smsg \in [Slave -> Message \cup {Null}]
  BY DEF IInv, TypeOK
<1>3. /\ message_que' = Tail(message_que)
      /\ Working(s)' /\ smsg'[s] = m /\ ~Working(s)
      /\ \A t \in Slave : t # s => (Working(t)' <=> Working(t)) /\ smsg'[t] = smsg[t]
      /\ UNCHANGED <<log, runs>>
  BY <1>1, <1>2 DEF DetachMessage, FrontDetached, Working
<1>4. /\ Distinct(message_que)' /\ m \in Elements(message_que)
      /\ Elements(message_que)' = Elements(message_que) \ {m}
  <2>1. /\ Distinct(message_que') /\ m \in Elements(message_que)
        /\ Elements(message_que') = Elements(message_que) \ {m}
    BY <1>1, <1>2, <1>3, TailDistinct DEF RunInv, QueuedUnrun
  <2>2. QED
    BY <2>1 DEF Distinct, Elements
<1>5. Posted' = Posted
  BY <1>3 DEF Posted
<1>6. QueuedUnrun'
  BY <1>3, <1>4, <1>5 DEF RunInv, QueuedUnrun
<1>7. m \in Posted /\ runs[m] = 0
  BY <1>4 DEF RunInv, QueuedUnrun
<1>8. HeldUnrun'
  BY <1>3, <1>4, <1>5, <1>7 DEF RunInv, HeldUnrun
<1>9. QED
  BY <1>6, <1>8 DEF RunInv

(* A slave that finishes counts a run of a message nobody else holds.         *)
LEMMA FinishRuns ==
    ASSUME IInv, RunInv, NEW s \in Slave, FinishWork(s)
    PROVE  RunInv'
<1>1. PICK m : m = smsg[s]
  OBVIOUS
<1>2. /\ m \in Message
      /\ runs \in [Message -> Nat]
      /\ message_que \in Seq(Message)
      /\ sstate \in [Slave -> SlaveStates]
      /\ smsg \in [Slave -> Message \cup {Null}]
      /\ \A t \in Slave : Working(t) => smsg[t] \in Message
  BY <1>1 DEF IInv, TypeOK, FinishWork, Working
<1>3. /\ Working(s) /\ ~Working(s)'
      /\ \A t \in Slave : t # s => (Working(t)' <=> Working(t)) /\ smsg'[t] = smsg[t]
      /\ \A n \in Message : n # m => runs'[n] = runs[n]
      /\ UNCHANGED <<message_que, log>>
  BY <1>1, <1>2 DEF FinishWork, Working
<1>4. Posted' = Posted /\ Elements(message_que)' = Elements(message_que)
  BY <1>3 DEF Posted, Elements
<1>5. m \in Posted /\ m \notin Elements(message_que)
  BY <1>1, <1>3 DEF RunInv, HeldUnrun
<1>6. Elements(message_que) \subseteq Message
  BY <1>2, LenProperties DEF Elements
<1>7. QueuedUnrun'
  BY <1>3, <1>4, <1>5, <1>6 DEF RunInv, QueuedUnrun, Distinct
<1>8. HeldUnrun'
  BY ZenonT(60), <1>1, <1>2, <1>3, <1>4 DEF RunInv, HeldUnrun
<1>9. QED
  BY <1>7, <1>8 DEF RunInv

(* Steps that leave the queue, what slaves hold and the runs alone.           *)
LEMMA SameRuns ==
    ASSUME RunInv, UNCHANGED <<message_que, log, smsg, runs>>,
           \A s \in Slave : Working(s)' <=> Working(s)
    PROVE  RunInv'
<1>1. Posted' = Posted /\ Elements(message_que)' = Elements(message_que)
  BY DEF Posted, Elements
<1>2. QED
  BY <1>1 DEF RunInv, QueuedUnrun, HeldUnrun, Distinct

(* Case by case over the actions.                                             *)
LEMMA StepRuns == IInv /\ RunInv /\ [Next]_vars => RunInv'
<1> SUFFICES ASSUME IInv, RunInv, [Next]_vars PROVE RunInv'
  OBVIOUS
<1>1. sstate \in [Slave -> SlaveStates]
  BY DEF IInv, TypeOK
<1>2. ASSUME NEW m \in Message, NEW u \in User,
             UserAddTask(u, m) \/ UserPost(u, m)
      PROVE  RunInv'
  BY <1>2, SameRuns DEF UserAddTask, UserPost, slaveVars, Working
<1>3. ASSUME NEW m \in Message, MasterLoadCount(m) PROVE RunInv'
  BY <1>3, SameRuns DEF MasterLoadCount, slaveVars, Working
<1>4. ASSUME NEW p \in Poster, StoreCount(p) \/ ChooseSlave(p) \/ NotifySlave(p)
      PROVE  RunInv'
  BY <1>4, SameRuns DEF StoreCount, ChooseSlave, NotifySlave, WriteByte, slaveVars, Working
<1>5. ASSUME NEW p \in Poster, PushMessage(p) PROVE RunInv'
  BY <1>5, PushRuns
<1>6. ASSUME NEW s \in Slave, SlaveStart(s) \/ ReadByte(s) PROVE RunInv'
  BY <1>1, <1>6, SameRuns DEF SlaveStart, ReadByte, Working
<1>7. ASSUME NEW s \in Slave, DetachMessage(s), message_que = <<>> PROVE RunInv'
  BY <1>1, <1>7, SameRuns DEF DetachMessage, Working
<1>8. ASSUME NEW s \in Slave, DetachMessage(s) PROVE RunInv'
  BY <1>7, <1>8, DetachRuns
<1>9. ASSUME NEW s \in Slave, FinishWork(s) PROVE RunInv'
  BY <1>9, FinishRuns
<1>10. CASE UNCHANGED vars
  BY <1>10, SameRuns DEF vars, Working
<1>11. QED
  BY <1>2, <1>3, <1>4, <1>5, <1>6, <1>8, <1>9, <1>10 DEF Next, PostStep, SlaveStep, Done

(* However the slaves race, each message is run by one of them and once.      *)
THEOREM NeverRunTwice == SafeSpec => []RunAtMostOnce
<1>1. IInv /\ RunInv => RunAtMostOnce
  <2> SUFFICES ASSUME IInv, RunInv, NEW s \in Slave, sstate[s] = "work"
               PROVE  /\ runs[smsg[s]] = 0
                      /\ \A i \in DOMAIN message_que : message_que[i] # smsg[s]
                      /\ \A t \in Slave : t # s /\ sstate[t] = "work" => smsg[t] # smsg[s]
    BY DEF RunAtMostOnce
  <2>1. QED
    BY DEF RunInv, HeldUnrun, Working, Elements
<1>2. QED
  BY InitRuns, StepRuns, <1>1, PoolInvariant, PTL DEF SafeSpec
-----------------------------------------------------------------------------
(* Why order is lost only by what slaves hold: messages leave the queue in    *)
(* the order of the log, and one that has left is held or run.                *)
Taken == Len(log) - Len(message_que)

TakenInOrder ==
    /\ Taken \in Nat
    /\ Distinct(log)
    /\ \A i \in DOMAIN message_que : message_que[i] = log[Taken + i]
    /\ \A i \in 1..Taken : \/ runs[log[i]] > 0
                           \/ \E s \in Slave : Working(s) /\ smsg[s] = log[i]

OrderInv == TakenInOrder /\ BoundedOvertaking

(* Nothing is posted when the threads are created.                            *)
LEMMA InitOrder == Init => OrderInv
  BY DEF Init, OrderInv, TakenInOrder, Taken, BoundedOvertaking, Distinct

(* A push makes the log and the queue longer by the same message.             *)
LEMMA PushOrder ==
    ASSUME IInv, RunInv, OrderInv, NEW p \in Poster, PushMessage(p)
    PROVE  OrderInv'
<1>1. PICK m : m = pmsg[p]
  OBVIOUS
<1>2. PICK d : d = Taken
  OBVIOUS
<1>3. /\ m \in Message /\ m \notin Posted
      /\ message_que \in Seq(Message) /\ log \in Seq(Message)
      /\ runs \in [Message -> Nat]
  BY <1>1 DEF PushMessage, IInv, TypeOK, QueuedAtPush
<1>4. /\ message_que' = Append(message_que, m)
      /\ log' = Append(log, m)
      /\ UNCHANGED <<sstate, smsg, runs>>
  BY <1>1 DEF PushMessage, PushedBack, slaveVars
<1>5. /\ Len(message_que) \in Nat /\ DOMAIN message_que = 1..Len(message_que)
      /\ Len(message_que') = Len(message_que) + 1
      /\ DOMAIN message_que' = 1..(Len(message_que) + 1)
      /\ \A i \in 1..Len(message_que) : message_que'[i] = message_que[i]
      /\ message_que'[Len(message_que) + 1] = m
  BY <1>3, <1>4, AppendProperties, LenProperties
<1>6. /\ Len(log) \in Nat /\ DOMAIN log = 1..Len(log)
      /\ Len(log') = Len(log) + 1
      /\ DOMAIN log' = 1..(Len(log) + 1)
      /\ \A i \in 1..Len(log) : log'[i] = log[i]
      /\ log'[Len(log) + 1] = m
  BY <1>3, <1>4, AppendProperties, LenProperties
<1>7. d \in Nat /\ d = Len(log) - Len(message_que) /\ Taken' = d
  BY <1>2, <1>5, <1>6 DEF OrderInv, TakenInOrder, Taken
<1>8. Distinct(log)'
  <2>1. m \notin Elements(log)
    BY <1>3 DEF Elements, Posted
  <2>2. Distinct(log')
    BY <1>3, <1>4, <2>1, AppendDistinct DEF OrderInv, TakenInOrder
  <2>3. QED
    BY <2>2 DEF Distinct
<1>9. \A i \in DOMAIN message_que' : message_que'[i] = log'[d + i]
  <2>1. ASSUME NEW i \in 1..Len(message_que) PROVE message_que'[i] = log'[d + i]
    <3>1. message_que[i] = log[d + i]
      BY <1>2, <1>5 DEF OrderInv, TakenInOrder
    <3>2. d + i \in 1..Len(log)
      BY <1>5, <1>6, <1>7
    <3>3. QED
      BY <1>5, <1>6, <3>1, <3>2
  <2>2. d + (Len(message_que) + 1) = Len(log) + 1
    BY <1>5, <1>6, <1>7
  <2>3. message_que'[Len(message_que) + 1] = log'[d + (Len(message_que) + 1)]
    BY <1>5, <1>6, <2>2
  <2>4. \A i \in DOMAIN message_que' : i \in 1..Len(message_que) \/ i = Len(message_que) + 1
    BY <1>5
  <2>5. QED
    BY <2>1, <2>3, <2>4
<1>10. \A i \in 1..d : \/ runs'[log'[i]] > 0
                       \/ \E s \in Slave : Working(s)' /\ smsg'[s] = log'[i]
  <2>1. \A i \in 1..d : log'[i] = log[i]
    BY <1>5, <1>6, <1>7
  <2>2. \A i \in 1..d : \/ runs[log[i]] > 0
                        \/ \E s \in Slave : Working(s) /\ smsg[s] = log[i]
    BY <1>2 DEF OrderInv, TakenInOrder
  <2>3. QED
    BY <1>4, <2>1, <2>2 DEF Working
<1>11. TakenInOrder'
  BY <1>7, <1>8, <1>9, <1>10 DEF TakenInOrder
<1>12. BoundedOvertaking'
  <2> SUFFICES ASSUME NEW j \in DOMAIN log', runs'[log'[j]] > 0
               PROVE  Cardinality({i \in 1..(j - 1) : runs'[log'[i]] = 0}) < SlaveAmount
    BY DEF BoundedOvertaking
  <2>1. runs[m] = 0
    BY <1>3 DEF RunInv, QueuedUnrun
  <2>2. j \in 1..Len(log)
    BY <1>4, <1>6, <2>1
  <2>3. \A i \in 1..(j - 1) : log'[i] = log[i]
    BY <1>6, <2>2
  <2>4. {i \in 1..(j - 1) : runs'[log'[i]] = 0} = {i \in 1..(j - 1) : runs[log[i]] = 0}
    BY <1>4, <2>3
  <2>5. runs[log[j]] > 0
    BY <1>4, <1>6, <2>2
  <2>6. QED
    BY <1>6, <2>2, <2>4, <2>5 DEF OrderInv, BoundedOvertaking
<1>13. QED
  BY <1>11, <1>12 DEF OrderInv

(* A detach takes the oldest message that has not been taken.                 *)
LEMMA DetachOrder ==
    ASSUME IInv, RunInv, OrderInv, NEW s \in Slave, DetachMessage(s), message_que # <<>>
    PROVE  OrderInv'
<1>1. PICK m : m = Head(message_que)
  OBVIOUS
<1>2. PICK d : d = Taken
  OBVIOUS
<1>3. /\ message_que \in Seq(Message) /\ log \in Seq(Message)
      /\ sstate \in [Slave -> SlaveStates]
      /\ smsg \in [Slave -> Message \cup {Null}]
  BY DEF IInv, TypeOK
<1>4. /\ message_que' = Tail(message_que)
      /\ Working(s)' /\ smsg'[s] = m /\ ~Working(s)
      /\ \A t \in Slave : t # s => (Working(t)' <=> Working(t)) /\ smsg'[t] = smsg[t]
      /\ UNCHANGED <<log, runs>>
  BY <1>1, <1>3 DEF DetachMessage, FrontDetached, Working
<1>5. /\ Len(message_que) \in Nat \ {0} /\ DOMAIN message_que = 1..Len(message_que)
      /\ Len(message_que') = Len(message_que) - 1
      /\ DOMAIN message_que' = 1..(Len(message_que) - 1)
      /\ \A i \in 1..(Len(message_que) - 1) : message_que'[i] = message_que[i + 1]
      /\ m = message_que[1]
  <2>1. /\ Len(message_que) \in Nat \ {0} /\ DOMAIN message_que = 1..Len(message_que)
        /\ message_que' \in Seq(Message)
        /\ Len(message_que') = Len(message_que) - 1
        /\ \A i \in 1..Len(message_que') : message_que'[i] = message_que[i + 1]
        /\ m = message_que[1]
    BY <1>1, <1>3, <1>4, HeadTailProperties, LenProperties, EmptySeq
  <2>2. QED
    BY <2>1, LenProperties
<1>6. Len(log) \in Nat
  BY <1>3, LenProperties
<1>7. d \in Nat /\ d = Len(log) - Len(message_que) /\ Taken' = d + 1
  BY <1>2, <1>4, <1>5, <1>6 DEF OrderInv, TakenInOrder, Taken
<1>8. \A i \in 1..Len(message_que) : message_que[i] = log[d + i]
  BY <1>2, <1>5 DEF OrderInv, TakenInOrder
<1>9. \A i \in DOMAIN message_que' : message_que'[i] = log'[(d + 1) + i]
  <2> SUFFICES ASSUME NEW i \in 1..(Len(message_que) - 1)
               PROVE  message_que'[i] = log'[(d + 1) + i]
    BY <1>5
  <2>1. i + 1 \in 1..Len(message_que) /\ d + (i + 1) = (d + 1) + i
    BY <1>5, <1>7
  <2>2. message_que[i + 1] = log[d + (i + 1)]
    BY <1>8, <2>1
  <2>3. QED
    BY <1>4, <1>5, <2>1, <2>2
<1>10. \A i \in 1..(d + 1) : \/ runs'[log'[i]] > 0
                             \/ \E t \in Slave : Working(t)' /\ smsg'[t] = log'[i]
  <2>1. log[d + 1] = m
    BY <1>5, <1>8
  <2>2. \A i \in 1..d : \/ runs[log[i]] > 0
                        \/ \E t \in Slave : Working(t) /\ smsg[t] = log[i]
    BY <1>2 DEF OrderInv, TakenInOrder
  <2>3. \A i \in 1..(d + 1) : i \in 1..d \/ i = d + 1
    BY <1>7
  <2>4. \A i \in 1..d : \/ runs'[log'[i]] > 0
                        \/ \E t \in Slave : Working(t)' /\ smsg'[t] = log'[i]
    BY <1>4, <2>2
  <2>5. Working(s)' /\ smsg'[s] = log'[d + 1]
    BY <1>4, <2>1
  <2>6. QED
    BY <2>3, <2>4, <2>5
<1>11. TakenInOrder'
  BY <1>4, <1>7, <1>9, <1>10 DEF OrderInv, TakenInOrder, Distinct
<1>12. BoundedOvertaking'
  BY <1>4 DEF OrderInv, BoundedOvertaking
<1>13. QED
  BY <1>11, <1>12 DEF OrderInv

(* Messages that are all held by slaves other than s are fewer than slaves.   *)
LEMMA FewerThanSlaves ==
    ASSUME NEW s \in Slave, NEW U, IsFiniteSet(U), NEW f \in [U -> Slave \ {s}],
           \A i, k \in U : f[i] = f[k] => i = k
    PROVE  Cardinality(U) < SlaveAmount
<1>1. IsFiniteSet(Slave) /\ Cardinality(Slave) = SlaveAmount
  BY FS_Interval DEF Slave
<1>2. IsFiniteSet(Slave \ {s}) /\ Cardinality(Slave \ {s}) = SlaveAmount - 1
  BY <1>1, FS_RemoveElement
<1>3. Cardinality(U) \in Nat
  BY FS_CardinalityType
<1>4. ~ \E x, y \in U : x # y /\ f[x] = f[y]
  OBVIOUS
<1>5. ~(Cardinality(Slave \ {s}) < Cardinality(U))
  BY <1>2, <1>4, FS_PigeonHole
<1>6. QED
  BY <1>2, <1>3, <1>5

(* A message that finishes overtakes what the other slaves hold, no more.     *)
LEMMA FinishOrder ==
    ASSUME IInv, RunInv, OrderInv, NEW s \in Slave, FinishWork(s)
    PROVE  OrderInv'
<1>1. PICK m : m = smsg[s]
  OBVIOUS
<1>2. PICK d : d = Taken
  OBVIOUS
<1>3. /\ m \in Message
      /\ runs \in [Message -> Nat]
      /\ message_que \in Seq(Message) /\ log \in Seq(Message)
      /\ sstate \in [Slave -> SlaveStates]
      /\ smsg \in [Slave -> Message \cup {Null}]
  BY <1>1 DEF IInv, TypeOK, FinishWork
<1>4. /\ Working(s) /\ ~Working(s)'
      /\ \A t \in Slave : t # s => (Working(t)' <=> Working(t)) /\ smsg'[t] = smsg[t]
      /\ \A n \in Message : n # m => runs'[n] = runs[n]
      /\ runs'[m] = runs[m] + 1
      /\ UNCHANGED <<message_que, log>>
  BY <1>1, <1>3 DEF FinishWork, Working
<1>5. /\ Len(log) \in Nat /\ DOMAIN log = 1..Len(log)
      /\ \A i \in 1..Len(log) : log[i] \in Message
      /\ Len(message_que) \in Nat /\ DOMAIN message_que = 1..Len(message_que)
  BY <1>3, LenProperties
<1>6. d \in Nat /\ d = Len(log) - Len(message_que) /\ Taken' = d
  BY <1>2, <1>4, <1>5 DEF OrderInv, TakenInOrder, Taken
<1>7. runs'[m] > 0 /\ \A n \in Message : runs'[n] = 0 => runs[n] = 0 /\ n # m
  BY <1>3, <1>4
<1>8. \A i \in 1..d : \/ runs[log[i]] > 0
                      \/ \E t \in Slave : Working(t) /\ smsg[t] = log[i]
  BY <1>2 DEF OrderInv, TakenInOrder
<1>9. TakenInOrder'
  <2>1. ASSUME NEW i \in 1..d
        PROVE  \/ runs'[log'[i]] > 0
               \/ \E t \in Slave : Working(t)' /\ smsg'[t] = log'[i]
    <3>1. log[i] \in Message
      BY <1>5, <1>6
    <3>2. CASE log[i] = m
      BY <1>4, <1>7, <3>2
    <3>3. CASE log[i] # m
      BY <1>1, <1>4, <1>8, <3>1, <3>3
    <3>4. QED
      BY <3>2, <3>3
  <2>2. QED
    BY <1>2, <1>4, <1>6, <2>1 DEF OrderInv, TakenInOrder, Distinct
<1>10. BoundedOvertaking'
  <2> SUFFICES ASSUME NEW j \in 1..Len(log), runs'[log[j]] > 0
               PROVE  Cardinality({i \in 1..(j - 1) : runs'[log[i]] = 0}) < SlaveAmount
    BY <1>4, <1>5 DEF BoundedOvertaking
  <2> DEFINE U == {i \in 1..(j - 1) : runs'[log[i]] = 0}
             V == {i \in 1..(j - 1) : runs[log[i]] = 0}
  <2>1. IsFiniteSet(1..(j - 1))
    BY FS_Interval
  <2>2. IsFiniteSet(U) /\ IsFiniteSet(V)
    BY <2>1, FS_Subset
  <2>3. \A i \in 1..(j - 1) : i \in 1..Len(log) /\ log[i] \in Message
    BY <1>5
  <2>4. CASE log[j] # m
    <3>1. runs[log[j]] > 0
      BY <1>4, <1>5, <2>4
    <3>2. U \subseteq V
      BY <1>7, <2>3
    <3>3. Cardinality(V) < SlaveAmount
      BY <1>5, <3>1 DEF OrderInv, BoundedOvertaking
    <3>4. Cardinality(U) <= Cardinality(V) /\ Cardinality(U) \in Nat /\ Cardinality(V) \in Nat
      <4> HIDE DEF U, V
      <4>1. QED
        BY <2>2, <3>2, FS_Subset, FS_CardinalityType
    <3>5. QED
      BY <3>3, <3>4
  <2>5. CASE log[j] = m
    <3> DEFINE H(i) == CHOOSE t \in Slave : Working(t) /\ smsg[t] = log[i]
    <3>1. j <= d
      <4> SUFFICES ASSUME ~(j <= d) PROVE FALSE
        OBVIOUS
      <4>1. j - d \in 1..Len(message_que) /\ d + (j - d) = j
        BY SMTT(60), <1>5, <1>6
      <4>2. message_que[j - d] = log[d + (j - d)]
        BY <1>2, <1>5, <4>1 DEF OrderInv, TakenInOrder
      <4>3. m \in Elements(message_que)
        BY <1>5, <2>5, <4>1, <4>2 DEF Elements
      <4>4. QED
        BY <1>1, <1>4, <4>3 DEF RunInv, HeldUnrun
    <3>2. ASSUME NEW i \in U PROVE H(i) \in Slave \ {s} /\ smsg[H(i)] = log[i]
      <4>1. i \in 1..d /\ log[i] \in Message /\ runs[log[i]] = 0 /\ log[i] # m
        BY <1>6, <1>7, <2>3, <3>1
      <4>2. \E t \in Slave : Working(t) /\ smsg[t] = log[i]
        BY <1>8, <4>1
      <4>3. H(i) \in Slave /\ smsg[H(i)] = log[i]
        BY <4>2
      <4>4. QED
        BY <1>1, <4>1, <4>3
    <3>3. ASSUME NEW i \in U, NEW k \in U, H(i) = H(k) PROVE i = k
      <4>1. log[i] = log[k]
        BY <3>2, <3>3
      <4>2. i \in DOMAIN log /\ k \in DOMAIN log
        BY <1>5, <2>3
      <4>3. QED
        BY <4>1, <4>2 DEF OrderInv, TakenInOrder, Distinct
    <3> DEFINE f == [i \in U |-> H(i)]
    <3>4. f \in [U -> Slave \ {s}]
      BY <3>2
    <3>5. \A i, k \in U : f[i] = f[k] => i = k
      BY <3>3
    <3> HIDE DEF U, f
    <3>6. Cardinality(U) < SlaveAmount
      BY <2>2, <3>4, <3>5, FewerThanSlaves
    <3>7. QED
      BY <3>6 DEF U
  <2>6. QED
    BY <2>4, <2>5
<1>11. QED
  BY <1>9, <1>10 DEF OrderInv

(* Steps that leave the log, the queue and the slaves' work alone.            *)
LEMMA SameOrder ==
    ASSUME OrderInv, UNCHANGED <<message_que, log, smsg, runs>>,
           \A s \in Slave : Working(s)' <=> Working(s)
    PROVE  OrderInv'
  BY DEF OrderInv, TakenInOrder, Taken, BoundedOvertaking, Distinct

(* Case by case over the actions.                                             *)
LEMMA StepOrder == IInv /\ RunInv /\ OrderInv /\ [Next]_vars => OrderInv'
<1> SUFFICES ASSUME IInv, RunInv, OrderInv, [Next]_vars PROVE OrderInv'
  OBVIOUS
<1>1. sstate \in [Slave -> SlaveStates]
  BY DEF IInv, TypeOK
<1>2. ASSUME NEW m \in Message, NEW u \in User, UserAddTask(u, m) \/ UserPost(u, m)
      PROVE  OrderInv'
  BY <1>2, SameOrder DEF UserAddTask, UserPost, slaveVars, Working
<1>3. ASSUME NEW m \in Message, MasterLoadCount(m) PROVE OrderInv'
  BY <1>3, SameOrder DEF MasterLoadCount, slaveVars, Working
<1>4. ASSUME NEW p \in Poster, StoreCount(p) \/ ChooseSlave(p) \/ NotifySlave(p)
      PROVE  OrderInv'
  BY <1>4, SameOrder DEF StoreCount, ChooseSlave, NotifySlave, WriteByte, slaveVars, Working
<1>5. ASSUME NEW p \in Poster, PushMessage(p) PROVE OrderInv'
  BY <1>5, PushOrder
<1>6. ASSUME NEW s \in Slave, SlaveStart(s) \/ ReadByte(s) PROVE OrderInv'
  BY <1>1, <1>6, SameOrder DEF SlaveStart, ReadByte, Working
<1>7. ASSUME NEW s \in Slave, DetachMessage(s), message_que = <<>> PROVE OrderInv'
  BY <1>1, <1>7, SameOrder DEF DetachMessage, Working
<1>8. ASSUME NEW s \in Slave, DetachMessage(s) PROVE OrderInv'
  BY <1>7, <1>8, DetachOrder
<1>9. ASSUME NEW s \in Slave, FinishWork(s) PROVE OrderInv'
  BY <1>9, FinishOrder
<1>10. CASE UNCHANGED vars
  BY <1>10, SameOrder DEF vars, Working
<1>11. QED
  BY <1>2, <1>3, <1>4, <1>5, <1>6, <1>8, <1>9, <1>10 DEF Next, PostStep, SlaveStep, Done

(* A message is never finished before as many earlier ones as there are       *)
(* slaves: the default pool, of one slave, runs messages in order.            *)
THEOREM OvertakingBounded == SafeSpec => []BoundedOvertaking
<1>1. OrderInv => BoundedOvertaking
  BY DEF OrderInv
<1>2. QED
  BY InitRuns, StepRuns, InitOrder, StepOrder, PoolInvariant, <1>1, PTL DEF SafeSpec
-----------------------------------------------------------------------------
(* A slave that is not in work_func holds nothing: a worker of WorkPool that   *)
(* may take a message.                                                       *)
IdleHoldsNothing == \A s \in Slave : ~Working(s) => smsg[s] = Null

(* Only a detach gives a slave a message, and it goes to work with it.        *)
LEMMA StepIdle == IInv /\ IdleHoldsNothing /\ [Next]_vars => IdleHoldsNothing'
<1> SUFFICES ASSUME IInv, IdleHoldsNothing, [Next]_vars PROVE IdleHoldsNothing'
  OBVIOUS
<1>1. sstate \in [Slave -> SlaveStates] /\ smsg \in [Slave -> Message \cup {Null}]
  BY DEF IInv, TypeOK
<1>2. CASE UNCHANGED slaveVars
  BY <1>2 DEF slaveVars, IdleHoldsNothing, Working
<1>3. ASSUME NEW s \in Slave, SlaveStart(s) \/ ReadByte(s) PROVE IdleHoldsNothing'
  BY <1>1, <1>3 DEF SlaveStart, ReadByte, IdleHoldsNothing, Working
<1>4. ASSUME NEW s \in Slave, DetachMessage(s) PROVE IdleHoldsNothing'
  BY <1>1, <1>4 DEF DetachMessage, IdleHoldsNothing, Working
<1>5. ASSUME NEW s \in Slave, FinishWork(s) PROVE IdleHoldsNothing'
  BY <1>1, <1>5 DEF FinishWork, IdleHoldsNothing, Working
<1>6. ASSUME NEW p \in Poster, PostStep(p) PROVE UNCHANGED slaveVars
  BY <1>6 DEF PostStep, StoreCount, PushMessage, ChooseSlave, NotifySlave, WriteByte
<1>7. ASSUME NEW m \in Message,
             MasterLoadCount(m) \/ \E u \in User : UserAddTask(u, m) \/ UserPost(u, m)
      PROVE  UNCHANGED slaveVars
  BY <1>7 DEF MasterLoadCount, UserAddTask, UserPost
<1>8. CASE UNCHANGED vars
  BY <1>2, <1>8 DEF vars, slaveVars
<1>9. QED
  BY <1>2, <1>3, <1>4, <1>5, <1>6, <1>7, <1>8 DEF Next, SlaveStep, Done

RunMessages == {m \in Message : runs[m] > 0}

(* The push submits, the detach takes, the end of work_func finishes; all      *)
(* other steps are none of WorkPool's.                                        *)
LEMMA StepPool ==
    IInv /\ RunInv /\ IdleHoldsNothing /\ [Next]_vars
        => Pool!Next \/ UNCHANGED <<Posted, message_que, smsg, RunMessages>>
<1> SUFFICES ASSUME IInv, RunInv, IdleHoldsNothing, [Next]_vars
             PROVE  Pool!Next \/ UNCHANGED <<Posted, message_que, smsg, RunMessages>>
  OBVIOUS
<1>1. /\ message_que \in Seq(Message) /\ log \in Seq(Message)
      /\ smsg \in [Slave -> Message \cup {Null}] /\ runs \in [Message -> Nat]
  BY DEF IInv, TypeOK
<1>2. ASSUME UNCHANGED <<message_que, log, smsg, runs>>
      PROVE  UNCHANGED <<Posted, message_que, smsg, RunMessages>>
  BY <1>2 DEF Posted, RunMessages
<1>3. ASSUME NEW p \in Poster, PushMessage(p) PROVE Pool!Next
  <2>1. PICK m \in Message : m = pmsg[p] /\ m \notin Posted
    BY <1>3 DEF PushMessage, IInv, TypeOK, QueuedAtPush
  <2>2. /\ message_que' = Append(message_que, m) /\ log' = Append(log, m)
        /\ UNCHANGED <<smsg, runs>>
    BY <1>3, <2>1 DEF PushMessage, PushedBack, slaveVars
  <2>3. Posted' = Posted \cup {m}
    BY <1>1, <2>2, PostedAppend
  <2>4. Pool!Submit(m)
    BY <2>1, <2>2, <2>3 DEF Pool!Submit
  <2>5. QED
    BY <2>4 DEF Pool!Next
<1>4. ASSUME NEW s \in Slave, DetachMessage(s), message_que # <<>> PROVE Pool!Next
  <2>1. /\ smsg' = [smsg EXCEPT ![s] = Head(message_que)]
        /\ message_que' = Tail(message_que) /\ UNCHANGED <<log, runs>>
    BY <1>4 DEF DetachMessage, FrontDetached
  <2>2. smsg[s] = Null
    BY <1>4 DEF DetachMessage, IdleHoldsNothing, Working
  <2>3. UNCHANGED <<Posted, RunMessages>>
    BY <2>1 DEF Posted, RunMessages
  <2>4. Pool!Take(s)
    BY <1>4, <2>1, <2>2, <2>3 DEF Pool!Take, RunMessages
  <2>5. QED
    BY <2>4 DEF Pool!Next
<1>5. ASSUME NEW s \in Slave, FinishWork(s) PROVE Pool!Next
  <2>1. PICK m \in Message : m = smsg[s]
    BY <1>5 DEF FinishWork, IInv, TypeOK
  <2>2. /\ runs' = [runs EXCEPT ![m] = @ + 1] /\ smsg' = [smsg EXCEPT ![s] = Null]
        /\ UNCHANGED <<message_que, log>>
    BY <1>5, <2>1 DEF FinishWork
  <2>3. runs[m] = 0
    BY <1>5, <2>1 DEF FinishWork, RunInv, HeldUnrun, Working
  <2>4. \A n \in Message : runs'[n] > 0 <=> runs[n] > 0 \/ n = m
    BY <1>1, <2>2
  <2>5. RunMessages' = RunMessages \cup {m} /\ m \notin RunMessages
    BY <2>3, <2>4 DEF RunMessages
  <2>6. UNCHANGED Posted
    BY <2>2 DEF Posted
  <2>7. Pool!Finish(s)
    BY <2>1, <2>2, <2>5, <2>6 DEF Pool!Finish, RunMessages
  <2>8. QED
    BY <2>7 DEF Pool!Next
<1>6. ASSUME NEW m \in Message,
             MasterLoadCount(m) \/ \E u \in User : UserAddTask(u, m) \/ UserPost(u, m)
      PROVE  UNCHANGED <<message_que, log, smsg, runs>>
  BY <1>6 DEF MasterLoadCount, UserAddTask, UserPost, slaveVars
<1>7. ASSUME NEW p \in Poster, StoreCount(p) \/ ChooseSlave(p) \/ NotifySlave(p)
      PROVE  UNCHANGED <<message_que, log, smsg, runs>>
  BY <1>7 DEF StoreCount, ChooseSlave, NotifySlave, WriteByte, slaveVars
<1>8. ASSUME NEW s \in Slave, SlaveStart(s) \/ ReadByte(s) \/ DetachMessage(s),
             ~DetachMessage(s) \/ message_que = <<>>
      PROVE  UNCHANGED <<message_que, log, smsg, runs>>
  BY <1>8 DEF SlaveStart, ReadByte, DetachMessage
<1>9. CASE UNCHANGED vars
  BY <1>2, <1>9 DEF vars
<1>10. QED
  BY <1>2, <1>3, <1>4, <1>5, <1>6, <1>7, <1>8, <1>9 DEF Next, PostStep, SlaveStep, Done

(* The pool is a work pool, whatever the number of threads that post and of    *)
(* slaves: messages are taken in the order of their pushes, each by one slave *)
(* that holds nothing else, and finished at most once.                        *)
THEOREM PoolImplemented == SafeSpec => Pool!SafeSpec
<1>1. Init => Pool!Init
  BY DEF Init, Pool!Init, Posted
<1>2. Init => IdleHoldsNothing
  BY DEF Init, IdleHoldsNothing
<1>3. Pool!Next \/ UNCHANGED <<Posted, message_que, smsg, RunMessages>>
        => [Pool!Next]_(Pool!vars)
  BY DEF Pool!vars, RunMessages
<1>4. QED
  BY InitRuns, StepRuns, StepIdle, StepPool, PoolInvariant, <1>1, <1>2, <1>3, PTL
  DEF SafeSpec, Pool!SafeSpec
=============================================================================
