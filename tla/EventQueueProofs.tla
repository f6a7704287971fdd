-------------------------- MODULE EventQueueProofs --------------------------
(***************************************************************************)
(* Proofs about EventQueue for any objects, any number of requests and any *)
(* size of the command pipe; where it matters, for one calling thread.     *)
(***************************************************************************)
EXTENDS EventQueue, SequenceFacts, FiniteSetTheorems, TLAPS

USE EventQueueAssumption DEF EventQueueAssumption

(* All requests come from one thread.                                        *)
OneCaller == \A c, d \in Caller : c = d

CallStates == {"idle", "push", "write", "pushDestroy", "writeDestroy", "free"}
ToWrite == {"write", "writeDestroy"}

(* The threads that have pushed a request and not written its command.       *)
Writing == {c \in Caller : cstate[c] \in ToWrite}

(* A request pushed is in the queue until a command takes it.                *)
CountInv == Len(new_ev_que) = Len(command_pipe) + Cardinality(Writing)

(* What a thread in a call may rely on: the object is its own and lives, a   *)
(* timer to be reused was stopped, and one to be freed as well.              *)
CallSound(c) ==
    /\ creq[c] \in Request
    /\ mem[creq[c].obj] = "live"
    /\ cstate[c] = "push" /\ creq[c].op = "add" => last[creq[c].obj] # "add"
    /\ cstate[c] = "pushDestroy" => creq[c].op = "del"
    /\ cstate[c] \in {"writeDestroy", "free"} => last[creq[c].obj] = "del"
    /\ \A d \in Caller : d # c /\ cstate[d] # "idle" => creq[d].obj # creq[c].obj

CallsSound == \A c \in Caller : cstate[c] # "idle" => CallSound(c)

MemorySound ==
    \A o \in Obj : /\ mem[o] = "none" => last[o] = "none"
                   /\ mem[o] = "freed" => last[o] = "del"

CallInv == TypeOK /\ CountInv /\ CallsSound /\ MemorySound

(* A request and its command leave together.                                 *)
LEMMA OneLess ==
    ASSUME NEW n \in Nat, NEW m \in Nat, NEW k \in Nat, n = m + k
    PROVE  n - 1 = (m - 1) + k
  OBVIOUS

(* There are finitely many threads to count.                                 *)
LEMMA WritingFinite == IsFiniteSet(Writing) /\ Cardinality(Writing) \in Nat
<1>1. IsFiniteSet(Writing)
  BY FS_Subset DEF Writing
<1>2. QED
  BY <1>1, FS_CardinalityType

(* No call is under way at the start.                                        *)
LEMMA InitCall == Init => CallInv
<1> SUFFICES ASSUME Init PROVE CallInv
  OBVIOUS
<1>1. TypeOK
  BY DEF Init, TypeOK
<1>2. Writing = {}
  BY DEF Init, Writing, ToWrite
<1>3. CountInv
  BY <1>2, FS_EmptySet DEF Init, CountInv
<1>4. CallsSound /\ MemorySound
  BY DEF Init, CallsSound, MemorySound
<1>5. QED
  BY <1>1, <1>3, <1>4 DEF CallInv

(* A call begins for an object no other call is about.                       *)
LEMMA CallKeeps ==
    ASSUME CallInv, NEW c \in Caller, NEW o \in Obj, NEW op \in {"add", "del"},
           NEW next \in {"push", "pushDestroy"}, Call(c, o, op, next),
           mem' \in [Obj -> {"none", "live", "freed"}], mem'[o] = "live",
           \A p \in Obj : p # o => mem'[p] = mem[p],
           op = "add" => last[o] # "add",
           next = "pushDestroy" => op = "del",
           UNCHANGED <<master_inited, new_ev_que, command_pipe, last, added, posted,
                       fault, requests>>
    PROVE  CallInv'
<1>1. /\ cstate \in [Caller -> CallStates]
      /\ creq \in [Caller -> Request \cup {NoRequest}]
      /\ cstate[c] = "idle"
      /\ cstate' = [cstate EXCEPT ![c] = next]
      /\ creq' = [creq EXCEPT ![c] = [op |-> op, obj |-> o]]
      /\ \A d \in Caller : cstate[d] # "idle" => creq[d].obj # o
  BY DEF Call, InUse, CallInv, TypeOK, CallStates
<1>2. [op |-> op, obj |-> o] \in Request
  BY DEF Request
<1>3. TypeOK'
  BY <1>1, <1>2 DEF CallInv, TypeOK, CallStates
<1>4. Writing' = Writing
  BY <1>1 DEF Writing, ToWrite
<1>5. CountInv'
  BY <1>4 DEF CallInv, CountInv
<1>6. MemorySound'
  BY DEF CallInv, MemorySound
<1>7. CallSound(c)'
  <2>1. creq'[c] = [op |-> op, obj |-> o] /\ cstate'[c] = next
    BY <1>1
  <2>2. \A d \in Caller : d # c => cstate'[d] = cstate[d] /\ creq'[d] = creq[d]
    BY <1>1
  <2>3. creq'[c].obj = o /\ creq'[c].op = op
    BY <2>1
  <2>4. QED
    BY <1>1, <1>2, <2>1, <2>2, <2>3 DEF CallSound
<1>8. ASSUME NEW d \in Caller, d # c, cstate[d] # "idle" PROVE CallSound(d)'
  <2>1. CallSound(d) /\ creq[d].obj # o /\ creq[d] \in Request
    BY <1>1, <1>8 DEF CallInv, CallsSound, CallSound
  <2>2. creq[d].obj \in Obj
    BY <2>1 DEF Request
  <2>3. cstate'[d] = cstate[d] /\ creq'[d] = creq[d] /\ mem'[creq[d].obj] = mem[creq[d].obj]
    BY <1>1, <1>8, <2>1, <2>2
  <2>4. \A e \in Caller : e # d /\ cstate'[e] # "idle" => creq'[e].obj # creq'[d].obj
    BY <1>1, <2>1, <2>3 DEF CallSound
  <2>5. QED
    BY <2>1, <2>3, <2>4 DEF CallSound
<1>9. CallsSound'
  BY <1>1, <1>7, <1>8 DEF CallsSound
<1>10. QED
  BY <1>3, <1>5, <1>6, <1>9 DEF CallInv

(* A push adds a request and a thread that has its command to write.         *)
LEMMA PushKeeps ==
    ASSUME CallInv, NEW c \in Caller, PushRequest(c)
    PROVE  CallInv'
<1>1. PICK r \in Request : r = creq[c]
  BY DEF PushRequest, CallInv, CallsSound, CallSound
<1>2. PICK next : next = IF Destroying(c) THEN "writeDestroy" ELSE "write"
  OBVIOUS
<1>3. /\ cstate \in [Caller -> CallStates]
      /\ creq \in [Caller -> Request \cup {NoRequest}]
      /\ new_ev_que \in Seq(Request)
      /\ last \in [Obj -> {"none", "add", "del"}]
      /\ r.obj \in Obj /\ r.op \in {"add", "del"}
  BY <1>1 DEF CallInv, TypeOK, CallStates, Request
<1>4. /\ cstate[c] \in {"push", "pushDestroy"}
      /\ cstate' = [cstate EXCEPT ![c] = next]
      /\ next = IF cstate[c] = "pushDestroy" THEN "writeDestroy" ELSE "write"
      /\ new_ev_que' = Append(new_ev_que, r)
      /\ last' = [last EXCEPT ![r.obj] = r.op]
      /\ requests' = requests + 1
      /\ UNCHANGED <<master_inited, command_pipe, creq, mem, added, posted, fault>>
  BY <1>1, <1>2 DEF PushRequest, PushedBack, Destroying
<1>5. TypeOK'
  <2>1. new_ev_que' \in Seq(Request)
    BY <1>3, <1>4, AppendProperties
  <2>2. cstate' \in [Caller -> CallStates]
    BY <1>3, <1>4 DEF CallStates
  <2>3. last' \in [Obj -> {"none", "add", "del"}]
    BY <1>3, <1>4
  <2>4. UNCHANGED <<master_inited, command_pipe, creq, mem, added, posted, fault>>
    BY <1>4
  <2>5. requests \in Nat /\ requests' = requests + 1
    BY <1>4 DEF CallInv, TypeOK
  <2>6. requests' \in Nat
    BY <2>5
  <2>7. QED
    BY <2>1, <2>2, <2>3, <2>4, <2>6 DEF CallInv, TypeOK, CallStates
<1>6. CountInv'
  <2>1. Writing' = Writing \cup {c} /\ c \notin Writing
    BY <1>3, <1>4 DEF Writing, ToWrite
  <2>2. Cardinality(Writing') = Cardinality(Writing) + 1
    BY <2>1, WritingFinite, FS_AddElement
  <2>3. Len(new_ev_que') = Len(new_ev_que) + 1
    BY <1>1, <1>3, <1>4, AppendProperties
  <2>4. Len(command_pipe) \in Nat
    BY LenProperties DEF CallInv, TypeOK
  <2>5. QED
    BY <1>4, <2>2, <2>3, <2>4, WritingFinite DEF CallInv, CountInv
<1>7. mem[r.obj] = "live" /\ CallSound(c)
  BY <1>1, <1>4 DEF CallInv, CallsSound, CallSound
<1>8. MemorySound'
  BY <1>3, <1>4, <1>7 DEF CallInv, MemorySound
<1>9. CallSound(c)'
  <2>1. cstate'[c] = "writeDestroy" => last'[creq'[c].obj] = "del"
    BY <1>1, <1>3, <1>4, <1>7 DEF CallSound
  <2>2. cstate'[c] \in {"writeDestroy", "write"}
    BY <1>3, <1>4
  <2>3. \A d \in Caller : d # c /\ cstate'[d] # "idle" => creq'[d].obj # creq'[c].obj
    BY <1>3, <1>4, <1>7 DEF CallSound
  <2>4. QED
    BY <1>1, <1>4, <1>7, <2>1, <2>2, <2>3 DEF CallSound
<1>10. ASSUME NEW d \in Caller, d # c, cstate[d] # "idle" PROVE CallSound(d)'
  <2>1. CallSound(d) /\ creq[d].obj # r.obj
    BY <1>1, <1>4, <1>7, <1>10 DEF CallInv, CallsSound, CallSound
  <2>2. creq[d].obj \in Obj
    BY <2>1 DEF CallSound, Request
  <2>3. last'[creq[d].obj] = last[creq[d].obj]
    BY <1>3, <1>4, <2>1, <2>2
  <2>4. cstate'[d] = cstate[d]
    BY <1>3, <1>4, <1>10
  <2>5. \A e \in Caller : e # d /\ cstate'[e] # "idle" => creq'[e].obj # creq'[d].obj
    BY <1>3, <1>4, <2>1 DEF CallSound
  <2>6. QED
    BY <1>4, <2>1, <2>3, <2>4, <2>5 DEF CallSound
<1>11. CallsSound'
  BY <1>3, <1>4, <1>9, <1>10 DEF CallsSound
<1>12. QED
  BY <1>5, <1>6, <1>8, <1>11 DEF CallInv

(* A write adds the command that was due.                                    *)
LEMMA WriteKeeps ==
    ASSUME CallInv, NEW c \in Caller, WriteCommand(c)
    PROVE  CallInv'
<1>1. PICK next : next = IF Destroying(c) THEN "free" ELSE "idle"
  OBVIOUS
<1>2. PICK b : b = CommandFor(creq[c].op)
  OBVIOUS
<1>3. /\ cstate \in [Caller -> CallStates]
      /\ command_pipe \in Seq(Command)
      /\ b \in Command
  BY <1>2 DEF CallInv, TypeOK, CallStates, CommandFor, Command
<1>4. /\ cstate[c] \in ToWrite
      /\ cstate' = [cstate EXCEPT ![c] = next]
      /\ next = IF cstate[c] = "writeDestroy" THEN "free" ELSE "idle"
      /\ command_pipe' = Append(command_pipe, b)
      /\ UNCHANGED <<master_inited, new_ev_que, creq, mem, last, added, posted,
                     fault, requests>>
  BY <1>1, <1>2 DEF WriteCommand, Destroying, ToWrite
<1>5. TypeOK'
  BY <1>3, <1>4, AppendProperties DEF CallInv, TypeOK, CallStates
<1>6. CountInv'
  <2>1. Writing' = Writing \ {c} /\ c \in Writing
    BY <1>3, <1>4 DEF Writing, ToWrite
  <2>2. Cardinality(Writing') = Cardinality(Writing) - 1
    BY <2>1, WritingFinite, FS_RemoveElement
  <2>3. Len(command_pipe') = Len(command_pipe) + 1
    BY <1>3, <1>4, AppendProperties
  <2>4. Len(command_pipe) \in Nat
    BY <1>3, LenProperties
  <2>5. QED
    BY <1>4, <2>2, <2>3, <2>4, WritingFinite DEF CallInv, CountInv
<1>7. MemorySound'
  BY <1>4 DEF CallInv, MemorySound
<1>8. CallsSound'
  <2> SUFFICES ASSUME NEW d \in Caller, cstate'[d] # "idle" PROVE CallSound(d)'
    BY DEF CallsSound
  <2>1. cstate[d] # "idle" /\ CallSound(d)
    BY <1>3, <1>4 DEF CallInv, CallsSound, ToWrite
  <2>2. cstate'[d] = cstate[d] \/ (cstate'[d] = "free" /\ cstate[d] = "writeDestroy")
    BY <1>3, <1>4
  <2>3. \A e \in Caller : cstate'[e] # "idle" => cstate[e] # "idle"
    BY <1>3, <1>4 DEF ToWrite
  <2>4. QED
    BY <1>4, <2>1, <2>2, <2>3 DEF CallSound
<1>9. QED
  BY <1>5, <1>6, <1>7, <1>8 DEF CallInv

(* An object is freed with its last request a del.                           *)
LEMMA FreeKeeps ==
    ASSUME CallInv, NEW c \in Caller, FreeObject(c)
    PROVE  CallInv'
<1>1. PICK o : o = creq[c].obj
  OBVIOUS
<1>2. /\ cstate \in [Caller -> CallStates]
      /\ mem \in [Obj -> {"none", "live", "freed"}]
      /\ cstate[c] = "free"
      /\ cstate' = [cstate EXCEPT ![c] = "idle"]
      /\ mem' = [mem EXCEPT ![o] = "freed"]
      /\ UNCHANGED <<master_inited, new_ev_que, command_pipe, creq, last, added,
                     posted, fault, requests>>
  BY <1>1 DEF FreeObject, CallInv, TypeOK, CallStates
<1>3. CallSound(c) /\ o \in Obj /\ last[o] = "del"
  BY <1>1, <1>2 DEF CallInv, CallsSound, CallSound, Request
<1>4. TypeOK'
  BY <1>2, <1>3 DEF CallInv, TypeOK, CallStates
<1>5. Writing' = Writing
  BY <1>2 DEF Writing, ToWrite
<1>6. CountInv'
  BY <1>2, <1>5 DEF CallInv, CountInv
<1>7. MemorySound'
  BY <1>2, <1>3 DEF CallInv, MemorySound
<1>8. CallsSound'
  <2> SUFFICES ASSUME NEW d \in Caller, cstate'[d] # "idle" PROVE CallSound(d)'
    BY DEF CallsSound
  <2>1. d # c /\ cstate'[d] = cstate[d]
    BY <1>2
  <2>2. CallSound(d) /\ creq[d].obj # o
    BY <1>1, <1>2, <2>1 DEF CallInv, CallsSound, CallSound
  <2>3. mem'[creq[d].obj] = mem[creq[d].obj]
    BY <1>2, <2>2 DEF CallSound, Request
  <2>4. \A e \in Caller : cstate'[e] # "idle" => cstate[e] # "idle"
    BY <1>2
  <2>5. QED
    BY <1>2, <2>1, <2>2, <2>3, <2>4 DEF CallSound
<1>9. QED
  BY <1>4, <1>6, <1>7, <1>8 DEF CallInv

(* A command in the pipe has a request in the queue to go with it.           *)
LEMMA CommandHasRequest ==
    ASSUME CallInv, command_pipe # <<>>
    PROVE  /\ new_ev_que # <<>> /\ Head(new_ev_que) \in Request
           /\ Tail(new_ev_que) \in Seq(Request)
           /\ Tail(command_pipe) \in Seq(Command)
           /\ Len(Tail(new_ev_que)) = Len(new_ev_que) - 1
           /\ Len(Tail(command_pipe)) = Len(command_pipe) - 1
           /\ Len(new_ev_que) \in Nat /\ Len(command_pipe) \in Nat
<1>1. new_ev_que \in Seq(Request) /\ command_pipe \in Seq(Command)
  BY DEF CallInv, TypeOK
<1>2. /\ Len(command_pipe) \in Nat \ {0} /\ Len(new_ev_que) \in Nat
  BY <1>1, LenProperties, EmptySeq
<1>3. Len(new_ev_que) # 0
  BY <1>2, WritingFinite DEF CallInv, CountInv
<1>4. new_ev_que # <<>>
  BY <1>3
<1>5. QED
  BY <1>1, <1>2, <1>4, HeadTailProperties

(* The master takes one of each and leaves the calls alone.                  *)
LEMMA TakeKeeps ==
    ASSUME CallInv, TakeRequest, added' \subseteq Obj,
           fault' \in {"none", "mismatch", "assigned while added", "use after free"}
    PROVE  CallInv'
<1>1. /\ new_ev_que' = Tail(new_ev_que) /\ command_pipe' = Tail(command_pipe)
      /\ command_pipe # <<>>
      /\ UNCHANGED <<master_inited, cstate, creq, mem, last, posted, requests>>
  BY DEF TakeRequest
<1>2. TypeOK'
  BY <1>1, CommandHasRequest DEF CallInv, TypeOK
<1>3. Writing' = Writing
  BY <1>1 DEF Writing
<1>4. CountInv'
  <2>1. Len(new_ev_que') = Len(new_ev_que) - 1 /\ Len(command_pipe') = Len(command_pipe) - 1
    BY <1>1, CommandHasRequest
  <2>2. Len(new_ev_que) \in Nat /\ Len(command_pipe) \in Nat
    BY <1>1, CommandHasRequest
  <2>3. Cardinality(Writing)' = Cardinality(Writing)
    BY <1>3
  <2>4. Len(new_ev_que) = Len(command_pipe) + Cardinality(Writing)
    BY DEF CallInv, CountInv
  <2>5. Len(new_ev_que') = Len(command_pipe') + Cardinality(Writing)
    <3>1. Cardinality(Writing) \in Nat
      BY WritingFinite
    <3>2. Len(new_ev_que) - 1 = (Len(command_pipe) - 1) + Cardinality(Writing)
      BY <2>2, <2>4, <3>1, OneLess
    <3>3. QED
      BY <2>1, <3>2
  <2>6. QED
    BY <2>3, <2>5 DEF CountInv
<1>5. MemorySound' /\ CallsSound'
  BY <1>1 DEF CallInv, MemorySound, CallsSound, CallSound
<1>6. QED
  BY <1>2, <1>4, <1>5 DEF CallInv

(* Steps that touch neither the calls nor the queues.                        *)
LEMMA QuietKeeps ==
    ASSUME CallInv, TypeOK',
           UNCHANGED <<new_ev_que, command_pipe, cstate, creq, mem, last>>
    PROVE  CallInv'
  BY DEF CallInv, CountInv, Writing, MemorySound, CallsSound, CallSound

(* No step of any number of threads breaks a type or a call.                 *)
LEMMA StepCall == CallInv /\ [Next]_vars => CallInv'
<1> SUFFICES ASSUME CallInv, [Next]_vars PROVE CallInv'
  OBVIOUS
<1>0. TypeOK /\ MemorySound
  BY DEF CallInv
<1>1. ASSUME NEW c \in Caller, NEW o \in Obj, Create(c, o) PROVE CallInv'
  <2>1. last[o] # "add"
    BY <1>0, <1>1 DEF Create, MemorySound
  <2>2. QED
    BY <1>0, <1>1, <2>1, CallKeeps DEF Create, TypeOK
<1>2. ASSUME NEW c \in Caller, NEW o \in Obj, Reuse(c, o) \/ Stop(c, o) \/ Destroy(c, o)
      PROVE  CallInv'
  BY <1>0, <1>2, CallKeeps DEF Reuse, Stop, Destroy, TypeOK
<1>3. ASSUME NEW c \in Caller, CallerStep(c) PROVE CallInv'
  BY <1>3, PushKeeps, WriteKeeps, FreeKeeps DEF CallerStep
<1>4. CASE MasterStart
  BY <1>0, <1>4, QuietKeeps DEF MasterStart, TypeOK
<1>5. ASSUME MasterAdd \/ MasterDel PROVE CallInv'
  <2>1. TakeRequest
    BY <1>5 DEF MasterAdd, MasterDel
  <2>2. Head(new_ev_que).obj \in Obj
    BY <2>1, CommandHasRequest DEF TakeRequest, Request
  <2>3. added' \subseteq Obj
    BY <1>0, <1>5, <2>2 DEF MasterAdd, MasterDel, EventAdd, EventDel, TypeOK
  <2>4. fault' \in {"none", "mismatch", "assigned while added", "use after free"}
    BY <1>5 DEF MasterAdd, MasterDel
  <2>5. QED
    BY <2>1, <2>3, <2>4, TakeKeeps
<1>6. ASSUME NEW o \in Obj, Fire(o) PROVE CallInv'
  BY <1>0, <1>6, QuietKeeps, AppendProperties DEF Fire, TypeOK
<1>7. CASE RunCallback
  BY <1>0, <1>7, QuietKeeps, HeadTailProperties DEF RunCallback, TypeOK
<1>8. CASE UNCHANGED vars
  BY <1>0, <1>8, QuietKeeps DEF vars, TypeOK
<1>9. QED
  BY <1>1, <1>2, <1>3, <1>4, <1>5, <1>6, <1>7, <1>8 DEF Next, MasterStep, Done

(* Whatever threads call, the variables keep their types: the master never    *)
(* takes a request from an empty queue.                                       *)
THEOREM EventTypes == SafeSpec => []TypeOK
<1>1. CallInv => TypeOK
  BY DEF CallInv
<1>2. QED
  BY InitCall, StepCall, <1>1, PTL DEF SafeSpec
-----------------------------------------------------------------------------
(* A request for o at a place of the queue.                                  *)
At(i, op, o) == i \in DOMAIN new_ev_que /\ new_ev_que[i].op = op /\ new_ev_que[i].obj = o

(* Between two adds of one event a del is queued, and before the first if the *)
(* event is in the base; after a del the last request queued is no add.       *)
Alternating ==
    \A o \in Obj : \A i, k \in Nat :
        i < k /\ At(i, "add", o) /\ At(k, "add", o) =>
            \E j \in Nat : i < j /\ j < k /\ At(j, "del", o)

AddedOnce ==
    \A o \in added : \A k \in Nat : At(k, "add", o) => \E j \in Nat : j < k /\ At(j, "del", o)

StopQueued ==
    \A o \in Obj : last[o] = "del" =>
        /\ \A k \in Nat : At(k, "add", o) => \E j \in Nat : k < j /\ At(j, "del", o)
        /\ o \in added => \E j \in Nat : At(j, "del", o)

(* An event asked for and not yet stopped is in the base or on its way, and   *)
(* one never asked for is neither.                                            *)
StartKept ==
    \A o \in Persistent : last[o] = "add" =>
        \/ o \in added /\ \A j \in Nat : ~At(j, "del", o)
        \/ \E k \in Nat : At(k, "add", o) /\ \A j \in Nat : k < j => ~At(j, "del", o)

NeverAsked ==
    \A o \in Obj : last[o] = "none" =>
        /\ o \notin added
        /\ \A i \in Nat : ~At(i, "add", o) /\ ~At(i, "del", o)

RequestInv == Alternating /\ AddedOnce /\ StopQueued /\ StartKept /\ NeverAsked

(* Nothing is asked at the start.                                            *)
LEMMA InitRequests == Init => RequestInv
  BY DEF Init, RequestInv, Alternating, AddedOnce, StopQueued, StartKept, NeverAsked, At

(* A push puts its request behind all others.                                 *)
LEMMA PushAt ==
    ASSUME CallInv, NEW r \in Request, new_ev_que' = Append(new_ev_que, r)
    PROVE  \E n \in Nat :
              /\ \A i \in Nat : \A op, o : At(i, op, o) => i < n
              /\ \A i \in Nat : \A op, o :
                    At(i, op, o)' <=> At(i, op, o) \/ (i = n /\ op = r.op /\ o = r.obj)
<1>1. new_ev_que \in Seq(Request)
  BY DEF CallInv, TypeOK
<1>2. PICK n \in Nat : n = Len(new_ev_que) + 1
  BY <1>1, LenProperties
<1>3. /\ Len(new_ev_que) \in Nat /\ DOMAIN new_ev_que = 1..Len(new_ev_que)
      /\ DOMAIN new_ev_que' = 1..(Len(new_ev_que) + 1)
      /\ \A i \in 1..Len(new_ev_que) : new_ev_que'[i] = new_ev_que[i]
      /\ new_ev_que'[n] = r
  BY <1>1, <1>2, AppendProperties, LenProperties
<1>4. /\ \A i \in Nat : i \in DOMAIN new_ev_que => i < n
      /\ \A i \in Nat : i \in DOMAIN new_ev_que' <=> i \in DOMAIN new_ev_que \/ i = n
      /\ \A i \in DOMAIN new_ev_que : new_ev_que'[i] = new_ev_que[i]
      /\ n \notin DOMAIN new_ev_que
  BY <1>2, <1>3
<1>5. \A i \in Nat : \A op, o : At(i, op, o) => i < n
  BY <1>4 DEF At
<1>6. \A i \in Nat : \A op, o :
          At(i, op, o)' <=> At(i, op, o) \/ (i = n /\ op = r.op /\ o = r.obj)
  BY <1>3, <1>4 DEF At
<1>7. QED
  BY <1>5, <1>6

(* The master takes the first request, and the others move up.                *)
LEMMA TakeAt ==
    ASSUME CallInv, TakeRequest
    PROVE  /\ \A op, o : At(1, op, o) <=> Head(new_ev_que).op = op /\ Head(new_ev_que).obj = o
           /\ \A i \in Nat : \A op, o : At(i, op, o)' <=> i > 0 /\ At(i + 1, op, o)
           /\ \A op, o : ~At(0, op, o)
<1>1. /\ new_ev_que \in Seq(Request) /\ new_ev_que # <<>>
      /\ new_ev_que' = Tail(new_ev_que)
  BY CommandHasRequest DEF TakeRequest, CallInv, TypeOK
<1>2. /\ Len(new_ev_que) \in Nat \ {0} /\ DOMAIN new_ev_que = 1..Len(new_ev_que)
      /\ new_ev_que' \in Seq(Request)
      /\ Len(new_ev_que') = Len(new_ev_que) - 1
      /\ \A i \in 1..Len(new_ev_que') : new_ev_que'[i] = new_ev_que[i + 1]
      /\ Head(new_ev_que) = new_ev_que[1]
  BY <1>1, HeadTailProperties, LenProperties, EmptySeq
<1>3. DOMAIN new_ev_que' = 1..(Len(new_ev_que) - 1)
  BY <1>2, LenProperties
<1>4. /\ \A i \in Nat : i \in DOMAIN new_ev_que' <=> i > 0 /\ i + 1 \in DOMAIN new_ev_que
      /\ \A i \in DOMAIN new_ev_que' : new_ev_que'[i] = new_ev_que[i + 1]
      /\ 1 \in DOMAIN new_ev_que /\ 0 \notin DOMAIN new_ev_que
  BY <1>2, <1>3
<1>5. QED
  BY <1>2, <1>4 DEF At

(* An add is pushed only for an event whose last request was no add.          *)
LEMMA PushAddKeeps ==
    ASSUME CallInv, RequestInv, NEW c \in Caller, PushRequest(c), creq[c].op = "add"
    PROVE  RequestInv'
<1>1. PICK r \in Request : r = creq[c]
  BY DEF PushRequest, CallInv, CallsSound, CallSound
<1>2. PICK n \in Nat :
          /\ \A i \in Nat : \A op, o : At(i, op, o) => i < n
          /\ \A i \in Nat : \A op, o :
                At(i, op, o)' <=> At(i, op, o) \/ (i = n /\ op = r.op /\ o = r.obj)
  BY <1>1, PushAt DEF PushRequest, PushedBack
<1>3. r.op = "add" /\ r.obj \in Obj /\ last[r.obj] # "add" /\ last[r.obj] \in {"none", "del"}
  BY <1>1 DEF PushRequest, CallInv, CallsSound, CallSound, TypeOK, Request
<1>4. /\ last'[r.obj] = "add" /\ \A o \in Obj : o # r.obj => last'[o] = last[o]
      /\ added' = added
  BY <1>1, <1>3 DEF PushRequest, CallInv, TypeOK
<1>5. \A i \in Nat : \A o : At(i, "del", o)' <=> At(i, "del", o)
  BY <1>2, <1>3
<1>6. \A i \in Nat : \A o : At(i, "add", o)' <=> At(i, "add", o) \/ (i = n /\ o = r.obj)
  BY <1>2, <1>3
<1>7. \A i \in Nat : \A o : /\ At(i, "add", o) => i < n
                            /\ At(i, "del", o) => i < n
  BY <1>2
<1> HIDE DEF At
<1>8. Alternating'
  <2> SUFFICES ASSUME NEW o \in Obj, NEW i \in Nat, NEW k \in Nat, i < k,
                      At(i, "add", o)', At(k, "add", o)'
               PROVE  \E j \in Nat : i < j /\ j < k /\ At(j, "del", o)'
    BY DEF Alternating
  <2>1. CASE At(k, "add", o)
    <3>1. At(i, "add", o)
      BY <1>6, <1>7, <2>1
    <3>2. QED
      BY <1>5, <2>1, <3>1 DEF RequestInv, Alternating
  <2>2. CASE k = n /\ o = r.obj
    <3>1. At(i, "add", o)
      BY <1>6, <2>2
    <3>2. last[o] = "del"
      BY <1>3, <2>2, <3>1 DEF RequestInv, NeverAsked
    <3>3. PICK j \in Nat : i < j /\ At(j, "del", o)
      BY <3>1, <3>2 DEF RequestInv, StopQueued
    <3>4. QED
      BY <1>5, <1>7, <2>2, <3>3
  <2>3. QED
    BY <1>6, <2>1, <2>2
<1>9. AddedOnce'
  <2> SUFFICES ASSUME NEW o \in added, NEW k \in Nat, At(k, "add", o)'
               PROVE  \E j \in Nat : j < k /\ At(j, "del", o)'
    BY <1>4 DEF AddedOnce
  <2>1. CASE At(k, "add", o)
    BY <1>5, <2>1 DEF RequestInv, AddedOnce
  <2>2. CASE k = n /\ o = r.obj
    <3>1. last[o] = "del"
      BY <1>3, <2>2 DEF RequestInv, NeverAsked
    <3>2. PICK j \in Nat : At(j, "del", o)
      BY <1>3, <2>2, <3>1 DEF RequestInv, StopQueued
    <3>3. QED
      BY <1>5, <1>7, <2>2, <3>2
  <2>3. QED
    BY <1>6, <2>1, <2>2
<1>10. StopQueued'
  BY <1>4, <1>5, <1>6 DEF RequestInv, StopQueued
<1>11. StartKept'
  <2> SUFFICES ASSUME NEW o \in Persistent, last'[o] = "add"
               PROVE  \/ o \in added /\ \A j \in Nat : ~At(j, "del", o)'
                      \/ \E k \in Nat : /\ At(k, "add", o)'
                                        /\ \A j \in Nat : k < j => ~At(j, "del", o)'
    BY <1>4 DEF StartKept
  <2>1. CASE o = r.obj
    <3>1. At(n, "add", o)' /\ \A j \in Nat : n < j => ~At(j, "del", o)'
      BY <1>5, <1>6, <1>7, <2>1
    <3>2. QED
      BY <3>1
  <2>2. CASE o # r.obj
    BY <1>4, <1>5, <1>6, <2>2 DEF RequestInv, StartKept
  <2>3. QED
    BY <2>1, <2>2
<1>12. NeverAsked'
  BY <1>4, <1>5, <1>6 DEF RequestInv, NeverAsked
<1>13. QED
  BY <1>8, <1>9, <1>10, <1>11, <1>12 DEF RequestInv

(* A del is pushed behind all adds of its event.                              *)
LEMMA PushDelKeeps ==
    ASSUME CallInv, RequestInv, NEW c \in Caller, PushRequest(c), creq[c].op = "del"
    PROVE  RequestInv'
<1>1. PICK r \in Request : r = creq[c]
  BY DEF PushRequest, CallInv, CallsSound, CallSound
<1>2. PICK n \in Nat :
          /\ \A i \in Nat : \A op, o : At(i, op, o) => i < n
          /\ \A i \in Nat : \A op, o :
                At(i, op, o)' <=> At(i, op, o) \/ (i = n /\ op = r.op /\ o = r.obj)
  BY <1>1, PushAt DEF PushRequest, PushedBack
<1>3. r.op = "del" /\ r.obj \in Obj
  BY <1>1 DEF Request
<1>4. /\ last'[r.obj] = "del" /\ \A o \in Obj : o # r.obj => last'[o] = last[o]
      /\ added' = added
  BY <1>1, <1>3 DEF PushRequest, CallInv, TypeOK
<1>5. \A i \in Nat : \A o : At(i, "add", o)' <=> At(i, "add", o)
  BY <1>2, <1>3
<1>6. \A i \in Nat : \A o : At(i, "del", o)' <=> At(i, "del", o) \/ (i = n /\ o = r.obj)
  BY <1>2, <1>3
<1>7. \A i \in Nat : \A o : At(i, "add", o) => i < n
  BY <1>2
<1> HIDE DEF At
<1>8. Alternating'
  BY <1>5, <1>6 DEF RequestInv, Alternating
<1>9. AddedOnce'
  BY <1>4, <1>5, <1>6 DEF RequestInv, AddedOnce
<1>10. StopQueued'
  <2> SUFFICES ASSUME NEW o \in Obj, last'[o] = "del"
               PROVE  /\ \A k \in Nat : At(k, "add", o)' =>
                             \E j \in Nat : k < j /\ At(j, "del", o)'
                      /\ o \in added => \E j \in Nat : At(j, "del", o)'
    BY <1>4 DEF StopQueued
  <2>1. CASE o = r.obj
    BY <1>5, <1>6, <1>7, <2>1
  <2>2. CASE o # r.obj
    BY <1>4, <1>5, <1>6, <2>2 DEF RequestInv, StopQueued
  <2>3. QED
    BY <2>1, <2>2
<1>11. StartKept'
  <2> SUFFICES ASSUME NEW o \in Persistent, last'[o] = "add"
               PROVE  \/ o \in added /\ \A j \in Nat : ~At(j, "del", o)'
                      \/ \E k \in Nat : /\ At(k, "add", o)'
                                        /\ \A j \in Nat : k < j => ~At(j, "del", o)'
    BY <1>4 DEF StartKept
  <2>1. o # r.obj /\ last[o] = "add"
    BY <1>4
  <2>2. QED
    BY <1>5, <1>6, <2>1 DEF RequestInv, StartKept
<1>12. NeverAsked'
  BY <1>4, <1>5, <1>6 DEF RequestInv, NeverAsked
<1>13. QED
  BY <1>8, <1>9, <1>10, <1>11, <1>12 DEF RequestInv

(* An add is applied: its event was not in the base, and no other add of it   *)
(* follows before a del.                                                      *)
LEMMA ApplyAddKeeps ==
    ASSUME CallInv, RequestInv, TakeRequest, NEW r \in Request, r = Head(new_ev_que),
           r.op = "add", added' = EventAdd(added, r.obj)
    PROVE  RequestInv' /\ r.obj \notin added
<1>1. /\ \A o : At(1, "add", o) <=> o = r.obj
      /\ \A o : ~At(1, "del", o) /\ ~At(0, "add", o) /\ ~At(0, "del", o)
  BY TakeAt
<1>2. /\ \A i \in Nat : \A o : At(i, "add", o)' <=> i > 0 /\ At(i + 1, "add", o)
      /\ \A i \in Nat : \A o : At(i, "del", o)' <=> i > 0 /\ At(i + 1, "del", o)
  BY TakeAt
<1>3. last' = last /\ added' = added \cup {r.obj} /\ r.obj \in Obj
  BY DEF TakeRequest, EventAdd, Request
<1> HIDE DEF At
<1>4. \A j \in Nat : \A o : At(j, "del", o) => \E i \in Nat : i + 1 = j /\ i > 0 /\ At(i, "del", o)'
  <2> SUFFICES ASSUME NEW j \in Nat, NEW o, At(j, "del", o)
               PROVE  \E i \in Nat : i + 1 = j /\ i > 0 /\ At(i, "del", o)'
    OBVIOUS
  <2>1. j # 0 /\ j # 1
    BY <1>1
  <2>2. j - 1 \in Nat /\ (j - 1) + 1 = j /\ j - 1 > 0
    BY <2>1
  <2>3. QED
    BY <1>2, <2>2
<1>5. r.obj \notin added
  BY <1>1 DEF RequestInv, AddedOnce
<1>6. Alternating'
  <2> SUFFICES ASSUME NEW o \in Obj, NEW i \in Nat, NEW k \in Nat, i < k,
                      At(i, "add", o)', At(k, "add", o)'
               PROVE  \E j \in Nat : i < j /\ j < k /\ At(j, "del", o)'
    BY DEF Alternating
  <2>1. i + 1 \in Nat /\ k + 1 \in Nat /\ i + 1 < k + 1
    OBVIOUS
  <2>2. PICK m \in Nat : i + 1 < m /\ m < k + 1 /\ At(m, "del", o)
    BY <1>2, <2>1 DEF RequestInv, Alternating
  <2>3. PICK j \in Nat : j + 1 = m /\ At(j, "del", o)'
    BY <1>4, <2>2
  <2>4. i < j /\ j < k
    BY <2>2, <2>3
  <2>5. QED
    BY <2>3, <2>4
<1>7. AddedOnce'
  <2> SUFFICES ASSUME NEW o \in added', NEW k \in Nat, At(k, "add", o)'
               PROVE  \E j \in Nat : j < k /\ At(j, "del", o)'
    BY DEF AddedOnce
  <2>1. k + 1 \in Nat /\ At(k + 1, "add", o) /\ 1 < k + 1
    BY <1>2
  <2>2. \E m \in Nat : m < k + 1 /\ At(m, "del", o)
    <3>1. CASE o \in added
      BY <2>1, <3>1 DEF RequestInv, AddedOnce
    <3>2. CASE o = r.obj
      BY <1>1, <1>3, <2>1, <3>2 DEF RequestInv, Alternating
    <3>3. QED
      BY <1>3, <3>1, <3>2
  <2>3. PICK m \in Nat : m < k + 1 /\ At(m, "del", o)
    BY <2>2
  <2>4. PICK j \in Nat : j + 1 = m /\ At(j, "del", o)'
    BY <1>4, <2>3
  <2>5. QED
    BY <2>3, <2>4
<1>8. StopQueued'
  <2> SUFFICES ASSUME NEW o \in Obj, last[o] = "del"
               PROVE  /\ \A k \in Nat : At(k, "add", o)' =>
                             \E j \in Nat : k < j /\ At(j, "del", o)'
                      /\ o \in added' => \E j \in Nat : At(j, "del", o)'
    BY <1>3 DEF StopQueued
  <2>1. ASSUME NEW k \in Nat, At(k, "add", o)' PROVE \E j \in Nat : k < j /\ At(j, "del", o)'
    <3>1. PICK m \in Nat : k + 1 < m /\ At(m, "del", o)
      BY <1>2, <2>1 DEF RequestInv, StopQueued
    <3>2. PICK j \in Nat : j + 1 = m /\ At(j, "del", o)'
      BY <1>4, <3>1
    <3>3. QED
      BY <3>1, <3>2
  <2>2. ASSUME o \in added' PROVE \E j \in Nat : At(j, "del", o)'
    <3>1. \E m \in Nat : At(m, "del", o)
      BY <1>1, <1>3, <2>2 DEF RequestInv, StopQueued
    <3>2. QED
      BY <1>4, <3>1
  <2>3. QED
    BY <2>1, <2>2
<1>9. StartKept'
  <2> SUFFICES ASSUME NEW o \in Persistent, last[o] = "add"
               PROVE  \/ o \in added' /\ \A j \in Nat : ~At(j, "del", o)'
                      \/ \E k \in Nat : /\ At(k, "add", o)'
                                        /\ \A j \in Nat : k < j => ~At(j, "del", o)'
    BY <1>3 DEF StartKept
  <2>1. CASE o \in added /\ \A j \in Nat : ~At(j, "del", o)
    BY <1>2, <1>3, <2>1
  <2>2. ASSUME NEW k \in Nat, At(k, "add", o), \A j \in Nat : k < j => ~At(j, "del", o), k = 1
        PROVE  o \in added' /\ \A j \in Nat : ~At(j, "del", o)'
    BY <1>1, <1>2, <1>3, <2>2
  <2>3. ASSUME NEW k \in Nat, At(k, "add", o), \A j \in Nat : k < j => ~At(j, "del", o), k # 1
        PROVE  \E i \in Nat : /\ At(i, "add", o)'
                              /\ \A j \in Nat : i < j => ~At(j, "del", o)'
    <3>1. k # 0
      BY <1>1, <2>3
    <3>2. k - 1 \in Nat /\ (k - 1) + 1 = k /\ k - 1 > 0
      BY <2>3, <3>1
    <3>3. At(k - 1, "add", o)'
      BY <1>2, <2>3, <3>2
    <3>4. \A j \in Nat : k - 1 < j => ~At(j, "del", o)'
      BY <1>2, <2>3, <3>2
    <3>5. QED
      BY <3>2, <3>3, <3>4
  <2>4. QED
    BY <2>1, <2>2, <2>3 DEF RequestInv, StartKept
<1>10. NeverAsked'
  <2> SUFFICES ASSUME NEW o \in Obj, last[o] = "none"
               PROVE  /\ o \notin added'
                      /\ \A i \in Nat : ~At(i, "add", o)' /\ ~At(i, "del", o)'
    BY <1>3 DEF NeverAsked
  <2>1. /\ o \notin added
        /\ \A i \in Nat : ~At(i, "add", o) /\ ~At(i, "del", o)
    BY DEF RequestInv, NeverAsked
  <2>2. QED
    BY <1>1, <1>2, <1>3, <2>1
<1>11. QED
  BY <1>5, <1>6, <1>7, <1>8, <1>9, <1>10 DEF RequestInv

(* A del is applied: its event leaves the base.                               *)
LEMMA ApplyDelKeeps ==
    ASSUME CallInv, RequestInv, TakeRequest, NEW r \in Request, r = Head(new_ev_que),
           r.op = "del", added' = EventDel(added, r.obj)
    PROVE  RequestInv'
<1>1. /\ \A o : At(1, "del", o) <=> o = r.obj
      /\ \A o : ~At(1, "add", o) /\ ~At(0, "add", o) /\ ~At(0, "del", o)
  BY TakeAt
<1>2. /\ \A i \in Nat : \A o : At(i, "add", o)' <=> i > 0 /\ At(i + 1, "add", o)
      /\ \A i \in Nat : \A o : At(i, "del", o)' <=> i > 0 /\ At(i + 1, "del", o)
  BY TakeAt
<1>3. last' = last /\ added' = added \ {r.obj} /\ r.obj \in Obj
  BY DEF TakeRequest, EventDel, Request
<1> HIDE DEF At
<1>4. \A j \in Nat : \A o : At(j, "del", o) /\ (j > 1 \/ o # r.obj) =>
          \E i \in Nat : i + 1 = j /\ i > 0 /\ At(i, "del", o)'
  <2> SUFFICES ASSUME NEW j \in Nat, NEW o, At(j, "del", o), j > 1 \/ o # r.obj
               PROVE  \E i \in Nat : i + 1 = j /\ i > 0 /\ At(i, "del", o)'
    OBVIOUS
  <2>1. j # 0 /\ j # 1
    BY <1>1
  <2>2. j - 1 \in Nat /\ (j - 1) + 1 = j /\ j - 1 > 0
    BY <2>1
  <2>3. QED
    BY <1>2, <2>2
<1>5. Alternating'
  <2> SUFFICES ASSUME NEW o \in Obj, NEW i \in Nat, NEW k \in Nat, i < k,
                      At(i, "add", o)', At(k, "add", o)'
               PROVE  \E j \in Nat : i < j /\ j < k /\ At(j, "del", o)'
    BY DEF Alternating
  <2>1. i + 1 \in Nat /\ k + 1 \in Nat /\ i + 1 < k + 1
    OBVIOUS
  <2>2. PICK m \in Nat : i + 1 < m /\ m < k + 1 /\ At(m, "del", o)
    BY <1>2, <2>1 DEF RequestInv, Alternating
  <2>3. PICK j \in Nat : j + 1 = m /\ At(j, "del", o)'
    BY <1>4, <2>2
  <2>4. i < j /\ j < k
    BY <2>2, <2>3
  <2>5. QED
    BY <2>3, <2>4
<1>6. AddedOnce'
  <2> SUFFICES ASSUME NEW o \in added, o # r.obj, NEW k \in Nat, At(k, "add", o)'
               PROVE  \E j \in Nat : j < k /\ At(j, "del", o)'
    BY <1>3 DEF AddedOnce
  <2>1. PICK m \in Nat : m < k + 1 /\ At(m, "del", o)
    BY <1>2 DEF RequestInv, AddedOnce
  <2>2. PICK j \in Nat : j + 1 = m /\ At(j, "del", o)'
    BY <1>4, <2>1
  <2>3. QED
    BY <2>1, <2>2
<1>7. StopQueued'
  <2> SUFFICES ASSUME NEW o \in Obj, last[o] = "del"
               PROVE  /\ \A k \in Nat : At(k, "add", o)' =>
                             \E j \in Nat : k < j /\ At(j, "del", o)'
                      /\ o \in added' => \E j \in Nat : At(j, "del", o)'
    BY <1>3 DEF StopQueued
  <2>1. ASSUME NEW k \in Nat, At(k, "add", o)' PROVE \E j \in Nat : k < j /\ At(j, "del", o)'
    <3>1. PICK m \in Nat : k + 1 < m /\ At(m, "del", o)
      BY <1>2, <2>1 DEF RequestInv, StopQueued
    <3>2. PICK j \in Nat : j + 1 = m /\ At(j, "del", o)'
      BY <1>4, <3>1
    <3>3. QED
      BY <3>1, <3>2
  <2>2. ASSUME o \in added' PROVE \E j \in Nat : At(j, "del", o)'
    <3>1. o # r.obj /\ \E m \in Nat : At(m, "del", o)
      BY <1>3, <2>2 DEF RequestInv, StopQueued
    <3>2. QED
      BY <1>4, <3>1
  <2>3. QED
    BY <2>1, <2>2
<1>8. StartKept'
  <2> SUFFICES ASSUME NEW o \in Persistent, last[o] = "add"
               PROVE  \/ o \in added' /\ \A j \in Nat : ~At(j, "del", o)'
                      \/ \E k \in Nat : /\ At(k, "add", o)'
                                        /\ \A j \in Nat : k < j => ~At(j, "del", o)'
    BY <1>3 DEF StartKept
  <2>1. CASE o \in added /\ \A j \in Nat : ~At(j, "del", o)
    BY <1>1, <1>2, <1>3, <2>1
  <2>2. ASSUME NEW k \in Nat, At(k, "add", o), \A j \in Nat : k < j => ~At(j, "del", o)
        PROVE  \E i \in Nat : /\ At(i, "add", o)'
                              /\ \A j \in Nat : i < j => ~At(j, "del", o)'
    <3>1. k # 0 /\ k # 1
      BY <1>1, <2>2
    <3>2. k - 1 \in Nat /\ (k - 1) + 1 = k /\ k - 1 > 0
      BY <3>1
    <3>3. At(k - 1, "add", o)'
      BY <1>2, <2>2, <3>2
    <3>4. \A j \in Nat : k - 1 < j => ~At(j, "del", o)'
      BY <1>2, <2>2, <3>2
    <3>5. QED
      BY <3>2, <3>3, <3>4
  <2>3. QED
    BY <2>1, <2>2 DEF RequestInv, StartKept
<1>9. NeverAsked'
  <2> SUFFICES ASSUME NEW o \in Obj, last[o] = "none"
               PROVE  /\ o \notin added'
                      /\ \A i \in Nat : ~At(i, "add", o)' /\ ~At(i, "del", o)'
    BY <1>3 DEF NeverAsked
  <2>1. /\ o \notin added
        /\ \A i \in Nat : ~At(i, "add", o) /\ ~At(i, "del", o)
    BY DEF RequestInv, NeverAsked
  <2>2. QED
    BY <1>2, <1>3, <2>1
<1>10. QED
  BY <1>5, <1>6, <1>7, <1>8, <1>9 DEF RequestInv

(* Steps that neither push nor take requests; a timer that fires leaves.      *)
LEMMA QuietRequests ==
    ASSUME RequestInv, UNCHANGED <<new_ev_que, last>>,
           added' \subseteq added, \A o \in added \cap Persistent : o \in added'
    PROVE  RequestInv'
<1>1. \A i \in Nat : \A op, o : At(i, op, o)' <=> At(i, op, o)
  BY DEF At
<1>2. \A i \in Nat : \A o : (At(i, "add", o)' <=> At(i, "add", o)) /\ (At(i, "del", o)' <=> At(i, "del", o))
  BY <1>1
<1> HIDE DEF At
<1>3. Alternating' /\ AddedOnce'
  BY <1>2 DEF RequestInv, Alternating, AddedOnce
<1>4. StopQueued' /\ NeverAsked'
  BY <1>2 DEF RequestInv, StopQueued, NeverAsked
<1>5. StartKept'
  BY <1>2 DEF RequestInv, StartKept
<1>6. QED
  BY <1>3, <1>4, <1>5 DEF RequestInv

(* The two arms of the master's handler.                                     *)
Arm == MasterAdd \/ MasterDel

(* All other steps: the discipline of requests stays, and the only fault they *)
(* can commit is a use after free.                                            *)
LEMMA OtherSteps ==
    ASSUME CallInv, RequestInv, [Next]_vars, ~Arm
    PROVE  RequestInv' /\ fault' \in {fault, "none", "use after free"}
<1>1. ASSUME NEW c \in Caller, NEW o \in Obj,
             Create(c, o) \/ Reuse(c, o) \/ Stop(c, o) \/ Destroy(c, o)
      PROVE  RequestInv' /\ fault' = fault
  <2>1. UNCHANGED <<new_ev_que, last, added, fault>>
    BY <1>1 DEF Create, Reuse, Stop, Destroy
  <2>2. QED
    BY <2>1, QuietRequests
<1>2. ASSUME NEW c \in Caller, PushRequest(c) PROVE RequestInv' /\ fault' = fault
  <2>1. creq[c] \in Request /\ fault' = fault
    BY <1>2 DEF PushRequest, CallInv, CallsSound, CallSound
  <2>2. creq[c].op = "add" \/ creq[c].op = "del"
    BY <2>1 DEF Request
  <2>3. QED
    BY <1>2, <2>1, <2>2, PushAddKeeps, PushDelKeeps
<1>3. ASSUME NEW c \in Caller, WriteCommand(c) \/ FreeObject(c)
      PROVE  RequestInv' /\ fault' = fault
  BY <1>3, QuietRequests DEF WriteCommand, FreeObject
<1>4. CASE MasterStart
  BY <1>4, QuietRequests DEF MasterStart
<1>5. ASSUME NEW o \in Obj, Fire(o)
      PROVE  RequestInv' /\ fault' \in {"none", "use after free"}
  <2>1. UNCHANGED <<new_ev_que, last>> /\ fault' \in {"none", "use after free"}
    BY <1>5 DEF Fire
  <2>2. added' \subseteq added /\ \A q \in added \cap Persistent : q \in added'
    BY <1>5 DEF Fire
  <2>3. QED
    BY <2>1, <2>2, QuietRequests
<1>6. CASE RunCallback
  BY <1>6, QuietRequests DEF RunCallback
<1>7. CASE UNCHANGED vars
  BY <1>7, QuietRequests DEF vars
<1>8. QED
  BY <1>1, <1>2, <1>3, <1>4, <1>5, <1>6, <1>7
     DEF Next, MasterStep, CallerStep, Done, Arm

(* The arms, when the letter fits the request: the event assigned was not in  *)
(* the base.                                                                  *)
LEMMA FittingArm ==
    ASSUME CallInv, RequestInv, Arm,
           Head(command_pipe) = CommandFor(Head(new_ev_que).op)
    PROVE  RequestInv' /\ fault' \in {"none", "use after free"}
<1>1. PICK r \in Request : r = Head(new_ev_que)
  BY CommandHasRequest DEF Arm, MasterAdd, MasterDel, TakeRequest
<1>2. r.op \in {"add", "del"}
  BY DEF Request
<1>3. CASE MasterAdd
  <2>1. r.op = "add"
    BY <1>1, <1>2, <1>3 DEF MasterAdd, CommandFor
  <2>2. TakeRequest /\ added' = EventAdd(added, r.obj)
    BY <1>1, <1>3 DEF MasterAdd
  <2>3. RequestInv' /\ r.obj \notin added
    BY <1>1, <2>1, <2>2, ApplyAddKeeps
  <2>4. fault' \in {"none", "use after free"}
    BY <1>1, <1>3, <2>1, <2>3 DEF MasterAdd
  <2>5. QED
    BY <2>3, <2>4
<1>4. CASE MasterDel
  <2>1. r.op = "del"
    BY <1>1, <1>2, <1>4 DEF MasterDel, CommandFor
  <2>2. TakeRequest /\ added' = EventDel(added, r.obj)
    BY <1>1, <1>4 DEF MasterDel
  <2>3. fault' \in {"none", "use after free"}
    BY <1>1, <1>4, <2>1 DEF MasterDel
  <2>4. QED
    BY <1>1, <2>1, <2>2, <2>3, ApplyDelKeeps
<1>5. QED
  BY <1>3, <1>4 DEF Arm

(* Until the first fault, and whoever calls, requests are disciplined; the    *)
(* first fault is never an event assigned in the base.                        *)
FaultInv ==
    /\ fault # "assigned while added"
    /\ fault = "none" => RequestInv

(* After a fault nothing happens any more.                                   *)
LEMMA FaultStays ==
    ASSUME [Next]_vars, fault # "none"
    PROVE  fault' = fault
  BY DEF Next, Create, Reuse, Stop, Destroy, Call, CallerStep, PushRequest, WriteCommand,
     FreeObject, MasterStep, MasterStart, MasterAdd, MasterDel, TakeRequest, Fire,
     RunCallback, Done, vars

(* An arm that commits no fault had a letter that fits its request.           *)
LEMMA FaultlessFits ==
    ASSUME CallInv, Arm, fault' \in {"none", "assigned while added"}
    PROVE  Head(command_pipe) = CommandFor(Head(new_ev_que).op)
<1>1. PICK r \in Request : r = Head(new_ev_que)
  BY CommandHasRequest DEF Arm, MasterAdd, MasterDel, TakeRequest
<1>2. r.op \in {"add", "del"} /\ mem[r.obj] \in {"none", "live", "freed"}
  BY DEF Request, CallInv, TypeOK
<1>3. CASE MasterAdd
  <2>1. r.op = "add"
    BY <1>1, <1>2, <1>3 DEF MasterAdd
  <2>2. QED
    BY <1>1, <1>3, <2>1 DEF MasterAdd, CommandFor
<1>4. CASE MasterDel
  <2>1. r.op = "del"
    BY <1>1, <1>2, <1>4 DEF MasterDel
  <2>2. QED
    BY <1>1, <1>4, <2>1 DEF MasterDel, CommandFor
<1>5. QED
  BY <1>3, <1>4 DEF Arm

(* Each step keeps the two facts.                                             *)
LEMMA StepFault == CallInv /\ FaultInv /\ [Next]_vars => FaultInv'
<1> SUFFICES ASSUME CallInv, FaultInv, [Next]_vars PROVE FaultInv'
  OBVIOUS
<1>1. CASE fault # "none"
  BY <1>1, FaultStays DEF FaultInv
<1>2. CASE fault = "none" /\ ~Arm
  BY <1>2, OtherSteps DEF FaultInv
<1>3. CASE fault = "none" /\ Arm
  <2>1. CASE fault' \in {"none", "assigned while added"}
    BY <1>3, <2>1, FaultlessFits, FittingArm DEF FaultInv
  <2>2. CASE fault' \notin {"none", "assigned while added"}
    BY <2>2 DEF FaultInv
  <2>3. QED
    BY <2>1, <2>2
<1>4. QED
  BY <1>1, <1>2, <1>3

(* However many threads call, the master never assigns an event that its base *)
(* holds, as long as timers are stopped before they are used again.           *)
THEOREM NeverAssignedWhileAdded == SafeSpec => []NoAssignWhileAdded
<1>1. Init => FaultInv
  BY InitRequests DEF Init, FaultInv
<1>2. FaultInv => NoAssignWhileAdded
  BY DEF FaultInv, NoAssignWhileAdded
<1>3. QED
  BY InitCall, StepCall, StepFault, <1>1, <1>2, PTL DEF SafeSpec
-----------------------------------------------------------------------------
(* One caller: the commands are those of the first requests, and a request    *)
(* whose command is still to be written is the last.                          *)
PairInv ==
    /\ \A i \in DOMAIN command_pipe : command_pipe[i] = CommandFor(new_ev_que[i].op)
    /\ \A c \in Writing : new_ev_que[Len(new_ev_que)] = creq[c]

OneCallerInv == PairInv /\ RequestInv /\ fault # "mismatch"

(* How many requests have no command, of one caller.                          *)
LEMMA OneWrites ==
    ASSUME CallInv, OneCaller, NEW c \in Caller
    PROVE  /\ c \in Writing => Len(new_ev_que) = Len(command_pipe) + 1
           /\ c \notin Writing => Len(new_ev_que) = Len(command_pipe) /\ Writing = {}
           /\ Len(new_ev_que) \in Nat /\ DOMAIN new_ev_que = 1..Len(new_ev_que)
           /\ Len(command_pipe) \in Nat /\ DOMAIN command_pipe = 1..Len(command_pipe)
<1>1. new_ev_que \in Seq(Request) /\ command_pipe \in Seq(Command)
  BY DEF CallInv, TypeOK
<1>2. /\ Len(new_ev_que) \in Nat /\ DOMAIN new_ev_que = 1..Len(new_ev_que)
      /\ Len(command_pipe) \in Nat /\ DOMAIN command_pipe = 1..Len(command_pipe)
  BY <1>1, LenProperties
<1>3. ASSUME c \in Writing PROVE Cardinality(Writing) = 1
  <2>1. Writing = {c}
    BY <1>3 DEF OneCaller, Writing
  <2>2. QED
    BY <2>1, FS_Singleton
<1>4. ASSUME c \notin Writing PROVE Writing = {} /\ Cardinality(Writing) = 0
  <2>1. Writing = {}
    BY <1>4 DEF OneCaller, Writing
  <2>2. QED
    BY <2>1, FS_EmptySet
<1>5. Len(new_ev_que) = Len(command_pipe) + Cardinality(Writing)
  BY DEF CallInv, CountInv
<1>6. QED
  BY <1>2, <1>3, <1>4, <1>5

(* The push and the write of one caller keep the pairs.                       *)
LEMMA CallerPairs ==
    ASSUME CallInv, PairInv, OneCaller, NEW c \in Caller, CallerStep(c)
    PROVE  PairInv'
<1>1. \A d \in Caller : d = c
  BY DEF OneCaller
<1>2. /\ new_ev_que \in Seq(Request) /\ command_pipe \in Seq(Command)
      /\ cstate \in [Caller -> CallStates]
  BY DEF CallInv, TypeOK, CallStates
<1>3. CASE PushRequest(c)
  <2>1. PICK r \in Request : r = creq[c]
    BY <1>3 DEF PushRequest, CallInv, CallsSound, CallSound
  <2>2. /\ c \notin Writing
        /\ new_ev_que' = Append(new_ev_que, r)
        /\ UNCHANGED <<command_pipe, creq>>
    BY <1>3, <2>1 DEF PushRequest, PushedBack, Writing, ToWrite
  <2>3. /\ Len(new_ev_que) = Len(command_pipe)
        /\ Len(new_ev_que) \in Nat
        /\ DOMAIN command_pipe = 1..Len(command_pipe)
    BY <2>2, OneWrites
  <2>4. /\ Len(new_ev_que') = Len(new_ev_que) + 1
        /\ \A i \in 1..Len(new_ev_que) : new_ev_que'[i] = new_ev_que[i]
        /\ new_ev_que'[Len(new_ev_que) + 1] = r
    BY <1>2, <2>2, AppendProperties
  <2>5. \A i \in DOMAIN command_pipe' : command_pipe'[i] = CommandFor(new_ev_que'[i].op)
    BY <2>2, <2>3, <2>4 DEF PairInv
  <2>6. \A d \in Writing' : new_ev_que'[Len(new_ev_que')] = creq'[d]
    BY <1>1, <2>1, <2>2, <2>4 DEF Writing
  <2>7. QED
    BY <2>5, <2>6 DEF PairInv
<1>4. CASE WriteCommand(c)
  <2>1. PICK b : b = CommandFor(creq[c].op)
    OBVIOUS
  <2>2. /\ c \in Writing /\ b \in Command
        /\ command_pipe' = Append(command_pipe, b)
        /\ cstate'[c] \notin ToWrite
        /\ UNCHANGED <<new_ev_que, creq>>
    BY <1>2, <1>4, <2>1
       DEF WriteCommand, Writing, ToWrite, CommandFor, Command, Destroying
  <2>3. /\ Len(new_ev_que) = Len(command_pipe) + 1
        /\ Len(command_pipe) \in Nat
        /\ DOMAIN command_pipe = 1..Len(command_pipe)
    BY <2>2, OneWrites
  <2>4. /\ DOMAIN command_pipe' = 1..(Len(command_pipe) + 1)
        /\ \A i \in 1..Len(command_pipe) : command_pipe'[i] = command_pipe[i]
        /\ command_pipe'[Len(command_pipe) + 1] = b
    <3>1. /\ command_pipe' \in Seq(Command)
          /\ Len(command_pipe') = Len(command_pipe) + 1
          /\ \A i \in 1..Len(command_pipe) : command_pipe'[i] = command_pipe[i]
          /\ command_pipe'[Len(command_pipe) + 1] = b
      BY <1>2, <2>2, AppendProperties
    <3>2. QED
      BY <3>1, LenProperties
  <2>5. new_ev_que[Len(command_pipe) + 1] = creq[c]
    BY <2>2, <2>3 DEF PairInv
  <2>6. \A i \in DOMAIN command_pipe' : i \in 1..Len(command_pipe) \/ i = Len(command_pipe) + 1
    BY <2>3, <2>4
  <2>7. command_pipe'[Len(command_pipe) + 1] = CommandFor(new_ev_que[Len(command_pipe) + 1].op)
    BY <2>1, <2>4, <2>5
  <2>8. \A i \in DOMAIN command_pipe' : command_pipe'[i] = CommandFor(new_ev_que'[i].op)
    BY <2>2, <2>3, <2>4, <2>6, <2>7 DEF PairInv
  <2>9. Writing' = {}
    BY <1>1, <2>2 DEF Writing
  <2>10. QED
    BY <2>8, <2>9 DEF PairInv
<1>5. CASE FreeObject(c)
  <2>1. UNCHANGED <<new_ev_que, command_pipe, creq>> /\ c \notin Writing
    BY <1>5 DEF FreeObject, Writing, ToWrite
  <2>2. Writing' = {}
    BY <1>1, <1>2, <1>5 DEF FreeObject, Writing, ToWrite
  <2>3. QED
    BY <2>1, <2>2 DEF PairInv
<1>6. QED
  BY <1>3, <1>4, <1>5 DEF CallerStep

(* The master takes a pair.                                                   *)
LEMMA TakePairs ==
    ASSUME CallInv, PairInv, OneCaller, TakeRequest
    PROVE  PairInv' /\ Head(command_pipe) = CommandFor(Head(new_ev_que).op)
<1>1. /\ new_ev_que \in Seq(Request) /\ new_ev_que # <<>>
      /\ command_pipe \in Seq(Command) /\ command_pipe # <<>>
      /\ new_ev_que' = Tail(new_ev_que) /\ command_pipe' = Tail(command_pipe)
      /\ UNCHANGED <<cstate, creq>>
  BY CommandHasRequest DEF TakeRequest, CallInv, TypeOK
<1>2. /\ Len(new_ev_que) \in Nat \ {0} /\ Head(new_ev_que) = new_ev_que[1]
      /\ Len(new_ev_que') = Len(new_ev_que) - 1
      /\ \A i \in 1..Len(new_ev_que') : new_ev_que'[i] = new_ev_que[i + 1]
  BY <1>1, HeadTailProperties, LenProperties, EmptySeq
<1>3. /\ Len(command_pipe) \in Nat \ {0} /\ Head(command_pipe) = command_pipe[1]
      /\ DOMAIN command_pipe = 1..Len(command_pipe)
      /\ DOMAIN command_pipe' = 1..(Len(command_pipe) - 1)
      /\ \A i \in 1..(Len(command_pipe) - 1) : command_pipe'[i] = command_pipe[i + 1]
  <2>1. /\ Len(command_pipe) \in Nat \ {0} /\ Head(command_pipe) = command_pipe[1]
        /\ DOMAIN command_pipe = 1..Len(command_pipe)
        /\ command_pipe' \in Seq(Command)
        /\ Len(command_pipe') = Len(command_pipe) - 1
        /\ \A i \in 1..Len(command_pipe') : command_pipe'[i] = command_pipe[i + 1]
    BY <1>1, HeadTailProperties, LenProperties, EmptySeq
  <2>2. QED
    BY <2>1, LenProperties
<1>4. Len(new_ev_que) >= Len(command_pipe)
  <2>1. Len(new_ev_que) = Len(command_pipe) + Cardinality(Writing)
    BY DEF CallInv, CountInv
  <2>2. QED
    BY <1>2, <1>3, <2>1, WritingFinite
<1>5. \A i \in DOMAIN command_pipe' :
          /\ i + 1 \in DOMAIN command_pipe
          /\ command_pipe'[i] = command_pipe[i + 1]
          /\ new_ev_que'[i] = new_ev_que[i + 1]
  BY <1>2, <1>3, <1>4
<1>6. \A i \in DOMAIN command_pipe' : command_pipe'[i] = CommandFor(new_ev_que'[i].op)
  BY <1>5 DEF PairInv
<1>7. ASSUME NEW c \in Writing' PROVE new_ev_que'[Len(new_ev_que')] = creq'[c]
  <2>1. c \in Caller /\ c \in Writing
    BY <1>1 DEF Writing
  <2>2. Len(new_ev_que) = Len(command_pipe) + 1
    BY <2>1, OneWrites
  <2>3. Len(new_ev_que') \in 1..Len(new_ev_que') /\ Len(new_ev_que') + 1 = Len(new_ev_que)
    BY <1>2, <1>3, <2>2
  <2>4. new_ev_que'[Len(new_ev_que')] = new_ev_que[Len(new_ev_que)]
    BY <1>2, <2>3
  <2>5. QED
    BY <1>1, <2>1, <2>4 DEF PairInv
<1>8. Head(command_pipe) = CommandFor(Head(new_ev_que).op)
  BY <1>2, <1>3 DEF PairInv
<1>9. QED
  BY <1>6, <1>7, <1>8 DEF PairInv

(* Steps that leave the queues alone keep the pairs.                          *)
LEMMA QuietPairs ==
    ASSUME PairInv, UNCHANGED <<new_ev_que, command_pipe>>,
           \A c \in Writing' : c \in Writing /\ creq'[c] = creq[c]
    PROVE  PairInv'
  BY DEF PairInv

(* Case by case over the actions.                                             *)
LEMMA StepPairs == CallInv /\ PairInv /\ OneCaller /\ [Next]_vars => PairInv'
<1> SUFFICES ASSUME CallInv, PairInv, OneCaller, [Next]_vars PROVE PairInv'
  OBVIOUS
<1>1. ASSUME NEW c \in Caller, NEW o \in Obj,
             Create(c, o) \/ Reuse(c, o) \/ Stop(c, o) \/ Destroy(c, o)
      PROVE  PairInv'
  <2>1. PICK op \in {"add", "del"}, next \in {"push", "pushDestroy"} : Call(c, o, op, next)
    BY <1>1 DEF Create, Reuse, Stop, Destroy
  <2>2. UNCHANGED <<new_ev_que, command_pipe>>
    BY <1>1 DEF Create, Reuse, Stop, Destroy
  <2>3. cstate \in [Caller -> CallStates] /\ creq \in [Caller -> Request \cup {NoRequest}]
    BY DEF CallInv, TypeOK, CallStates
  <2>4. \A d \in Writing' : d \in Writing /\ creq'[d] = creq[d]
    BY <2>1, <2>3 DEF Call, Writing, ToWrite
  <2>5. QED
    BY <2>2, <2>4, QuietPairs
<1>2. ASSUME NEW c \in Caller, CallerStep(c) PROVE PairInv'
  BY <1>2, CallerPairs
<1>3. CASE MasterStart
  BY <1>3, QuietPairs DEF MasterStart, Writing
<1>4. CASE Arm
  BY <1>4, TakePairs DEF Arm, MasterAdd, MasterDel
<1>5. ASSUME NEW o \in Obj, Fire(o) PROVE PairInv'
  BY <1>5, QuietPairs DEF Fire, Writing
<1>6. CASE RunCallback
  BY <1>6, QuietPairs DEF RunCallback, Writing
<1>7. CASE UNCHANGED vars
  BY <1>7, QuietPairs DEF vars, Writing
<1>8. QED
  BY <1>1, <1>2, <1>3, <1>4, <1>5, <1>6, <1>7 DEF Next, MasterStep, Done, Arm

(* The pairs make every letter fit.                                           *)
LEMMA StepOneCaller == CallInv /\ OneCallerInv /\ OneCaller /\ [Next]_vars => OneCallerInv'
<1> SUFFICES ASSUME CallInv, OneCallerInv, OneCaller, [Next]_vars PROVE OneCallerInv'
  OBVIOUS
<1>1. PairInv'
  BY StepPairs DEF OneCallerInv
<1>2. CASE ~Arm
  BY <1>1, <1>2, OtherSteps DEF OneCallerInv
<1>3. CASE Arm
  <2>1. TakeRequest
    BY <1>3 DEF Arm, MasterAdd, MasterDel
  <2>2. Head(command_pipe) = CommandFor(Head(new_ev_que).op)
    BY <2>1, TakePairs DEF OneCallerInv
  <2>3. QED
    BY <1>1, <1>3, <2>2, FittingArm DEF OneCallerInv
<1>4. QED
  BY <1>2, <1>3

(* Nothing is paired at the start.                                            *)
LEMMA InitOneCaller == Init => OneCallerInv
<1> SUFFICES ASSUME Init PROVE OneCallerInv
  OBVIOUS
<1>1. PairInv
  BY DEF Init, PairInv, Writing, ToWrite
<1>2. QED
  BY <1>1, InitRequests DEF Init, OneCallerInv

(* The inductive invariant of one caller.                                     *)
THEOREM OneCallerInvariant ==
    ASSUME OneCaller
    PROVE  SafeSpec => [](CallInv /\ OneCallerInv)
<1>1. Init => CallInv /\ OneCallerInv
  BY InitCall, InitOneCaller
<1>2. (CallInv /\ OneCallerInv) /\ [Next]_vars => (CallInv /\ OneCallerInv)'
  BY StepCall, StepOneCaller
<1>3. QED
  BY <1>1, <1>2, PTL DEF SafeSpec

(* One caller: the master never performs another command than was asked.      *)
THEOREM CommandsFit ==
    ASSUME OneCaller
    PROVE  SafeSpec => []CommandsFitRequests
<1>1. OneCallerInv => CommandsFitRequests
  BY DEF OneCallerInv, CommandsFitRequests
<1>2. QED
  BY OneCallerInvariant, <1>1, PTL

(* One caller: when all requests are applied the last one for an event has    *)
(* decided.                                                                   *)
THEOREM LastRequestDecides ==
    ASSUME OneCaller
    PROVE  SafeSpec => []LastRequestWins
<1>1. CallInv /\ OneCallerInv => LastRequestWins
  <2> SUFFICES ASSUME CallInv, OneCallerInv, new_ev_que = <<>>, NEW o \in Obj
               PROVE  /\ o \in added => last[o] = "add"
                      /\ o \in Persistent /\ last[o] = "add" => o \in added
    BY DEF LastRequestWins
  <2>1. \A i, op : ~At(i, op, o)
    BY DEF At
  <2>2. last[o] \in {"none", "add", "del"}
    BY DEF CallInv, TypeOK
  <2>3. o \in added => last[o] = "add"
    BY <2>1, <2>2 DEF OneCallerInv, RequestInv, StopQueued, NeverAsked
  <2>4. o \in Persistent /\ last[o] = "add" => o \in added
    BY <2>1 DEF OneCallerInv, RequestInv, StartKept
  <2>5. QED
    BY <2>3, <2>4
<1>2. QED
  BY OneCallerInvariant, <1>1, PTL

(* One caller: the event of a freed object is in the base only while the del  *)
(* of its destroy is queued.                                                  *)
THEOREM FreedObjectsLeaveBase ==
    ASSUME OneCaller
    PROVE  SafeSpec => []FreedLeavesBase
<1>1. CallInv /\ OneCallerInv => FreedLeavesBase
  <2> SUFFICES ASSUME CallInv, OneCallerInv, NEW o \in Obj, mem[o] = "freed", o \in added
               PROVE  \E i \in DOMAIN new_ev_que : new_ev_que[i] = [op |-> "del", obj |-> o]
    BY DEF FreedLeavesBase
  <2>1. last[o] = "del"
    BY DEF CallInv, MemorySound
  <2>2. PICK i \in Nat : At(i, "del", o)
    BY <2>1 DEF OneCallerInv, RequestInv, StopQueued
  <2>3. i \in DOMAIN new_ev_que /\ new_ev_que[i].op = "del" /\ new_ev_que[i].obj = o
    BY <2>2 DEF At
  <2>4. new_ev_que[i] \in Request
    <3>1. new_ev_que \in Seq(Request)
      BY DEF CallInv, TypeOK
    <3>2. QED
      BY <2>3, <3>1, LenProperties
  <2>5. new_ev_que[i] = [op |-> "del", obj |-> o]
    BY <2>3, <2>4 DEF Request
  <2>6. QED
    BY <2>3, <2>5
<1>2. QED
  BY OneCallerInvariant, <1>1, PTL

(* A step of one caller, or of the master, is a step of the registry.         *)
LEMMA StepRegistry ==
    CallInv /\ OneCallerInv /\ OneCaller /\ [Next]_vars => [Registry!Next]_(Registry!vars)
<1> SUFFICES ASSUME CallInv, OneCallerInv, OneCaller, [Next]_vars
             PROVE  Registry!Next \/ UNCHANGED <<new_ev_que, added>>
  BY DEF Registry!vars
<1>1. ASSUME NEW c \in Caller, PushRequest(c) PROVE Registry!Next
  <2>1. creq[c] \in Registry!Request
    BY <1>1 DEF PushRequest, CallInv, CallsSound, CallSound, Request, Registry!Request
  <2>2. Registry!Ask(creq[c])
    BY <1>1 DEF PushRequest, PushedBack, Registry!Ask
  <2>3. QED
    BY <2>1, <2>2 DEF Registry!Next
<1>2. CASE Arm
  <2>1. TakeRequest
    BY <1>2 DEF Arm, MasterAdd, MasterDel
  <2>2. Head(command_pipe) = CommandFor(Head(new_ev_que).op)
    BY <2>1, TakePairs DEF OneCallerInv
  <2>3. new_ev_que # <<>> /\ new_ev_que' = Tail(new_ev_que) /\ Head(new_ev_que) \in Request
    BY <2>1, CommandHasRequest DEF TakeRequest
  <2>4. Head(new_ev_que).op \in {"add", "del"}
    BY <2>3 DEF Request
  <2>5. added' = IF Head(new_ev_que).op = "add" THEN added \cup {Head(new_ev_que).obj}
                                               ELSE added \ {Head(new_ev_que).obj}
    BY <1>2, <2>2, <2>4 DEF Arm, MasterAdd, MasterDel, EventAdd, EventDel, CommandFor
  <2>6. Registry!Apply
    BY <2>3, <2>5 DEF Registry!Apply
  <2>7. QED
    BY <2>6 DEF Registry!Next
<1>3. ASSUME NEW o \in Obj, Fire(o) PROVE Registry!Next \/ UNCHANGED <<new_ev_que, added>>
  <2>1. CASE o \in Persistent
    BY <1>3, <2>1 DEF Fire
  <2>2. CASE o \notin Persistent
    <3>1. Registry!Fire(o)
      BY <1>3, <2>2 DEF Fire, Registry!Fire
    <3>2. QED
      BY <3>1 DEF Registry!Next
  <2>3. QED
    BY <2>1, <2>2
<1>4. ASSUME NEW c \in Caller, NEW o \in Obj,
             Create(c, o) \/ Reuse(c, o) \/ Stop(c, o) \/ Destroy(c, o)
      PROVE  UNCHANGED <<new_ev_que, added>>
  BY <1>4 DEF Create, Reuse, Stop, Destroy
<1>5. ASSUME NEW c \in Caller, WriteCommand(c) \/ FreeObject(c)
      PROVE  UNCHANGED <<new_ev_que, added>>
  BY <1>5 DEF WriteCommand, FreeObject
<1>6. ASSUME MasterStart \/ RunCallback \/ UNCHANGED vars
      PROVE  UNCHANGED <<new_ev_que, added>>
  BY <1>6 DEF MasterStart, RunCallback, vars
<1>7. QED
  BY <1>1, <1>2, <1>3, <1>4, <1>5, <1>6 DEF Next, MasterStep, CallerStep, Done, Arm

(* One caller: the registration implements the registry, request by request. *)
THEOREM RegistryImplemented ==
    ASSUME OneCaller
    PROVE  SafeSpec => RegistrySpec
<1>1. Init => Registry!Init
  BY DEF Init, Registry!Init
<1>2. CallInv /\ OneCallerInv /\ [Next]_vars => [Registry!Next]_(Registry!vars)
  BY StepRegistry
<1>3. QED
  BY OneCallerInvariant, <1>1, <1>2, PTL DEF SafeSpec, RegistrySpec, Registry!SafeSpec
=============================================================================
