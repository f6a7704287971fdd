-------------------------- MODULE StateMachineProofs --------------------------
(***************************************************************************)
(* Proofs about StateMachine for any states, any targets of the timeouts,  *)
(* any number of changes and any size of the command pipe.                 *)
(*                                                                         *)
(* The machine is one caller of the timers: what EventQueueProofs proves   *)
(* of a step of EventQueue is used here of its steps.                      *)
(***************************************************************************)
EXTENDS StateMachine, TLAPS

USE StateMachineAssumption DEF StateMachineAssumption

(* The timers with what is proved of them.                                   *)
Proved == INSTANCE EventQueueProofs WITH
              Obj         <- State,
              Persistent  <- {},
              Caller      <- {Slave},
              MayDestroy  <- FALSE,
              MaxRequests <- 2 * MaxChanges

(* The assumption of EventQueue holds of the machine's timers.               *)
LEMMA TimersAssumption == Proved!EventQueueAssumption
<1>1. Proved!IsFiniteSet({Slave})
  <2>1. <<Slave>> \in Seq({Slave}) /\ Len(<<Slave>>) = 1 /\ <<Slave>>[1] = Slave
    OBVIOUS
  <2>2. \A s \in {Slave} : \E n \in 1..Len(<<Slave>>) : <<Slave>>[n] = s
    BY <2>1
  <2>3. \E seq \in Seq({Slave}) : \A s \in {Slave} : \E n \in 1..Len(seq) : seq[n] = s
    BY <2>1, <2>2
  <2>4. QED
    BY <2>3 DEF Proved!IsFiniteSet
<1>2. QED
  BY <1>1 DEF Proved!EventQueueAssumption

(* And one thread makes all their requests.                                  *)
LEMMA OneThread == Proved!OneCaller
  BY DEF Proved!OneCaller

(* The timers proved about are the machine's.                                *)
LEMMA SameTimers ==
    /\ Timers!Init = Proved!Init
    /\ \A s, op, next : Timers!Call(Slave, s, op, next) = Proved!Call(Slave, s, op, next)
    /\ Timers!CallerStep(Slave) = Proved!CallerStep(Slave)
    /\ Timers!MasterStep = Proved!MasterStep
    /\ \A s : Timers!Fire(s) = Proved!Fire(s)
    /\ Timers!RunCallback = Proved!RunCallback
<1>1. Timers!Init = Proved!Init
  BY DEF Timers!Init, Proved!Init, Timers!NoRequest, Proved!NoRequest
<1>2. ASSUME NEW s, NEW op, NEW next
      PROVE  Timers!Call(Slave, s, op, next) = Proved!Call(Slave, s, op, next)
  BY DEF Timers!Call, Proved!Call, Timers!InUse, Proved!InUse,
         Timers!Cardinality, Proved!Cardinality
<1>3. Timers!CallerStep(Slave) = Proved!CallerStep(Slave)
  BY DEF Timers!CallerStep, Proved!CallerStep, Timers!PushRequest, Proved!PushRequest,
         Timers!WriteCommand, Proved!WriteCommand, Timers!FreeObject, Proved!FreeObject,
         Timers!PushedBack, Proved!PushedBack, Timers!Destroying, Proved!Destroying,
         Timers!CommandFor, Proved!CommandFor
<1>4. Timers!MasterStep = Proved!MasterStep
  BY DEF Timers!MasterStep, Proved!MasterStep, Timers!MasterStart, Proved!MasterStart,
         Timers!MasterAdd, Proved!MasterAdd, Timers!MasterDel, Proved!MasterDel,
         Timers!TakeRequest, Proved!TakeRequest, Timers!EventAdd, Proved!EventAdd,
         Timers!EventDel, Proved!EventDel
<1>5. ASSUME NEW s PROVE Timers!Fire(s) = Proved!Fire(s)
  BY DEF Timers!Fire, Proved!Fire
<1>6. Timers!RunCallback = Proved!RunCallback
  BY DEF Timers!RunCallback, Proved!RunCallback
<1>7. QED
  BY <1>1, <1>2, <1>3, <1>4, <1>5, <1>6
-----------------------------------------------------------------------------
(* Whether a request has been announced and is not in the queue yet.         *)
Pending == cstate[Slave] = "push"

At(i, op, s) == Proved!At(i, op, s)

(* The timer of s was asked for, and will be in the base, is in it, or has    *)
(* fired: no del of it comes last.                                           *)
Alive(s) ==
    \/ Due(s)
    \/ s \in added /\ \A j \in Nat : ~At(j, "del", s)
    \/ \E k \in Nat : At(k, "add", s) /\ \A j \in Nat : k < j => ~At(j, "del", s)

(* No state but s, and no state at all, has its timer asked for last.        *)
OnlyRuns(s) == \A t \in State : t # s => last[t] # "add"
NoneRuns == \A t \in State : last[t] # "add"
CurrentRuns == last[current_state] = "add" /\ Alive(current_state)

(* Where change_state is, and what it has asked for by then.                 *)
StepInv ==
    \/ /\ step = "idle"
       /\ cstate[Slave] = "idle"
       /\ OnlyRuns(current_state)
       /\ changes = 0 \/ (current_state \in State /\ CurrentRuns)
    \/ /\ step = "stop"
       /\ cstate[Slave] = "idle"
       /\ current_state \in State
       /\ OnlyRuns(last_state)
    \/ /\ step = "setup"
       /\ current_state \in State
       /\ \/ /\ Pending
             /\ creq[Slave] = [op |-> "del", obj |-> last_state]
             /\ OnlyRuns(last_state)
          \/ ~Pending /\ NoneRuns
    \/ /\ step = "act"
       /\ current_state \in State
       /\ \/ /\ Pending
             /\ creq[Slave] = [op |-> "add", obj |-> current_state]
             /\ NoneRuns
          \/ ~Pending /\ OnlyRuns(current_state) /\ CurrentRuns

(* Timers are created and never destroyed, and a timer that was created has   *)
(* been asked for, or its creation is about to do that.                      *)
UseInv ==
    /\ fault = "none"
    /\ changes \in Nat
    /\ cstate[Slave] \in {"idle", "push", "write"}
    /\ \A s \in State : mem[s] # "freed"
    /\ \A s \in State : mem[s] = "live" =>
           last[s] # "none" \/ (Pending /\ creq[Slave].obj = s)

MachineInv == Proved!CallInv /\ Proved!OneCallerInv /\ UseInv /\ StepInv

(* After a use of an entry whose field was never set nothing happens, in the  *)
(* middle of a change of state.                                              *)
Wild == fault = "wild timer" /\ step \in {"setup", "act"}
-----------------------------------------------------------------------------
(* What a step of the timers keeps.                                          *)
LEMMA ProvedKeeps ==
    ASSUME MachineInv, [Proved!Next]_(Proved!vars)
    PROVE  Proved!CallInv' /\ Proved!OneCallerInv'
<1>1. Proved!CallInv /\ [Proved!Next]_(Proved!vars) => Proved!CallInv'
  BY TimersAssumption, Proved!StepCall
<1>2. Proved!CallInv /\ Proved!OneCallerInv /\ Proved!OneCaller /\ [Proved!Next]_(Proved!vars)
          => Proved!OneCallerInv'
  BY TimersAssumption, Proved!StepOneCaller
<1>3. QED
  BY <1>1, <1>2, OneThread DEF MachineInv

(* The types of the timers.                                                  *)
LEMMA TimerTypes ==
    ASSUME MachineInv
    PROVE  /\ new_ev_que \in Seq(Proved!Request)
           /\ cstate \in [{Slave} -> {"idle", "push", "write", "pushDestroy", "writeDestroy", "free"}]
           /\ creq \in [{Slave} -> Proved!Request \cup {Proved!NoRequest}]
           /\ mem \in [State -> {"none", "live", "freed"}]
           /\ last \in [State -> {"none", "add", "del"}]
           /\ added \subseteq State
           /\ posted \in Seq(State)
           /\ \A s \in State : mem[s] = "none" => last[s] = "none"
  BY DEF MachineInv, Proved!CallInv, Proved!TypeOK, Proved!MemorySound

(* Asking for the timer of the state that is left is a stop.                 *)
LEMMA AskToStop ==
    ASSUME MachineInv, NEW s \in State, mem[s] = "live", Ask(s, "del")
    PROVE  Proved!Next
<1>1. Proved!Call(Slave, s, "del", "push")
  BY SameTimers DEF Ask
<1>2. Proved!Stop(Slave, s)
  BY <1>1 DEF Ask, Proved!Stop
<1>3. QED
  BY <1>2 DEF Proved!Next

(* Asking for that of the state that is entered creates it, or uses it again  *)
(* after a stop.                                                             *)
LEMMA AskToRun ==
    ASSUME MachineInv, NEW s \in State, ~Pending, NoneRuns, Ask(s, "add")
    PROVE  Proved!Next
<1>1. Proved!Call(Slave, s, "add", "push")
  BY SameTimers DEF Ask
<1>2. mem[s] \in {"none", "live"} /\ last[s] \in {"none", "add", "del"}
  BY TimerTypes DEF MachineInv, UseInv
<1>3. CASE mem[s] = "none"
  <2>1. Proved!Create(Slave, s)
    BY <1>1, <1>3 DEF Ask, Proved!Create
  <2>2. QED
    BY <2>1 DEF Proved!Next
<1>4. CASE mem[s] = "live"
  <2>1. last[s] = "del"
    BY <1>2, <1>4 DEF MachineInv, UseInv, NoneRuns
  <2>2. mem' = mem
    BY <1>4, TimerTypes DEF Ask
  <2>3. Proved!Reuse(Slave, s)
    BY <1>1, <1>4, <2>1, <2>2 DEF Ask, Proved!Reuse
  <2>4. QED
    BY <2>3 DEF Proved!Next
<1>5. QED
  BY <1>2, <1>3, <1>4
-----------------------------------------------------------------------------
(* A timer that fires is due from then on, and none that is due is lost.      *)
LEMMA FireKeepsAlive ==
    ASSUME MachineInv, NEW s \in State, Proved!Fire(s), Alive(current_state),
           UNCHANGED machineVars
    PROVE  Alive(current_state)'
<1>1. posted \in Seq(State) /\ posted' = Append(posted, s) /\ added' = added \ {s}
      /\ UNCHANGED <<new_ev_que, current_state>>
  BY TimerTypes DEF Proved!Fire, machineVars
<1>2. /\ Len(posted) \in Nat /\ DOMAIN posted = 1..Len(posted)
      /\ DOMAIN posted' = 1..(Len(posted) + 1)
      /\ posted'[Len(posted) + 1] = s
      /\ \A i \in 1..Len(posted) : posted'[i] = posted[i]
  BY <1>1
<1>3. \A t : Due(t) \/ t = s => Due(t)'
  BY <1>2 DEF Due
<1>4. \A i \in Nat : \A op, t : Proved!At(i, op, t)' <=> Proved!At(i, op, t)
  BY <1>1 DEF Proved!At
<1>5. QED
  BY <1>1, <1>3, <1>4 DEF Alive, At

(* A callback that does not change the state is not that of the current one.  *)
LEMMA RunKeepsAlive ==
    ASSUME MachineInv, Proved!RunCallback, Alive(current_state),
           Head(posted) # current_state, UNCHANGED machineVars
    PROVE  Alive(current_state)'
<1>1. posted \in Seq(State) /\ posted # <<>> /\ posted' = Tail(posted)
      /\ UNCHANGED <<new_ev_que, current_state, added>>
  BY TimerTypes DEF Proved!RunCallback, machineVars
<1>2. /\ Len(posted) \in Nat \ {0} /\ DOMAIN posted = 1..Len(posted)
      /\ DOMAIN posted' = 1..(Len(posted) - 1)
      /\ Head(posted) = posted[1]
      /\ \A i \in 1..(Len(posted) - 1) : posted'[i] = posted[i + 1]
  BY <1>1
<1>3. ASSUME Due(current_state) PROVE Due(current_state)'
  <2>1. PICK i \in 1..Len(posted) : posted[i] = current_state
    BY <1>2, <1>3 DEF Due
  <2>2. i # 1
    BY <1>2, <2>1
  <2>3. i - 1 \in 1..(Len(posted) - 1) /\ (i - 1) + 1 = i
    BY <1>2, <2>2
  <2>4. posted'[i - 1] = current_state
    BY <1>2, <2>1, <2>3
  <2>5. QED
    BY <1>1, <1>2, <2>3, <2>4 DEF Due
<1>4. \A i \in Nat : \A op, t : Proved!At(i, op, t)' <=> Proved!At(i, op, t)
  BY <1>1 DEF Proved!At
<1>5. QED
  BY <1>1, <1>3, <1>4 DEF Alive, At

(* The master applies a request: an add that comes last puts the timer into   *)
(* the base, and a del that is not last does no harm.                        *)
LEMMA TakeKeepsAlive ==
    ASSUME MachineInv, Proved!Arm, Alive(current_state), UNCHANGED machineVars
    PROVE  Alive(current_state)'
<1> DEFINE c == current_state
<1>1. Proved!TakeRequest /\ UNCHANGED <<posted, current_state>>
  BY DEF Proved!Arm, Proved!MasterAdd, Proved!MasterDel, Proved!TakeRequest, machineVars
<1>2. Proved!CallInv
  BY DEF MachineInv
<1>3. /\ \A op, s : Proved!At(1, op, s) <=> Head(new_ev_que).op = op /\ Head(new_ev_que).obj = s
      /\ \A i \in Nat : \A op, s : Proved!At(i, op, s)' <=> i > 0 /\ Proved!At(i + 1, op, s)
      /\ \A op, s : ~Proved!At(0, op, s)
  BY <1>1, <1>2, TimersAssumption, Proved!TakeAt
<1>4. Head(command_pipe) = Proved!CommandFor(Head(new_ev_que).op)
  BY <1>1, <1>2, TimersAssumption, OneThread, Proved!TakePairs
     DEF MachineInv, Proved!OneCallerInv
<1>5. Head(new_ev_que).op \in {"add", "del"}
  BY <1>1, <1>2, TimersAssumption, Proved!CommandHasRequest DEF Proved!TakeRequest, Proved!Request
<1>6. added' = IF Head(new_ev_que).op = "add" THEN added \cup {Head(new_ev_que).obj}
                                             ELSE added \ {Head(new_ev_que).obj}
  BY <1>4, <1>5 DEF Proved!Arm, Proved!MasterAdd, Proved!MasterDel, Proved!EventAdd,
                    Proved!EventDel, Proved!CommandFor
<1>7. CASE Due(c)
  BY <1>1, <1>7 DEF Alive, Due
<1>8. CASE c \in added /\ \A j \in Nat : ~Proved!At(j, "del", c)
  <2>1. c \in added'
    BY <1>3, <1>5, <1>6, <1>8
  <2>2. \A j \in Nat : ~Proved!At(j, "del", c)'
    BY <1>1, <1>3, <1>8
  <2>3. QED
    BY <1>1, <2>1, <2>2 DEF Alive, At
<1>9. ASSUME NEW k \in Nat, Proved!At(k, "add", c), \A j \in Nat : k < j => ~Proved!At(j, "del", c)
      PROVE  Alive(c)'
  <2>1. k # 0
    BY <1>3, <1>9
  <2>2. CASE k = 1
    <3>1. c \in added'
      BY <1>3, <1>6, <1>9, <2>2
    <3>2. \A j \in Nat : ~Proved!At(j, "del", c)'
      BY <1>1, <1>3, <1>9, <2>2
    <3>3. QED
      BY <1>1, <3>1, <3>2 DEF Alive, At
  <2>3. CASE k > 1
    <3>1. k - 1 \in Nat /\ k - 1 > 0 /\ (k - 1) + 1 = k
      BY <2>3
    <3>2. Proved!At(k - 1, "add", c)'
      BY <1>1, <1>3, <1>9, <3>1
    <3>3. \A j \in Nat : k - 1 < j => ~Proved!At(j, "del", c)'
      BY <1>1, <1>3, <1>9, <3>1
    <3>4. QED
      BY <1>1, <3>1, <3>2, <3>3 DEF Alive, At
  <2>4. QED
    BY <2>1, <2>2, <2>3
<1>10. QED
  BY <1>7, <1>8, <1>9 DEF Alive, At

(* Nothing of what a machine rests on changes.                               *)
LEMMA QuietAlive ==
    ASSUME Alive(current_state), UNCHANGED <<new_ev_que, added, posted, current_state>>
    PROVE  Alive(current_state)'
  BY DEF Alive, Due, At, Proved!At

(* A change begins: what ran is now to be stopped.                           *)
LEMMA ChangeBegins ==
    ASSUME MachineInv, step = "idle", NEW s \in State, ChangeTo(s),
           UNCHANGED <<cstate, creq, mem, last, fault>>
    PROVE  UseInv' /\ StepInv'
<1>1. /\ cstate[Slave] = "idle"
      /\ OnlyRuns(current_state)
  BY DEF MachineInv, StepInv
<1>2. UseInv'
  BY DEF MachineInv, UseInv, ChangeTo, Pending
<1>3. OnlyRuns(last_state)'
  BY <1>1 DEF OnlyRuns, ChangeTo
<1>4. QED
  BY <1>1, <1>2, <1>3 DEF StepInv, ChangeTo

(* The callback of a timer runs; the change it asks for is made or ignored.   *)
LEMMA RunTimeoutKeeps ==
    ASSUME MachineInv, RunTimeout
    PROVE  MachineInv' /\ Proved!Next
<1>1. Proved!RunCallback /\ step = "idle"
  BY SameTimers DEF RunTimeout
<1>2. Proved!Next
  BY <1>1 DEF Proved!Next
<1>3. PICK s \in State : s = Head(posted)
  <2>1. posted \in Seq(State) /\ posted # <<>>
    BY <1>1, TimerTypes DEF Proved!RunCallback
  <2>2. QED
    BY <2>1
<1>4. UNCHANGED <<cstate, creq, mem, last, fault>>
  BY <1>1, <1>3 DEF Proved!RunCallback, MachineInv, UseInv
<1>5. CASE s \notin Forced /\ TimeoutTarget[s] = current_state
  <2>1. UNCHANGED machineVars /\ s # current_state
    BY <1>3, <1>5 DEF RunTimeout
  <2>2. UseInv'
    BY <1>4, <2>1 DEF MachineInv, UseInv, Pending, machineVars
  <2>3. Alive(current_state) => Alive(current_state)'
    BY <1>1, <1>3, <2>1, RunKeepsAlive
  <2>4. StepInv'
    BY <1>1, <1>4, <2>1, <2>3 DEF MachineInv, StepInv, OnlyRuns, CurrentRuns, machineVars
  <2>5. QED
    BY <1>2, <2>2, <2>4, ProvedKeeps DEF MachineInv
<1>6. CASE ~(s \notin Forced /\ TimeoutTarget[s] = current_state)
  <2>1. ChangeTo(TimeoutTarget[s]) /\ TimeoutTarget[s] \in State
    BY <1>3, <1>6 DEF RunTimeout
  <2>2. UseInv' /\ StepInv'
    BY <1>1, <1>4, <2>1, ChangeBegins
  <2>3. QED
    BY <1>2, <2>2, ProvedKeeps DEF MachineInv
<1>7. QED
  BY <1>5, <1>6

(* The application changes the state.                                        *)
LEMMA RunMessageKeeps ==
    ASSUME MachineInv, NEW s \in State, RunMessage(s)
    PROVE  MachineInv' /\ UNCHANGED Proved!vars
<1>1. UNCHANGED Proved!vars
  BY DEF RunMessage, timerVars, Proved!vars
<1>2. UNCHANGED <<cstate, creq, mem, last, fault>> /\ step = "idle" /\ ChangeTo(s)
  BY DEF RunMessage, timerVars
<1>3. UseInv' /\ StepInv'
  BY <1>2, ChangeBegins
<1>4. QED
  BY <1>1, <1>3, ProvedKeeps DEF MachineInv

(* The timer of the state that is left is stopped, if it has one.             *)
LEMMA StopKeeps ==
    ASSUME MachineInv, StopLastTimer
    PROVE  \/ Wild'
           \/ MachineInv' /\ [Proved!Next]_(Proved!vars)
<1>1. /\ step = "stop" /\ step' = "setup"
      /\ UNCHANGED <<current_state, last_state, wild, changes, messages>>
      /\ cstate[Slave] = "idle" /\ current_state \in State /\ OnlyRuns(last_state)
  BY DEF StopLastTimer, StopTimer, MachineInv, StepInv
<1>2. CASE last_state \in wild
  BY <1>1, <1>2 DEF StopLastTimer, StopTimer, UseWild, Wild
<1>3. CASE last_state \notin wild /\ last_state \in State /\ mem[last_state] = "live"
  <2>1. Ask(last_state, "del")
    BY <1>3 DEF StopLastTimer, StopTimer
  <2>2. Proved!Next
    BY <1>3, <2>1, AskToStop
  <2>3. /\ cstate' = [cstate EXCEPT ![Slave] = "push"]
        /\ creq' = [creq EXCEPT ![Slave] = [op |-> "del", obj |-> last_state]]
        /\ UNCHANGED <<mem, last, fault>>
    BY <2>1 DEF Ask, Timers!Call
  <2>4. cstate'[Slave] = "push" /\ creq'[Slave] = [op |-> "del", obj |-> last_state]
    BY <2>3, TimerTypes
  <2>5. UseInv'
    BY <1>1, <2>3, <2>4 DEF MachineInv, UseInv, Pending
  <2>6. StepInv'
    BY <1>1, <2>3, <2>4 DEF StepInv, Pending, OnlyRuns
  <2>7. QED
    BY <2>2, <2>5, <2>6, ProvedKeeps DEF MachineInv
<1>4. CASE last_state \notin wild /\ ~(last_state \in State /\ mem[last_state] = "live")
  <2>1. UNCHANGED timerVars
    BY <1>4 DEF StopLastTimer, StopTimer
  <2>2. NoneRuns
    <3> SUFFICES ASSUME NEW t \in State, last[t] = "add" PROVE FALSE
      BY DEF NoneRuns
    <3>1. t = last_state
      BY <1>1 DEF OnlyRuns
    <3>2. mem[t] # "live"
      BY <1>4, <3>1
    <3>3. mem[t] = "none"
      BY <3>2, TimerTypes DEF MachineInv, UseInv
    <3>4. QED
      BY <3>3, TimerTypes
  <2>3. UseInv'
    BY <1>1, <2>1 DEF MachineInv, UseInv, Pending, timerVars
  <2>4. StepInv'
    BY <1>1, <2>1, <2>2 DEF StepInv, Pending, NoneRuns, timerVars
  <2>5. UNCHANGED Proved!vars
    BY <2>1 DEF timerVars, Proved!vars
  <2>6. QED
    BY <2>3, <2>4, <2>5, ProvedKeeps DEF MachineInv
<1>5. QED
  BY <1>2, <1>3, <1>4

(* The timer of the state that is entered is created or used again.           *)
LEMMA SetupKeeps ==
    ASSUME MachineInv, SetupCurrentTimer
    PROVE  \/ Wild'
           \/ MachineInv' /\ Proved!Next
<1>1. /\ step = "setup" /\ step' = "act"
      /\ UNCHANGED <<current_state, last_state, wild, changes, messages>>
      /\ cstate[Slave] = "idle" /\ current_state \in State /\ ~Pending /\ NoneRuns
  BY DEF SetupCurrentTimer, SetupTimer, MachineInv, StepInv, Pending
<1>2. CASE current_state \in wild
  BY <1>1, <1>2 DEF SetupCurrentTimer, SetupTimer, UseWild, Wild
<1>3. CASE current_state \notin wild
  <2>1. Ask(current_state, "add")
    BY <1>3 DEF SetupCurrentTimer, SetupTimer
  <2>2. Proved!Next
    BY <1>1, <2>1, AskToRun
  <2>3. /\ cstate' = [cstate EXCEPT ![Slave] = "push"]
        /\ creq' = [creq EXCEPT ![Slave] = [op |-> "add", obj |-> current_state]]
        /\ mem' = [mem EXCEPT ![current_state] = "live"]
        /\ UNCHANGED <<last, fault>>
    BY <2>1 DEF Ask, Timers!Call
  <2>4. cstate'[Slave] = "push" /\ creq'[Slave] = [op |-> "add", obj |-> current_state]
    BY <2>3, TimerTypes
  <2>5. UseInv'
    <3>1. \A s \in State : mem'[s] = IF s = current_state THEN "live" ELSE mem[s]
      BY <2>3, TimerTypes
    <3>2. creq'[Slave].obj = current_state
      BY <2>4
    <3>3. QED
      BY <1>1, <2>3, <2>4, <3>1, <3>2 DEF MachineInv, UseInv, Pending
  <2>6. StepInv'
    BY <1>1, <2>3, <2>4 DEF StepInv, Pending, NoneRuns
  <2>7. QED
    BY <2>2, <2>5, <2>6, ProvedKeeps DEF MachineInv
<1>4. QED
  BY <1>2, <1>3

(* The action of the entry returns.                                          *)
LEMMA ActKeeps ==
    ASSUME MachineInv, Act
    PROVE  MachineInv' /\ UNCHANGED Proved!vars
<1>1. /\ step = "act" /\ step' = "idle" /\ cstate[Slave] = "idle"
      /\ UNCHANGED <<current_state, last_state, wild, changes, messages, timerVars>>
      /\ current_state \in State /\ OnlyRuns(current_state) /\ CurrentRuns
  BY DEF Act, MachineInv, StepInv, Pending
<1>2. UNCHANGED Proved!vars
  BY <1>1 DEF timerVars, Proved!vars
<1>3. Alive(current_state)'
  BY <1>1, QuietAlive DEF CurrentRuns, timerVars
<1>4. StepInv'
  BY <1>1, <1>3 DEF StepInv, OnlyRuns, CurrentRuns, timerVars
<1>5. UseInv'
  BY <1>1 DEF MachineInv, UseInv, Pending, timerVars
<1>6. QED
  BY <1>2, <1>4, <1>5, ProvedKeeps DEF MachineInv

(* The request is pushed: the timer of the state that is left is asked for no *)
(* more, or that of the state that is entered from now on.                   *)
LEMMA PushKeeps ==
    ASSUME MachineInv, Proved!PushRequest(Slave), UNCHANGED machineVars
    PROVE  UseInv' /\ StepInv'
<1>1. PICK r \in Proved!Request : r = creq[Slave]
  BY DEF Proved!PushRequest, MachineInv, Proved!CallInv, Proved!CallsSound, Proved!CallSound
<1>2. /\ Pending
      /\ new_ev_que' = Append(new_ev_que, r)
      /\ last' = [last EXCEPT ![r.obj] = r.op]
      /\ cstate' = [cstate EXCEPT ![Slave] = "write"]
      /\ UNCHANGED <<creq, mem, added, posted, fault>>
  BY <1>1 DEF Proved!PushRequest, Proved!PushedBack, Proved!Destroying, MachineInv, UseInv,
              Pending
<1>3. cstate'[Slave] = "write" /\ ~Pending'
  BY <1>2, TimerTypes DEF Pending
<1>4. r.obj \in State /\ r.op \in {"add", "del"}
  BY <1>1 DEF Proved!Request
<1>5. \A s \in State : last'[s] = IF s = r.obj THEN r.op ELSE last[s]
  BY <1>2, <1>4, TimerTypes
<1>6. UseInv'
  <2>1. \A s \in State : mem'[s] = "live" => last'[s] # "none"
    BY <1>1, <1>2, <1>4, <1>5 DEF MachineInv, UseInv
  <2>2. QED
    BY <1>2, <1>3, <2>1 DEF MachineInv, UseInv, machineVars
<1>7. CASE step = "setup"
  <2>1. r = [op |-> "del", obj |-> last_state] /\ OnlyRuns(last_state) /\ current_state \in State
    BY <1>1, <1>2, <1>7 DEF MachineInv, StepInv
  <2>2. r.op = "del" /\ r.obj = last_state
    BY <2>1
  <2>3. NoneRuns'
    BY <1>5, <2>1, <2>2 DEF NoneRuns, OnlyRuns
  <2>4. QED
    BY <1>3, <1>6, <1>7, <2>1, <2>3 DEF StepInv, machineVars
<1>8. CASE step = "act"
  <2>1. r = [op |-> "add", obj |-> current_state] /\ NoneRuns /\ current_state \in State
    BY <1>1, <1>2, <1>8 DEF MachineInv, StepInv
  <2>2. r.op = "add" /\ r.obj = current_state
    BY <2>1
  <2>3. UNCHANGED <<current_state, step>>
    BY DEF machineVars
  <2>4. OnlyRuns(current_state)' /\ last'[current_state'] = "add"
    BY <1>5, <2>1, <2>2, <2>3 DEF NoneRuns, OnlyRuns
  <2>5. Proved!CallInv
    BY DEF MachineInv
  <2>6. PICK n \in Nat :
           /\ \A i \in Nat : \A op, s : Proved!At(i, op, s) => i < n
           /\ \A i \in Nat : \A op, s :
                 Proved!At(i, op, s)' <=> Proved!At(i, op, s) \/ (i = n /\ op = r.op /\ s = r.obj)
    BY <1>2, <2>5, TimersAssumption, Proved!PushAt
  <2>7. Proved!At(n, "add", current_state)' /\ \A j \in Nat : n < j => ~Proved!At(j, "del", current_state)'
    BY <2>2, <2>3, <2>6
  <2>8. Alive(current_state)'
    BY <2>7 DEF Alive, At
  <2>9. QED
    BY <1>3, <1>6, <1>8, <2>1, <2>3, <2>4, <2>8 DEF StepInv, CurrentRuns
<1>9. QED
  BY <1>2, <1>7, <1>8 DEF MachineInv, StepInv, Pending

(* The command is written.                                                   *)
LEMMA WriteKeeps ==
    ASSUME MachineInv, Proved!WriteCommand(Slave), UNCHANGED machineVars
    PROVE  UseInv' /\ StepInv'
<1>1. /\ cstate[Slave] = "write"
      /\ cstate' = [cstate EXCEPT ![Slave] = "idle"]
      /\ UNCHANGED <<new_ev_que, creq, mem, last, added, posted, fault>>
  BY DEF Proved!WriteCommand, Proved!Destroying, MachineInv, UseInv
<1>2. cstate'[Slave] = "idle" /\ ~Pending' /\ ~Pending
  BY <1>1, TimerTypes DEF Pending
<1>3. UseInv'
  BY <1>1, <1>2 DEF MachineInv, UseInv, machineVars
<1>4. UNCHANGED <<current_state, last_state, step, changes>>
  BY DEF machineVars
<1>5. Alive(current_state) => Alive(current_state)'
  BY <1>1, <1>4, QuietAlive
<1>6. StepInv'
  BY <1>1, <1>2, <1>4, <1>5 DEF MachineInv, StepInv, OnlyRuns, NoneRuns, CurrentRuns
<1>7. QED
  BY <1>3, <1>6

(* The slave goes on with its request.                                       *)
LEMMA CallerKeeps ==
    ASSUME MachineInv, Timers!CallerStep(Slave), UNCHANGED machineVars
    PROVE  MachineInv' /\ Proved!Next
<1>1. Proved!CallerStep(Slave)
  BY SameTimers
<1>2. Proved!Next
  BY <1>1 DEF Proved!Next
<1>3. ~Proved!FreeObject(Slave)
  BY DEF Proved!FreeObject, MachineInv, UseInv
<1>4. UseInv' /\ StepInv'
  BY <1>1, <1>3, PushKeeps, WriteKeeps DEF Proved!CallerStep
<1>5. QED
  BY <1>2, <1>4, ProvedKeeps DEF MachineInv

(* Steps that leave the requests of the machine alone.                       *)
LEMMA OthersKeep ==
    ASSUME MachineInv, UNCHANGED machineVars, UNCHANGED <<cstate, creq, mem, last, fault>>,
           Alive(current_state) => Alive(current_state)'
    PROVE  UseInv' /\ StepInv'
<1>1. UseInv'
  BY DEF MachineInv, UseInv, Pending, machineVars
<1>2. UNCHANGED <<current_state, last_state, step, changes>>
  BY DEF machineVars
<1>3. StepInv'
  BY <1>2 DEF MachineInv, StepInv, OnlyRuns, NoneRuns, CurrentRuns, Pending
<1>4. QED
  BY <1>1, <1>3

(* The master starts, or applies a request.                                  *)
LEMMA MasterKeeps ==
    ASSUME MachineInv, Timers!MasterStep, UNCHANGED machineVars
    PROVE  MachineInv' /\ Proved!Next
<1>1. Proved!MasterStep
  BY SameTimers
<1>2. Proved!Next
  BY <1>1 DEF Proved!Next
<1>3. CASE Proved!MasterStart
  <2>1. UNCHANGED <<new_ev_que, cstate, creq, mem, last, added, posted, fault, current_state>>
    BY <1>3 DEF Proved!MasterStart, machineVars
  <2>2. UseInv' /\ StepInv'
    BY <2>1, OthersKeep, QuietAlive
  <2>3. QED
    BY <1>2, <2>2, ProvedKeeps DEF MachineInv
<1>4. CASE Proved!Arm
  <2>1. Proved!TakeRequest /\ UNCHANGED <<cstate, creq, mem, last>> /\ fault = "none"
    BY <1>4 DEF Proved!Arm, Proved!MasterAdd, Proved!MasterDel, Proved!TakeRequest
  <2>2. /\ Proved!CallInv /\ Proved!RequestInv
        /\ Head(command_pipe) = Proved!CommandFor(Head(new_ev_que).op)
    BY <2>1, TimersAssumption, OneThread, Proved!TakePairs DEF MachineInv, Proved!OneCallerInv
  <2>3. fault' \in {"none", "use after free"}
    BY <1>4, <2>2, TimersAssumption, Proved!FittingArm
  <2>4. Head(new_ev_que).obj \in State
    BY <2>1, <2>2, TimersAssumption, Proved!CommandHasRequest
       DEF Proved!TakeRequest, Proved!Request
  <2>5. fault' # "use after free"
    BY <1>4, <2>4 DEF Proved!Arm, Proved!MasterAdd, Proved!MasterDel, MachineInv, UseInv
  <2>6. UseInv' /\ StepInv'
    BY <1>4, <2>1, <2>3, <2>5, OthersKeep, TakeKeepsAlive
  <2>7. QED
    BY <1>2, <2>6, ProvedKeeps DEF MachineInv
<1>5. QED
  BY <1>1, <1>3, <1>4 DEF Proved!MasterStep, Proved!Arm

(* A timer fires.                                                            *)
LEMMA FireKeeps ==
    ASSUME MachineInv, NEW s \in State, Fire(s)
    PROVE  MachineInv' /\ Proved!Next
<1>1. Proved!Fire(s) /\ UNCHANGED machineVars
  BY SameTimers DEF Fire
<1>2. Proved!Next
  BY <1>1 DEF Proved!Next
<1>3. UNCHANGED <<cstate, creq, mem, last, fault>>
  BY <1>1 DEF Proved!Fire, MachineInv, UseInv
<1>4. UseInv' /\ StepInv'
  BY <1>1, <1>3, OthersKeep, FireKeepsAlive
<1>5. QED
  BY <1>2, <1>4, ProvedKeeps DEF MachineInv
-----------------------------------------------------------------------------
(* A step of the machine is one of its timers, or leaves them alone, unless   *)
(* it uses an entry whose field was never set.                               *)
LEMMA MachineStep ==
    ASSUME MachineInv, [Next]_vars
    PROVE  Wild' \/ (MachineInv' /\ [Proved!Next]_(Proved!vars))
<1>1. ASSUME NEW s \in State, RunMessage(s)
      PROVE  MachineInv' /\ [Proved!Next]_(Proved!vars)
  BY <1>1, RunMessageKeeps
<1>2. CASE SlaveStep
  BY <1>2, RunTimeoutKeeps, StopKeeps, SetupKeeps, ActKeeps, CallerKeeps DEF SlaveStep
<1>3. CASE MasterStep
  BY <1>3, MasterKeeps DEF MasterStep
<1>4. ASSUME NEW s \in State, Fire(s)
      PROVE  MachineInv' /\ [Proved!Next]_(Proved!vars)
  BY <1>4, FireKeeps
<1>5. CASE UNCHANGED vars
  <2>1. UNCHANGED machineVars /\ UNCHANGED timerVars
    BY <1>5 DEF vars
  <2>2. UNCHANGED <<new_ev_que, cstate, creq, mem, last, added, posted, fault, current_state>>
    BY <2>1 DEF machineVars, timerVars
  <2>3. UseInv' /\ StepInv'
    BY <2>1, <2>2, OthersKeep, QuietAlive
  <2>4. UNCHANGED Proved!vars
    BY <2>1 DEF timerVars, Proved!vars
  <2>5. QED
    BY <2>3, <2>4, ProvedKeeps DEF MachineInv
<1>6. QED
  BY <1>1, <1>2, <1>3, <1>4, <1>5 DEF Next, Done

(* Nothing but the master's start can follow a wild timer.                    *)
LEMMA WildStays == Wild /\ [Next]_vars => Wild'
<1> SUFFICES ASSUME Wild, [Next]_vars PROVE Wild'
  OBVIOUS
<1>1. CASE SlaveStep
  BY <1>1 DEF SlaveStep, RunTimeout, StopLastTimer, StopTimer, SetupCurrentTimer, SetupTimer,
              Act, Timers!CallerStep, Timers!PushRequest, Timers!WriteCommand,
              Timers!FreeObject, Wild
<1>2. CASE MasterStep
  BY <1>2 DEF MasterStep, Timers!MasterStep, Timers!MasterStart, Timers!MasterAdd,
              Timers!MasterDel, Timers!TakeRequest, Wild, machineVars
<1>3. QED
  BY <1>1, <1>2 DEF Next, RunMessage, ChangeTo, Fire, Timers!Fire, Done, Wild, vars,
                    machineVars, timerVars

(* A new machine has asked for nothing.                                      *)
LEMMA InitMachine == Init => MachineInv
<1> SUFFICES ASSUME Init PROVE MachineInv
  OBVIOUS
<1>1. Proved!Init
  BY SameTimers DEF Init
<1>2. Proved!CallInv /\ Proved!OneCallerInv
  BY <1>1, TimersAssumption, Proved!InitCall, Proved!InitOneCaller
<1>3. /\ cstate[Slave] = "idle" /\ fault = "none"
      /\ \A s \in State : mem[s] = "none" /\ last[s] = "none"
  BY <1>1 DEF Proved!Init
<1>4. UseInv /\ StepInv
  BY <1>3 DEF Init, UseInv, StepInv, OnlyRuns
<1>5. QED
  BY <1>2, <1>4 DEF MachineInv

(* All the machine's life is under its invariant, or past a wild timer.      *)
LEMMA MachineLife == SafeSpec => [](MachineInv \/ Wild)
<1>1. Init => MachineInv \/ Wild
  BY InitMachine
<1>2. (MachineInv \/ Wild) /\ [Next]_vars => (MachineInv \/ Wild)'
  BY MachineStep, WildStays
<1>3. QED
  BY <1>1, <1>2, PTL DEF SafeSpec

(* No timer is reused while its event is in the base and no command meets a  *)
(* request of the other kind, however late the master applies the requests:  *)
(* a change of state queues the stop of the timer it leaves before the start *)
(* of that it enters, and between two changes one timer runs.                *)
THEOREM TimersDisciplined == SafeSpec => []TimerDiscipline
<1>1. MachineInv \/ Wild => TimerDiscipline
  BY DEF MachineInv, UseInv, Wild, TimerDiscipline, Timers!NoAssignWhileAdded,
         Timers!CommandsFitRequests
<1>2. QED
  BY <1>1, MachineLife, PTL

(* Between changes, once the requests are applied, the timer of the current  *)
(* state is armed or its callback waits, and no other is armed: for any      *)
(* states and however many changes came before.                              *)
THEOREM ArmedCorrect == SafeSpec => []ArmedIsCurrent
<1>1. MachineInv \/ Wild => ArmedIsCurrent
  <2> SUFFICES ASSUME MachineInv, Quiet, changes > 0
               PROVE  /\ added \subseteq {current_state}
                      /\ current_state \in added \/ Due(current_state)
    BY DEF ArmedIsCurrent, Quiet, Wild
  <2>1. changes \in Nat /\ changes # 0
    BY DEF MachineInv, UseInv
  <2>2. OnlyRuns(current_state) /\ CurrentRuns
    BY <2>1 DEF MachineInv, StepInv, Quiet
  <2>3. \A j, op, s : ~Proved!At(j, op, s)
    BY DEF Quiet, Proved!At
  <2>4. current_state \in added \/ Due(current_state)
    BY <2>2, <2>3 DEF CurrentRuns, Alive, At
  <2>5. ASSUME NEW s \in added PROVE s = current_state
    <3>1. s \in State /\ last[s] \in {"none", "add", "del"}
      BY TimerTypes
    <3>2. Proved!StopQueued /\ Proved!NeverAsked
      BY DEF MachineInv, Proved!OneCallerInv, Proved!RequestInv
    <3>3. last[s] # "none"
      BY <3>1, <3>2 DEF Proved!NeverAsked
    <3>4. last[s] # "del"
      BY <2>3, <3>1, <3>2 DEF Proved!StopQueued
    <3>5. QED
      BY <2>2, <3>1, <3>3, <3>4 DEF OnlyRuns
  <2>6. QED
    BY <2>4, <2>5
<1>2. QED
  BY <1>1, MachineLife, PTL
-----------------------------------------------------------------------------
(* While the application asks for one state only, there is one token at most: *)
(* the add that is queued, the timer that is armed or the callback that       *)
(* waits, and it is that of the current state.                               *)
NoToken ==
    /\ added = {}
    /\ posted = <<>>
    /\ \A k \in Nat : \A s : ~At(k, "add", s)

OneToken(c) ==
    /\ added \subseteq {c}
    /\ posted = <<>> \/ posted = <<c>>
    /\ posted # <<>> => added = {}
    /\ posted # <<>> \/ added # {} => \A k \in Nat : \A s : ~At(k, "add", s)
    /\ \A k, j \in Nat : \A s, t : At(k, "add", s) /\ At(j, "add", t) => k = j /\ s = c

(* The token leaves when the callback runs, and comes with the add.          *)
Holding == step = "idle" \/ (step = "act" /\ ~Pending)

TokenInv ==
    /\ messages \in Nat
    /\ messages = 0 => step = "idle" /\ NoToken
    /\ messages <= 1 /\ Holding => OneToken(current_state)
    /\ messages <= 1 /\ ~Holding => NoToken

(* Where nothing is, one may be.                                             *)
LEMMA NoneIsAtMostOne == ASSUME NoToken, NEW c PROVE OneToken(c)
  BY DEF NoToken, OneToken

(* Where the timers do not change, the token stays.                          *)
LEMMA QuietToken ==
    ASSUME UNCHANGED <<new_ev_que, added, posted>>, NEW c
    PROVE  (NoToken => NoToken') /\ (OneToken(c) => OneToken(c)')
  BY DEF NoToken, OneToken, At, Proved!At

(* The callback takes the token.                                             *)
LEMMA RunTakesToken ==
    ASSUME MachineInv, TokenInv, RunTimeout
    PROVE  TokenInv'
<1>1. /\ step = "idle" /\ posted # <<>> /\ posted' = Tail(posted)
      /\ UNCHANGED <<new_ev_que, added, cstate>>
  BY SameTimers DEF RunTimeout, Proved!RunCallback
<1>2. CASE messages <= 1
  <2>1. OneToken(current_state)
    BY <1>1, <1>2 DEF TokenInv, Holding
  <2>2. messages # 0
    BY <1>1 DEF TokenInv, NoToken
  <2>3. posted = <<current_state>> /\ added = {} /\ \A k \in Nat : \A s : ~At(k, "add", s)
    BY <1>1, <2>1 DEF OneToken
  <2>4. posted' = <<>> /\ Head(posted) = current_state
    BY <1>1, <2>3
  <2>5. NoToken'
    BY <1>1, <2>3, <2>4 DEF NoToken, At, Proved!At
  <2>6. posted \in Seq(State) /\ current_state \in State
    <3>1. posted \in Seq(State)
      BY TimerTypes
    <3>2. QED
      BY <1>1, <2>4, <3>1
  <2>7. ChangeTo(TimeoutTarget[current_state]) /\ messages' = messages
    BY <2>4, <2>6 DEF RunTimeout
  <2>8. step' = "stop"
    BY <2>7 DEF ChangeTo
  <2>9. QED
    BY <2>2, <2>5, <2>7, <2>8 DEF TokenInv, Holding
<1>3. CASE ~(messages <= 1)
  <2>1. messages' = messages
    BY DEF RunTimeout, machineVars
  <2>2. QED
    BY <1>3, <2>1 DEF TokenInv
<1>4. QED
  BY <1>2, <1>3

(* The application's first wish finds no token, and the second ends the      *)
(* promise.                                                                  *)
LEMMA MessageToken ==
    ASSUME MachineInv, TokenInv, NEW s \in State, RunMessage(s)
    PROVE  TokenInv'
<1>1. /\ messages' = messages + 1 /\ messages \in Nat /\ step' = "stop"
      /\ UNCHANGED <<new_ev_que, added, posted>>
  BY DEF RunMessage, ChangeTo, timerVars, TokenInv
<1>2. messages = 0 => NoToken'
  BY <1>1, QuietToken DEF TokenInv
<1>3. messages' \in Nat /\ messages' # 0 /\ (messages' <= 1 => messages = 0)
  BY <1>1
<1>4. QED
  BY <1>1, <1>2, <1>3 DEF TokenInv, Holding

(* A request announced brings no token yet.                                  *)
LEMMA StopToken ==
    ASSUME MachineInv, TokenInv, StopLastTimer
    PROVE  TokenInv'
<1>1. /\ step = "stop" /\ step' = "setup" /\ UNCHANGED messages
      /\ UNCHANGED <<new_ev_que, added, posted>>
  BY DEF StopLastTimer, StopTimer, UseWild, Ask, timerVars
<1>2. NoToken => NoToken'
  BY <1>1, QuietToken
<1>3. QED
  BY <1>1, <1>2 DEF TokenInv, Holding

LEMMA SetupToken ==
    ASSUME MachineInv, TokenInv, SetupCurrentTimer
    PROVE  TokenInv'
<1>1. /\ step = "setup" /\ step' = "act" /\ UNCHANGED messages
      /\ UNCHANGED <<new_ev_que, added, posted>>
  BY DEF SetupCurrentTimer, SetupTimer, UseWild, Ask, timerVars
<1>2. NoToken => NoToken'
  BY <1>1, QuietToken
<1>3. NoToken' => OneToken(current_state)'
  BY DEF NoToken, OneToken
<1>4. QED
  BY <1>1, <1>2, <1>3 DEF TokenInv, Holding

LEMMA ActToken ==
    ASSUME MachineInv, TokenInv, Act
    PROVE  TokenInv'
<1>1. /\ step = "act" /\ step' = "idle" /\ ~Pending
      /\ UNCHANGED <<messages, current_state, new_ev_que, added, posted>>
  BY DEF Act, Pending, timerVars
<1>2. OneToken(current_state) => OneToken(current_state)'
  BY <1>1 DEF OneToken, At, Proved!At
<1>3. QED
  BY <1>1, <1>2 DEF TokenInv, Holding

(* The add that is pushed is the only token.                                 *)
LEMMA PushToken ==
    ASSUME MachineInv, TokenInv, Proved!PushRequest(Slave), UNCHANGED machineVars
    PROVE  TokenInv'
<1>1. PICK r \in Proved!Request : r = creq[Slave]
  BY DEF Proved!PushRequest, MachineInv, Proved!CallInv, Proved!CallsSound, Proved!CallSound
<1>2. /\ Pending
      /\ new_ev_que' = Append(new_ev_que, r)
      /\ cstate' = [cstate EXCEPT ![Slave] = "write"]
      /\ UNCHANGED <<added, posted>>
  BY <1>1 DEF Proved!PushRequest, Proved!PushedBack, Proved!Destroying, MachineInv, UseInv,
              Pending
<1>3. ~Pending'
  BY <1>2, TimerTypes DEF Pending
<1>4. UNCHANGED <<current_state, step, messages>>
  BY DEF machineVars
<1>5. Proved!CallInv
  BY DEF MachineInv
<1>6. PICK n \in Nat :
         /\ \A i \in Nat : \A op, s : Proved!At(i, op, s) => i < n
         /\ \A i \in Nat : \A op, s :
               Proved!At(i, op, s)' <=> Proved!At(i, op, s) \/ (i = n /\ op = r.op /\ s = r.obj)
  BY <1>2, <1>5, TimersAssumption, Proved!PushAt
<1>7. CASE step = "setup"
  <2>1. r = [op |-> "del", obj |-> last_state]
    BY <1>1, <1>2, <1>7 DEF MachineInv, StepInv
  <2>2. r.op = "del"
    BY <2>1
  <2>3. NoToken => NoToken'
    BY <1>2, <1>6, <2>2 DEF NoToken, At
  <2>4. QED
    BY <1>4, <1>7, <2>3 DEF TokenInv, Holding
<1>8. CASE step = "act"
  <2>1. r = [op |-> "add", obj |-> current_state]
    BY <1>1, <1>2, <1>8 DEF MachineInv, StepInv
  <2>2. r.op = "add" /\ r.obj = current_state
    BY <2>1
  <2>3. NoToken => OneToken(current_state)'
    BY <1>2, <1>4, <1>6, <2>2 DEF NoToken, OneToken, At
  <2>4. QED
    BY <1>2, <1>3, <1>4, <1>8, <2>3 DEF TokenInv, Holding
<1>9. QED
  BY <1>2, <1>7, <1>8 DEF MachineInv, StepInv, Pending

LEMMA CallerToken ==
    ASSUME MachineInv, TokenInv, Timers!CallerStep(Slave), UNCHANGED machineVars
    PROVE  TokenInv'
<1>1. Proved!CallerStep(Slave)
  BY SameTimers
<1>2. CASE Proved!WriteCommand(Slave)
  <2>1. /\ cstate[Slave] = "write"
        /\ cstate' = [cstate EXCEPT ![Slave] = "idle"]
        /\ UNCHANGED <<new_ev_que, added, posted>>
    BY <1>2 DEF Proved!WriteCommand, Proved!Destroying, MachineInv, UseInv
  <2>2. ~Pending /\ ~Pending'
    BY <2>1, TimerTypes DEF Pending
  <2>3. UNCHANGED <<current_state, step, messages>>
    BY DEF machineVars
  <2>4. NoToken => NoToken'
    BY <2>1, QuietToken
  <2>5. OneToken(current_state) => OneToken(current_state)'
    BY <2>1, <2>3 DEF OneToken, At, Proved!At
  <2>6. QED
    BY <2>2, <2>3, <2>4, <2>5 DEF TokenInv, Holding
<1>3. ~Proved!FreeObject(Slave)
  BY DEF Proved!FreeObject, MachineInv, UseInv
<1>4. QED
  BY <1>1, <1>2, <1>3, PushToken DEF Proved!CallerStep

(* The master turns the add into an armed timer.                             *)
LEMMA ArmToken ==
    ASSUME MachineInv, TokenInv, Proved!Arm, UNCHANGED machineVars
    PROVE  TokenInv'
<1>1. Proved!TakeRequest /\ UNCHANGED <<posted, cstate>>
  BY DEF Proved!Arm, Proved!MasterAdd, Proved!MasterDel, Proved!TakeRequest
<1>2. Proved!CallInv
  BY DEF MachineInv
<1>3. /\ \A op, s : Proved!At(1, op, s) <=> Head(new_ev_que).op = op /\ Head(new_ev_que).obj = s
      /\ \A i \in Nat : \A op, s : Proved!At(i, op, s)' <=> i > 0 /\ Proved!At(i + 1, op, s)
  BY <1>1, <1>2, TimersAssumption, Proved!TakeAt
<1>4. Head(command_pipe) = Proved!CommandFor(Head(new_ev_que).op)
  BY <1>1, <1>2, TimersAssumption, OneThread, Proved!TakePairs
     DEF MachineInv, Proved!OneCallerInv
<1>5. Head(new_ev_que).op \in {"add", "del"}
  BY <1>1, <1>2, TimersAssumption, Proved!CommandHasRequest DEF Proved!TakeRequest, Proved!Request
<1>6. added' = IF Head(new_ev_que).op = "add" THEN added \cup {Head(new_ev_que).obj}
                                             ELSE added \ {Head(new_ev_que).obj}
  BY <1>4, <1>5 DEF Proved!Arm, Proved!MasterAdd, Proved!MasterDel, Proved!EventAdd,
                    Proved!EventDel, Proved!CommandFor
<1>7. UNCHANGED <<current_state, step, messages>> /\ (Holding <=> Holding')
  BY <1>1 DEF machineVars, Holding, Pending
<1>8. ASSUME NoToken PROVE NoToken'
  <2>1. Head(new_ev_que).op = "del"
    BY <1>3, <1>5, <1>8 DEF NoToken, At
  <2>2. QED
    BY <1>1, <1>3, <1>6, <1>8, <2>1 DEF NoToken, At
<1>9. ASSUME OneToken(current_state) PROVE OneToken(current_state)'
  <2>1. \A i \in Nat : \A s : Proved!At(i, "add", s)' => Proved!At(i + 1, "add", s)
    BY <1>3
  <2>2. CASE Head(new_ev_que).op = "del"
    BY <1>1, <1>6, <1>7, <1>9, <2>1, <2>2 DEF OneToken, At
  <2>3. CASE Head(new_ev_que).op = "add"
    <3>1. Proved!At(1, "add", Head(new_ev_que).obj)
      BY <1>3, <2>3
    <3>2. /\ Head(new_ev_que).obj = current_state
          /\ posted = <<>> /\ added = {}
          /\ \A k \in Nat : \A s : Proved!At(k, "add", s) => k = 1
      BY <1>9, <3>1 DEF OneToken, At
    <3>3. added' = {current_state}
      BY <1>6, <2>3, <3>2
    <3>4. \A i \in Nat : \A s : ~Proved!At(i, "add", s)'
      <4> SUFFICES ASSUME NEW i \in Nat, NEW s, Proved!At(i, "add", s)' PROVE FALSE
        OBVIOUS
      <4>1. i > 0 /\ Proved!At(i + 1, "add", s)
        BY <1>3
      <4>2. i + 1 = 1
        BY <3>2, <4>1
      <4>3. QED
        BY <4>1, <4>2
    <3>5. QED
      BY <1>1, <1>7, <3>2, <3>3, <3>4 DEF OneToken, At
  <2>4. QED
    BY <1>5, <2>2, <2>3
<1>10. QED
  BY <1>7, <1>8, <1>9 DEF TokenInv

LEMMA MasterToken ==
    ASSUME MachineInv, TokenInv, Timers!MasterStep, UNCHANGED machineVars
    PROVE  TokenInv'
<1>1. Proved!MasterStep
  BY SameTimers
<1>2. CASE Proved!MasterStart
  <2>1. UNCHANGED <<new_ev_que, added, posted, cstate>>
    BY <1>2 DEF Proved!MasterStart
  <2>2. UNCHANGED <<current_state, step, messages>> /\ (Holding <=> Holding')
    BY <2>1 DEF machineVars, Holding, Pending
  <2>3. QED
    BY <2>1, <2>2 DEF TokenInv, NoToken, OneToken, At, Proved!At
<1>3. QED
  BY <1>1, <1>2, ArmToken DEF Proved!MasterStep, Proved!Arm

(* The timer that fires leaves the base and is posted.                       *)
LEMMA FireToken ==
    ASSUME MachineInv, TokenInv, NEW s \in State, Fire(s)
    PROVE  TokenInv'
<1>1. /\ s \in added /\ added' = added \ {s} /\ posted' = Append(posted, s)
      /\ UNCHANGED <<new_ev_que, cstate>>
  BY SameTimers DEF Fire, Proved!Fire
<1>2. UNCHANGED <<current_state, step, messages>> /\ (Holding <=> Holding')
  BY <1>1 DEF Fire, machineVars, Holding, Pending
<1>3. ~NoToken
  BY <1>1 DEF NoToken
<1>4. ASSUME OneToken(current_state) PROVE OneToken(current_state)'
  <2>1. posted = <<>> /\ s = current_state /\ added' = {}
    BY <1>1, <1>4 DEF OneToken
  <2>2. posted' = <<current_state>>
    BY <1>1, <2>1
  <2>3. QED
    BY <1>1, <1>2, <1>4, <2>1, <2>2 DEF OneToken, At, Proved!At
<1>5. QED
  BY <1>2, <1>3, <1>4 DEF TokenInv

(* Every step keeps the token.                                               *)
LEMMA TokenStep ==
    ASSUME MachineInv, TokenInv, [Next]_vars
    PROVE  TokenInv'
<1>1. CASE SlaveStep
  BY <1>1, RunTakesToken, StopToken, SetupToken, ActToken, CallerToken DEF SlaveStep
<1>2. CASE UNCHANGED vars
  <2>1. UNCHANGED <<new_ev_que, added, posted, cstate, current_state, step, messages>>
    BY <1>2 DEF vars, timerVars, machineVars
  <2>2. QED
    BY <2>1 DEF TokenInv, NoToken, OneToken, Holding, Pending, At, Proved!At
<1>3. QED
  BY <1>1, <1>2, MessageToken, MasterToken, FireToken DEF Next, MasterStep, Done

(* A machine that the application started and then left to its timeouts      *)
(* never has the callback of a state it is not in waiting when it is between  *)
(* two changes: the timer of a state is started after the last callback ran,  *)
(* stopped by nobody and fires once.                                         *)
THEOREM TimeoutsCorrect == SafeSpec => []TimeoutInOwnState
<1>1. Init => TokenInv
  <2> SUFFICES ASSUME Init PROVE TokenInv
    OBVIOUS
  <2>1. Proved!Init
    BY SameTimers DEF Init
  <2>2. NoToken
    BY <2>1 DEF Proved!Init, NoToken, At, Proved!At
  <2>3. OneToken(current_state)
    BY <2>2, NoneIsAtMostOne
  <2>4. QED
    BY <2>2, <2>3 DEF Init, TokenInv, Holding
<1>2. ((MachineInv /\ TokenInv) \/ Wild) /\ [Next]_vars
          => ((MachineInv /\ TokenInv) \/ Wild)'
  BY MachineStep, TokenStep, WildStays
<1>3. (MachineInv /\ TokenInv) \/ Wild => TimeoutInOwnState
  <2> SUFFICES ASSUME TokenInv, messages <= 1, step = "idle", NEW s \in State, Due(s)
               PROVE  s = current_state
    BY DEF TimeoutInOwnState, Wild
  <2>1. OneToken(current_state)
    BY DEF TokenInv, Holding
  <2>2. posted # <<>>
    BY DEF Due
  <2>3. posted = <<current_state>>
    BY <2>1, <2>2 DEF OneToken
  <2>4. QED
    BY <2>3 DEF Due
<1>4. QED
  BY <1>1, <1>2, <1>3, InitMachine, PTL DEF SafeSpec
-----------------------------------------------------------------------------
(* The next-state relation of the timers proved about is the machine's.      *)
LEMMA SameNext == Timers!Next = Proved!Next /\ Timers!vars = Proved!vars
<1>1. ASSUME NEW s \in State
      PROVE  /\ Timers!Create(Slave, s) = Proved!Create(Slave, s)
             /\ Timers!Reuse(Slave, s) = Proved!Reuse(Slave, s)
             /\ Timers!Stop(Slave, s) = Proved!Stop(Slave, s)
             /\ Timers!Destroy(Slave, s) = Proved!Destroy(Slave, s)
  BY SameTimers DEF Timers!Create, Proved!Create, Timers!Reuse, Proved!Reuse, Timers!Stop,
                    Proved!Stop, Timers!Destroy, Proved!Destroy
<1>2. Timers!vars = Proved!vars
  BY DEF Timers!vars, Proved!vars
<1>3. Timers!Done = Proved!Done
  BY DEF Timers!Done, Proved!Done, Timers!vars, Proved!vars
<1>4. Timers!Next = Proved!Next
  BY <1>1, <1>3, SameTimers DEF Timers!Next, Proved!Next
<1>5. QED
  BY <1>2, <1>4

(* Of a machine whose entries are zero at first every step is one that the   *)
(* timers allow their one caller, or leaves them alone: no timer is used     *)
(* before it is created, and none is started again that was not stopped.     *)
THEOREM MachineUsesTimers ==
    ASSUME MemoryZeroed
    PROVE  SafeSpec => Timers!SafeSpec
<1>1. Init => Timers!Init /\ MachineInv /\ wild = {}
  BY InitMachine DEF Init
<1>2. MachineInv /\ wild = {} /\ [Next]_vars
          => (MachineInv /\ wild = {})' /\ [Timers!Next]_(Timers!vars)
  <2> SUFFICES ASSUME MachineInv, wild = {}, [Next]_vars
               PROVE  (MachineInv /\ wild = {})' /\ [Timers!Next]_(Timers!vars)
    OBVIOUS
  <2>1. wild' = wild
    BY DEF Next, RunMessage, ChangeTo, SlaveStep, RunTimeout, StopLastTimer, StopTimer,
           SetupCurrentTimer, SetupTimer, Act, MasterStep, Fire, Done, machineVars, vars
  <2>2. ~Wild'
    <3>1. fault = "none"
      BY DEF MachineInv, UseInv
    <3>2. fault' # "wild timer"
      <4>1. CASE SlaveStep
        BY <3>1, <4>1 DEF SlaveStep, RunTimeout, Timers!RunCallback, StopLastTimer, StopTimer,
              SetupCurrentTimer, SetupTimer, Ask, Act, Timers!CallerStep, Timers!PushRequest,
              Timers!WriteCommand, Timers!FreeObject, timerVars
      <4>2. CASE MasterStep
        BY <3>1, <4>2 DEF MasterStep, Timers!MasterStep, Timers!MasterStart, Timers!MasterAdd,
              Timers!MasterDel
      <4>3. QED
        BY <3>1, <4>1, <4>2 DEF Next, RunMessage, Fire, Timers!Fire, Done, vars, timerVars
    <3>3. QED
      BY <3>2 DEF Wild
  <2>3. MachineInv' /\ [Proved!Next]_(Proved!vars)
    BY <2>2, MachineStep
  <2>4. QED
    BY <2>1, <2>3, SameNext DEF Timers!vars, Proved!vars
<1>3. QED
  BY <1>1, <1>2, PTL DEF SafeSpec, Timers!SafeSpec
=============================================================================
