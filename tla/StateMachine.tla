----------------------------- MODULE StateMachine -----------------------------
(***************************************************************************)
(* The state machine of libstate_machine/state_machine.c over the timers   *)
(* of module EventQueue.                                                   *)
(*                                                                         *)
(* Each state has an entry with a timer, created when the state is first   *)
(* entered and reused after that.  A change of state stores the new state, *)
(* queues the del of the timer of the state that is left and the add of    *)
(* that of the state that is entered, and runs an action.  The timer's     *)
(* callback, which a slave runs some time after the timer has fired,       *)
(* changes the state in turn.                                              *)
(*                                                                         *)
(* A machine has no lock.  Its states are changed by one thread here, as   *)
(* they are with the default of one slave: by the callbacks of its timers  *)
(* and by other work the slave does for the application.                   *)
(***************************************************************************)
EXTENDS Naturals, Sequences, FiniteSets

CONSTANTS State,         (* the states with a callback; each is its timer   *)
          Uninited,      (* the state a new machine is in                   *)
          TimeoutTarget, (* what the timeout of each state changes it to    *)
          Forced,        (* states whose timeout uses change_state_force    *)
          Slave,         (* the thread that changes states                  *)
          MemoryZeroed,  (* TRUE if entries come from memory that is zero   *)
          CommandCap,    (* bytes the command pipe holds                    *)
          MaxChanges,    (* bound: changes of state in a run                *)
          MaxPosted,     (* bound: callbacks posted and not run             *)
          NoObj          (* no timer                                        *)

ASSUME StateMachineAssumption ==
    /\ Uninited \notin State
    /\ NoObj \notin State
    /\ TimeoutTarget \in [State -> State]
    /\ Forced \subseteq State
    /\ \A s \in State : TimeoutTarget[s] = s => s \in Forced
    /\ MemoryZeroed \in BOOLEAN
    /\ CommandCap \in Nat \ {0}
    /\ MaxChanges \in Nat
    /\ MaxPosted \in Nat

VARIABLES
    (* The timers, as in EventQueue.                                        *)
    master_inited, new_ev_que, command_pipe, cstate, creq, mem, last, added,
    posted, fault, requests,
    (* The machine.                                                         *)
    current_state,
    last_state,
    wild,          (* entries whose timer field was never set and is not 0  *)
    step,          (* where change_state is: "idle", "stop", "setup", "act" *)
    changes,       (* history: changes of state                             *)
    messages       (* history: those the application asked for              *)

timerVars == <<master_inited, new_ev_que, command_pipe, cstate, creq, mem, last,
               added, posted, fault, requests>>
machineVars == <<current_state, last_state, wild, step, changes, messages>>
vars == <<timerVars, machineVars>>

(* The timers of a machine fire once; a change makes at most two requests.   *)
Timers == INSTANCE EventQueue WITH
              Obj         <- State,
              Persistent  <- {},
              Caller      <- {Slave},
              MayDestroy  <- FALSE,
              MaxRequests <- 2 * MaxChanges

(* state_machine: the entries are copied into the vector with a timer field  *)
(* that nobody has set.                                                      *)
Init ==
    /\ Timers!Init
    /\ current_state = Uninited
    /\ last_state = Uninited
    /\ wild \in IF MemoryZeroed THEN {{}} ELSE SUBSET State
    /\ step = "idle"
    /\ changes = 0
    /\ messages = 0
-----------------------------------------------------------------------------
(* The first lines of change_state and change_state_force.                   *)
ChangeTo(s) ==
    /\ fault = "none"
    /\ changes < MaxChanges
    /\ last_state' = current_state
    /\ current_state' = s
    /\ step' = "stop"
    /\ changes' = changes + 1
    /\ UNCHANGED wild

(* The slave runs the callback of a timer; change_state, unlike               *)
(* change_state_force, ignores a change to the current state.                *)
RunTimeout ==
    /\ step = "idle"
    /\ Timers!RunCallback
    /\ LET s == Head(posted) IN
       IF s \notin Forced /\ TimeoutTarget[s] = current_state
       THEN UNCHANGED machineVars
       ELSE ChangeTo(TimeoutTarget[s]) /\ UNCHANGED messages

(* The slave does other work of the application, which changes the state.    *)
RunMessage(s) ==
    /\ step = "idle"
    /\ s # current_state
    /\ ChangeTo(s)
    /\ messages' = messages + 1
    /\ UNCHANGED timerVars

(* A stop or reuse of a timer that nobody created.                           *)
UseWild ==
    /\ fault' = "wild timer"
    /\ UNCHANGED <<master_inited, new_ev_que, command_pipe, cstate, creq, mem,
                   last, added, posted, requests>>

(* The request of a stop, a reuse or a creation, written in the steps of      *)
(* Timers!CallerStep.                                                         *)
Ask(s, op) ==
    /\ Timers!Call(Slave, s, op, "push")
    /\ mem' = IF op = "add" THEN [mem EXCEPT ![s] = "live"] ELSE mem
    /\ UNCHANGED <<master_inited, new_ev_que, command_pipe, last, added, posted,
                   fault, requests>>

(* state_machine_stop_entry_timer of state s.                                *)
StopTimer(s) ==
    /\ step = "stop"
    /\ fault = "none"
    /\ IF s \in wild THEN UseWild
       ELSE IF s \in State /\ mem[s] = "live" THEN Ask(s, "del")
       ELSE UNCHANGED timerVars
    /\ step' = "setup"
    /\ UNCHANGED <<current_state, last_state, wild, changes, messages>>

(* Variants for mutation: the wrong timer is stopped; none is.                *)
StopCurrentTimer == StopTimer(current_state)
StopNoTimer == StopTimer(Uninited)

StopLastTimer == StopTimer(last_state)

(* state_machine_setup_entry_timer of state s: tmr_user the first time,       *)
(* tmr_user_reuse after that, both of which add the event.                   *)
SetupTimer(s) ==
    /\ step = "setup"
    /\ fault = "none"
    /\ cstate[Slave] = "idle"
    /\ IF s \in wild THEN UseWild ELSE Ask(s, "add")
    /\ step' = "act"
    /\ UNCHANGED <<current_state, last_state, wild, changes, messages>>

(* Variants for mutation: the wrong entry; a timer that exists is not reused. *)
SetupLastTimer == SetupTimer(IF last_state \in State THEN last_state ELSE current_state)
SetupNewTimer ==
    /\ step = "setup"
    /\ cstate[Slave] = "idle"
    /\ \/ mem[current_state] = "none" /\ SetupTimer(current_state)
       \/ /\ mem[current_state] # "none"
          /\ step' = "act"
          /\ UNCHANGED <<current_state, last_state, wild, changes, messages, timerVars>>

SetupCurrentTimer == SetupTimer(current_state)

(* The action of the entry returns, and with it change_state.  An action that *)
(* changes the state itself is this step and a message right after it.       *)
Act ==
    /\ step = "act"
    /\ fault = "none"
    /\ cstate[Slave] = "idle"
    /\ step' = "idle"
    /\ UNCHANGED <<current_state, last_state, wild, changes, messages, timerVars>>
-----------------------------------------------------------------------------
SlaveStep ==
    \/ RunTimeout
    \/ StopLastTimer
    \/ SetupCurrentTimer
    \/ Act
    \/ Timers!CallerStep(Slave) /\ UNCHANGED machineVars

MasterStep == Timers!MasterStep /\ UNCHANGED machineVars

Fire(s) == Timers!Fire(s) /\ UNCHANGED machineVars

(* The changes of the run are spent, or the process is past an undefined step. *)
Done ==
    /\ \/ fault # "none"
       \/ changes = MaxChanges /\ step = "idle"
    /\ UNCHANGED vars

Next ==
    \/ \E s \in State : RunMessage(s)
    \/ SlaveStep
    \/ MasterStep
    \/ \E s \in State : Fire(s)
    \/ Done

SafeSpec == Init /\ [][Next]_vars

(* The threads are scheduled and an armed timer fires in the end; messages    *)
(* need not come.                                                             *)
Spec ==
    /\ SafeSpec
    /\ WF_vars(SlaveStep)
    /\ WF_vars(MasterStep)
    /\ \A s \in State : WF_vars(Fire(s))
-----------------------------------------------------------------------------
(* The machine keeps the discipline that timers ask for: though requests are  *)
(* applied late, no timer is reused while its event is still in the base, and *)
(* no command meets a request of the other kind.                              *)
TimerDiscipline == Timers!NoAssignWhileAdded /\ Timers!CommandsFitRequests

(* state_machine_setup_entry_timer and _stop_entry_timer take a field that is *)
(* not NULL for a timer that was created: they never see one that was not.    *)
NoWildTimer == fault # "wild timer"

Quiet == step = "idle" /\ new_ev_que = <<>>
Due(s) == \E i \in DOMAIN posted : posted[i] = s

(* Between changes, once the requests are applied, the timer of the current   *)
(* state and no other is armed, unless it has fired and its callback waits:   *)
(* the machine neither stalls nor is driven by a state it has left.           *)
ArmedIsCurrent ==
    (Quiet /\ changes > 0) =>
        /\ added \subseteq {current_state}
        /\ current_state \in added \/ Due(current_state)

(* A machine that the application started and then left to its timeouts       *)
(* never runs the callback of a state it is not in, however late the callback *)
(* runs.  (With further messages it may: a timeout that was posted before the *)
(* message changed the state is run after it.)                                *)
TimeoutInOwnState ==
    (messages <= 1 /\ step = "idle") => \A s \in State : Due(s) => s = current_state

(* Every state is left: whatever stops and reuses came before, the timer of   *)
(* the state that was entered last fires and its callback is run.             *)
StateIsLeft == \A k \in 1..(MaxChanges - 1) : (changes = k) ~> (changes > k)
=============================================================================
