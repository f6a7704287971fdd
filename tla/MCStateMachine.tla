---------------------------- MODULE MCStateMachine ----------------------------
(* Instances of StateMachine for the model checker.  As in the machine of    *)
(* test_state_machine.c the timeout of applying leads to waiting, that of    *)
(* waiting enters waiting again by change_state_force, and that of scanning  *)
(* leads back to an earlier state.                                           *)
EXTENDS StateMachine

CONSTANTS applying, waiting, scanning

Target == [s \in State |-> IF s = waiting THEN waiting
                           ELSE IF s = applying THEN waiting ELSE applying]
=============================================================================
