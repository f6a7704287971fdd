---------------------------- MODULE MCEventQueue ----------------------------
(* Instances of EventQueue for the model checker: one socket (persistent)    *)
(* and timers that fire once.                                                *)
EXTENDS EventQueue
=============================================================================
