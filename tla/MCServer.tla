------------------------------ MODULE MCServer ------------------------------
(* Instances of Server for the model checker: more connections than there     *)
(* are descriptors, so that numbers are given out again and run out.          *)
EXTENDS Server
=============================================================================
