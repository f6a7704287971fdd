----------------------------- MODULE MCCtrAlloc -----------------------------
(* Instances of CtrAlloc for the model checker.                              *)
EXTENDS CtrAlloc
=============================================================================
