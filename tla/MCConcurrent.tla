---------------------------- MODULE MCConcurrent ----------------------------
(* Instances of Concurrent for the model checker.                            *)
EXTENDS Concurrent, TLC

(* Messages and application threads are interchangeable in the safety runs.  *)
Symmetry == Permutations(Message) \cup Permutations(User)
=============================================================================
