---------------------------- MODULE MCObjectHeap ----------------------------
(* Instances of ObjectHeap for TLC. *)
EXTENDS ObjectHeap, TLC

Symmetry == Permutations(Object) \cup Permutations(Thread)
=============================================================================
