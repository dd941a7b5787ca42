-------------------------- MODULE MCThreadContext --------------------------
(* Instances of ThreadContext for TLC. *)
EXTENDS ThreadContext, TLC

Symmetry == Permutations(Value)
=============================================================================
