-------------------------- MODULE MCTrialDeletion --------------------------
(* Instances of TrialDeletion for TLC. *)
EXTENDS TrialDeletion, TLC

Symmetry == Permutations(Object)
=============================================================================
