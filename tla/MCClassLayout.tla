--------------------------- MODULE MCClassLayout ---------------------------
(* Instances of ClassLayout for TLC. *)
EXTENDS ClassLayout

Symmetry == Permutations(Field) \cup Permutations(Method \ {Ctor})
=============================================================================
