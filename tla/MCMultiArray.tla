---------------------------- MODULE MCMultiArray ----------------------------
(* The instances of MultiArray for TLC: their .cfg gives the bounds. *)
EXTENDS MultiArray
=============================================================================
