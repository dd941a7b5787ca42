----------------------------- MODULE MCHotLoop -----------------------------
(* The instance of HotLoop for TLC: its .cfg gives the constants. *)
EXTENDS HotLoop
=============================================================================
