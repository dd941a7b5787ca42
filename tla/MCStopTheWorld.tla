--------------------------- MODULE MCStopTheWorld ---------------------------
(* Instances of StopTheWorld for TLC: their .cfg gives the constants. *)
EXTENDS StopTheWorld
=============================================================================
