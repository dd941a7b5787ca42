--------------------------- MODULE MCClassLoader ---------------------------
(* The instance of ClassLoader for TLC: its .cfg gives the constants. *)
EXTENDS ClassLoader
=============================================================================
