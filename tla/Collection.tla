----------------------------- MODULE Collection -----------------------------
(***************************************************************************)
(* What a collection promises (the contract of ObjectRef in                *)
(* src/src/vm/heap.rs): starting from any heap, it frees objects, never    *)
(* one that a thread or a static field can still reach, and when it is     *)
(* done every unreachable object has been freed and the heap knows all the *)
(* others again.                                                           *)
(***************************************************************************)
CONSTANTS Object

VARIABLES
    reachable,   \* the objects that references from outside the heap lead to
    alive,       \* the objects whose memory is not freed
    kept,        \* the objects that the heap knows when it is done
    done

vars == <<reachable, alive, kept, done>>

Init ==
    /\ alive \subseteq Object
    /\ reachable \subseteq alive
    /\ kept = {}
    /\ done = FALSE

\* Clearing the slots of one object may free several at once.
Free(garbage) ==
    /\ ~done
    /\ garbage \subseteq alive \ reachable
    /\ alive' = alive \ garbage
    /\ UNCHANGED <<reachable, kept, done>>

Finish ==
    /\ ~done
    /\ alive = reachable
    /\ kept' = reachable
    /\ done' = TRUE
    /\ UNCHANGED <<reachable, alive>>

Next == (\E garbage \in SUBSET Object : Free(garbage)) \/ Finish

Spec == Init /\ [][Next]_vars
=============================================================================
