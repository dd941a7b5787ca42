--------------------------- MODULE TrialDeletion ---------------------------
(***************************************************************************)
(* Heap::try_gc of src/src/vm/heap.rs: collection by trial deletion.  The  *)
(* world is stopped, so nothing but the collector moves.                   *)
(*                                                                         *)
(*   subtract   gc_refs = strong count - 1, minus the references that come *)
(*              from slots of objects in the heap                          *)
(*   extract    objects left with 0 move to `unreachable', marked Max      *)
(*   mark       slots of the others rescue what they refer to              *)
(*   rescue     passes over `unreachable' until one finds nothing new      *)
(*   drain      rescued objects return, the slots of the rest are cleared  *)
(*                                                                         *)
(* HashSet iteration has no order: each pass over `objects' takes its next *)
(* object from the set `todo'.                                             *)
(***************************************************************************)
EXTENDS Integers, Sequences, FiniteSets

CONSTANTS
    Object,      \* the objects that may exist
    Null,        \* JVMSlot::null()
    Width,       \* slots of an object
    MaxRoots,    \* bound: references to one object from outside the heap
    MaxRefs      \* bound: slots that are not null

ASSUME ObjectAssumption == IsFiniteSet(Object) /\ Null \notin Object
ASSUME WidthAssumption == Width \in Nat /\ MaxRoots \in Nat /\ MaxRefs \in Nat

VARIABLES
    slot,        \* Object.data
    roots,       \* references held by stacks, locals and static fields
    strong,      \* Arc::strong_count, 0 once the object is freed
    objects,     \* Heap.objects
    unreachable, \* Heap.unreachable
    gcRefs,      \* Object.gc_refs
    foundRefs,   \* found_refs
    phase,
    todo,        \* what the current pass over `objects' has still to visit
    next,        \* the index in `unreachable' of a pass over it
    dropUnderLock \* an object was freed with a reference left in a slot

vars == <<slot, roots, strong, objects, unreachable, gcRefs, foundRefs,
          phase, todo, next, dropUnderLock>>

Max == -1        \* usize::MAX, the mark of an unreachable object

Index == 1..Width

(* The slots of objects of S that refer to o. *)
SlotsTo(o, S) == {s \in S \X Index : slot[s[1]][s[2]] = o}

(* Objects that the slots of p refer to. *)
Children(p) == {slot[p][i] : i \in Index} \ {Null}

(* What is reachable from outside the heap: the members of every set that  *)
(* contains the roots and is closed under following slots.                 *)
Closed(S) == \A p \in S : Children(p) \subseteq S

Reachable ==
    {o \in Object : \A S \in SUBSET Object :
        ({r \in Object : roots[r] > 0} \subseteq S /\ Closed(S)) => o \in S}

TypeOK ==
    /\ slot \in [Object -> [Index -> Object \cup {Null}]]
    /\ roots \in [Object -> 0..MaxRoots]
    /\ strong \in [Object -> Nat]
    /\ objects \subseteq Object
    /\ unreachable \in Seq(Object)
    /\ gcRefs \in [Object -> Int]
    /\ foundRefs \in BOOLEAN
    /\ phase \in {"subtract", "extract", "mark", "rescue", "drain", "done"}
    /\ todo \subseteq objects
    /\ next \in Nat
    /\ dropUnderLock \in BOOLEAN

(* Any heap that the mutators can leave behind; an object that nobody      *)
(* refers to stays when two threads drop its last references at once.      *)
(* The first pass, gc_refs = strong_count - 1, is part of Init.            *)
Init ==
    /\ slot \in [Object -> [Index -> Object \cup {Null}]]
    /\ Cardinality({s \in Object \X Index : slot[s[1]][s[2]] # Null}) <= MaxRefs
    /\ roots \in [Object -> 0..MaxRoots]
    /\ objects = Object
    /\ strong = [o \in Object |-> 1 + roots[o] + Cardinality(SlotsTo(o, Object))]
    /\ gcRefs = [o \in Object |-> strong[o] - 1]
    /\ unreachable = <<>>
    /\ foundRefs = FALSE
    /\ phase = "subtract"
    /\ todo = objects
    /\ next = 1
    /\ dropUnderLock = FALSE

-----------------------------------------------------------------------------
\* Mutation: two slots with the same child count once.
SubtractOnce(p) ==
    /\ phase = "subtract"
    /\ p \in todo
    /\ gcRefs' = [o \in Object |-> gcRefs[o] - (IF o \in Children(p) THEN 1 ELSE 0)]
    /\ todo' = todo \ {p}
    /\ UNCHANGED <<slot, roots, strong, objects, unreachable, foundRefs, phase, next, dropUnderLock>>

\* child.gc_refs -= 1 for each slot of p.
Subtract(p) ==
    /\ phase = "subtract"
    /\ p \in todo
    /\ gcRefs' = [o \in Object |-> gcRefs[o] - Cardinality(SlotsTo(o, {p}))]
    /\ todo' = todo \ {p}
    /\ UNCHANGED <<slot, roots, strong, objects, unreachable, foundRefs, phase, next, dropUnderLock>>

\* Mutation: an object with one reference from outside is given up.
ExtractOne(p) ==
    /\ phase = "extract"
    /\ p \in todo
    /\ todo' = todo \ {p}
    /\ IF gcRefs[p] <= 1
       THEN /\ objects' = objects \ {p}
            /\ unreachable' = Append(unreachable, p)
            /\ gcRefs' = [gcRefs EXCEPT ![p] = Max]
       ELSE UNCHANGED <<objects, unreachable, gcRefs>>
    /\ UNCHANGED <<slot, roots, strong, foundRefs, phase, next, dropUnderLock>>

\* extract_if takes p out of the heap when no reference from outside is left.
Extract(p) ==
    /\ phase = "extract"
    /\ p \in todo
    /\ todo' = todo \ {p}
    /\ IF gcRefs[p] = 0
       THEN /\ objects' = objects \ {p}
            /\ unreachable' = Append(unreachable, p)
            /\ gcRefs' = [gcRefs EXCEPT ![p] = Max]
       ELSE UNCHANGED <<objects, unreachable, gcRefs>>
    /\ UNCHANGED <<slot, roots, strong, foundRefs, phase, next, dropUnderLock>>

\* Mutation: what has been found keeps its mark.
RescueChildrenUnmarked(p) ==
    /\ foundRefs' = (foundRefs \/ \E c \in Children(p) : gcRefs[c] = Max)
    /\ UNCHANGED gcRefs

\* The children of p that were given up are wanted after all.
RescueChildren(p) ==
    LET given == {c \in Children(p) : gcRefs[c] = Max} IN
    /\ gcRefs' = [o \in Object |-> IF o \in given THEN 1 ELSE gcRefs[o]]
    /\ foundRefs' = (foundRefs \/ given # {})

Mark(p) ==
    /\ phase = "mark"
    /\ p \in todo
    /\ todo' = todo \ {p}
    /\ RescueChildren(p)
    /\ UNCHANGED <<slot, roots, strong, objects, unreachable, phase, next, dropUnderLock>>

\* One object of a pass over `unreachable'.
Rescue ==
    /\ phase = "rescue"
    /\ next <= Len(unreachable)
    /\ IF gcRefs[unreachable[next]] # Max
       THEN RescueChildren(unreachable[next])
       ELSE UNCHANGED <<gcRefs, foundRefs>>
    /\ next' = next + 1
    /\ UNCHANGED <<slot, roots, strong, objects, unreachable, phase, todo, dropUnderLock>>

\* Mutation: the slots are cleared but their references not dropped.
DrainLeak ==
    /\ phase = "drain"
    /\ next <= Len(unreachable)
    /\ LET p == unreachable[next] IN
       IF gcRefs[p] # Max
       THEN objects' = objects \cup {p} /\ UNCHANGED <<slot, strong>>
       ELSE /\ slot' = [slot EXCEPT ![p] = [i \in Index |-> Null]]
            /\ strong' = [strong EXCEPT ![p] = @ - 1]
            /\ UNCHANGED objects
    /\ next' = next + 1
    /\ UNCHANGED <<roots, unreachable, gcRefs, foundRefs, phase, todo, dropUnderLock>>

\* Mutation: the references are dropped and the slots not cleared.
DrainUncleared ==
    /\ phase = "drain"
    /\ next <= Len(unreachable)
    /\ LET p == unreachable[next] IN
       IF gcRefs[p] # Max
       THEN objects' = objects \cup {p} /\ UNCHANGED <<strong, dropUnderLock>>
       ELSE /\ strong' = [o \in Object |->
                  strong[o] - Cardinality(SlotsTo(o, {p})) - (IF o = p THEN 1 ELSE 0)]
            /\ dropUnderLock' =
                  (dropUnderLock \/ \E o \in Children(p) \ {p} : strong'[o] = 0 /\ Children(o) # {})
            /\ UNCHANGED objects
    /\ next' = next + 1
    /\ UNCHANGED <<slot, roots, unreachable, gcRefs, foundRefs, phase, todo>>

(* unreachable.drain(..): a rescued object goes back to the heap; the      *)
(* others lose their references, one Arc for each slot, and then the one   *)
(* that `unreachable' held.  An object that is freed while it still holds  *)
(* references would drop them as ObjectRefs, and so lock HEAP again.       *)
Drain ==
    /\ phase = "drain"
    /\ next <= Len(unreachable)
    /\ LET p == unreachable[next] IN
       IF gcRefs[p] # Max
       THEN /\ objects' = objects \cup {p}
            /\ UNCHANGED <<slot, strong, dropUnderLock>>
       ELSE /\ slot' = [slot EXCEPT ![p] = [i \in Index |-> Null]]
            /\ strong' = [o \in Object |->
                  strong[o] - Cardinality(SlotsTo(o, {p})) - (IF o = p THEN 1 ELSE 0)]
            /\ dropUnderLock' =
                  (dropUnderLock \/ \E o \in Children(p) \ {p} : strong'[o] = 0 /\ Children(o) # {})
            /\ UNCHANGED objects
    /\ next' = next + 1
    /\ UNCHANGED <<roots, unreachable, gcRefs, foundRefs, phase, todo>>

NextPhase(again) ==
    CASE phase = "subtract" -> "extract"
      [] phase = "extract"  -> "mark"
      [] phase = "mark"     -> IF foundRefs THEN "rescue" ELSE "drain"
      [] phase = "rescue"   -> IF foundRefs /\ again THEN "rescue" ELSE "drain"
      [] phase = "drain"    -> "done"

PassOver ==
    IF phase \in {"subtract", "extract", "mark"}
    THEN todo = {}
    ELSE phase # "done" /\ next = Len(unreachable) + 1

\* Mutation: a single rescue pass.
EndPassOnce ==
    /\ PassOver
    /\ phase' = NextPhase(FALSE)
    /\ foundRefs' = FALSE
    /\ todo' = IF phase' \in {"extract", "mark"} THEN objects ELSE {}
    /\ next' = 1
    /\ unreachable' = IF phase' = "done" THEN <<>> ELSE unreachable
    /\ UNCHANGED <<slot, roots, strong, objects, gcRefs, dropUnderLock>>

\* The end of a pass.  A rescue pass that found something is repeated.
EndPass ==
    /\ PassOver
    /\ phase' = NextPhase(TRUE)
    /\ foundRefs' = FALSE
    /\ todo' = IF phase' \in {"extract", "mark"} THEN objects ELSE {}
    /\ next' = 1
    /\ unreachable' = IF phase' = "done" THEN <<>> ELSE unreachable
    /\ UNCHANGED <<slot, roots, strong, objects, gcRefs, dropUnderLock>>

\* try_gc returns; any other state without a next step is a deadlock.
Returned == phase = "done" /\ UNCHANGED vars

Next ==
    \/ \E p \in Object : Subtract(p) \/ Extract(p) \/ Mark(p)
    \/ Rescue
    \/ Drain
    \/ EndPass
    \/ Returned

Spec == Init /\ [][Next]_vars

-----------------------------------------------------------------------------
(* Properties. *)

\* The objects that are given up, as long as no pass rescues them.
Marked == {o \in Object : gcRefs[o] = Max}

(* The references counted from inside the heap never exceed the strong     *)
(* count: gc_refs (a usize) does not underflow, and after the pass it is   *)
(* the number of references from outside.                                  *)
GcRefsExact ==
    phase = "subtract" =>
        \A o \in Object : gcRefs[o] = roots[o] + Cardinality(SlotsTo(o, todo))

(* The strong counts of the objects in the heap keep counting the          *)
(* references that exist, during and after the drain.                      *)
StrongExact ==
    \A o \in objects :
        strong[o] = 1 + roots[o] + Cardinality(SlotsTo(o, Object))

(* No object is freed while its slots still hold references: the NOTE on   *)
(* Heap.objects (heap.rs:163), since dropping them would lock HEAP, which  *)
(* the collector holds.                                                    *)
NoDropUnderLock == ~dropUnderLock

(* The collection comes to its end: every step descends in the order of    *)
(* phases, then of objects still given up (and of a pass that has not just *)
(* rescued one), then of what the pass has left to visit.  The loop of     *)
(* rescue passes (heap.rs:224) is the one that could go on for ever.       *)
Rank == CASE phase = "subtract" -> 5
          [] phase = "extract" -> 4
          [] phase = "mark" -> 3
          [] phase = "rescue" -> 2
          [] phase = "drain" -> 1
          [] phase = "done" -> 0

GivenUp == 2 * Cardinality(Marked) + (IF foundRefs THEN 1 ELSE 0)

Left ==
    IF phase \in {"rescue", "drain"} THEN Len(unreachable) + 1 - next ELSE Cardinality(todo)

Descends ==
    [][ \/ Rank' < Rank
        \/ Rank' = Rank /\ phase \in {"mark", "rescue"} /\ GivenUp' < GivenUp
        \/ Rank' = Rank /\ (phase \in {"mark", "rescue"} => GivenUp' = GivenUp) /\ Left' < Left ]_vars

-----------------------------------------------------------------------------
(* The inductive invariant. *)

\* A pass over `unreachable' has still to come to o.
Ahead(o) == \E i \in next..Len(unreachable) : unreachable[i] = o

\* The objects whose slots the drain has cleared.
Drained == {o \in Marked : phase = "done" \/ (phase = "drain" /\ ~Ahead(o))}

Listed == {unreachable[i] : i \in 1..Len(unreachable)}

(* Every Arc is counted: the one of the heap's lists, the ones outside and *)
(* the ones in slots.                                                      *)
CountsExact ==
    \A o \in Object :
        strong[o] = (IF o \in Drained THEN 0 ELSE 1) + roots[o] + Cardinality(SlotsTo(o, Object))

(* An object is in `objects' or once in `unreachable', all that are given  *)
(* up are there, and the drain moves each of them on.                      *)
PlacesExact ==
    /\ next \in 1..Len(unreachable) + 1
    /\ \A i, j \in 1..Len(unreachable) : unreachable[i] = unreachable[j] => i = j
    /\ phase = "subtract" => objects = Object /\ unreachable = <<>>
    /\ phase \in {"extract", "mark", "rescue"} => objects = Object \ Listed
    /\ phase \in {"extract", "mark", "rescue", "drain"} => Marked \subseteq Listed
    /\ phase = "drain" => objects = {o \in Object \ Marked : ~Ahead(o)}
    /\ phase = "done" => objects = Object \ Marked /\ unreachable = <<>>

(* What gc_refs means while objects are extracted; and an object with a    *)
(* reference from outside is never given up.                               *)
ExtractExact ==
    /\ phase = "extract" =>
          /\ \A o \in objects : gcRefs[o] = roots[o] /\ (o \notin todo => roots[o] # 0)
          /\ Listed = Marked
    /\ phase # "subtract" => \A o \in Marked : roots[o] = 0

\* p keeps nothing that is given up.
Followed(p) == Children(p) \cap Marked = {}

(* Only what is reachable is rescued, and a pass that rescues nothing has  *)
(* seen all that the rescued objects refer to.                             *)
RescueExact ==
    /\ phase \in {"mark", "rescue", "drain", "done"} => Object \ Marked \subseteq Reachable
    /\ phase = "mark" => \A p \in objects \ todo : Followed(p)
    /\ phase = "mark" /\ ~foundRefs => Listed \subseteq Marked
    /\ phase = "rescue" => \A p \in objects : Followed(p)
    /\ phase = "rescue" /\ ~foundRefs =>
          \A i \in 1..next - 1 : unreachable[i] \notin Marked => Followed(unreachable[i])
    /\ phase \in {"drain", "done"} => \A p \in Object \ Marked : Followed(p)
    /\ \A p \in Drained : Children(p) = {}

IInv ==
    /\ TypeOK
    /\ GcRefsExact
    /\ CountsExact
    /\ PlacesExact
    /\ ExtractExact
    /\ RescueExact
    /\ NoDropUnderLock

-----------------------------------------------------------------------------
(* What try_gc promises. *)
Contract == INSTANCE Collection WITH
    reachable <- Reachable,
    alive <- {o \in Object : strong[o] > 0},
    kept <- IF phase = "done" THEN objects ELSE {},
    done <- phase = "done"

ImplementsCollection == Contract!Spec
=============================================================================
