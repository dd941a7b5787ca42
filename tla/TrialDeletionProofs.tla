------------------------ MODULE TrialDeletionProofs ------------------------
(* Proofs about TrialDeletion, for every finite set of objects, every      *)
(* width of an object and any number of references.                        *)
EXTENDS TrialDeletion, FiniteSetTheorems, SequenceTheorems, TLAPS

-----------------------------------------------------------------------------
(* Counting the slots that refer to an object. *)

(* There are finitely many slots: each count is a number.                  *)
LEMMA SlotsFinite ==
    ASSUME NEW o, NEW S \in SUBSET Object
    PROVE  IsFiniteSet(SlotsTo(o, S)) /\ Cardinality(SlotsTo(o, S)) \in Nat
<1>1. IsFiniteSet(S) /\ IsFiniteSet(Index)
  BY ObjectAssumption, WidthAssumption, FS_Subset, FS_Interval DEF Index
<1>2. IsFiniteSet(S \X Index) /\ SlotsTo(o, S) \subseteq S \X Index
  BY <1>1, FS_Product DEF SlotsTo
<1>3. QED
  BY <1>2, FS_Subset, FS_CardinalityType

(* The slots of p are counted apart from those of the other objects.       *)
LEMMA SlotsSplit ==
    ASSUME NEW o, NEW S \in SUBSET Object, NEW p \in S
    PROVE  Cardinality(SlotsTo(o, S)) =
              Cardinality(SlotsTo(o, S \ {p})) + Cardinality(SlotsTo(o, {p}))
<1>1. SlotsTo(o, S) = SlotsTo(o, S \ {p}) \cup SlotsTo(o, {p})
  BY DEF SlotsTo
<1>2. SlotsTo(o, S \ {p}) \cap SlotsTo(o, {p}) = {}
  BY DEF SlotsTo
<1>3. /\ IsFiniteSet(SlotsTo(o, S \ {p})) /\ Cardinality(SlotsTo(o, S \ {p})) \in Nat
      /\ IsFiniteSet(SlotsTo(o, {p})) /\ Cardinality(SlotsTo(o, {p})) \in Nat
  BY SlotsFinite
<1>4. Cardinality(SlotsTo(o, S \ {p}) \cap SlotsTo(o, {p})) = 0
  BY <1>2, FS_EmptySet
<1>5. Cardinality(SlotsTo(o, S \ {p}) \cup SlotsTo(o, {p})) =
         Cardinality(SlotsTo(o, S \ {p})) + Cardinality(SlotsTo(o, {p}))
            - Cardinality(SlotsTo(o, S \ {p}) \cap SlotsTo(o, {p}))
  BY <1>3, FS_Union
<1>6. QED
  BY <1>1, <1>3, <1>4, <1>5

(* Nobody refers to o: the count is 0, and the other way round.            *)
LEMMA NoSlots ==
    ASSUME NEW o \in Object, NEW S \in SUBSET Object
    PROVE  Cardinality(SlotsTo(o, S)) = 0 <=> \A p \in S : o \notin Children(p)
<1>1. Cardinality(SlotsTo(o, S)) = 0 <=> SlotsTo(o, S) = {}
  BY SlotsFinite, FS_EmptySet
<1>2. ASSUME SlotsTo(o, S) = {}, NEW p \in S, o \in Children(p)
      PROVE  FALSE
  <2>1. PICK i \in Index : slot[p][i] = o
    BY <1>2 DEF Children
  <2>2. <<p, i>> \in SlotsTo(o, S)
    BY <2>1 DEF SlotsTo
  <2>3. QED
    BY <1>2, <2>2
<1>3. ASSUME \A p \in S : o \notin Children(p), NEW s \in SlotsTo(o, S)
      PROVE  FALSE
  <2>1. s[1] \in S /\ s[2] \in Index /\ slot[s[1]][s[2]] = o
    BY DEF SlotsTo
  <2>2. o \in Children(s[1])
    BY <2>1, ObjectAssumption DEF Children
  <2>3. QED
    BY <1>3, <2>1, <2>2
<1>4. QED
  BY <1>1, <1>2, <1>3

(* A step that writes no slot changes no count.                            *)
LEMMA SameSlots ==
    ASSUME UNCHANGED slot
    PROVE  /\ \A o, S : SlotsTo(o, S)' = SlotsTo(o, S)
           /\ \A p : Children(p)' = Children(p)
BY DEF SlotsTo, Children

(* When the slots of p are cleared, the references of all others stay.     *)
LEMMA ClearedSlots ==
    ASSUME TypeOK, NEW p \in Object, slot' = [slot EXCEPT ![p] = [i \in Index |-> Null]]
    PROVE  /\ \A o \in Object : SlotsTo(o, Object)' = SlotsTo(o, Object \ {p})
           /\ \A q \in Object \ {p} : Children(q)' = Children(q)
           /\ Children(p)' = {}
<1>1. \A q \in Object : slot'[q] = IF q = p THEN [i \in Index |-> Null] ELSE slot[q]
  BY DEF TypeOK
<1>2. \A o \in Object : SlotsTo(o, Object)' = SlotsTo(o, Object \ {p})
  BY <1>1, ObjectAssumption DEF SlotsTo
<1>3. QED
  BY <1>1, <1>2 DEF Children

-----------------------------------------------------------------------------
(* Reachability. *)

(* What a reachable object refers to is reachable, and so are the roots.   *)
LEMMA ReachableClosed ==
    ASSUME TypeOK
    PROVE  /\ \A p \in Reachable : Children(p) \subseteq Reachable
           /\ \A o \in Object : roots[o] > 0 => o \in Reachable
<1>1. ASSUME NEW p \in Reachable, NEW c \in Children(p)
      PROVE  c \in Reachable
  <2>1. c \in Object
    BY <1>1 DEF TypeOK, Reachable, Children
  <2>2. ASSUME NEW S \in SUBSET Object, {r \in Object : roots[r] > 0} \subseteq S, Closed(S)
        PROVE  c \in S
    BY <1>1, <2>2 DEF Reachable, Closed
  <2>3. QED
    BY <2>1, <2>2 DEF Reachable
<1>2. QED
  BY <1>1 DEF Reachable

(* Nothing outside a closed set with the roots is reachable.               *)
LEMMA ReachableLeast ==
    ASSUME NEW S \in SUBSET Object, Closed(S), {r \in Object : roots[r] > 0} \subseteq S
    PROVE  Reachable \subseteq S
BY DEF Reachable

(* Reachability is a matter of the slots and of the roots only.            *)
LEMMA SameReachable ==
    ASSUME UNCHANGED <<slot, roots>>
    PROVE  Reachable' = Reachable
BY DEF Reachable, Closed, Children

(* In the drain exactly those objects are reachable that are not given up. *)
LEMMA ReachableKept ==
    ASSUME IInv, phase \in {"drain", "done"}
    PROVE  Reachable = Object \ Marked
<1>1. Closed(Object \ Marked)
  <2>1. \A p \in Object : Children(p) \subseteq Object
    BY DEF IInv, TypeOK, Children
  <2>2. QED
    BY <2>1 DEF IInv, RescueExact, Followed, Closed
<1>2. {r \in Object : roots[r] > 0} \subseteq Object \ Marked
  BY DEF IInv, ExtractExact, Marked
<1>3. Reachable \subseteq Object \ Marked
  BY <1>1, <1>2, ReachableLeast
<1>4. QED
  BY <1>3 DEF IInv, RescueExact

-----------------------------------------------------------------------------
(* The inductive invariant. *)

(* The first pass of try_gc, gc_refs = strong_count - 1.                   *)
LEMMA InitIInv == Init => IInv
<1> SUFFICES ASSUME Init PROVE IInv
  OBVIOUS
<1> USE DEF Init
<1>1. \A o \in Object : Cardinality(SlotsTo(o, Object)) \in Nat /\ roots[o] \in Nat
  BY SlotsFinite, WidthAssumption
<1>2. \A o \in Object :
        /\ strong[o] = 1 + roots[o] + Cardinality(SlotsTo(o, Object))
        /\ gcRefs[o] = roots[o] + Cardinality(SlotsTo(o, Object))
  BY <1>1
<1>3. TypeOK
  <2>1. strong \in [Object -> Nat] /\ gcRefs \in [Object -> Int]
    BY <1>1, <1>2
  <2>2. QED
    BY <2>1, EmptySeq DEF TypeOK
<1>4. Drained = {} /\ Len(unreachable) = 0
  BY DEF Drained
<1>5. GcRefsExact /\ CountsExact
  BY <1>1, <1>2, <1>4 DEF GcRefsExact, CountsExact
<1>6. PlacesExact /\ ExtractExact /\ RescueExact
  BY <1>4 DEF PlacesExact, ExtractExact, RescueExact
<1>7. QED
  BY <1>3, <1>5, <1>6 DEF IInv, NoDropUnderLock

(* What the steps before the drain leave alone.                            *)
LEMMA BeforeDrain ==
    ASSUME IInv, UNCHANGED <<slot, roots, strong, phase>>, phase \notin {"drain", "done"}
    PROVE  /\ Drained = {} /\ Drained' = {}
           /\ CountsExact'
           /\ Reachable' = Reachable
           /\ \A p : Children(p)' = Children(p)
<1>1. Drained = {} /\ Drained' = {}
  BY DEF Drained
<1>2. CountsExact'
  BY <1>1, SameSlots DEF IInv, CountsExact
<1>3. QED
  BY <1>1, <1>2, SameSlots, SameReachable

(* child.gc_refs -= 1, for each slot of p that is not null.                *)
LEMMA SubtractStep ==
    ASSUME IInv, NEW p \in Object, Subtract(p)
    PROVE  IInv'
<1> USE DEF IInv, Subtract
<1>1. ASSUME NEW o \in Object
      PROVE  /\ Cardinality(SlotsTo(o, {p})) \in Nat
             /\ Cardinality(SlotsTo(o, todo \ {p})) \in Nat
             /\ Cardinality(SlotsTo(o, todo)) =
                   Cardinality(SlotsTo(o, todo \ {p})) + Cardinality(SlotsTo(o, {p}))
  <2>1. {p} \in SUBSET Object /\ todo \in SUBSET Object /\ todo \ {p} \in SUBSET Object /\ p \in todo
    BY DEF TypeOK
  <2>2. QED
    BY <2>1, SlotsFinite, SlotsSplit
<1>2. TypeOK'
  <2>1. ASSUME NEW o \in Object PROVE gcRefs[o] - Cardinality(SlotsTo(o, {p})) \in Int
    <3>1. gcRefs[o] \in Int
      BY DEF TypeOK
    <3>2. Cardinality(SlotsTo(o, {p})) \in Nat
      BY <1>1
    <3>3. QED
      BY <3>1, <3>2
  <2>2. gcRefs' \in [Object -> Int]
    BY <2>1
  <2>3. QED
    BY <2>2 DEF TypeOK
<1>3. GcRefsExact'
  <2> SUFFICES ASSUME NEW o \in Object
               PROVE  gcRefs'[o] = roots[o] + Cardinality(SlotsTo(o, todo \ {p}))
    BY SameSlots DEF GcRefsExact
  <2>1. gcRefs[o] = roots[o] + Cardinality(SlotsTo(o, todo)) /\ roots[o] \in Nat
    BY WidthAssumption DEF GcRefsExact, TypeOK
  <2>2. gcRefs'[o] = gcRefs[o] - Cardinality(SlotsTo(o, {p}))
    OBVIOUS
  <2>3. /\ Cardinality(SlotsTo(o, {p})) \in Nat
        /\ Cardinality(SlotsTo(o, todo \ {p})) \in Nat
        /\ Cardinality(SlotsTo(o, todo)) =
              Cardinality(SlotsTo(o, todo \ {p})) + Cardinality(SlotsTo(o, {p}))
    BY <1>1
  <2>4. QED
    BY <2>1, <2>2, <2>3
<1>4. CountsExact' /\ Drained' = {}
  BY BeforeDrain
<1>5. PlacesExact' /\ ExtractExact'
  BY DEF PlacesExact, ExtractExact
<1>6. RescueExact'
  BY <1>4 DEF RescueExact
<1>7. QED
  BY <1>2, <1>3, <1>4, <1>5, <1>6 DEF NoDropUnderLock

(* extract_if: an object without references from outside moves from        *)
(* `objects' to the end of `unreachable'.                                  *)
LEMMA ExtractStep ==
    ASSUME IInv, NEW p \in Object, Extract(p)
    PROVE  IInv'
<1> USE DEF IInv, Extract
<1>1. CASE gcRefs[p] # 0
  <2>1. UNCHANGED <<slot, roots, strong, objects, unreachable, gcRefs, next>> /\ Marked' = Marked
        /\ Listed' = Listed
    BY <1>1 DEF Marked, Listed
  <2>2. TypeOK' /\ GcRefsExact' /\ PlacesExact'
    BY <2>1 DEF TypeOK, GcRefsExact, PlacesExact
  <2>3. CountsExact' /\ Drained' = {}
    BY BeforeDrain
  <2>4. roots[p] # 0
    BY <1>1 DEF ExtractExact, TypeOK
  <2>5. ExtractExact' /\ RescueExact'
    BY <2>1, <2>3, <2>4 DEF ExtractExact, RescueExact
  <2>6. QED
    BY <2>2, <2>3, <2>5 DEF NoDropUnderLock
<1>2. CASE gcRefs[p] = 0
  <2>1. p \in objects /\ p \notin Listed /\ roots[p] = 0
    BY <1>2 DEF TypeOK, PlacesExact, ExtractExact
  <2>2. /\ unreachable' \in Seq(Object) /\ Len(unreachable') = Len(unreachable) + 1
        /\ Len(unreachable) \in Nat
        /\ \A i \in 1..Len(unreachable) : unreachable'[i] = unreachable[i]
        /\ unreachable'[Len(unreachable) + 1] = p
    <3>1. unreachable' = Append(unreachable, p) /\ unreachable \in Seq(Object)
      BY <1>2 DEF TypeOK
    <3>2. QED
      BY <3>1, AppendProperties, LenProperties
  <2>3. Listed' = Listed \cup {p}
    BY <2>2 DEF Listed
  <2>4. /\ gcRefs' \in [Object -> Int]
        /\ \A o \in Object : gcRefs'[o] = IF o = p THEN Max ELSE gcRefs[o]
    BY <1>2 DEF TypeOK, Max
  <2>5. Marked' = Marked \cup {p}
    BY <2>4 DEF Marked
  <2>6. TypeOK'
    BY <1>2, <2>2, <2>4 DEF TypeOK
  <2>7. GcRefsExact' /\ CountsExact' /\ Drained' = {}
    BY BeforeDrain DEF GcRefsExact
  <2>8. PlacesExact'
    <3>1. \A i, j \in 1..Len(unreachable') : unreachable'[i] = unreachable'[j] => i = j
      BY <2>1, <2>2 DEF PlacesExact, Listed
    <3>2. next' \in 1..Len(unreachable') + 1
      BY <2>2 DEF PlacesExact
    <3>3. objects' = Object \ Listed' /\ Marked' \subseteq Listed'
      BY <1>2, <2>3, <2>5 DEF PlacesExact
    <3>4. QED
      BY <3>1, <3>2, <3>3 DEF PlacesExact
  <2>9. ExtractExact'
    BY <1>2, <2>1, <2>3, <2>4, <2>5 DEF ExtractExact, TypeOK
  <2>10. RescueExact'
    BY <2>7 DEF RescueExact
  <2>11. QED
    BY <2>6, <2>7, <2>8, <2>9, <2>10 DEF NoDropUnderLock
<1>3. QED
  BY <1>1, <1>2

(* The children of p that were given up are rescued, and nothing else      *)
(* changes: nobody reachable is lost, and nobody else is found.            *)
LEMMA RescueChildrenStep ==
    ASSUME TypeOK, NEW p \in Object, RescueChildren(p)
    PROVE  /\ gcRefs' \in [Object -> Int] /\ foundRefs' \in BOOLEAN
           /\ Marked' = Marked \ Children(p)
           /\ ~foundRefs' => ~foundRefs /\ gcRefs' = gcRefs /\ Followed(p)
<1>1. Children(p) \subseteq Object
  BY DEF TypeOK, Children
<1>2. /\ gcRefs' \in [Object -> Int]
      /\ \A o \in Object : gcRefs'[o] = IF o \in Children(p) /\ gcRefs[o] = Max THEN 1 ELSE gcRefs[o]
  BY DEF TypeOK, RescueChildren
<1>3. Marked' = Marked \ Children(p)
  BY <1>2 DEF Marked, Max
<1>4. foundRefs' = (foundRefs \/ \E c \in Children(p) : gcRefs[c] = Max)
  BY DEF RescueChildren
<1>5. ASSUME ~foundRefs' PROVE ~foundRefs /\ gcRefs' = gcRefs /\ Followed(p)
  <2>1. ~foundRefs /\ \A c \in Children(p) : gcRefs[c] # Max
    BY <1>4, <1>5
  <2>2. \A o \in Object : gcRefs'[o] = gcRefs[o]
    BY <1>2, <2>1
  <2>3. gcRefs' = gcRefs
    BY <1>2, <2>2 DEF TypeOK
  <2>4. QED
    BY <2>1, <2>3 DEF Followed, Marked
<1>6. foundRefs' \in BOOLEAN
  BY <1>4 DEF TypeOK
<1>7. QED
  BY <1>2, <1>3, <1>5, <1>6

(* Both kinds of pass keep what has been established about the marks.      *)
LEMMA RescuedStaysExact ==
    ASSUME IInv, phase \in {"mark", "rescue"}, UNCHANGED <<slot, roots, strong, objects, unreachable, phase>>,
           NEW p \in Reachable, RescueChildren(p)
    PROVE  /\ Marked' \subseteq Marked
           /\ Followed(p)'
           /\ \A q : Followed(q) => Followed(q)'
           /\ (Object \ Marked)' \subseteq Reachable'
           /\ \A o \in Marked' : roots'[o] = 0
<1>1. p \in Object /\ TypeOK
  BY DEF Reachable, IInv
<1>2. Marked' = Marked \ Children(p) /\ \A q : Children(q)' = Children(q)
  BY <1>1, RescueChildrenStep, SameSlots
<1>3. Children(p) \subseteq Reachable /\ Reachable' = Reachable
  BY <1>1, ReachableClosed, SameReachable
<1>4. Object \ Marked \subseteq Reachable /\ \A o \in Marked : roots[o] = 0
  BY DEF IInv, RescueExact, ExtractExact
<1>5. QED
  BY <1>2, <1>3, <1>4 DEF Followed

(* The marking pass over the objects that have references from outside.    *)
LEMMA MarkStep ==
    ASSUME IInv, NEW p \in Object, Mark(p)
    PROVE  IInv'
<1>1. /\ phase = "mark" /\ p \in todo /\ todo' = todo \ {p} /\ RescueChildren(p)
      /\ UNCHANGED <<slot, roots, strong, objects, unreachable, phase, next, dropUnderLock>>
  BY DEF Mark
<1>2. p \in objects /\ p \notin Marked /\ p \in Reachable
  BY <1>1 DEF IInv, TypeOK, PlacesExact, RescueExact
<1>3. /\ gcRefs' \in [Object -> Int] /\ foundRefs' \in BOOLEAN
      /\ ~foundRefs' => ~foundRefs /\ gcRefs' = gcRefs
  BY <1>1, RescueChildrenStep DEF IInv
<1>4. /\ Marked' \subseteq Marked
      /\ Followed(p)'
      /\ \A q : Followed(q) => Followed(q)'
      /\ (Object \ Marked)' \subseteq Reachable'
      /\ \A o \in Marked' : roots'[o] = 0
  BY <1>1, <1>2, RescuedStaysExact
<1>5. Listed' = Listed
  BY <1>1 DEF Listed
<1>6. TypeOK'
  BY <1>1, <1>3 DEF IInv, TypeOK
<1>7. GcRefsExact' /\ CountsExact' /\ Drained' = {} /\ NoDropUnderLock'
  BY <1>1, BeforeDrain DEF IInv, GcRefsExact, NoDropUnderLock
<1>8. PlacesExact'
  BY <1>1, <1>4, <1>5 DEF IInv, PlacesExact
<1>9. ExtractExact'
  BY <1>1, <1>4 DEF IInv, ExtractExact
<1>10. RescueExact'
  <2>1. \A q \in objects' \ todo' : Followed(q)'
    BY <1>1, <1>4 DEF IInv, RescueExact
  <2>2. ~foundRefs' => Listed' \subseteq Marked'
    BY <1>1, <1>3, <1>5 DEF IInv, RescueExact, Marked
  <2>3. QED
    BY <1>1, <1>4, <1>7, <2>1, <2>2 DEF RescueExact
<1>11. QED
  BY <1>6, <1>7, <1>8, <1>9, <1>10 DEF IInv

(* One object of a rescue pass over `unreachable'.                         *)
LEMMA RescueStep ==
    ASSUME IInv, Rescue
    PROVE  IInv'
<1>1. /\ phase = "rescue" /\ next <= Len(unreachable) /\ next' = next + 1
      /\ UNCHANGED <<slot, roots, strong, objects, unreachable, phase, todo, dropUnderLock>>
  BY DEF Rescue
<1>2. Len(unreachable) \in Nat /\ next \in 1..Len(unreachable) /\ unreachable[next] \in Object
  BY <1>1, LenProperties, ElementOfSeq DEF IInv, TypeOK, PlacesExact
<1>p. PICK p \in Object : p = unreachable[next]
  BY <1>2
<1>3. Listed' = Listed
  BY <1>1 DEF Listed
<1>4. GcRefsExact' /\ CountsExact' /\ Drained' = {} /\ NoDropUnderLock' /\ Reachable' = Reachable
      /\ \A q : Children(q)' = Children(q)
  BY <1>1, BeforeDrain DEF IInv, GcRefsExact, NoDropUnderLock
<1>5. CASE p \in Marked
  <2>1. UNCHANGED <<gcRefs, foundRefs>> /\ Marked' = Marked
    BY <1>p, <1>5 DEF Rescue, Marked
  <2>2. TypeOK' /\ PlacesExact' /\ ExtractExact'
    BY SMTT(60), <1>1, <1>2, <1>3, <2>1 DEF IInv, TypeOK, PlacesExact, ExtractExact
  <2>3. \A q : Followed(q)' = Followed(q)
    BY <1>4, <2>1 DEF Followed
  <2>4. RescueExact'
    <3>1. \A q \in objects' : Followed(q)'
      BY <1>1, <2>3 DEF IInv, RescueExact
    <3>2. ASSUME ~foundRefs', NEW i \in 1..next' - 1, unreachable'[i] \notin Marked'
          PROVE  Followed(unreachable[i])'
      BY <1>1, <1>2, <1>p, <1>5, <2>1, <2>3, <3>2 DEF IInv, RescueExact
    <3>3. QED
      BY <1>1, <1>4, <2>1, <3>1, <3>2 DEF IInv, RescueExact
  <2>5. QED
    BY <1>4, <2>2, <2>4 DEF IInv
<1>6. CASE p \notin Marked
  <2>1. RescueChildren(p)
    BY <1>1, <1>2, <1>p, <1>6 DEF Rescue, Marked
  <2>2. p \in Reachable
    BY <1>1, <1>2, <1>6 DEF IInv, RescueExact
  <2>3. /\ gcRefs' \in [Object -> Int] /\ foundRefs' \in BOOLEAN
        /\ ~foundRefs' => ~foundRefs /\ gcRefs' = gcRefs
    BY <1>2, <2>1, RescueChildrenStep DEF IInv
  <2>4. /\ Marked' \subseteq Marked
        /\ Followed(p)'
        /\ \A q : Followed(q) => Followed(q)'
        /\ (Object \ Marked)' \subseteq Reachable'
        /\ \A o \in Marked' : roots'[o] = 0
    BY <1>1, <2>1, <2>2, RescuedStaysExact
  <2>5. TypeOK' /\ PlacesExact' /\ ExtractExact'
    <3>1. TypeOK'
      <4>1. next' \in Nat
        BY <1>1, <1>2
      <4>2. QED
        BY <1>1, <2>3, <4>1 DEF IInv, TypeOK
    <3>2. PlacesExact'
      BY <1>1, <1>2, <1>3, <2>4 DEF IInv, PlacesExact
    <3>3. ExtractExact'
      BY <1>1, <2>4 DEF IInv, ExtractExact
    <3>4. QED
      BY <3>1, <3>2, <3>3
  <2>6. RescueExact'
    <3>1. \A q \in objects' : Followed(q)'
      BY <1>1, <2>4 DEF IInv, RescueExact
    <3>2. ASSUME ~foundRefs', NEW i \in 1..next' - 1, unreachable'[i] \notin Marked'
          PROVE  Followed(unreachable[i])'
      <4>1. PICK q : q = unreachable[i]
        OBVIOUS
      <4>2. CASE i = next
        <5>1. Followed(q)'
          BY <1>p, <2>4, <4>1, <4>2
        <5>2. QED
          BY <1>1, <4>1, <5>1 DEF Followed, Children
      <4>3. CASE i \in 1..next - 1
        <5>1. q \notin Marked /\ ~foundRefs
          BY <1>1, <2>3, <3>2, <4>1 DEF Marked
        <5>2. Followed(q)
          BY <1>1, <4>1, <4>3, <5>1 DEF IInv, RescueExact
        <5>3. Followed(q)'
          BY <2>4, <5>2
        <5>4. QED
          BY <1>1, <4>1, <5>3 DEF Followed, Children
      <4>4. QED
        BY <1>1, <1>2, <4>2, <4>3
    <3>3. QED
      BY <1>1, <1>4, <2>4, <3>1, <3>2 DEF RescueExact
  <2>7. QED
    BY <1>4, <2>5, <2>6 DEF IInv
<1>7. QED
  BY <1>5, <1>6

(* Clearing the slots of an object that is given up takes nothing away     *)
(* from the objects that are kept.                                         *)
LEMMA KeptStaysReachable ==
    ASSUME IInv, phase = "drain", NEW p \in Marked,
           slot' = [slot EXCEPT ![p] = [i \in Index |-> Null]], UNCHANGED roots
    PROVE  Object \ Marked \subseteq Reachable'
<1> SUFFICES ASSUME NEW o \in Object \ Marked,
                    NEW S \in SUBSET Object, {r \in Object : roots[r] > 0} \subseteq S, Closed(S)'
             PROVE  o \in S
  BY DEF Reachable
<1>1. \A q \in Object \ Marked : Children(q)' = Children(q) /\ Followed(q)
  BY ClearedSlots DEF IInv, RescueExact, Marked
<1>2. Closed(S \ Marked)
  BY <1>1 DEF Closed, Followed
<1>3. {r \in Object : roots[r] > 0} \subseteq S \ Marked
  BY DEF IInv, ExtractExact, Marked
<1>4. Reachable \subseteq S \ Marked
  BY <1>2, <1>3, ReachableLeast
<1>5. QED
  BY <1>4 DEF IInv, RescueExact

(* unreachable.drain(..) comes to a rescued object: it returns to the heap *)
(* and nothing else happens.                                               *)
LEMMA DrainRescuedStep ==
    ASSUME IInv, Drain, unreachable[next] \notin Marked
    PROVE  IInv' /\ UNCHANGED <<slot, roots, strong, phase, gcRefs>>
<1>1. /\ phase = "drain" /\ next <= Len(unreachable) /\ next' = next + 1
      /\ UNCHANGED <<roots, unreachable, gcRefs, foundRefs, phase, todo>>
  BY DEF Drain
<1>2. Len(unreachable) \in Nat /\ next \in 1..Len(unreachable) /\ unreachable[next] \in Object
  BY <1>1, LenProperties, ElementOfSeq DEF IInv, TypeOK, PlacesExact
<1>3. PICK p \in Object : p = unreachable[next]
  BY <1>2
<1>4. p \notin Marked /\ objects' = objects \cup {p} /\ UNCHANGED <<slot, strong, dropUnderLock>>
  BY <1>2, <1>3 DEF Drain, Marked
<1>5. Marked' = Marked /\ Reachable' = Reachable /\ \A q : Children(q)' = Children(q)
  BY <1>1, <1>4, SameReachable, SameSlots DEF Marked
<1>6. \A o : Ahead(o)' <=> Ahead(o) /\ o # p
  BY <1>1, <1>2, <1>3 DEF IInv, PlacesExact, Ahead
<1>7. Drained' = Drained
  BY <1>1, <1>4, <1>5, <1>6 DEF Drained
<1>8. TypeOK'
  BY SMTT(60), <1>1, <1>2, <1>4 DEF IInv, TypeOK
<1>9. CountsExact' /\ GcRefsExact' /\ NoDropUnderLock'
  BY <1>1, <1>4, <1>7, SameSlots DEF IInv, CountsExact, GcRefsExact, NoDropUnderLock
<1>10. PlacesExact'
  <2>1. objects' = {o \in Object \ Marked' : ~Ahead(o)'}
    BY <1>1, <1>4, <1>5, <1>6 DEF IInv, PlacesExact
  <2>2. Marked' \subseteq Listed'
    BY <1>1, <1>5 DEF IInv, PlacesExact, Listed
  <2>3. QED
    BY <1>1, <1>2, <2>1, <2>2 DEF IInv, PlacesExact
<1>11. ExtractExact' /\ RescueExact'
  BY <1>1, <1>5, <1>7 DEF IInv, ExtractExact, RescueExact, Followed
<1>12. QED
  BY <1>1, <1>4, <1>8, <1>9, <1>10, <1>11 DEF IInv

(* .. or to one that is given up: its slots are cleared, one Arc for each, *)
(* and the one that `unreachable' held is dropped.                         *)
LEMMA DrainGivenUpStep ==
    ASSUME IInv, Drain, unreachable[next] \in Marked
    PROVE  IInv' /\ UNCHANGED <<roots, phase, gcRefs>> /\ \A o \in Object : strong'[o] <= strong[o]
<1>1. /\ phase = "drain" /\ next <= Len(unreachable) /\ next' = next + 1
      /\ UNCHANGED <<roots, unreachable, gcRefs, foundRefs, phase, todo>>
  BY DEF Drain
<1>2. Len(unreachable) \in Nat /\ next \in 1..Len(unreachable) /\ unreachable[next] \in Object
  BY <1>1, LenProperties, ElementOfSeq DEF IInv, TypeOK, PlacesExact
<1>3. PICK p \in Object : p = unreachable[next]
  BY <1>2
<1>4. /\ p \in Marked
      /\ slot' = [slot EXCEPT ![p] = [i \in Index |-> Null]]
      /\ strong' = [o \in Object |->
                       strong[o] - Cardinality(SlotsTo(o, {p})) - (IF o = p THEN 1 ELSE 0)]
      /\ dropUnderLock' =
            (dropUnderLock \/ \E o \in Children(p) \ {p} : strong'[o] = 0 /\ Children(o) # {})
      /\ UNCHANGED objects
  BY <1>3 DEF Drain, Marked
<1>5. Marked' = Marked
  BY <1>1 DEF Marked
<1>6. \A o : Ahead(o)' <=> Ahead(o) /\ o # p
  BY <1>1, <1>2, <1>3 DEF IInv, PlacesExact, Ahead
<1>7. Drained' = Drained \cup {p} /\ p \notin Drained
  <2>1. Ahead(p)
    BY <1>2, <1>3 DEF Ahead
  <2>2. QED
    BY <1>1, <1>4, <1>5, <1>6, <2>1 DEF Drained
<1>8. /\ \A o \in Object : SlotsTo(o, Object)' = SlotsTo(o, Object \ {p})
      /\ \A q \in Object \ {p} : Children(q)' = Children(q)
      /\ Children(p)' = {}
  BY <1>4, ClearedSlots DEF IInv
<1>9. ASSUME NEW o \in Object
      PROVE  /\ Cardinality(SlotsTo(o, {p})) \in Nat
             /\ Cardinality(SlotsTo(o, Object)') \in Nat
             /\ Cardinality(SlotsTo(o, Object)) =
                   Cardinality(SlotsTo(o, Object)') + Cardinality(SlotsTo(o, {p}))
  <2>1. {p} \in SUBSET Object /\ Object \in SUBSET Object /\ Object \ {p} \in SUBSET Object
    OBVIOUS
  <2>2. QED
    BY <1>8, <2>1, SlotsFinite, SlotsSplit
<1>10. ASSUME NEW o \in Object
       PROVE  /\ strong'[o] = (IF o \in Drained' THEN 0 ELSE 1) + roots[o] + Cardinality(SlotsTo(o, Object)')
              /\ strong'[o] \in Nat
              /\ strong'[o] <= strong[o]
  <2>1. /\ strong[o] = (IF o \in Drained THEN 0 ELSE 1) + roots[o] + Cardinality(SlotsTo(o, Object))
        /\ roots[o] \in Nat /\ strong[o] \in Nat
    BY WidthAssumption DEF IInv, TypeOK, CountsExact
  <2>2. strong'[o] = strong[o] - Cardinality(SlotsTo(o, {p})) - (IF o = p THEN 1 ELSE 0)
    BY <1>4
  <2>3. /\ Cardinality(SlotsTo(o, {p})) \in Nat
        /\ Cardinality(SlotsTo(o, Object)') \in Nat
        /\ Cardinality(SlotsTo(o, Object)) =
              Cardinality(SlotsTo(o, Object)') + Cardinality(SlotsTo(o, {p}))
    BY <1>9
  <2>4. CASE o = p
    <3>1. o \notin Drained /\ o \in Drained'
      BY <1>7, <2>4
    <3>2. QED
      BY <2>1, <2>2, <2>3, <2>4, <3>1
  <2>5. CASE o # p
    <3>1. o \in Drained' <=> o \in Drained
      BY <1>7, <2>5
    <3>2. QED
      BY <2>1, <2>2, <2>3, <2>5, <3>1
  <2>6. QED
    BY <2>4, <2>5
<1>11. CountsExact'
  BY <1>1, <1>10 DEF CountsExact
<1>12. NoDropUnderLock'
  <2>1. ASSUME NEW o \in Children(p) \ {p}, strong'[o] = 0
        PROVE  Children(o) = {}
    <3>1. o \in Object
      BY DEF IInv, TypeOK, Children
    <3>2. roots[o] \in Nat /\ Cardinality(SlotsTo(o, Object)') \in Nat
      BY <1>9, <3>1, WidthAssumption DEF IInv, TypeOK
    <3>3. o \in Drained'
      BY <1>10, <2>1, <3>1, <3>2
    <3>4. QED
      BY <1>7, <3>3 DEF IInv, RescueExact
  <2>2. QED
    BY <1>4, <2>1 DEF IInv, NoDropUnderLock
<1>13. TypeOK'
  <2>1. strong' \in [Object -> Nat]
    BY <1>4, <1>10
  <2>2. slot' \in [Object -> [Index -> Object \cup {Null}]]
    BY <1>4 DEF IInv, TypeOK
  <2>3. next' \in Nat /\ dropUnderLock' \in BOOLEAN
    <3>1. next' \in Nat
      BY <1>1, <1>2
    <3>2. dropUnderLock' \in BOOLEAN
      BY <1>4
    <3>3. QED
      BY <3>1, <3>2
  <2>4. QED
    BY <1>1, <1>4, <2>1, <2>2, <2>3 DEF IInv, TypeOK
<1>14. PlacesExact'
  <2>1. objects' = {o \in Object \ Marked' : ~Ahead(o)'}
    BY <1>1, <1>4, <1>5, <1>6 DEF IInv, PlacesExact
  <2>2. Marked' \subseteq Listed'
    BY <1>1, <1>5 DEF IInv, PlacesExact, Listed
  <2>3. QED
    BY <1>1, <1>2, <2>1, <2>2 DEF IInv, PlacesExact
<1>15. ExtractExact' /\ GcRefsExact'
  BY <1>1, <1>5 DEF IInv, ExtractExact, GcRefsExact
<1>16. RescueExact'
  <2>1. (Object \ Marked)' \subseteq Reachable'
    BY <1>1, <1>4, <1>5, KeptStaysReachable
  <2>2. \A q \in Object \ Marked' : Followed(q)'
    BY <1>1, <1>4, <1>5, <1>8 DEF IInv, RescueExact, Followed
  <2>3. \A q \in Drained' : Children(q)' = {}
    BY <1>7, <1>8 DEF IInv, RescueExact, Drained, Marked
  <2>4. QED
    BY <1>1, <2>1, <2>2, <2>3 DEF RescueExact
<1>17. QED
  BY <1>1, <1>10, <1>11, <1>12, <1>13, <1>14, <1>15, <1>16 DEF IInv

(* What the end of every pass but the last one leaves alone.               *)
LEMMA EndPassFrame ==
    ASSUME IInv, EndPass, phase' # "done"
    PROVE  /\ UNCHANGED <<slot, roots, strong, objects, gcRefs, unreachable, dropUnderLock>>
           /\ foundRefs' = FALSE /\ next' = 1
           /\ Marked' = Marked /\ Listed' = Listed /\ Reachable' = Reachable
           /\ \A p : Children(p)' = Children(p) /\ Followed(p)' = Followed(p)
           /\ NoDropUnderLock'
           /\ Len(unreachable) \in Nat
<1>1. /\ UNCHANGED <<slot, roots, strong, objects, gcRefs, unreachable, dropUnderLock>>
      /\ foundRefs' = FALSE /\ next' = 1
  BY DEF EndPass
<1>2. Marked' = Marked /\ Listed' = Listed /\ Reachable' = Reachable
      /\ \A p : Children(p)' = Children(p)
  BY <1>1, SameReachable, SameSlots DEF Marked, Listed
<1>3. Len(unreachable) \in Nat
  BY LenProperties DEF IInv, TypeOK
<1>4. QED
  BY <1>1, <1>2, <1>3 DEF Followed, IInv, NoDropUnderLock

(* gc_refs is left with the references from outside.                       *)
LEMMA EndSubtractStep ==
    ASSUME IInv, EndPass, phase = "subtract"
    PROVE  IInv'
<1>1. todo = {} /\ phase' = "extract" /\ todo' = objects
  BY DEF EndPass, PassOver, NextPhase
<1>2. /\ UNCHANGED <<slot, roots, strong, objects, gcRefs, unreachable, dropUnderLock>>
      /\ foundRefs' = FALSE /\ next' = 1
      /\ Marked' = Marked /\ Listed' = Listed
      /\ \A p : Children(p)' = Children(p)
      /\ NoDropUnderLock'
  BY <1>1, EndPassFrame
<1>3. objects = Object /\ unreachable = <<>> /\ Listed = {}
  BY DEF IInv, PlacesExact, Listed
<1>4. \A o \in Object : gcRefs[o] = roots[o] /\ gcRefs[o] \in Nat
  <2>1. \A o \in Object : Cardinality(SlotsTo(o, {})) = 0
    BY FS_EmptySet DEF SlotsTo
  <2>2. \A o \in Object : gcRefs[o] = roots[o] + 0
    BY <1>1, <2>1 DEF IInv, GcRefsExact
  <2>3. QED
    BY <2>2, WidthAssumption DEF IInv, TypeOK
<1>5. Marked = {}
  BY <1>4 DEF Marked, Max
<1>6. Drained = {} /\ Drained' = {}
  BY <1>2, <1>5 DEF Drained
<1>7. TypeOK'
  BY <1>1, <1>2 DEF IInv, TypeOK
<1>8. CountsExact' /\ GcRefsExact'
  BY <1>1, <1>2, <1>6, SameSlots DEF IInv, CountsExact, GcRefsExact
<1>9. PlacesExact'
  BY <1>1, <1>2, <1>3, <1>5 DEF IInv, PlacesExact
<1>10. ExtractExact' /\ RescueExact'
  BY <1>1, <1>2, <1>3, <1>4, <1>5, <1>6 DEF ExtractExact, RescueExact
<1>11. QED
  BY <1>2, <1>7, <1>8, <1>9, <1>10 DEF IInv

(* All that is left in `objects' has references from outside.              *)
LEMMA EndExtractStep ==
    ASSUME IInv, EndPass, phase = "extract"
    PROVE  IInv'
<1>1. todo = {} /\ phase' = "mark" /\ todo' = objects
  BY DEF EndPass, PassOver, NextPhase
<1>2. /\ UNCHANGED <<slot, roots, strong, objects, gcRefs, unreachable, dropUnderLock>>
      /\ foundRefs' = FALSE /\ next' = 1
      /\ Marked' = Marked /\ Listed' = Listed /\ Reachable' = Reachable
      /\ \A p : Children(p)' = Children(p)
      /\ NoDropUnderLock' /\ Len(unreachable) \in Nat
  BY <1>1, EndPassFrame
<1>3. objects = Object \ Marked /\ Listed = Marked
  BY DEF IInv, PlacesExact, ExtractExact
<1>4. \A o \in objects : roots[o] > 0
  BY <1>1, WidthAssumption DEF IInv, TypeOK, ExtractExact
<1>5. Drained = {} /\ Drained' = {}
  BY <1>1 DEF Drained
<1>6. Object \ Marked \subseteq Reachable
  BY <1>3, <1>4, ReachableClosed DEF IInv
<1>7. TypeOK'
  BY <1>1, <1>2 DEF IInv, TypeOK
<1>8. CountsExact' /\ GcRefsExact'
  BY <1>1, <1>2, <1>5, SameSlots DEF IInv, CountsExact, GcRefsExact
<1>9. PlacesExact'
  BY <1>1, <1>2 DEF IInv, PlacesExact
<1>10. ExtractExact' /\ RescueExact'
  BY <1>1, <1>2, <1>3, <1>5, <1>6 DEF IInv, ExtractExact, RescueExact
<1>11. QED
  BY <1>2, <1>7, <1>8, <1>9, <1>10 DEF IInv

(* Another rescue pass.                                                    *)
LEMMA EndForRescueStep ==
    ASSUME IInv, EndPass, phase' = "rescue"
    PROVE  IInv'
<1>1. phase \in {"mark", "rescue"} /\ (phase = "mark" => todo = {}) /\ todo' = {}
  BY DEF EndPass, PassOver, NextPhase, IInv, TypeOK
<1>2. /\ UNCHANGED <<slot, roots, strong, objects, gcRefs, unreachable, dropUnderLock>>
      /\ foundRefs' = FALSE /\ next' = 1
      /\ Marked' = Marked /\ Listed' = Listed /\ Reachable' = Reachable
      /\ \A p : Children(p)' = Children(p) /\ Followed(p)' = Followed(p)
      /\ NoDropUnderLock' /\ Len(unreachable) \in Nat
  BY EndPassFrame
<1>3. Drained = {} /\ Drained' = {}
  BY <1>1 DEF Drained
<1>4. TypeOK'
  BY <1>1, <1>2 DEF IInv, TypeOK
<1>5. CountsExact' /\ GcRefsExact'
  BY <1>1, <1>2, <1>3, SameSlots DEF IInv, CountsExact, GcRefsExact
<1>6. PlacesExact'
  BY <1>1, <1>2 DEF IInv, PlacesExact
<1>7. ExtractExact'
  BY <1>1, <1>2 DEF IInv, ExtractExact
<1>8. RescueExact'
  <2>1. \A p \in objects : Followed(p)
    BY <1>1 DEF IInv, RescueExact
  <2>2. 1..next' - 1 = {}
    BY <1>2
  <2>3. QED
    BY <1>1, <1>2, <1>3, <2>1, <2>2 DEF IInv, RescueExact
<1>9. QED
  BY <1>2, <1>4, <1>5, <1>6, <1>7, <1>8 DEF IInv

(* The last pass found nothing: what is not given up is closed, and the    *)
(* drain begins.                                                           *)
LEMMA EndForDrainStep ==
    ASSUME IInv, EndPass, phase' = "drain"
    PROVE  IInv'
<1>1. /\ phase \in {"mark", "rescue"} /\ ~foundRefs /\ todo' = {}
      /\ phase = "mark" => todo = {}
      /\ phase = "rescue" => next = Len(unreachable) + 1
  BY DEF EndPass, PassOver, NextPhase, IInv, TypeOK
<1>2. /\ UNCHANGED <<slot, roots, strong, objects, gcRefs, unreachable, dropUnderLock>>
      /\ foundRefs' = FALSE /\ next' = 1
      /\ Marked' = Marked /\ Listed' = Listed /\ Reachable' = Reachable
      /\ \A p : Children(p)' = Children(p) /\ Followed(p)' = Followed(p)
      /\ NoDropUnderLock' /\ Len(unreachable) \in Nat
  BY EndPassFrame
<1>3. \A o : Ahead(o)' <=> o \in Listed
  BY <1>2 DEF Ahead, Listed
<1>4. objects = Object \ Listed /\ Marked \subseteq Listed
  BY <1>1 DEF IInv, PlacesExact
<1>5. Drained = {} /\ Drained' = {}
  BY <1>1, <1>2, <1>3, <1>4 DEF Drained
<1>6. TypeOK'
  BY <1>1, <1>2 DEF IInv, TypeOK
<1>7. CountsExact' /\ GcRefsExact'
  BY <1>1, <1>2, <1>5, SameSlots DEF IInv, CountsExact, GcRefsExact
<1>8. PlacesExact'
  <2>1. objects' = {o \in Object \ Marked' : ~Ahead(o)'}
    BY <1>2, <1>3, <1>4
  <2>2. next' \in 1..Len(unreachable') + 1
    BY <1>2
  <2>3. QED
    BY <1>2, <1>4, <2>1, <2>2 DEF IInv, PlacesExact
<1>9. ExtractExact'
  BY <1>1, <1>2 DEF IInv, ExtractExact
<1>10. RescueExact'
  <2>1. ASSUME NEW p \in Object \ Marked PROVE Followed(p)
    <3>1. CASE p \in objects
      BY <1>1, <3>1 DEF IInv, RescueExact
    <3>2. CASE p \in Listed
      <4>1. phase = "rescue"
        BY <1>1, <2>1, <3>2 DEF IInv, RescueExact
      <4>2. PICK i \in 1..next - 1 : unreachable[i] = p
        BY <1>1, <1>2, <3>2, <4>1 DEF Listed
      <4>3. QED
        BY <1>1, <2>1, <4>1, <4>2 DEF IInv, RescueExact
    <3>3. QED
      BY <1>4, <3>1, <3>2
  <2>2. QED
    BY <1>1, <1>2, <1>5, <2>1 DEF IInv, RescueExact
<1>11. QED
  BY <1>2, <1>6, <1>7, <1>8, <1>9, <1>10 DEF IInv

(* try_gc is about to return.                                              *)
LEMMA EndDrainStep ==
    ASSUME IInv, EndPass, phase = "drain"
    PROVE  /\ IInv' /\ phase' = "done"
           /\ UNCHANGED <<slot, roots, strong>>
           /\ objects' = Object \ Marked
           /\ Drained = Marked
<1>1. /\ phase' = "done" /\ todo' = {} /\ next' = 1 /\ foundRefs' = FALSE /\ unreachable' = <<>>
      /\ UNCHANGED <<slot, roots, strong, objects, gcRefs, dropUnderLock>>
  BY DEF EndPass, NextPhase
<1>2. next = Len(unreachable) + 1 /\ Len(unreachable) \in Nat
  BY LenProperties DEF EndPass, PassOver, IInv, TypeOK
<1>3. /\ Marked' = Marked /\ Reachable' = Reachable
      /\ \A p : Children(p)' = Children(p)
  BY <1>1, SameReachable, SameSlots DEF Marked
<1>4. \A o : ~Ahead(o)
  BY <1>2 DEF Ahead
<1>5. objects = Object \ Marked /\ Drained = Marked /\ Drained' = Marked
  BY <1>1, <1>3, <1>4 DEF IInv, PlacesExact, Drained
<1>6. TypeOK'
  BY <1>1, EmptySeq DEF IInv, TypeOK
<1>7. CountsExact' /\ GcRefsExact' /\ NoDropUnderLock'
  BY <1>1, <1>5, SameSlots DEF IInv, CountsExact, GcRefsExact, NoDropUnderLock
<1>8. PlacesExact'
  BY <1>1, <1>3, <1>5 DEF PlacesExact
<1>9. ExtractExact' /\ RescueExact'
  BY <1>1, <1>3, <1>5 DEF IInv, ExtractExact, RescueExact, Followed
<1>10. QED
  BY <1>1, <1>5, <1>6, <1>7, <1>8, <1>9 DEF IInv

(* The phases follow each other.                                           *)
LEMMA EndPassStep ==
    ASSUME IInv, EndPass
    PROVE  IInv'
<1>1. phase \in {"subtract", "extract", "mark", "rescue", "drain"} /\ phase' = NextPhase(TRUE)
  BY DEF IInv, TypeOK, EndPass, PassOver
<1>2. CASE phase \in {"mark", "rescue"}
  <2>1. phase' = "rescue" \/ phase' = "drain"
    BY <1>1, <1>2 DEF NextPhase
  <2>2. QED
    BY <2>1, EndForRescueStep, EndForDrainStep
<1>3. QED
  BY <1>1, <1>2, EndSubtractStep, EndExtractStep, EndDrainStep

(* Nothing the invariant speaks of changes in a stuttering step.           *)
LEMMA StutterStep ==
    ASSUME IInv, UNCHANGED vars
    PROVE  IInv'
<1>1. /\ Drained' = Drained /\ Marked' = Marked /\ Listed' = Listed /\ Reachable' = Reachable
      /\ \A p : Children(p)' = Children(p) /\ Ahead(p)' = Ahead(p)
  BY SameReachable, SameSlots DEF vars, Drained, Marked, Listed, Ahead
<1>2. TypeOK' /\ GcRefsExact' /\ CountsExact' /\ NoDropUnderLock'
  BY <1>1, SameSlots DEF IInv, vars, TypeOK, GcRefsExact, CountsExact, NoDropUnderLock
<1>3. PlacesExact' /\ ExtractExact' /\ RescueExact'
  BY <1>1 DEF IInv, vars, PlacesExact, ExtractExact, RescueExact, Followed
<1>4. QED
  BY <1>2, <1>3 DEF IInv

(* The invariant is inductive.                                             *)
LEMMA NextIInv == IInv /\ [Next]_vars => IInv'
<1> SUFFICES ASSUME IInv, [Next]_vars PROVE IInv'
  OBVIOUS
<1>1. ASSUME NEW p \in Object, Subtract(p) \/ Extract(p) \/ Mark(p) PROVE IInv'
  BY <1>1, SubtractStep, ExtractStep, MarkStep
<1>2. CASE Drain
  BY <1>2, DrainRescuedStep, DrainGivenUpStep
<1>3. QED
  BY <1>1, <1>2, RescueStep, EndPassStep, StutterStep DEF Next, Returned

-----------------------------------------------------------------------------
(* Theorems. *)

(* The inductive invariant of Heap::try_gc: counts, lists and marks of     *)
(* every pass fit together, whatever the heap it was started on.           *)
THEOREM Invariance == Spec => []IInv
BY InitIInv, NextIInv, PTL DEF Spec

(* gc_refs never underflows, and the first pass leaves it with the number  *)
(* of references from outside the heap.                                    *)
THEOREM GcRefsAreExact == Spec => []GcRefsExact
<1>1. IInv => GcRefsExact
  BY DEF IInv
<1>2. QED
  BY <1>1, Invariance, PTL

(* The strong counts of the objects that the heap keeps count the          *)
(* references that exist, at every step of the drain and after it.         *)
THEOREM StrongCountsAreExact == Spec => []StrongExact
<1>1. IInv => StrongExact
  <2> SUFFICES ASSUME IInv, NEW o \in objects
               PROVE  strong[o] = 1 + roots[o] + Cardinality(SlotsTo(o, Object))
    BY DEF StrongExact
  <2>1. o \in Object /\ o \notin Drained
    BY DEF IInv, TypeOK, PlacesExact, Drained
  <2>2. QED
    BY <2>1 DEF IInv, CountsExact
<1>2. QED
  BY <1>1, Invariance, PTL

(* No object is freed while it holds references: the collector, which has  *)
(* HEAP locked, never locks it once more.                                  *)
THEOREM NeverDropsUnderLock == Spec => []NoDropUnderLock
<1>1. IInv => NoDropUnderLock
  BY DEF IInv
<1>2. QED
  BY <1>1, Invariance, PTL

-----------------------------------------------------------------------------
(* What a collection promises. *)

Alive == {o \in Object : strong[o] > 0}

(* An object that the drain has not cleared is not freed; and once it has  *)
(* cleared all that are given up, nobody refers to these any more.         *)
LEMMA AliveExact ==
    ASSUME IInv
    PROVE  /\ Object \ Drained \subseteq Alive
           /\ Drained = Marked /\ phase = "drain" => Alive = Object \ Marked
<1>1. ASSUME NEW o \in Object
      PROVE  /\ strong[o] = (IF o \in Drained THEN 0 ELSE 1) + roots[o] + Cardinality(SlotsTo(o, Object))
             /\ roots[o] \in Nat /\ Cardinality(SlotsTo(o, Object)) \in Nat
  BY SlotsFinite, WidthAssumption DEF IInv, TypeOK, CountsExact
<1>2. ASSUME NEW o \in Object \ Drained PROVE o \in Alive
  BY <1>1 DEF Alive
<1>3. ASSUME Drained = Marked, phase = "drain", NEW o \in Marked
      PROVE  o \notin Alive
  <2>1. o \in Object /\ roots[o] = 0
    BY <1>3 DEF IInv, ExtractExact, Marked
  <2>2. \A p \in Object : o \notin Children(p)
    BY <1>3 DEF IInv, RescueExact, Followed
  <2>3. Cardinality(SlotsTo(o, Object)) = 0
    BY <2>1, <2>2, NoSlots
  <2>4. QED
    BY <1>1, <1>3, <2>1, <2>3 DEF Alive
<1>4. QED
  BY <1>2, <1>3 DEF Alive

(* Any heap that try_gc starts with is one that a collection may start on. *)
LEMMA CollectionInit == Init => Contract!Init
<1> SUFFICES ASSUME Init PROVE Contract!Init
  OBVIOUS
<1>1. IInv /\ phase = "subtract"
  BY InitIInv DEF Init
<1>2. Drained = {}
  BY <1>1 DEF Drained
<1>3. Object \subseteq Alive
  BY <1>1, <1>2, AliveExact
<1>4. QED
  BY <1>1, <1>3 DEF Contract!Init, Alive, Reachable

(* Steps that leave the references as they are do nothing that a           *)
(* collection promises anything about.                                     *)
LEMMA SilentStep ==
    ASSUME UNCHANGED <<slot, roots, strong>>,
           (phase # "done" /\ phase' # "done") \/ UNCHANGED <<phase, objects>>
    PROVE  UNCHANGED Contract!vars
<1>1. Reachable' = Reachable
  BY SameReachable
<1>2. QED
  BY <1>1 DEF Contract!vars

(* Clearing the slots of an object frees nothing that can be reached.      *)
LEMMA DrainFrees ==
    ASSUME IInv, Drain, unreachable[next] \in Marked
    PROVE  Contract!Next
<1>1. IInv' /\ UNCHANGED <<roots, phase, gcRefs>> /\ \A o \in Object : strong'[o] <= strong[o]
  BY DrainGivenUpStep
<1>2. phase = "drain" /\ slot' = [slot EXCEPT ![unreachable[next]] = [i \in Index |-> Null]]
  BY DEF Drain, Marked
<1>3. Marked' = Marked
  BY <1>1 DEF Marked
<1>4. Reachable = Object \ Marked
  BY <1>2, ReachableKept
<1>5. Reachable' = Object \ Marked
  <2>1. Object \ Marked \subseteq Reachable'
    BY <1>1, <1>2, KeptStaysReachable
  <2>2. ASSUME NEW q \in Object \ Marked PROVE Children(q)' \subseteq Object \ Marked
    <3>1. Followed(q)'
      BY <1>1, <1>2, <1>3 DEF IInv, RescueExact
    <3>2. Children(q)' \subseteq Object
      BY <1>1 DEF IInv, TypeOK, Children
    <3>3. QED
      BY <1>3, <3>1, <3>2 DEF Followed
  <2>3. {r \in Object : roots'[r] > 0} \subseteq Object \ Marked
    BY <1>1, <1>2 DEF IInv, ExtractExact, Marked
  <2>4. Reachable' \subseteq Object \ Marked
    BY <2>2, <2>3 DEF Reachable, Closed
  <2>5. QED
    BY <2>1, <2>4
<1>6. Alive' \subseteq Alive
  BY <1>1 DEF Alive, IInv, TypeOK
<1>7. Object \ Marked \subseteq Alive'
  <2>1. ASSUME NEW o \in Object \ Marked PROVE strong'[o] > 0
    <3>1. o \notin Drained'
      BY <1>3 DEF Drained
    <3>2. strong'[o] = 1 + roots'[o] + Cardinality(SlotsTo(o, Object)')
      BY <1>1, <3>1 DEF IInv, CountsExact
    <3>3. SlotsTo(o, Object)' \subseteq SlotsTo(o, Object)
      <4>1. SlotsTo(o, Object)' = SlotsTo(o, Object \ {unreachable[next]})
        BY <1>2, ClearedSlots DEF IInv, Marked
      <4>2. QED
        BY <4>1 DEF SlotsTo
    <3>4. Cardinality(SlotsTo(o, Object)') \in Nat
      BY <3>3, SlotsFinite, FS_Subset, FS_CardinalityType
    <3>5. roots'[o] \in Nat
      BY <1>1, WidthAssumption DEF IInv, TypeOK
    <3>6. QED
      BY <3>2, <3>4, <3>5
  <2>2. QED
    BY <2>1 DEF Alive
<1>8. PICK garbage \in SUBSET Object : garbage = Alive \ Alive'
  BY DEF Alive
<1>9. garbage \subseteq Alive \ Reachable /\ Alive' = Alive \ garbage
  BY <1>4, <1>6, <1>7, <1>8
<1>10. Contract!Free(garbage)
  BY <1>1, <1>2, <1>4, <1>5, <1>9 DEF Contract!Free, Alive
<1>11. QED
  BY <1>10 DEF Contract!Next

(* When the drain is over, the objects that are not freed are those that   *)
(* can be reached, and the heap has them all.                              *)
LEMMA EndDrainFinishes ==
    ASSUME IInv, EndPass, phase = "drain"
    PROVE  Contract!Next
<1>1. /\ phase' = "done" /\ UNCHANGED <<slot, roots, strong>>
      /\ objects' = Object \ Marked /\ Drained = Marked
  BY EndDrainStep
<1>2. Alive = Object \ Marked /\ Reachable = Object \ Marked
  BY <1>1, AliveExact, ReachableKept
<1>3. Reachable' = Reachable
  BY <1>1, SameReachable
<1>4. Contract!Finish
  BY <1>1, <1>2, <1>3 DEF Contract!Finish, Alive
<1>5. QED
  BY <1>4 DEF Contract!Next

(* try_gc implements the collection it promises: it never frees what a     *)
(* thread or a static field can reach, and when it returns exactly the     *)
(* reachable objects are alive and known to the heap.                      *)
THEOREM Refinement == Spec => ImplementsCollection
<1>1. IInv /\ [Next]_vars => [Contract!Next]_(Contract!vars)
  <2> SUFFICES ASSUME IInv, [Next]_vars PROVE [Contract!Next]_(Contract!vars)
    OBVIOUS
  <2>1. CASE UNCHANGED vars
    BY <2>1, SilentStep DEF vars
  <2>2. ASSUME NEW p \in Object, Subtract(p) \/ Extract(p) \/ Mark(p)
        PROVE  [Contract!Next]_(Contract!vars)
    <3>1. UNCHANGED <<slot, roots, strong, phase>> /\ phase # "done"
      BY <2>2 DEF Subtract, Extract, Mark
    <3>2. QED
      BY <3>1, SilentStep
  <2>3. CASE Rescue
    <3>1. UNCHANGED <<slot, roots, strong, phase>> /\ phase # "done"
      BY <2>3 DEF Rescue
    <3>2. QED
      BY <3>1, SilentStep
  <2>4. CASE Drain
    <3>1. CASE unreachable[next] \in Marked
      BY <2>4, <3>1, DrainFrees
    <3>2. CASE unreachable[next] \notin Marked
      <4>1. UNCHANGED <<slot, roots, strong, phase>> /\ phase # "done"
        BY <2>4, <3>2, DrainRescuedStep DEF Drain
      <4>2. QED
        BY <4>1, SilentStep
    <3>3. QED
      BY <3>1, <3>2
  <2>5. CASE EndPass
    <3>1. CASE phase = "drain"
      BY <2>5, <3>1, EndDrainFinishes
    <3>2. CASE phase # "drain"
      <4>1. phase # "done" /\ phase' # "done" /\ UNCHANGED <<slot, roots, strong>>
        BY <2>5, <3>2 DEF EndPass, PassOver, NextPhase, IInv, TypeOK
      <4>2. QED
        BY <4>1, SilentStep
    <3>3. QED
      BY <3>1, <3>2
  <2>6. QED
    BY <2>1, <2>2, <2>3, <2>4, <2>5 DEF Next, Returned
<1>2. QED
  BY <1>1, CollectionInit, Invariance, PTL DEF Spec, ImplementsCollection, Contract!Spec

-----------------------------------------------------------------------------
(* Termination. *)

(* A set that loses an element or more gets smaller.                       *)
LEMMA Smaller ==
    ASSUME NEW S, IsFiniteSet(S), NEW T \in SUBSET S, T # S
    PROVE  Cardinality(T) + 1 <= Cardinality(S) /\ Cardinality(T) \in Nat /\ Cardinality(S) \in Nat
BY FS_Subset, FS_CardinalityType

(* Following the children of an object either finds nothing, or leaves     *)
(* less given up than there was.                                           *)
LEMMA GivenUpDescends ==
    ASSUME IInv, NEW p \in Object, RescueChildren(p)
    PROVE  GivenUp' < GivenUp \/ GivenUp' = GivenUp
<1>1. /\ Marked' = Marked \ Children(p)
      /\ ~foundRefs' => ~foundRefs /\ gcRefs' = gcRefs
      /\ foundRefs \in BOOLEAN /\ foundRefs' \in BOOLEAN
  BY RescueChildrenStep DEF IInv, TypeOK
<1>2. IsFiniteSet(Marked)
  BY ObjectAssumption, FS_Subset DEF Marked
<1>3. CASE Marked' = Marked
  <2>1. \A c \in Children(p) : gcRefs[c] # Max
    BY <1>1, <1>3 DEF Marked, IInv, TypeOK, Children
  <2>2. foundRefs' = foundRefs
    BY <1>1, <2>1 DEF RescueChildren
  <2>3. QED
    BY <1>3, <2>2 DEF GivenUp
<1>4. CASE Marked' # Marked
  <2>1. Cardinality(Marked') + 1 <= Cardinality(Marked) /\ Cardinality(Marked') \in Nat
        /\ Cardinality(Marked) \in Nat
    <3>1. Marked' \in SUBSET Marked
      BY <1>1
    <3>2. QED
      BY <1>2, <1>4, <3>1, Smaller
  <2>2. QED
    BY <2>1 DEF GivenUp
<1>5. QED
  BY <1>3, <1>4

(* A step that visits one more object of the pass.                        *)
LEMMA TodoDescends ==
    ASSUME IInv, NEW p \in todo, todo' = todo \ {p}
    PROVE  Cardinality(todo') < Cardinality(todo)
<1>1. IsFiniteSet(todo)
  BY ObjectAssumption, FS_Subset DEF IInv, TypeOK
<1>2. QED
  BY <1>1, Smaller

(* Every step of try_gc descends: the loop of rescue passes cannot go on   *)
(* for ever.                                                               *)
THEOREM CollectionDescends == Spec => Descends
<1> DEFINE Down == \/ Rank' < Rank
                   \/ Rank' = Rank /\ phase \in {"mark", "rescue"} /\ GivenUp' < GivenUp
                   \/ Rank' = Rank /\ (phase \in {"mark", "rescue"} => GivenUp' = GivenUp) /\ Left' < Left
<1>1. IInv /\ [Next]_vars => [Down]_vars
  <2> SUFFICES ASSUME IInv, Next, ~UNCHANGED vars PROVE Down
    OBVIOUS
  <2>1. ASSUME NEW p \in Object, Subtract(p) \/ Extract(p) PROVE Down
    <3>1. phase \in {"subtract", "extract"} /\ phase' = phase /\ p \in todo /\ todo' = todo \ {p}
      BY <2>1 DEF Subtract, Extract
    <3>2. QED
      BY <3>1, TodoDescends DEF Rank, Left
  <2>2. ASSUME NEW p \in Object, Mark(p) PROVE Down
    <3>1. phase = "mark" /\ phase' = phase /\ p \in todo /\ todo' = todo \ {p} /\ RescueChildren(p)
      BY <2>2 DEF Mark
    <3>2. GivenUp' < GivenUp \/ GivenUp' = GivenUp
      BY <3>1, GivenUpDescends
    <3>3. QED
      BY <3>1, <3>2, TodoDescends DEF Rank, Left
  <2>3. CASE Rescue
    <3>1. phase = "rescue" /\ phase' = phase /\ next' = next + 1 /\ unreachable' = unreachable
      BY <2>3 DEF Rescue
    <3>2. Len(unreachable) \in Nat /\ next \in 1..Len(unreachable) /\ unreachable[next] \in Object
      BY <2>3, LenProperties, ElementOfSeq DEF Rescue, IInv, TypeOK, PlacesExact
    <3>3. Left' < Left
      BY <3>1, <3>2 DEF Left
    <3>4. GivenUp' < GivenUp \/ GivenUp' = GivenUp
      <4>1. CASE gcRefs[unreachable[next]] # Max
        <5>1. PICK p \in Object : p = unreachable[next]
          BY <3>2
        <5>2. RescueChildren(p)
          BY <2>3, <4>1, <5>1 DEF Rescue
        <5>3. QED
          BY <5>2, GivenUpDescends
      <4>2. CASE gcRefs[unreachable[next]] = Max
        BY <2>3, <4>2 DEF Rescue, GivenUp, Marked
      <4>3. QED
        BY <4>1, <4>2
    <3>5. QED
      BY <3>1, <3>3, <3>4 DEF Rank
  <2>4. CASE Drain
    <3>1. phase = "drain" /\ phase' = phase /\ next' = next + 1 /\ unreachable' = unreachable
      BY <2>4 DEF Drain
    <3>2. Len(unreachable) \in Nat /\ next \in Nat
      BY LenProperties DEF IInv, TypeOK
    <3>3. QED
      BY <3>1, <3>2 DEF Rank, Left
  <2>5. CASE EndPass
    <3>1. phase' = NextPhase(TRUE) /\ phase \in {"subtract", "extract", "mark", "rescue", "drain"}
      BY <2>5 DEF EndPass, PassOver, IInv, TypeOK
    <3>2. CASE phase = "rescue" /\ foundRefs
      <4>1. phase' = "rescue" /\ foundRefs' = FALSE /\ Marked' = Marked
        BY <2>5, <3>1, <3>2 DEF EndPass, NextPhase, Marked
      <4>2. Cardinality(Marked) \in Nat
        BY ObjectAssumption, FS_Subset, FS_CardinalityType DEF Marked
      <4>3. GivenUp' = 2 * Cardinality(Marked) /\ GivenUp = 2 * Cardinality(Marked) + 1
        BY <3>2, <4>1, <4>2 DEF GivenUp
      <4>4. QED
        BY <3>2, <4>1, <4>2, <4>3 DEF Rank
    <3>3. CASE ~(phase = "rescue" /\ foundRefs)
      BY <3>1, <3>3 DEF NextPhase, Rank
    <3>4. QED
      BY <3>2, <3>3
  <2>6. QED
    BY <2>1, <2>2, <2>3, <2>4, <2>5 DEF Next, Returned
<1>2. QED
  BY <1>1, Invariance, PTL DEF Spec, Descends
=============================================================================
