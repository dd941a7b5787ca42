-------------------------- MODULE MultiArrayProofs --------------------------
(* Proofs about MultiArray, for any number of dimensions, any counts, any  *)
(* width of integers and every build.                                      *)
EXTENDS MultiArray, FiniteSetTheorems, SequenceTheorems, WellFoundedInduction, TLAPS

-----------------------------------------------------------------------------
(* Arrays and the references in their slots. *)

(* An array of n elements has n times their size in slots, all null.       *)
LEMMA NewArrays ==
    ASSUME NEW n \in Nat, NEW size \in {1, 2}
    PROVE  /\ NewArray(n, size) \in Slotted
           /\ n * size \in Nat
           /\ Len(NewArray(n, size).slots) = n * size
           /\ DOMAIN NewArray(n, size).slots = 1..n * size
           /\ \A i \in 1..n * size : NewArray(n, size).slots[i] = Null
<1>1. n * size \in Nat
  OBVIOUS
<1>2. [i \in 1..n * size |-> Null] \in Seq(Nat)
  BY <1>1 DEF Null
<1>3. QED
  BY <1>1, <1>2 DEF NewArray, Object, Slotted

(* The slots of an array that refer to o are finitely many.                *)
LEMMA SlotsFinite ==
    ASSUME NEW object \in Slotted, NEW o
    PROVE  IsFiniteSet(Slots(o, object)) /\ SlotsTo(o, object) \in Nat
<1>1. object.slots \in Seq(Nat)
  BY DEF Slotted
<1>2. Len(object.slots) \in Nat /\ DOMAIN object.slots = 1..Len(object.slots)
  BY <1>1, LenProperties
<1>3. IsFiniteSet(1..Len(object.slots))
  BY <1>2, FS_Interval
<1>4. IsFiniteSet(Slots(o, object))
  BY <1>2, <1>3, FS_Subset DEF Slots
<1>5. QED
  BY <1>4, FS_CardinalityType DEF SlotsTo

(* An array without slots refers to nothing.                               *)
LEMMA NoSlots ==
    ASSUME NEW size, NEW o
    PROVE  Slots(o, Object(size, <<>>)) = {} /\ SlotsTo(o, Object(size, <<>>)) = 0
<1>1. Slots(o, Object(size, <<>>)) = {}
  BY DEF Slots, Object
<1>2. QED
  BY <1>1, FS_EmptySet DEF SlotsTo

(* So are the slots of all the arrays in the heap.                         *)
LEMMA HeapSlotsFinite ==
    ASSUME heap \in Seq(Slotted), NEW o
    PROVE  IsFiniteSet(HeapSlots(o)) /\ Cardinality(HeapSlots(o)) \in Nat
<1> DEFINE of == [p \in DOMAIN heap |-> {p} \X Slots(o, heap[p])]
           All == {of[p] : p \in DOMAIN heap}
<1>1. Len(heap) \in Nat /\ DOMAIN heap = 1..Len(heap) /\ \A p \in DOMAIN heap : heap[p] \in Slotted
  BY LenProperties, ElementOfSeq
<1>2. IsFiniteSet(DOMAIN heap)
  BY <1>1, FS_Interval
<1>3. of \in Surjection(DOMAIN heap, All)
  BY DEF Surjection
<1>4. IsFiniteSet(All)
  <2> HIDE DEF of, All
  <2> QED BY <1>2, <1>3, FS_Surjection
<1>5. ASSUME NEW T \in All PROVE IsFiniteSet(T)
  <2>1. PICK p \in DOMAIN heap : T = {p} \X Slots(o, heap[p])
    OBVIOUS
  <2>2. IsFiniteSet({p}) /\ IsFiniteSet(Slots(o, heap[p]))
    BY <1>1, FS_Singleton, SlotsFinite
  <2>3. QED
    BY <2>1, <2>2, FS_Product
<1>6. HeapSlots(o) = UNION All
  BY DEF HeapSlots
<1>7. IsFiniteSet(UNION All)
  <2> HIDE DEF All
  <2> QED BY <1>4, <1>5, FS_UNION
<1>8. QED
  BY <1>6, <1>7, FS_CardinalityType

(* The heap is given n arrays like the one that has been built.            *)
Grows(n) ==
    /\ heap' \in Seq(Slotted)
    /\ Len(heap') = Len(heap) + n
    /\ \A p \in 1..Len(heap) : heap'[p] = heap[p]
    /\ \A p \in Len(heap) + 1..Len(heap) + n : heap'[p] = built

(* The copies refer to what it refers to, one reference for each.          *)
LEMMA GrownSlots ==
    ASSUME TypeOK, NEW n \in Nat, Grows(n), NEW o
    PROVE  /\ HeapSlots(o)' = HeapSlots(o) \cup ((Len(heap) + 1..Len(heap) + n) \X Slots(o, built))
           /\ Cardinality(HeapSlots(o)') = Cardinality(HeapSlots(o)) + n * SlotsTo(o, built)
<1> DEFINE Copies == Len(heap) + 1..Len(heap) + n
           New == Copies \X Slots(o, built)
<1>1. /\ heap \in Seq(Slotted) /\ built \in Slotted
      /\ Len(heap) \in Nat /\ DOMAIN heap = 1..Len(heap)
      /\ DOMAIN heap' = 1..Len(heap) + n
  BY LenProperties DEF TypeOK, Grows
<1>2. DOMAIN heap' = DOMAIN heap \cup Copies
  BY <1>1
<1>3. HeapSlots(o)' = HeapSlots(o) \cup New
  <2>1. HeapSlots(o)' = UNION {{p} \X Slots(o, heap'[p]) : p \in DOMAIN heap'}
    BY DEF HeapSlots, Slots
  <2>2. ASSUME NEW s \in HeapSlots(o)' PROVE s \in HeapSlots(o) \cup New
    <3>1. PICK p \in DOMAIN heap' : s \in {p} \X Slots(o, heap'[p])
      BY <2>1, <2>2
    <3>2. CASE p \in DOMAIN heap
      BY <3>1, <3>2, <1>1 DEF Grows, HeapSlots
    <3>3. CASE p \in Copies
      BY <3>1, <3>3 DEF Grows
    <3>4. QED
      BY <1>2, <3>2, <3>3
  <2>3. ASSUME NEW s \in HeapSlots(o) PROVE s \in HeapSlots(o)'
    <3>1. PICK p \in DOMAIN heap : s \in {p} \X Slots(o, heap[p])
      BY <2>3 DEF HeapSlots
    <3>2. heap'[p] = heap[p] /\ p \in DOMAIN heap'
      BY <1>1, <1>2 DEF Grows
    <3>3. QED
      BY <2>1, <3>1, <3>2
  <2>4. ASSUME NEW s \in New PROVE s \in HeapSlots(o)'
    <3>1. PICK p \in Copies : s \in {p} \X Slots(o, built)
      OBVIOUS
    <3>2. heap'[p] = built /\ p \in DOMAIN heap'
      BY <1>2 DEF Grows
    <3>3. QED
      BY <2>1, <3>1, <3>2
  <2>5. QED
    BY <2>2, <2>3, <2>4
<1>4. IsFiniteSet(Copies) /\ Cardinality(Copies) = n
  <2>1. Len(heap) + 1 \in Int /\ Len(heap) + n \in Int
    BY <1>1
  <2>2. IsFiniteSet(Copies) /\ Cardinality(Copies) = IF Len(heap) + 1 > Len(heap) + n THEN 0 ELSE Len(heap) + n - (Len(heap) + 1) + 1
    BY <2>1, FS_Interval
  <2>3. QED
    BY <1>1, <2>2
<1>5. IsFiniteSet(Slots(o, built)) /\ SlotsTo(o, built) \in Nat
  BY <1>1, SlotsFinite
<1>6. IsFiniteSet(New) /\ Cardinality(New) = n * SlotsTo(o, built)
  <2> HIDE DEF Copies
  <2> QED BY <1>4, <1>5, FS_Product DEF SlotsTo
<1>7. IsFiniteSet(HeapSlots(o)) /\ Cardinality(HeapSlots(o)) \in Nat
  BY <1>1, HeapSlotsFinite
<1>8. HeapSlots(o) \cap New = {}
  <2> SUFFICES ASSUME NEW s \in HeapSlots(o), s \in New PROVE FALSE
    OBVIOUS
  <2>1. PICK p \in DOMAIN heap : s \in {p} \X Slots(o, heap[p])
    BY DEF HeapSlots
  <2>2. PICK q \in Copies : s \in {q} \X Slots(o, built)
    OBVIOUS
  <2>3. p = q
    BY <2>1, <2>2
  <2>4. QED
    BY <2>3, <1>1
<1>9. Cardinality(HeapSlots(o) \cup New) = Cardinality(HeapSlots(o)) + Cardinality(New)
  <2> HIDE DEF New
  <2>1. Cardinality(New) \in Nat
    BY <1>6, FS_CardinalityType
  <2>2. Cardinality(HeapSlots(o) \cup New)
          = Cardinality(HeapSlots(o)) + Cardinality(New) - Cardinality(HeapSlots(o) \cap New)
    BY <1>6, <1>7, FS_Union
  <2>3. Cardinality(HeapSlots(o) \cap New) = 0
    BY <1>8, FS_EmptySet
  <2>4. QED
    BY <2>1, <2>2, <2>3, <1>7
<1>10. QED
  BY <1>3, <1>6, <1>9

-----------------------------------------------------------------------------
(* The step of every action. *)

(* `built' refers to arrays of the heap only, each of them once.           *)
LEMMA BuiltSlots ==
    ASSUME IInv, status = "building"
    PROVE  /\ DOMAIN built.slots = 1..Len(built.slots) /\ Len(built.slots) \in Nat
           /\ \A i \in DOMAIN built.slots : built.slots[i] \in 0..Len(heap)
           /\ \A i, j \in DOMAIN built.slots :
                 built.slots[i] = built.slots[j] /\ built.slots[i] # Null => i = j
<1>1. heap \in Seq(Slotted) /\ built.slots \in Seq(Nat)
  BY DEF IInv, TypeOK, Slotted
<1>2. /\ Len(heap) \in Nat
      /\ DOMAIN built.slots = 1..Len(built.slots) /\ Len(built.slots) \in Nat
  BY <1>1, LenProperties
<1>3. CASE heap = <<>>
  BY <1>2, <1>3 DEF IInv, BuiltExact, Null
<1>4. CASE heap # <<>>
  <2>1. /\ Len(built.slots) \in 1..Len(heap)
        /\ \A i \in DOMAIN built.slots : built.slots[i] = Len(heap) - Len(built.slots) + i
    BY <1>4 DEF IInv, BuiltExact
  <2>2. QED
    BY SMTT(60), <1>2, <2>1
<1>5. QED
  BY <1>3, <1>4

(* The arrays that `built' refers to are only referred to from there: a    *)
(* drop of it locks HEAP if there are any.                                 *)
LEMMA RelocksIfAny ==
    ASSUME IInv, status = "building"
    PROVE  Relocks <=> heap # <<>>
<1>1. heap \in Seq(Slotted) /\ built \in Slotted /\ built.slots \in Seq(Nat)
  BY DEF IInv, TypeOK, Slotted
<1>2. /\ Len(heap) \in Nat /\ DOMAIN heap = 1..Len(heap)
      /\ DOMAIN built.slots = 1..Len(built.slots) /\ Len(built.slots) \in Nat
  BY <1>1, LenProperties
<1>3. ASSUME heap = <<>> PROVE ~Relocks
  BY <1>3 DEF IInv, BuiltExact, Relocks, ToSet
<1>4. ASSUME heap # <<>> PROVE Relocks
  <2> PICK o : o = built.slots[1]
    OBVIOUS
  <2>1. 1 \in DOMAIN built.slots /\ o = Len(heap) - Len(built.slots) + 1 /\ Len(built.slots) \in 1..Len(heap)
    <3>1. /\ Len(built.slots) \in 1..Len(heap)
          /\ \A i \in DOMAIN built.slots : built.slots[i] = Len(heap) - Len(built.slots) + i
      BY <1>4 DEF IInv, BuiltExact
    <3>2. 1 \in DOMAIN built.slots
      BY <1>2, <3>1
    <3>3. QED
      BY <3>1, <3>2
  <2>2. o \in DOMAIN heap /\ Youngest(o) /\ o # Null /\ o # result
    BY <1>2, <2>1 DEF Youngest, Null, IInv, BuiltExact
  <2>3. HeapSlots(o) = {}
    BY <1>4, <2>2 DEF IInv, BuiltExact
  <2>4. Cardinality(HeapSlots(o)) = 0
    BY <2>3, FS_EmptySet
  <2>5. strong[o] = 1 + SlotsTo(o, built) + Cardinality(HeapSlots(o)) + (IF o = result THEN 1 ELSE 0)
    BY <2>2 DEF IInv, StrongExact
  <2>6. SlotsTo(o, built) \in Nat
    BY <1>1, SlotsFinite
  <2>7. strong[o] - SlotsTo(o, built) <= 1
    BY <2>2, <2>4, <2>5, <2>6
  <2>8. o \in ToSet(built.slots) \ {Null}
    BY <2>1, <2>2 DEF ToSet
  <2>9. QED
    BY <2>7, <2>8 DEF Relocks
<1>5. QED
  BY <1>3, <1>4

(* What IInv says of the constants and of Dropped.                         *)
LEMMA Types ==
    ASSUME IInv
    PROVE  /\ counts \in Seq((0..MaxCount) \cup BadCounts) /\ counts # <<>>
           /\ Len(counts) \in Nat \ {0} /\ DOMAIN counts = 1..Len(counts)
           /\ \A k \in 1..Len(counts) : counts[k] \in (0..MaxCount) \cup BadCounts
           /\ heap \in Seq(Slotted) /\ Len(heap) \in Nat /\ DOMAIN heap = 1..Len(heap)
           /\ DOMAIN strong = 1..Len(heap)
           /\ Dropped \in [1..Len(heap) -> Int]
           /\ LastDimOSize \in {1, 2}
<1>1. counts \in Seq((0..MaxCount) \cup BadCounts) /\ counts # <<>> /\ heap \in Seq(Slotted)
  BY DEF IInv, TypeOK
<1>2. /\ Len(counts) \in Nat \ {0} /\ DOMAIN counts = 1..Len(counts)
      /\ \A k \in 1..Len(counts) : counts[k] \in (0..MaxCount) \cup BadCounts
  BY <1>1, LenProperties, ElementOfSeq, EmptySeq
<1>3. Len(heap) \in Nat /\ DOMAIN heap = 1..Len(heap)
  BY <1>1, LenProperties
<1>4. DOMAIN strong = 1..Len(heap) /\ \A o \in 1..Len(heap) : strong[o] \in Int
  BY DEF IInv, TypeOK
<1>5. \A o : SlotsTo(o, built) \in Nat
  BY SlotsFinite DEF IInv, TypeOK
<1>6. Dropped \in [1..Len(heap) -> Int]
  BY <1>4, <1>5 DEF Dropped
<1>7. LastDimOSize \in {1, 2}
  BY DEF LastDimOSize
<1>8. QED
  BY <1>1, <1>2, <1>3, <1>4, <1>6, <1>7

(* Once the allocation has failed there is nothing left to be kept.        *)
LEMMA FailureKeeps ==
    ASSUME IInv, status = "building", TypeOK', status' \in {"error", "poisoned", "relocked"},
           UNCHANGED <<counts, heap, result>>, TwoDimensionsAreSafe'
    PROVE  IInv'
<1>1. BuiltExact' /\ Shaped' /\ StrongExact'
  BY DEF BuiltExact, Shaped, StrongExact
<1>2. Older' /\ Flat'
  BY DEF IInv, Older, Flat
<1>3. ResultExact'
  BY DEF IInv, BuiltExact, ResultExact
<1>4. QED
  BY <1>1, <1>2, <1>3 DEF IInv

(* The thread waits for itself only when arrays have been allocated, which *)
(* takes a third count.                                                    *)
LEMMA RelocksLate ==
    ASSUME IInv, Building, Relocks
    PROVE  Len(counts) > 2
<1>1. heap # <<>>
  BY RelocksIfAny DEF Building
<1>2. done > 1 /\ done < Len(counts)
  BY <1>1 DEF IInv, TypeOK, BuiltExact, Building
<1>3. QED
  BY <1>2, Types DEF IInv, TypeOK

(* An array of no elements, of whatever size.                              *)
LEMMA EmptyArray ==
    ASSUME NEW size \in {1, 2}
    PROVE  NewArray(0, size) = Object(size, <<>>) /\ NewArray(0, size) \in Slotted
<1>1. 0 * size = 0
  OBVIOUS
<1>2. [i \in 1..0 * size |-> Null] = <<>>
  BY <1>1
<1>3. QED
  BY <1>2, NewArrays DEF NewArray

(* A dimension of length 0.                                                *)
LEMMA EmptyDimensionStep ==
    ASSUME IInv, EmptyDimension
    PROVE  IInv'
<1>1. /\ status = "building" /\ done < Len(counts) /\ Length = 0
      /\ status' = (IF Relocks THEN "relocked" ELSE "building")
      /\ strong' = Dropped /\ built' = NewArray(0, Size) /\ done' = done + 1
      /\ UNCHANGED <<counts, element, heap, result>>
  BY DEF EmptyDimension, Building
<1>2. Size \in {1, 2}
  BY Types DEF Size
<1>3. built' = Object(Size, <<>>) /\ built' \in Slotted
  BY <1>1, <1>2, EmptyArray
<1>4. TypeOK'
  BY <1>1, <1>3, Types DEF IInv, TypeOK
<1>5. CASE Relocks
  <2>1. Len(counts) > 2
    BY <1>5, RelocksLate DEF EmptyDimension
  <2>2. QED
    BY <1>1, <1>4, <1>5, <2>1, FailureKeeps DEF TwoDimensionsAreSafe
<1>6. CASE ~Relocks
  <2>1. heap = <<>> /\ heap' = <<>> /\ status' = "building" /\ result = 0
    BY <1>1, <1>6, RelocksIfAny DEF IInv, BuiltExact
  <2>2. DOMAIN heap' = {} /\ Len(heap') = 0 /\ built'.slots = <<>>
    BY <1>3, <2>1 DEF Object
  <2>3. BuiltExact'
    BY <1>1, <2>1, <2>2, Types DEF BuiltExact, IInv, TypeOK
  <2>4. Older' /\ StrongExact' /\ Flat' /\ ResultExact' /\ TwoDimensionsAreSafe'
    BY <1>1, <2>1, <2>2 DEF Older, StrongExact, Flat, ResultExact, TwoDimensionsAreSafe
  <2>5. Shaped'
    <3> PICK level : level = [p \in 1..Len(heap') |-> 1]
      OBVIOUS
    <3>1. level \in [1..Len(heap') -> Dimensions']
      BY <1>1, Types DEF Dimensions
    <3>2. \A k \in 1..done : counts[k] \in Nat
      BY <1>1 DEF IInv, Shaped, Levelled
    <3>3. \A k \in 1..done' : counts'[k] \in Nat
      BY <1>1, <3>2 DEF Length, IInv, TypeOK
    <3>4. Fits(built, done, level)'
      <4>1. CASE done = 0
        BY <1>1, <4>1 DEF Fits, Length, Size, NewArray, Object, LastDimOSize
      <4>2. CASE done # 0
        BY <1>1, <1>3, <2>2, <4>2 DEF Fits, Length, Size, Object, IInv, TypeOK
      <4>3. QED
        BY <4>1, <4>2
    <3>5. Levelled(level)'
      BY <2>1, <2>2, <3>3, <3>4 DEF Levelled
    <3>6. QED
      BY <3>1, <3>5 DEF Shaped
  <2>6. QED
    BY <1>4, <2>3, <2>4, <2>5 DEF IInv
<1>7. QED
  BY <1>5, <1>6

(* A count that is missing or below zero.                                  *)
LEMMA BadDimensionStep ==
    ASSUME IInv, BadDimension
    PROVE  IInv'
<1>1. /\ status = "building" /\ Building /\ Length \in {Missing, Negative}
      /\ strong' = Dropped /\ built' = Object(1, <<>>)
      /\ UNCHANGED <<counts, element, done, heap, result>>
  BY DEF BadDimension, Building
<1>2. /\ Relocks => status' = "relocked"
      /\ ~Relocks => status' \in {"error", "poisoned"}
  BY CountAssumption DEF BadDimension
<1>3. built' \in Slotted
  BY <1>1 DEF Object, Slotted
<1>4. TypeOK'
  BY <1>1, <1>2, <1>3, Types DEF IInv, TypeOK
<1>5. Relocks => Len(counts) > 2
  BY <1>1, RelocksLate
<1>6. ~Relocks => heap = <<>>
  BY <1>1, RelocksIfAny
<1>7. TwoDimensionsAreSafe'
  BY <1>1, <1>2, <1>5, <1>6 DEF TwoDimensionsAreSafe
<1>8. QED
  BY <1>1, <1>2, <1>4, <1>7, FailureKeeps

(* When the heap grows it stays in order: the copies refer to what was     *)
(* there before, and nothing refers to them yet.                           *)
LEMMA GrownHeap ==
    ASSUME IInv, status = "building", NEW n \in Nat \ {0}, Grows(n)
    PROVE  /\ DOMAIN heap' = 1..Len(heap) + n
           /\ Older'
           /\ \A o \in Len(heap) + 1..Len(heap) + n :
                 HeapSlots(o)' = {} /\ SlotsTo(o, built) = 0
<1>1. Len(heap) \in Nat /\ DOMAIN heap = 1..Len(heap)
  BY Types
<1>2. DOMAIN heap' = 1..Len(heap) + n
  BY <1>1, LenProperties DEF Grows
<1>3. Older'
  <2> SUFFICES ASSUME NEW p \in 1..Len(heap) + n, NEW i \in DOMAIN heap'[p].slots
               PROVE  /\ heap'[p].slots[i] < p
                      /\ \A j \in DOMAIN heap'[p].slots :
                            heap'[p].slots[i] = heap'[p].slots[j] /\ heap'[p].slots[i] # Null => i = j
    BY <1>2 DEF Older, Null
  <2>1. CASE p <= Len(heap)
    BY <1>1, <2>1 DEF Grows, IInv, Older
  <2>2. CASE p > Len(heap)
    <3>1. heap'[p] = built
      BY <1>1, <2>2 DEF Grows
    <3>2. built.slots[i] \in 0..Len(heap)
      BY <3>1, BuiltSlots
    <3>3. QED
      BY <1>1, <2>2, <3>1, <3>2, BuiltSlots
  <2>3. QED
    BY <1>1, <2>1, <2>2
<1>4. ASSUME NEW o \in Len(heap) + 1..Len(heap) + n
      PROVE  HeapSlots(o)' = {} /\ SlotsTo(o, built) = 0
  <2>1. Slots(o, built) = {}
    BY <1>1, BuiltSlots DEF Slots
  <2>2. HeapSlots(o) = {}
    <3> SUFFICES ASSUME NEW p \in DOMAIN heap PROVE Slots(o, heap[p]) = {}
      BY DEF HeapSlots
    <3>1. \A i \in DOMAIN heap[p].slots : heap[p].slots[i] < p
      BY DEF IInv, Older
    <3>2. QED
      BY <1>1, <3>1 DEF Slots
  <2>3. HeapSlots(o)' = {}
    BY <2>1, <2>2, GrownSlots DEF IInv
  <2>4. QED
    BY <2>1, <2>3, FS_EmptySet DEF SlotsTo
<1>5. QED
  BY <1>2, <1>3, <1>4

(* The copies are arrays of the dimension that has been built.             *)
LEMMA GrownLevels ==
    ASSUME IInv, status = "building", done > 0, NEW n \in Nat \ {0}, Grows(n),
           UNCHANGED <<counts, element>>,
           NEW level \in [1..Len(heap) -> Dimensions], Levelled(level),
           NEW more, more = [p \in 1..Len(heap) + n |-> IF p <= Len(heap) THEN level[p] ELSE done]
    PROVE  /\ more \in [1..Len(heap') -> Dimensions']
           /\ \A p \in DOMAIN heap' : Fits(heap[p], more[p], more)'
           /\ \A p \in 1..Len(heap) : more[p] < done
           /\ \A o \in 1..Len(heap) : HeapSlots(o)' # {}
<1>1. Len(heap) \in Nat /\ DOMAIN heap = 1..Len(heap) /\ Len(counts) \in Nat
  BY Types
<1>2. done \in Dimensions
  BY DEF IInv, TypeOK, Dimensions
<1>3. more \in [1..Len(heap') -> Dimensions']
  BY <1>1, <1>2 DEF Grows, Dimensions
<1>4. DOMAIN heap' = 1..Len(heap) + n
  BY GrownHeap
<1>5. ASSUME NEW p \in DOMAIN heap' PROVE Fits(heap[p], more[p], more)'
  <2>1. CASE p <= Len(heap)
    <3>1. Fits(heap[p], level[p], level) /\ heap'[p] = heap[p] /\ more[p] = level[p]
      BY <1>1, <1>4, <2>1 DEF Levelled, Grows
    <3>2. QED
      BY <1>1, <1>4, <3>1 DEF Fits, LastDimOSize
  <2>2. CASE p > Len(heap)
    <3>1. Fits(built, done, level) /\ heap'[p] = built /\ more[p] = done
      BY <1>1, <1>4, <2>2 DEF Levelled, Grows
    <3>2. QED
      BY <1>1, <1>4, <3>1 DEF Fits, LastDimOSize
  <2>3. QED
    BY <1>1, <1>4, <2>1, <2>2
<1>6. \A p \in 1..Len(heap) : more[p] < done
  BY SMTT(60), <1>1 DEF Levelled
<1>7. ASSUME NEW o \in 1..Len(heap) PROVE HeapSlots(o)' # {}
  <2>1. Slots(o, built) \cup HeapSlots(o) # {}
    BY <1>1 DEF Levelled
  <2>2. HeapSlots(o)' = HeapSlots(o) \cup ((Len(heap) + 1..Len(heap) + n) \X Slots(o, built))
    BY GrownSlots DEF IInv
  <2>3. Len(heap) + 1 \in Len(heap) + 1..Len(heap) + n
    BY <1>1
  <2>4. CASE HeapSlots(o) # {}
    BY <2>2, <2>4
  <2>5. ASSUME NEW i \in Slots(o, built) PROVE HeapSlots(o)' # {}
    <3>1. <<Len(heap) + 1, i>> \in (Len(heap) + 1..Len(heap) + n) \X Slots(o, built)
      BY <2>3
    <3>2. QED
      BY <2>2, <3>1
  <2>6. QED
    BY <2>1, <2>4, <2>5
<1>8. QED
  BY <1>3, <1>5, <1>6, <1>7

(* The counts of what was there grow by one for each copy but the original.*)
LEMMA GrownCounts ==
    ASSUME IInv, status = "building", NEW n \in Nat \ {0}, Grows(n), NEW o \in 1..Len(heap)
    PROVE  /\ SlotsTo(o, built) \in Nat
           /\ strong[o] + (n - 1) * SlotsTo(o, built) = 1 + Cardinality(HeapSlots(o)')
<1>1. SlotsTo(o, built) \in Nat
  BY SlotsFinite DEF IInv, TypeOK
<1>2. Cardinality(HeapSlots(o)) \in Nat
  BY HeapSlotsFinite, Types
<1>3. strong[o] = 1 + SlotsTo(o, built) + Cardinality(HeapSlots(o))
  <2>1. strong[o] = 1 + SlotsTo(o, built) + Cardinality(HeapSlots(o)) + (IF o = result THEN 1 ELSE 0)
    BY Types DEF IInv, StrongExact
  <2>2. o # result
    BY Types DEF IInv, BuiltExact
  <2>3. QED
    BY <1>1, <1>2, <2>1, <2>2
<1>4. Cardinality(HeapSlots(o)') = Cardinality(HeapSlots(o)) + n * SlotsTo(o, built)
  BY GrownSlots DEF IInv
<1>5. (n - 1) * SlotsTo(o, built) = n * SlotsTo(o, built) - SlotsTo(o, built)
  BY <1>1
<1>6. n * SlotsTo(o, built) \in Nat
  BY <1>1
<1>7. QED
  BY <1>1, <1>2, <1>3, <1>4, <1>5, <1>6

(* The innermost dimension: nothing has been allocated yet.                *)
LEMMA FirstDimensionStep ==
    ASSUME IInv, Dimension, done = 0
    PROVE  IInv'
<1>1. /\ status = "building" /\ done < Len(counts) /\ Length \in Nat \ {0}
      /\ built' = NewArray(Length, Size) /\ done' = 1
      /\ UNCHANGED <<heap, strong, counts, element, result, status>>
  BY DEF Dimension, Positive, Building
<1>2. Size = LastDimOSize /\ Size \in {1, 2} /\ Length = counts[1]
  BY Types DEF Size, Length
<1>3. heap = <<>> /\ heap' = <<>> /\ result = 0
  BY <1>1 DEF IInv, BuiltExact
<1>4. /\ built' \in Slotted /\ \A i \in DOMAIN built'.slots : built'.slots[i] = Null
  BY ZenonT(60), <1>1, <1>2, NewArrays
<1>5. TypeOK'
  BY <1>1, <1>4, Types DEF IInv, TypeOK
<1>6. BuiltExact'
  BY <1>1, <1>3, <1>4 DEF BuiltExact
<1>7. Len(heap') = 0 /\ DOMAIN heap' = {}
  BY <1>3
<1>8. Older' /\ StrongExact' /\ Flat' /\ ResultExact' /\ TwoDimensionsAreSafe'
  BY <1>1, <1>3, <1>7 DEF Older, StrongExact, Flat, ResultExact, TwoDimensionsAreSafe
<1>9. Shaped'
  <2> PICK level : level = [p \in 1..Len(heap') |-> 1]
    OBVIOUS
  <2>1. level \in [1..Len(heap') -> Dimensions']
    BY <1>1, Types DEF Dimensions
  <2>2. Fits(built, done, level)'
    BY <1>1, <1>2 DEF Fits, LastDimOSize
  <2>3. Levelled(level)'
    BY <1>1, <1>2, <1>7, <2>2 DEF Levelled
  <2>4. QED
    BY <2>1, <2>3 DEF Shaped
<1>10. QED
  BY <1>5, <1>6, <1>8, <1>9 DEF IInv

(* Another dimension of positive length: the array built before and its    *)
(* copies fill the slots of the next one.                                  *)
LEMMA NextDimensionStep ==
    ASSUME IInv, Dimension, done > 0
    PROVE  IInv'
<1> PICK n : n = Length
  OBVIOUS
<1> PICK l : l = Len(heap)
  OBVIOUS
<1>1. /\ status = "building" /\ done < Len(counts) /\ n \in Nat \ {0}
      /\ Fill(built, n)
      /\ built' = Object(1, [i \in 1..n |-> Len(heap) + i]) /\ done' = done + 1
      /\ UNCHANGED <<counts, element, result, status>>
  BY DEF Dimension, Positive, Building, Size, IInv, TypeOK
<1>2. /\ Len(heap) \in Nat /\ DOMAIN heap = 1..Len(heap) /\ heap \in Seq(Slotted)
      /\ done \in 1..Len(counts) - 1 /\ Len(counts) \in Nat
      /\ built \in Slotted /\ strong \in [1..Len(heap) -> Int] /\ result = 0
  BY <1>1, Types DEF IInv, TypeOK, BuiltExact
<1>3. n = counts[done + 1]
  BY DEF Length
<1>16. n \in Nat \ {0} /\ l \in Nat /\ l = Len(heap)
  BY <1>1, <1>2
<1>4. Grows(n)
  <2>1. /\ [i \in 1..n |-> built] \in Seq(Slotted)
        /\ Len([i \in 1..n |-> built]) = n
    BY <1>1, <1>2
  <2>2. heap' = heap \o [i \in 1..n |-> built]
    BY <1>1 DEF Fill
  <2>3. QED
    BY <1>1, <1>2, <2>1, <2>2, ConcatProperties DEF Grows
<1>5. /\ Len(heap') = Len(heap) + n /\ DOMAIN heap' = 1..Len(heap) + n /\ Older'
      /\ heap' \in Seq(Slotted)
      /\ \A o \in Len(heap) + 1..Len(heap) + n : HeapSlots(o)' = {} /\ SlotsTo(o, built) = 0
  BY <1>1, <1>4, GrownHeap DEF Grows
<1>6. /\ built' \in Slotted /\ built'.size = 1 /\ Len(built'.slots) = n
      /\ DOMAIN built'.slots = 1..n /\ \A i \in 1..n : built'.slots[i] = Len(heap) + i
  <2>1. [i \in 1..n |-> Len(heap) + i] \in Seq(Nat)
    BY <1>1, <1>2
  <2>2. QED
    BY <1>1, <2>1 DEF Object, Slotted
<1>7. strong' = [o \in 1..Len(heap) + n |-> IF o <= Len(heap)
                                           THEN strong[o] + (n - 1) * SlotsTo(o, built) ELSE 2]
  <2> DEFINE old == [o \in DOMAIN strong |-> strong[o] + (n - 1) * SlotsTo(o, built)]
             new == [i \in 1..n |-> 2]
  <2>1. DOMAIN strong = 1..Len(heap) /\ \A o \in 1..Len(heap) : SlotsTo(o, built) \in Nat
    BY <1>2, SlotsFinite
  <2>2. \A o \in 1..Len(heap) : (n - 1) * SlotsTo(o, built) \in Int
    BY <1>1, <2>1
  <2>3. old \in Seq(Int) /\ Len(old) = Len(heap)
    <3>1. old \in [1..l -> Int]
      BY <1>2, <1>16, <2>1, <2>2
    <3> HIDE DEF old
    <3>2. QED
      BY <1>16, <3>1
  <2>4. new \in Seq(Int) /\ Len(new) = n
    BY <1>16
  <2>5. strong' = old \o new
    BY <1>1 DEF Fill
  <2>6. /\ \A o \in 1..Len(heap) : old[o] = strong[o] + (n - 1) * SlotsTo(o, built)
        /\ \A i \in 1..n : new[i] = 2
    BY <2>1
  <2> HIDE DEF old, new
  <2>7. /\ strong' \in Seq(Int) /\ Len(strong') = Len(heap) + n
        /\ \A o \in 1..Len(heap) + n :
              strong'[o] = IF o <= Len(heap) THEN old[o] ELSE new[o - Len(heap)]
    <3>1. /\ old \o new \in Seq(Int) /\ Len(old \o new) = Len(old) + Len(new)
          /\ \A o \in 1..Len(old) + Len(new) :
                (old \o new)[o] = IF o <= Len(old) THEN old[o] ELSE new[o - Len(old)]
      BY <2>3, <2>4, ConcatProperties
    <3>2. QED
      BY <2>3, <2>4, <2>5, <3>1
  <2>8. strong' \in [1..Len(heap) + n -> Int]
    BY <2>7, LenProperties
  <2>9. \A o \in 1..Len(heap) + n : strong'[o] = IF o <= Len(heap)
                                      THEN strong[o] + (n - 1) * SlotsTo(o, built) ELSE 2
    <3> SUFFICES ASSUME NEW o \in 1..l + n
                 PROVE  strong'[o] = IF o <= l THEN strong[o] + (n - 1) * SlotsTo(o, built) ELSE 2
      BY <1>16
    <3>1. CASE o <= l
      BY SMTT(60), <1>16, <2>6, <2>7, <3>1
    <3>2. CASE o > l
      <4>1. o - l \in 1..n
        BY <1>16, <3>2
      <4>2. QED
        BY SMTT(60), <1>16, <2>6, <2>7, <3>2, <4>1
    <3>3. QED
      BY <1>16, <3>1, <3>2
  <2>10. QED
    BY <2>8, <2>9
<1>8. \A o \in 1..Len(heap) :
          /\ SlotsTo(o, built) \in Nat
          /\ strong[o] + (n - 1) * SlotsTo(o, built) = 1 + Cardinality(HeapSlots(o)')
          /\ Cardinality(HeapSlots(o)') \in Nat
  <2> SUFFICES ASSUME NEW o \in 1..Len(heap)
               PROVE  /\ SlotsTo(o, built) \in Nat
                      /\ strong[o] + (n - 1) * SlotsTo(o, built) = 1 + Cardinality(HeapSlots(o)')
                      /\ Cardinality(HeapSlots(o)') \in Nat
    OBVIOUS
  <2>1. /\ SlotsTo(o, built) \in Nat
        /\ strong[o] + (n - 1) * SlotsTo(o, built) = 1 + Cardinality(HeapSlots(o)')
    BY <1>1, <1>4, GrownCounts
  <2>2. Cardinality(HeapSlots(o)) \in Nat
    BY <1>2, HeapSlotsFinite
  <2>3. Cardinality(HeapSlots(o)') = Cardinality(HeapSlots(o)) + n * SlotsTo(o, built)
    BY <1>1, <1>4, GrownSlots DEF IInv
  <2>4. n * SlotsTo(o, built) \in Nat
    BY <1>1, <2>1
  <2>5. QED
    BY <2>1, <2>2, <2>3, <2>4
<1>9. TypeOK'
  <2>1. strong' \in [1..Len(heap') -> Int]
    <3>1. ASSUME NEW o \in 1..Len(heap) + n PROVE strong'[o] \in Int
      BY <1>2, <1>7, <1>8
    <3>2. QED
      BY <1>5, <1>7, <3>1
  <2>2. QED
    BY <1>1, <1>2, <1>5, <1>6, <2>1 DEF IInv, TypeOK
<1>10. BuiltExact'
  <2>1. Len(built'.slots) \in 1..Len(heap') /\ done' > 1 /\ heap' # <<>>
    BY <1>1, <1>2, <1>5, <1>6
  <2>2. \A i \in DOMAIN built'.slots : built'.slots[i] = Len(heap') - Len(built'.slots) + i
    <3>1. \A i \in 1..n : l + i = l + n - n + i
      BY <1>16
    <3>2. Len(heap') = l + n
      BY <1>5, <1>16
    <3>3. QED
      BY SMTT(60), <1>6, <1>16, <3>1, <3>2
  <2>3. ASSUME NEW o \in DOMAIN heap', Youngest(o)' PROVE HeapSlots(o)' = {}
    <3>1. o \in Len(heap) + 1..Len(heap) + n
      <4>1. o \in l + n - n + 1..l + n
        BY <1>5, <1>6, <1>16, <2>3 DEF Youngest
      <4>2. QED
        BY <1>16, <4>1
    <3>2. QED
      BY <1>5, <3>1
  <2>4. QED
    BY <1>1, <1>2, <2>1, <2>2, <2>3 DEF BuiltExact
<1>11. Shaped'
  <2> PICK level \in [1..Len(heap) -> Dimensions] : Levelled(level)
    BY <1>1 DEF IInv, Shaped
  <2> PICK more : more = [p \in 1..Len(heap) + n |-> IF p <= Len(heap) THEN level[p] ELSE done]
    OBVIOUS
  <2>1. /\ more \in [1..Len(heap') -> Dimensions']
        /\ \A p \in DOMAIN heap' : Fits(heap[p], more[p], more)'
        /\ \A p \in 1..Len(heap) : more[p] < done
        /\ \A o \in 1..Len(heap) : HeapSlots(o)' # {}
    BY <1>1, <1>4, GrownLevels
  <2>2. \A k \in 1..done' : counts'[k] \in Nat
    BY <1>1, <1>2, <1>3 DEF Levelled
  <2>3. \A p \in DOMAIN heap' : more[p] < done'
    <3>1. \A p \in 1..l + n : more[p] = IF p <= l THEN level[p] ELSE done
      BY <1>16
    <3>2. done' = done + 1 /\ done \in Nat
      BY <1>1, <1>2
    <3>3. ASSUME NEW p \in 1..l PROVE more[p] < done + 1
      <4>1. level[p] \in 1..Len(counts)
        BY <1>16 DEF Dimensions
      <4>2. more[p] = level[p] /\ more[p] < done
        BY SMTT(60), <1>16, <2>1, <3>1
      <4>3. more[p] \in Nat
        BY <1>2, <4>1, <4>2
      <4>4. QED
        BY <3>2, <4>2, <4>3
    <3>4. ASSUME NEW p \in 1..l + n, ~(p <= l) PROVE more[p] < done + 1
      BY <3>1, <3>2, <3>4
    <3>5. DOMAIN heap' = 1..l + n
      BY <1>5, <1>16
    <3>6. \A p \in 1..l + n : p \in 1..l \/ ~(p <= l)
      BY <1>16
    <3>7. QED
      BY <3>2, <3>3, <3>4, <3>5, <3>6
  <2>4. Fits(built, done, more)'
    <3>1. done' # 1 /\ Len(built'.slots) = counts'[done']
      BY <1>1, <1>2, <1>3, <1>6
    <3>2. \A i \in DOMAIN built'.slots : built'.slots[i] \in DOMAIN heap' /\ more[built'.slots[i]] = done' - 1
      <4>1. \A i \in 1..n : l + i \in 1..l + n /\ more[l + i] = done
        BY <1>16
      <4>2. done' - 1 = done /\ DOMAIN heap' = 1..l + n
        BY <1>1, <1>2, <1>5, <1>16
      <4>3. QED
        BY <1>6, <1>16, <4>1, <4>2
    <3>3. QED
      BY <1>6, <3>1, <3>2 DEF Fits
  <2>5. ASSUME NEW o \in DOMAIN heap' PROVE Slots(o, built)' \cup HeapSlots(o)' # {}
    <3>1. CASE o <= Len(heap)
      BY <1>2, <1>5, <2>1, <3>1
    <3>2. CASE o > Len(heap)
      <4>1. o - Len(heap) \in 1..n /\ o = Len(heap) + (o - Len(heap))
        BY <1>1, <1>2, <1>5, <3>2
      <4>2. o - Len(heap) \in Slots(o, built)'
        BY <1>6, <4>1 DEF Slots
      <4>3. QED
        BY <4>2
    <3>3. QED
      BY <1>2, <1>5, <3>1, <3>2
  <2>6. Levelled(more)'
    BY <1>1, <2>1, <2>2, <2>3, <2>4, <2>5 DEF Levelled
  <2>7. QED
    BY <2>1, <2>6 DEF Shaped
<1>12. StrongExact'
  <2> SUFFICES ASSUME NEW o \in 1..Len(heap) + n
               PROVE  strong'[o] = 1 + SlotsTo(o, built)' + Cardinality(HeapSlots(o)')
                                     + (IF o = result' THEN 1 ELSE 0)
    BY <1>5 DEF StrongExact
  <2>1. o # result'
    BY <1>1, <1>2
  <2>2. CASE o <= Len(heap)
    <3>1. Slots(o, built)' = {}
      BY <1>2, <1>6, <2>2 DEF Slots
    <3>2. SlotsTo(o, built)' = 0
      BY <3>1, FS_EmptySet DEF SlotsTo
    <3>3. strong'[o] = 1 + Cardinality(HeapSlots(o)') /\ Cardinality(HeapSlots(o)') \in Nat
      BY <1>2, <1>7, <1>8, <2>2
    <3>4. QED
      BY <2>1, <3>2, <3>3
  <2>3. CASE o > Len(heap)
    <3>1. o - Len(heap) \in 1..n /\ o = Len(heap) + (o - Len(heap))
      BY <1>1, <1>2, <2>3
    <3>2. Slots(o, built)' = {o - Len(heap)}
      <4>1. Slots(o, built)' = {i \in 1..n : l + i = o}
        BY <1>6, <1>16 DEF Slots
      <4>2. QED
        BY <1>16, <3>1, <4>1
    <3>3. SlotsTo(o, built)' = 1
      BY <3>2, FS_Singleton DEF SlotsTo
    <3>4. HeapSlots(o)' = {}
      BY <1>1, <1>2, <1>5, <2>3
    <3>5. Cardinality(HeapSlots(o)') = 0
      BY <3>4, FS_EmptySet
    <3>6. strong'[o] = 2
      BY <1>1, <1>2, <1>7, <2>3
    <3>7. QED
      BY <2>1, <3>3, <3>5, <3>6
  <2>4. QED
    BY <1>1, <1>2, <2>2, <2>3
<1>13. Flat'
  <2> SUFFICES ASSUME Len(counts) <= 2, NEW p \in 1..Len(heap) + n
               PROVE  ToSet(heap'[p].slots) \subseteq {Null}
    BY <1>1, <1>5 DEF Flat
  <2>1. heap = <<>>
    BY <1>1, <1>2 DEF IInv, BuiltExact
  <2>2. heap'[p] = built
    BY <1>4, <2>1 DEF Grows
  <2>3. QED
    BY <1>1, <2>1, <2>2 DEF IInv, BuiltExact, ToSet
<1>14. ResultExact' /\ TwoDimensionsAreSafe'
  BY <1>1, <1>2 DEF ResultExact, TwoDimensionsAreSafe
<1>15. QED
  BY <1>5, <1>9, <1>10, <1>11, <1>12, <1>13, <1>14 DEF IInv

(* The outermost array is put in the heap and returned.                    *)
LEMMA FinishStep ==
    ASSUME IInv, Finish
    PROVE  IInv'
<1> PICK l : l = Len(heap)
  OBVIOUS
<1>1. /\ status = "building" /\ status' = "returned" /\ done = Len(counts)
      /\ heap' = Append(heap, built) /\ strong' = Append(strong, 2) /\ result' = Len(heap')
      /\ built' = Object(1, <<>>)
      /\ UNCHANGED <<counts, element, done>>
  BY DEF Finish
<1>2. /\ l \in Nat /\ l = Len(heap) /\ DOMAIN heap = 1..l /\ heap \in Seq(Slotted)
      /\ done \in Nat \ {0} /\ built \in Slotted /\ strong \in [1..l -> Int] /\ result = 0
  BY <1>1, Types DEF IInv, TypeOK, BuiltExact
<1>3. Grows(1)
  <2>1. /\ heap' \in Seq(Slotted) /\ Len(heap') = l + 1
        /\ \A p \in 1..l : heap'[p] = heap[p]
        /\ heap'[l + 1] = built
    BY <1>1, <1>2, AppendProperties
  <2>2. l + 1..l + 1 = {l + 1}
    BY <1>2
  <2>3. QED
    BY <1>2, <2>1, <2>2 DEF Grows
<1>4. /\ Len(heap') = l + 1 /\ DOMAIN heap' = 1..l + 1 /\ Older' /\ heap' \in Seq(Slotted)
      /\ HeapSlots(l + 1)' = {}
  <2>1. l + 1 \in l + 1..l + 1
    BY <1>2
  <2>2. QED
    BY SMTT(60), <1>1, <1>2, <1>3, <2>1, GrownHeap DEF Grows
<1>5. /\ strong' \in [1..l + 1 -> Int] /\ strong'[l + 1] = 2
      /\ \A o \in 1..l : strong'[o] = strong[o]
  <2>1. strong \in Seq(Int) /\ Len(strong) = l
    BY <1>2
  <2>2. /\ strong' \in Seq(Int) /\ Len(strong') = l + 1 /\ strong'[l + 1] = 2
        /\ \A o \in 1..l : strong'[o] = strong[o]
    BY <1>1, <2>1, AppendProperties
  <2>3. QED
    BY <2>2, LenProperties
<1>6. built' \in Slotted
  BY <1>1 DEF Object, Slotted
<1>7. TypeOK'
  <2>1. result' \in 0..Len(heap')
    BY <1>1, <1>2, <1>4
  <2>2. strong' \in [1..Len(heap') -> Int]
    BY <1>4, <1>5
  <2>3. QED
    BY <1>1, <1>4, <1>6, <2>1, <2>2 DEF IInv, TypeOK
<1>8. BuiltExact' /\ ResultExact' /\ TwoDimensionsAreSafe'
  BY <1>1 DEF BuiltExact, ResultExact, TwoDimensionsAreSafe
<1>9. Shaped'
  <2> PICK level \in [1..l -> Dimensions] : Levelled(level)
    BY <1>1, <1>2 DEF IInv, Shaped
  <2> PICK more : more = [p \in 1..l + 1 |-> IF p <= l THEN level[p] ELSE done]
    OBVIOUS
  <2>1. /\ more \in [1..Len(heap') -> Dimensions']
        /\ \A p \in DOMAIN heap' : Fits(heap[p], more[p], more)'
        /\ \A p \in 1..l : more[p] < done
        /\ \A o \in 1..l : HeapSlots(o)' # {}
    <3>1. /\ level \in [1..Len(heap) -> Dimensions]
          /\ more = [p \in 1..Len(heap) + 1 |-> IF p <= Len(heap) THEN level[p] ELSE done]
      BY <1>2
    <3>2. done > 0 /\ 1 \in Nat \ {0} /\ UNCHANGED <<counts, element>>
      BY <1>1, <1>2
    <3>3. /\ more \in [1..Len(heap') -> Dimensions']
          /\ \A p \in DOMAIN heap' : Fits(heap[p], more[p], more)'
          /\ \A p \in 1..Len(heap) : more[p] < done
          /\ \A o \in 1..Len(heap) : HeapSlots(o)' # {}
      BY <1>1, <1>3, <3>1, <3>2, GrownLevels
    <3>4. QED
      BY <1>2, <3>3
  <2>2. \A k \in 1..done' : counts'[k] \in Nat
    BY <1>1 DEF Levelled
  <2>3. result' = l + 1 /\ more[l + 1] = done
    BY <1>1, <1>2, <1>4
  <2>4. ASSUME NEW o \in 1..l + 1 PROVE o = result' <=> more[o] = done'
    <3>1. CASE o = l + 1
      BY <1>1, <2>3, <3>1
    <3>2. CASE o # l + 1
      <4>1. o \in 1..l
        BY <1>2, <3>2
      <4>2. more[o] < done /\ done \in Nat
        BY <1>2, <2>1, <4>1
      <4>3. more[o] # done
        BY <4>2
      <4>4. QED
        BY <1>1, <2>3, <3>2, <4>3
    <3>3. QED
      BY <3>1, <3>2
  <2>5. \A o \in DOMAIN heap' \ {result'} : HeapSlots(o)' # {}
    <3>1. \A o \in 1..l + 1 : o # l + 1 => o \in 1..l
      BY <1>2
    <3>2. QED
      BY <1>4, <2>1, <2>3, <3>1
  <2>6. done' = Len(counts') /\ result' \in DOMAIN heap'
    BY <1>1, <1>2, <1>4, <2>3
  <2>7. Levelled(more)'
    BY <1>1, <1>4, <2>1, <2>2, <2>4, <2>5, <2>6 DEF Levelled
  <2>8. QED
    BY <2>1, <2>7 DEF Shaped
<1>10. StrongExact'
  <2> SUFFICES ASSUME NEW o \in 1..l + 1
               PROVE  strong'[o] = 1 + SlotsTo(o, built)' + Cardinality(HeapSlots(o)')
                                     + (IF o = result' THEN 1 ELSE 0)
    BY <1>4 DEF StrongExact
  <2>1. SlotsTo(o, built)' = 0
    <3>1. Slots(o, built)' = Slots(o, Object(1, <<>>))
      BY <1>1 DEF Slots
    <3>2. QED
      BY <3>1, NoSlots DEF SlotsTo
  <2>2. result' = l + 1
    BY <1>1, <1>4
  <2>3. CASE o = l + 1
    <3>1. Cardinality(HeapSlots(o)') = 0
      BY <1>4, <2>3, FS_EmptySet
    <3>2. QED
      BY <1>5, <2>1, <2>2, <2>3, <3>1
  <2>4. CASE o # l + 1
    <3>1. o \in 1..l
      BY <1>2, <2>4
    <3>2. /\ SlotsTo(o, built) \in Nat
          /\ strong[o] + (1 - 1) * SlotsTo(o, built) = 1 + Cardinality(HeapSlots(o)')
      BY <1>1, <1>2, <1>3, <3>1, GrownCounts
    <3>3. strong[o] \in Int
      BY <1>2, <3>1
    <3>4. Cardinality(HeapSlots(o)') \in Nat
      <4>1. Cardinality(HeapSlots(o)) \in Nat
        BY <1>2, HeapSlotsFinite
      <4>2. Cardinality(HeapSlots(o)') = Cardinality(HeapSlots(o)) + 1 * SlotsTo(o, built)
        BY <1>3, GrownSlots DEF IInv
      <4>3. QED
        BY <3>2, <4>1, <4>2
    <3>5. QED
      BY <1>5, <2>1, <2>2, <2>4, <3>1, <3>2, <3>3, <3>4
  <2>5. QED
    BY <2>3, <2>4
<1>11. Flat'
  <2> SUFFICES ASSUME Len(counts) <= 2, NEW p \in DOMAIN heap' \ {result'}
               PROVE  ToSet(heap'[p].slots) \subseteq {Null}
    BY <1>1 DEF Flat
  <2>1. p \in 1..l
    BY <1>1, <1>2, <1>4
  <2>2. heap'[p] = heap[p] /\ p # result
    BY <1>2, <1>3, <2>1 DEF Grows
  <2>3. QED
    BY <1>2, <2>1, <2>2 DEF IInv, Flat
<1>12. QED
  BY <1>4, <1>7, <1>8, <1>9, <1>10, <1>11 DEF IInv

(* Before the first dimension.                                             *)
LEMMA InitIInv ==
    ASSUME Init
    PROVE  IInv
<1>1. /\ heap = <<>> /\ strong = <<>> /\ built = Object(1, <<>>) /\ built.slots = <<>>
      /\ done = 0 /\ result = 0 /\ status = "building" /\ element \in Elements
  BY DEF Init, Object
<1>2. counts \in Seq((0..MaxCount) \cup BadCounts) \ {<<>>}
  <2> DEFINE Counts == (0..MaxCount) \cup BadCounts
  <2>1. counts \in UNION {[1..m -> Counts] : m \in 0..MaxDimensions} /\ counts # <<>>
    BY DEF Init, BoundedSeq, SeqOf
  <2>2. PICK m \in 0..MaxDimensions : counts \in [1..m -> Counts]
    BY <2>1
  <2>3. m \in Nat
    BY BoundAssumption, <2>2
  <2> HIDE DEF Counts
  <2>4. counts \in Seq(Counts)
    BY <2>2, <2>3, SeqDef
  <2>5. QED
    BY <2>1, <2>4 DEF Counts
<1>3. Len(counts) \in Nat \ {0}
  BY <1>2, LenProperties, EmptySeq
<1>4. heap \in Seq(Slotted) /\ Len(heap) = 0 /\ DOMAIN heap = {}
  BY <1>1
<1>5. built \in Slotted
  BY <1>1 DEF Object, Slotted
<1>6. TypeOK
  <2>1. strong \in [1..Len(heap) -> Int]
    BY <1>1, <1>4
  <2>2. QED
    BY <1>1, <1>2, <1>3, <1>4, <1>5, <2>1 DEF TypeOK
<1>7. BuiltExact
  BY <1>1 DEF BuiltExact
<1>8. Older /\ StrongExact /\ Flat /\ ResultExact /\ TwoDimensionsAreSafe
  BY <1>1, <1>4 DEF Older, StrongExact, Flat, ResultExact, TwoDimensionsAreSafe
<1>9. Shaped
  <2> DEFINE level == [p \in 1..Len(heap) |-> 1]
  <2>1. level \in [1..Len(heap) -> Dimensions]
    BY <1>3 DEF Dimensions
  <2>2. Levelled(level)
    BY <1>1, <1>4 DEF Levelled
  <2> HIDE DEF level
  <2>3. QED
    BY <2>1, <2>2 DEF Shaped
<1>10. QED
  BY <1>6, <1>7, <1>8, <1>9 DEF IInv

(* Every step keeps the invariant.                                         *)
LEMMA NextIInv ==
    ASSUME IInv, [Next]_vars
    PROVE  IInv'
<1>1. CASE EmptyDimension
  BY <1>1, EmptyDimensionStep
<1>2. CASE BadDimension
  BY <1>2, BadDimensionStep
<1>3. CASE Dimension
  <2>1. done = 0 \/ done > 0
    BY DEF IInv, TypeOK
  <2>2. QED
    BY <1>3, <2>1, FirstDimensionStep, NextDimensionStep
<1>4. CASE Finish
  BY <1>4, FinishStep
<1>5. CASE UNCHANGED vars
  <2>1. \A o : HeapSlots(o)' = HeapSlots(o) /\ SlotsTo(o, built)' = SlotsTo(o, built)
    BY <1>5 DEF HeapSlots, SlotsTo, Slots, vars
  <2>2. TypeOK' /\ BuiltExact' /\ Older' /\ Flat' /\ ResultExact' /\ TwoDimensionsAreSafe'
    BY ZenonT(60), <1>5, <2>1 DEF IInv, TypeOK, BuiltExact, Older, Flat, ResultExact, TwoDimensionsAreSafe, Youngest, vars
  <2>3. StrongExact'
    BY <1>5, <2>1 DEF IInv, StrongExact, vars
  <2>4. Shaped'
    BY <1>5, <2>1 DEF IInv, Shaped, Levelled, Fits, Slots, Dimensions, LastDimOSize, vars
  <2>5. QED
    BY <2>2, <2>3, <2>4 DEF IInv
<1>6. QED
  BY <1>1, <1>2, <1>3, <1>4, <1>5 DEF Next

-----------------------------------------------------------------------------
(* The arrays of each dimension of the result. *)

\* The arrays of level k.
AtLevel(level, k) == {p \in DOMAIN heap : level[p] = k}

(* When the result is returned, the arrays of one level are what is in the *)
(* slots of those one level above.                                         *)
LEMMA LevelBelow ==
    ASSUME IInv, status = "returned", NEW level \in [1..Len(heap) -> Dimensions], Levelled(level),
           NEW k \in 1..Len(counts) - 1
    PROVE  AtLevel(level, k) = UNION {ToSet(heap[a].slots) : a \in AtLevel(level, k + 1)}
<1>1. /\ Len(counts) \in Nat \ {0} /\ Len(heap) \in Nat /\ DOMAIN heap = 1..Len(heap)
      /\ done = Len(counts)
  BY Types DEF Levelled
<1>2. ASSUME NEW a \in AtLevel(level, k + 1), NEW o \in ToSet(heap[a].slots)
      PROVE  o \in AtLevel(level, k)
  <2>1. Fits(heap[a], k + 1, level) /\ k + 1 # 1
    BY <1>1 DEF Levelled, AtLevel
  <2>2. \A i \in DOMAIN heap[a].slots : heap[a].slots[i] \in DOMAIN heap /\ level[heap[a].slots[i]] = k + 1 - 1
    BY <2>1 DEF Fits
  <2>3. k + 1 - 1 = k
    OBVIOUS
  <2>4. QED
    BY <2>2, <2>3 DEF ToSet, AtLevel
<1>3. ASSUME NEW o \in AtLevel(level, k)
      PROVE  \E a \in AtLevel(level, k + 1) : o \in ToSet(heap[a].slots)
  <2>1. o \in DOMAIN heap /\ level[o] = k /\ k # done
    BY <1>1 DEF AtLevel
  <2>2. HeapSlots(o) # {}
    BY <2>1 DEF Levelled
  <2>3. PICK a \in DOMAIN heap : Slots(o, heap[a]) # {}
    BY <2>2 DEF HeapSlots
  <2>4. PICK i \in DOMAIN heap[a].slots : heap[a].slots[i] = o
    BY <2>3 DEF Slots
  <2>5. Fits(heap[a], level[a], level) /\ level[a] \in 1..Len(counts)
    BY <1>1 DEF Levelled, Dimensions
  <2>6. level[a] # 1
    <3> SUFFICES ASSUME level[a] = 1 PROVE FALSE
      OBVIOUS
    <3>1. heap[a] = NewArray(counts[1], LastDimOSize)
      BY <2>5 DEF Fits
    <3>2. counts[1] \in Nat
      BY <1>1 DEF Levelled
    <3> PICK n, size : n = counts[1] /\ size = LastDimOSize
      OBVIOUS
    <3>5. n \in Nat /\ size \in {1, 2} /\ heap[a] = NewArray(n, size)
      BY <3>1, <3>2, Types
    <3>6. i \in 1..n * size
      BY ZenonT(60), <3>5, NewArrays
    <3>7. \A x \in 1..n * size : NewArray(n, size).slots[x] = Null
      BY <3>5, NewArrays
    <3>3. heap[a].slots[i] = Null
      BY <3>5, <3>6, <3>7
    <3>4. QED
      BY <1>1, <2>1, <2>4, <3>3 DEF Null
  <2>7. level[o] = level[a] - 1
    BY <2>4, <2>5, <2>6 DEF Fits
  <2>8. a \in AtLevel(level, k + 1)
    BY <2>1, <2>5, <2>7 DEF AtLevel
  <2>9. QED
    BY <2>4, <2>8 DEF ToSet
<1>4. QED
  BY <1>2, <1>3

(* Dimension d, from the outermost, is level Len(counts) + 1 - d.          *)
LEMMA ArraysByLevel ==
    ASSUME IInv, status = "returned", NEW level \in [1..Len(heap) -> Dimensions], Levelled(level),
           NEW d \in Dimensions
    PROVE  Arrays[d] = AtLevel(level, Len(counts) + 1 - d)
<1> DEFINE Down(f) == [e \in Dimensions |->
               IF e = 1 THEN {result} ELSE UNION {ToSet(heap[a].slots) : a \in f[e - 1]}]
<1> PICK W : W = [e \in Dimensions |-> AtLevel(level, Len(counts) + 1 - e)]
  OBVIOUS
<1>1. Len(counts) \in Nat \ {0} /\ Dimensions = 1..Len(counts) /\ done = Len(counts)
  BY Types DEF Dimensions, Levelled
<1>2. W = Down(W)
  <2> SUFFICES ASSUME NEW e \in Dimensions
               PROVE  W[e] = IF e = 1 THEN {result} ELSE UNION {ToSet(heap[a].slots) : a \in W[e - 1]}
    BY ZenonT(60)
  <2>1. CASE e = 1
    <3>1. W[e] = AtLevel(level, Len(counts))
      BY <1>1, <2>1
    <3>2. AtLevel(level, Len(counts)) = {result}
      BY <1>1 DEF Levelled, AtLevel
    <3>3. QED
      BY <2>1, <3>1, <3>2
  <2>2. CASE e # 1
    <3> PICK k : k = Len(counts) + 1 - e
      OBVIOUS
    <3>1. k \in 1..Len(counts) - 1 /\ e - 1 \in Dimensions /\ Len(counts) + 1 - (e - 1) = k + 1
      BY <1>1, <2>2
    <3>2. W[e] = AtLevel(level, k) /\ W[e - 1] = AtLevel(level, k + 1)
      BY <3>1
    <3>3. QED
      BY <2>2, <3>1, <3>2, LevelBelow
  <2>3. QED
    BY <2>1, <2>2
<1>3. Arrays = CHOOSE f : f = Down(f)
  BY DEF Arrays
<1>4. Arrays = Down(Arrays)
  <2> HIDE DEF Down
  <2> QED BY <1>2, <1>3
<1>5. \A e \in Dimensions :
          Arrays[e] = IF e = 1 THEN {result} ELSE UNION {ToSet(heap[a].slots) : a \in Arrays[e - 1]}
  <2> PICK F : F = Arrays
    OBVIOUS
  <2>1. F = Down(F)
    BY <1>4
  <2>2. \A e \in Dimensions :
          F[e] = IF e = 1 THEN {result} ELSE UNION {ToSet(heap[a].slots) : a \in F[e - 1]}
    BY <2>1
  <2>3. QED
    BY <2>2
<1> DEFINE Wrong == {e \in Dimensions : Arrays[e] # W[e]}
<1>6. ASSUME Wrong # {} PROVE FALSE
  <2>1. Wrong \subseteq Nat
    BY <1>1
  <2> HIDE DEF Wrong
  <2>2. PICK e \in Wrong : \A f \in Wrong : ~(<<f, e>> \in OpToRel(<, Nat))
    BY <1>6, <2>1, NatLessThanWellFounded, WFMin
  <2>3. e \in Dimensions /\ Arrays[e] # W[e]
    BY DEF Wrong
  <2>4. W[e] = IF e = 1 THEN {result} ELSE UNION {ToSet(heap[a].slots) : a \in W[e - 1]}
    BY <1>2, <2>3
  <2>5. Arrays[e] = IF e = 1 THEN {result} ELSE UNION {ToSet(heap[a].slots) : a \in Arrays[e - 1]}
    BY <1>5, <2>3
  <2>6. e # 1 /\ Arrays[e - 1] # W[e - 1]
    BY <2>3, <2>4, <2>5
  <2>7. e - 1 \in Dimensions /\ e - 1 \in Nat /\ e \in Nat /\ e - 1 < e
    BY <1>1, <2>3, <2>6
  <2>8. <<e - 1, e>> \in OpToRel(<, Nat)
    BY <2>7 DEF OpToRel
  <2>9. e - 1 \in Wrong
    BY <2>6, <2>7 DEF Wrong
  <2>10. QED
    BY <2>2, <2>8, <2>9
<1>7. QED
  BY <1>6

(* What the arrays of the result look like.                                *)
LEMMA ResultShape ==
    ASSUME IInv, result # 0
    PROVE  /\ DOMAIN heap = UNION {Arrays[d] : d \in Dimensions}
           /\ \A d \in Dimensions : \A a \in Arrays[d] :
                 /\ a \in DOMAIN heap /\ counts[Len(counts) + 1 - d] \in Nat
                 /\ d = Len(counts) => heap[a] = NewArray(counts[1], LastDimOSize)
                 /\ d # Len(counts) => heap[a].size = 1 /\ Len(heap[a].slots) = counts[Len(counts) + 1 - d]
<1>1. status = "returned"
  BY DEF IInv, ResultExact
<1>2. PICK level \in [1..Len(heap) -> Dimensions] : Levelled(level)
  BY <1>1 DEF IInv, Shaped
<1>3. /\ Len(counts) \in Nat \ {0} /\ Dimensions = 1..Len(counts) /\ done = Len(counts)
      /\ DOMAIN heap = 1..Len(heap)
  BY <1>1, <1>2, Types DEF Dimensions, Levelled
<1>4. \A d \in Dimensions : Arrays[d] = AtLevel(level, Len(counts) + 1 - d)
  BY <1>1, <1>2, ArraysByLevel
<1>5. ASSUME NEW d \in Dimensions, NEW a \in Arrays[d]
      PROVE  /\ a \in DOMAIN heap /\ counts[Len(counts) + 1 - d] \in Nat
             /\ d = Len(counts) => heap[a] = NewArray(counts[1], LastDimOSize)
             /\ d # Len(counts) => heap[a].size = 1 /\ Len(heap[a].slots) = counts[Len(counts) + 1 - d]
  <2> PICK k : k = Len(counts) + 1 - d
    OBVIOUS
  <2>1. k \in 1..Len(counts) /\ (k = 1 <=> d = Len(counts))
    BY <1>3
  <2>2. a \in DOMAIN heap /\ level[a] = k
    BY <1>4 DEF AtLevel
  <2>3. counts[k] \in Nat /\ Fits(heap[a], k, level)
    BY <1>2, <1>3, <2>1, <2>2 DEF Levelled
  <2>4. QED
    BY <2>1, <2>2, <2>3 DEF Fits
<1>6. DOMAIN heap = UNION {Arrays[d] : d \in Dimensions}
  <2>1. ASSUME NEW p \in DOMAIN heap PROVE \E d \in Dimensions : p \in Arrays[d]
    <3> PICK d : d = Len(counts) + 1 - level[p]
      OBVIOUS
    <3>1. level[p] \in 1..Len(counts)
      BY <1>3
    <3>2. d \in Dimensions /\ Len(counts) + 1 - d = level[p]
      BY <1>3, <3>1
    <3>3. QED
      BY <1>4, <3>2 DEF AtLevel
  <2>2. \A d \in Dimensions : Arrays[d] \subseteq DOMAIN heap
    BY <1>5
  <2>3. QED
    BY <2>1, <2>2
<1>7. QED
  BY <1>5, <1>6

-----------------------------------------------------------------------------
(* Indices. *)

\* The most and the least an i32 holds.
Half == IntMod \div 2

(* Twice an index, wrapped around, is itself, or a negative number if it   *)
(* was too large, or twice its distance from the least integer if it was   *)
(* too small.                                                              *)
LEMMA Doubled ==
    ASSUME NEW index \in Ints
    PROVE  /\ index \in Int /\ Half \in Nat
           /\ 2 * index \in Ints <=> -Half <= 2 * index /\ 2 * index < Half
           /\ 2 * index \in Ints => Wrapped(2 * index) = 2 * index
           /\ 2 * index >= Half => Wrapped(2 * index) < 0
           /\ 2 * index < -Half => Wrapped(2 * index) = 2 * (index + Half)
<1> PICK h : h = Half
  OBVIOUS
<1> PICK x : x = 2 * index
  OBVIOUS
<1>1. h \in Nat \ {0} /\ IntMod = 2 * h
  BY IntAssumption DEF Half
<1>2. Ints = -h..h - 1
  BY DEF Ints, Half
<1>3. index \in Int /\ x \in Int /\ -h <= index /\ index < h
  BY <1>1, <1>2
<1>4. x \in Ints <=> -h <= x /\ x < h
  BY <1>1, <1>2, <1>3
<1>5. x \in Ints => Wrapped(x) = x
  BY DEF Wrapped
<1>6. ASSUME x >= h PROVE Wrapped(x) < 0
  <2>1. x \notin Ints
    BY <1>1, <1>3, <1>4, <1>6
  <2>2. x + h \in Int /\ 2 * h <= x + h /\ x + h < 2 * (2 * h)
    BY <1>1, <1>3, <1>6
  <2>3. (x + h) % (2 * h) = x + h - 2 * h
    <3> PICK m, y : m = 2 * h /\ y = x + h
      OBVIOUS
    <3>1. m \in Nat \ {0} /\ y \in Int /\ m <= y /\ y < 2 * m
      BY <1>1, <2>2
    <3>2. y % m = y - m
      BY <3>1
    <3>3. y - m = x + h - 2 * h
      BY <1>1, <1>3
    <3>4. QED
      BY <3>2, <3>3
  <2>4. Wrapped(x) = x + h - 2 * h - h
    BY <1>1, <2>1, <2>3 DEF Wrapped, Half
  <2>5. QED
    BY <1>1, <1>3, <2>4
<1>7. ASSUME x < -h PROVE Wrapped(x) = 2 * (index + h)
  <2>1. x \notin Ints
    BY <1>1, <1>3, <1>4, <1>7
  <2>2. x + h \in Int /\ -(2 * h) <= x + h /\ x + h < 0
    BY <1>1, <1>3, <1>7
  <2>3. (x + h) % (2 * h) = x + h + 2 * h
    <3> PICK m, y : m = 2 * h /\ y = x + h
      OBVIOUS
    <3>1. m \in Nat \ {0} /\ y \in Int /\ 0 - m <= y /\ y < 0
      BY <1>1, <2>2
    <3>2. y % m = y + m
      BY <3>1
    <3>3. QED
      BY <3>2
  <2>4. Wrapped(x) = x + h + 2 * h - h
    BY <1>1, <2>1, <2>3 DEF Wrapped, Half
  <2>5. QED
    BY <1>1, <1>3, <2>4
<1>8. QED
  BY <1>1, <1>3, <1>4, <1>5, <1>6, <1>7

(* What an index leads to in an array of n longs or doubles.               *)
LEMMA WideIndex ==
    ASSUME NEW a, NEW n \in Nat, Len(heap[a].slots) = 2 * n, NEW index \in Ints
    PROVE  IF index \in 0..n - 1
           THEN WideSlotsOf(a, index) = IF 2 * index \notin Ints THEN {} ELSE {2 * index, 2 * index + 1}
           ELSE WideSlotsOf(a, index) # {} => WrapsAround(index, n)
<1> PICK first : first = Wrapped(2 * index)
  OBVIOUS
<1> PICK h : h = Half
  OBVIOUS
<1>1. /\ index \in Int /\ h \in Nat
      /\ 2 * index \in Ints <=> -h <= 2 * index /\ 2 * index < h
      /\ 2 * index \in Ints => first = 2 * index
      /\ 2 * index >= h => first < 0
      /\ 2 * index < -h => first = 2 * (index + h)
  BY Doubled
<1>2. WideSlotsOf(a, index) =
          IF (OverflowChecks /\ 2 * index \notin Ints) \/ first < 0 \/ 2 * n <= first + 1
          THEN {} ELSE {first, first + 1}
  BY DEF WideSlotsOf
<1>3. CASE index \in 0..n - 1
  <2>1. CASE 2 * index \in Ints
    <3>1. first = 2 * index /\ ~(first < 0) /\ ~(2 * n <= first + 1)
      BY <1>1, <1>3, <2>1
    <3>2. QED
      BY <1>2, <1>3, <2>1, <3>1
  <2>2. CASE 2 * index \notin Ints
    <3>1. first < 0
      BY <1>1, <1>3, <2>2
    <3>2. QED
      BY <1>2, <1>3, <2>2, <3>1
  <2>3. QED
    BY <2>1, <2>2
<1>4. ASSUME index \notin 0..n - 1, WideSlotsOf(a, index) # {}
      PROVE  WrapsAround(index, n)
  <2>1. ~(OverflowChecks /\ 2 * index \notin Ints) /\ ~(first < 0) /\ ~(2 * n <= first + 1)
    BY <1>2, <1>4
  <2>2. 2 * index < -h
    <3>1. CASE 2 * index \in Ints
      BY <1>1, <1>4, <2>1, <3>1
    <3>2. CASE 2 * index >= h
      BY <1>1, <2>1, <3>2
    <3>3. QED
      BY <1>1, <3>1, <3>2
  <2>3. first = 2 * (index + h) /\ 2 * index \notin Ints
    BY <1>1, <2>2
  <2>4. ~OverflowChecks /\ index + h < n
    BY <1>1, <2>1, <2>3
  <2>5. QED
    BY <2>4 DEF WrapsAround, Half
<1>5. QED
  BY <1>3, <1>4

-----------------------------------------------------------------------------
(* Theorems. *)

(* What allocate_multiarray has built, counted and put in the heap fits    *)
(* together after every dimension.                                         *)
THEOREM Invariance == Spec => []IInv
BY InitIInv, NextIInv, PTL DEF Spec

(* The strong counts of the arrays are exact, also of the children that    *)
(* copies share.                                                           *)
THEOREM StrongCountsAreExact == Spec => []StrongExact
<1>1. IInv => StrongExact
  BY DEF IInv
<1>2. QED
  BY <1>1, Invariance, PTL

(* An allocation of two dimensions never waits for itself, and one that    *)
(* fails leaves nothing in the heap.                                       *)
THEOREM FailuresAreSafe == Spec => []TwoDimensionsAreSafe
<1>1. IInv => TwoDimensionsAreSafe
  BY DEF IInv
<1>2. QED
  BY <1>1, Invariance, PTL

(* The components of an array are arrays of their own, and in two          *)
(* dimensions nothing is shared.                                           *)
THEOREM ComponentsAreDistinct == Spec => []ComponentsDistinct
<1>1. ASSUME IInv PROVE ComponentsDistinct
  <2> SUFFICES ASSUME result # 0, NEW p \in DOMAIN heap, NEW q \in DOMAIN heap,
                      NEW i \in DOMAIN heap[p].slots, NEW j \in DOMAIN heap[q].slots,
                      heap[p].slots[i] = heap[q].slots[j], heap[p].slots[i] # Null,
                      p = q \/ Len(counts) <= 2
               PROVE  p = q /\ i = j
    BY DEF ComponentsDistinct
  <2>1. p = q
    <3>1. CASE Len(counts) <= 2
      <4>1. heap[p].slots[i] \in ToSet(heap[p].slots) /\ heap[q].slots[j] \in ToSet(heap[q].slots)
        BY DEF ToSet
      <4>2. p = result /\ q = result
        BY <1>1, <3>1, <4>1 DEF IInv, Flat
      <4>3. QED
        BY <4>2
    <3>2. QED
      BY <3>1
  <2>2. i = j
    BY <1>1, <2>1 DEF IInv, Older
  <2>3. QED
    BY <2>1, <2>2
<1>2. QED
  BY <1>1, Invariance, PTL

(* The arrays have the lengths asked for, from the outermost to the        *)
(* innermost dimension, and nothing else is in the heap.                   *)
THEOREM ResultHasShape == Spec => []ShapeRight
<1>1. ASSUME IInv, result # 0 PROVE ShapeRight
  <2>1. ASSUME NEW d \in Dimensions, NEW a \in Arrays[d]
        PROVE  a # Null /\ ArrayLength(a) = counts[Len(counts) + 1 - d]
    <3> PICK n : n = counts[Len(counts) + 1 - d]
      OBVIOUS
    <3>1. /\ a \in DOMAIN heap /\ n \in Nat
          /\ d = Len(counts) => heap[a] = NewArray(counts[1], LastDimOSize)
          /\ d # Len(counts) => heap[a].size = 1 /\ Len(heap[a].slots) = n
      BY <1>1, ResultShape
    <3>2. a # Null
      BY <1>1, <3>1, Types DEF Null
    <3>3. CASE d = Len(counts)
      <4>1. Len(counts) + 1 - d = 1
        BY <1>1, <3>3, Types
      <4>2. heap[a] = NewArray(n, LastDimOSize)
        BY <3>1, <3>3, <4>1
      <4>3. Len(heap[a].slots) = n * LastDimOSize /\ heap[a].size = LastDimOSize
        <5>1. PICK width \in {1, 2} : width = LastDimOSize
          BY <1>1, Types
        <5>2. heap[a] = NewArray(n, width)
          BY <4>2, <5>1
        <5>3. NewArray(n, width).size = width
          BY DEF NewArray, Object
        <5>4. Len(NewArray(n, width).slots) = n * width
          BY <3>1, NewArrays
        <5>5. QED
          BY <5>1, <5>2, <5>3, <5>4
      <4> PICK size : size = LastDimOSize
        OBVIOUS
      <4>4. size \in {1, 2} => (n * size) \div size = n
        <5>1. (n * 1) \div 1 = n /\ (n * 2) \div 2 = n
          BY <3>1
        <5>2. QED
          BY <5>1
      <4>5. size \in {1, 2}
        BY <1>1, Types
      <4>6. ArrayLength(a) = (n * size) \div size
        BY <4>3 DEF ArrayLength
      <4>7. QED
        BY <3>2, <4>4, <4>5, <4>6
    <3>4. CASE d # Len(counts)
      <4>1. n \div 1 = n
        BY <3>1
      <4>2. QED
        BY <3>1, <3>2, <3>4, <4>1 DEF ArrayLength
    <3>5. QED
      BY <3>3, <3>4
  <2>2. QED
    BY <1>1, <2>1, ResultShape DEF ShapeRight
<1>2. IInv => ShapeRight
  BY <1>1 DEF ShapeRight
<1>3. QED
  BY <1>2, Invariance, PTL

(* An index leads to its own element's slots, and to none if it is out of  *)
(* bounds, but for longs and doubles at the ends of the range of integers, *)
(* and where they are in arrays yet to come.                               *)
THEOREM IndicesStayInBounds == Spec => []IndexInBounds
<1>1. ASSUME IInv, result # 0,
             NEW d \in Dimensions, NEW a \in Arrays[d], NEW index \in Ints,
             NEW n, n = counts[Len(counts) + 1 - d]
      PROVE  IF index \in 0..n - 1
             THEN Addressed(a, index) =
                     IF d = Len(counts) /\ element = "wide" /\ 2 * index \notin Ints
                     THEN {} ELSE Own(a, index)
             ELSE Addressed(a, index) # {} =>
                     /\ d = Len(counts)
                     /\ \/ element = "rest" /\ index \in 0..2 * n - 1
                        \/ element = "wide" /\ WrapsAround(index, n)
  <2>1. /\ n \in Nat /\ index \in Int
        /\ d = Len(counts) => heap[a] = NewArray(n, LastDimOSize)
        /\ d # Len(counts) => heap[a].size = 1 /\ Len(heap[a].slots) = n
    <3>1. d = Len(counts) => Len(counts) + 1 - d = 1
      BY <1>1, Types
    <3>2. QED
      BY <1>1, <3>1, ResultShape, Doubled
  <2>2. CASE d = Len(counts) /\ element = "wide"
    <3>1. Len(heap[a].slots) = 2 * n
      <4>1. LastDimOSize = 2 /\ n * 2 = 2 * n
        BY <2>1, <2>2 DEF LastDimOSize
      <4>2. QED
        BY <2>1, <2>2, <4>1, NewArrays
    <3>2. a \in InnermostArrays
      BY <1>1, <2>2 DEF InnermostArrays
    <3>3. Addressed(a, index) = WideSlotsOf(a, index) /\ Own(a, index) = {2 * index, 2 * index + 1}
      BY <2>2, <3>2 DEF Addressed, Own
    <3>4. QED
      BY <1>1, <2>1, <2>2, <3>1, <3>3, WideIndex
  <2>3. CASE ~(d = Len(counts) /\ element = "wide")
    <3>1. element = "wide" => a \notin InnermostArrays
      <4> SUFFICES ASSUME element = "wide", a \in InnermostArrays PROVE FALSE
        OBVIOUS
      <4>1. Len(counts) \in Dimensions
        BY <1>1, Types DEF Dimensions
      <4>2. heap[a] = NewArray(counts[1], 2)
        BY <1>1, <4>1, ResultShape DEF InnermostArrays, LastDimOSize
      <4>3. heap[a].size = 1
        BY <2>1, <2>3
      <4>4. QED
        BY <4>2, <4>3 DEF NewArray, Object
    <3>2. Addressed(a, index) = SlotsOf(a, index) /\ Own(a, index) = {index}
      BY <3>1 DEF Addressed, Own
    <3> PICK m : m = Len(heap[a].slots)
      OBVIOUS
    <3>3. m = n \/ (m = 2 * n /\ d = Len(counts) /\ element = "rest")
      <4>1. CASE d # Len(counts)
        BY <2>1, <4>1
      <4>2. CASE d = Len(counts) /\ element = "narrow"
        <5>1. LastDimOSize = 1 /\ n * 1 = n
          BY <2>1, <4>2 DEF LastDimOSize
        <5>2. QED
          BY <2>1, <4>2, <5>1, NewArrays
      <4>3. CASE d = Len(counts) /\ element = "rest"
        <5>1. LastDimOSize = 2 /\ n * 2 = 2 * n
          BY <2>1, <4>3 DEF LastDimOSize
        <5>2. QED
          BY <2>1, <4>3, <5>1, NewArrays
      <4>4. element \in {"narrow", "wide", "rest"}
        BY <1>1 DEF IInv, TypeOK, Elements
      <4>5. QED
        BY <2>3, <4>1, <4>2, <4>3, <4>4
    <3>4. SlotsOf(a, index) = IF index \in 0..m - 1 THEN {index} ELSE {}
      BY DEF SlotsOf
    <3>5. CASE m = n
      BY <2>1, <2>3, <3>2, <3>4, <3>5
    <3>6. CASE m = 2 * n /\ d = Len(counts) /\ element = "rest"
      <4>1. index \in 0..n - 1 => index \in 0..m - 1
        BY <2>1, <3>6
      <4>2. QED
        BY <3>2, <3>4, <3>6, <4>1
    <3>7. QED
      BY <3>3, <3>5, <3>6
  <2>4. QED
    BY <2>2, <2>3
<1>2. ASSUME IInv, result # 0,
             NEW d \in Dimensions, NEW a \in Arrays[d], NEW index \in Ints
      PROVE  IF index \in 0..counts[Len(counts) + 1 - d] - 1
             THEN Addressed(a, index) =
                     IF d = Len(counts) /\ element = "wide" /\ 2 * index \notin Ints
                     THEN {} ELSE Own(a, index)
             ELSE Addressed(a, index) # {} =>
                     /\ d = Len(counts)
                     /\ \/ element = "rest" /\ index \in 0..2 * counts[1] - 1
                        \/ element = "wide" /\ WrapsAround(index, counts[1])
  <2> PICK n : n = counts[Len(counts) + 1 - d]
    OBVIOUS
  <2>1. d = Len(counts) => n = counts[1]
    BY <1>2, Types
  <2>2. QED
    BY <1>1, <1>2, <2>1
<1>3. IInv => IndexInBounds
  BY <1>2 DEF IndexInBounds
<1>4. QED
  BY <1>3, Invariance, PTL
=============================================================================
