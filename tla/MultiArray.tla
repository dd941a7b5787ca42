----------------------------- MODULE MultiArray -----------------------------
(***************************************************************************)
(* heap::allocate_multiarray (src/src/vm/heap.rs), the whole of it under   *)
(* one hold of HEAP, and the instructions that index the arrays it builds  *)
(* (src/src/vm/mod.rs).  The counts come off the operand stack, so the     *)
(* innermost dimension first: an array of it is built, then copied into    *)
(* every slot of an array of the next dimension, and so on.  An array is   *)
(* in the heap only when something refers to it: the one under             *)
(* construction, `built', is a plain Object.                               *)
(***************************************************************************)
EXTENDS Integers, Sequences, FiniteSetsExt, SequencesExt

CONSTANTS
    MaxDimensions,   \* bound: dimensions of an array
    MaxCount,        \* bound: length of a dimension
    Negative,        \* a count below zero
    Missing,         \* no count: the operand stack is too short
    BadCounts,       \* those of the two that may occur
    IntMod,          \* 2^32: an index is an i32
    OverflowChecks   \* the build panics on overflow (debug), or wraps around

ASSUME BoundAssumption == MaxDimensions \in Nat \ {0} /\ MaxCount \in Nat
ASSUME CountAssumption ==
    /\ BadCounts \subseteq {Negative, Missing}
    /\ Negative # Missing
    /\ {Negative, Missing} \cap Nat = {}
ASSUME IntAssumption == IntMod \in Nat /\ IntMod > 0 /\ IntMod % 4 = 0 /\ OverflowChecks \in BOOLEAN

VARIABLES
    counts,      \* the counts, as they are popped
    element,     \* what the innermost arrays hold
    done,        \* how many dimensions have been built
    built,       \* last_object (without slots before the first dimension)
    heap,        \* the arrays allocated so far
    strong,      \* their strong counts
    result,      \* the array that is returned; 0 before
    status

vars == <<counts, element, done, built, heap, strong, result, status>>

(* The elements are of one slot; or longs or doubles; or references again, *)
(* to arrays of longs or doubles that are not allocated by this            *)
(* instruction (new long[2][3][]).  last_dim_o_size is that of the class's *)
(* element type.                                                           *)
Elements == {"narrow", "wide", "rest"}
LastDimOSize == IF element = "narrow" THEN 1 ELSE 2

Null == 0                \* objects are numbered from 1

Object(size, slots) == [size |-> size, slots |-> slots]
NewArray(n, size) == Object(size, [i \in 1..n * size |-> Null])

\* Slots of `object' that refer to object o.
Slots(o, object) == {i \in DOMAIN object.slots : object.slots[i] = o}
SlotsTo(o, object) == Cardinality(Slots(o, object))

\* dimensions >= 1: run_code has checked it.
Init ==
    /\ counts \in BoundedSeq((0..MaxCount) \cup BadCounts, MaxDimensions) \ {<<>>}
    /\ element \in Elements
    /\ done = 0
    /\ built = Object(1, <<>>)
    /\ heap = <<>>
    /\ strong = <<>>
    /\ result = 0
    /\ status = "building"

-----------------------------------------------------------------------------
Building == status = "building" /\ done < Len(counts)
Length == counts[done + 1]
Size == IF done = 0 THEN LastDimOSize ELSE 1

(* `built' is dropped, and with it what its slots refer to.  A reference   *)
(* that only the heap's own is left beside takes the lock, which is held:  *)
(* the thread waits for itself.                                            *)
Relocks == \E o \in ToSet(built.slots) \ {Null} : strong[o] - SlotsTo(o, built) <= 1
Dropped == [o \in DOMAIN strong |-> strong[o] - SlotsTo(o, built)]

(* A dimension of length 0: last_object is overwritten.                    *)
EmptyDimension ==
    /\ Building
    /\ Length = 0
    /\ status' = IF Relocks THEN "relocked" ELSE "building"
    /\ strong' = Dropped
    /\ built' = NewArray(0, Size)
    /\ done' = done + 1
    /\ UNCHANGED <<counts, element, heap, result>>

(* A count that is missing is an error, and one below zero a panic when    *)
(* that many slots are to be allocated; last_object is dropped before the  *)
(* lock is given up, in the second case poisoned.                          *)
BadDimension ==
    /\ Building
    /\ Length \in {Missing, Negative}
    /\ status' = CASE Relocks -> "relocked"
                   [] ~Relocks /\ Length = Missing -> "error"
                   [] ~Relocks /\ Length = Negative -> "poisoned"
    /\ strong' = Dropped
    /\ built' = Object(1, <<>>)
    /\ UNCHANGED <<counts, element, done, heap, result>>

\* Mutation: the copies refer to the children without counting them.
FillUncounted(child, n) ==
    /\ heap' = heap \o [i \in 1..n |-> child]
    /\ strong' = strong \o [i \in 1..n |-> 2]

(* n - 1 copies (clone_unchecked: each of them refers to the children of   *)
(* `child' as well) and `child' itself are put in the heap.                *)
Fill(child, n) ==
    /\ heap' = heap \o [i \in 1..n |-> child]
    /\ strong' = [o \in DOMAIN strong |-> strong[o] + (n - 1) * SlotsTo(o, child)]
                   \o [i \in 1..n |-> 2]

Positive == Building /\ Length \in Nat \ {0}

\* Mutation: the last slot is not filled.
DimensionShort ==
    /\ Positive
    /\ IF done = 0
       THEN built' = NewArray(Length, Size) /\ UNCHANGED <<heap, strong>>
       ELSE /\ Fill(built, Length)
            /\ built' = Object(Size, [i \in 1..Length |-> IF i < Length THEN Len(heap) + i ELSE Null])
    /\ done' = done + 1
    /\ UNCHANGED <<counts, element, result, status>>

\* Mutation: one child for all the slots.
DimensionShared ==
    /\ Positive
    /\ IF done = 0
       THEN built' = NewArray(Length, Size) /\ UNCHANGED <<heap, strong>>
       ELSE /\ heap' = Append(heap, built)
            /\ strong' = Append(strong, 1 + Length)
            /\ built' = Object(Size, [i \in 1..Length |-> Len(heap')])
    /\ done' = done + 1
    /\ UNCHANGED <<counts, element, result, status>>

\* Mutation: the innermost array is put in the heap as soon as it is built.
DimensionEarly ==
    /\ Positive
    /\ IF done = 0
       THEN /\ heap' = <<NewArray(Length, Size)>>
            /\ strong' = <<2>>
            /\ built' = Object(1, <<1>>)
       ELSE /\ Fill(built, Length)
            /\ built' = Object(Size, [i \in 1..Length |-> Len(heap) + i])
    /\ done' = done + 1
    /\ UNCHANGED <<counts, element, result, status>>

\* A dimension of positive length: its slots get one child each.
Dimension ==
    /\ Positive
    /\ IF done = 0
       THEN built' = NewArray(Length, Size) /\ UNCHANGED <<heap, strong>>
       ELSE /\ Fill(built, Length)
            /\ built' = Object(Size, [i \in 1..Length |-> Len(heap) + i])
    /\ done' = done + 1
    /\ UNCHANGED <<counts, element, result, status>>

(* The last array, the outermost, is put in the heap and returned.         *)
Finish ==
    /\ status = "building"
    /\ done = Len(counts)
    /\ heap' = Append(heap, built)
    /\ strong' = Append(strong, 2)
    /\ result' = Len(heap')
    /\ built' = Object(1, <<>>)
    /\ status' = "returned"
    /\ UNCHANGED <<counts, element, done>>

Next == EmptyDimension \/ BadDimension \/ Dimension \/ Finish

Spec == Init /\ [][Next]_vars

-----------------------------------------------------------------------------
(* The instructions: the slots (from 0) of array a that one with this      *)
(* index loads or stores; none if it is out of bounds, or panics.          *)
Ints == -(IntMod \div 2)..IntMod \div 2 - 1

ArrayLength(a) == Len(heap[a].slots) \div heap[a].size

\* AALoad, IALoad, AAStore, ..: index as usize is huge below zero.
SlotsOf(a, index) == IF index \in 0..Len(heap[a].slots) - 1 THEN {index} ELSE {}

Wrapped(n) == IF n \in Ints THEN n ELSE ((n + IntMod \div 2) % IntMod) - IntMod \div 2

\* Mutation: the bounds are those of the index itself.
WideSlotsOfUndoubled(a, index) ==
    IF index \in 0..Len(heap[a].slots) - 1 THEN {2 * index, 2 * index + 1} ELSE {}

\* LALoad, DALoad, LAStore, DAStore: the index is doubled as an i32.
WideSlotsOf(a, index) ==
    LET first == Wrapped(2 * index) IN
    IF (OverflowChecks /\ 2 * index \notin Ints) \/ first < 0 \/ Len(heap[a].slots) <= first + 1
    THEN {}
    ELSE {first, first + 1}

-----------------------------------------------------------------------------
(* Properties. *)

Dimensions == 1..Len(counts)

\* The arrays of dimension d of the result (the first is the result itself).
Arrays[d \in Dimensions] ==
    IF d = 1 THEN {result} ELSE UNION {ToSet(heap[a].slots) : a \in Arrays[d - 1]}

(* The array has the lengths asked for, in the order the program gave them *)
(* (the first count is pushed first), down to the innermost dimension; and *)
(* nothing is left behind in the heap that the result does not lead to.    *)
ShapeRight ==
    result # 0 =>
        /\ \A d \in Dimensions : \A a \in Arrays[d] :
              a # Null /\ ArrayLength(a) = counts[Len(counts) + 1 - d]
        /\ DOMAIN heap = UNION {Arrays[d] : d \in Dimensions}

\* The slots of arrays in the heap that refer to o.
HeapSlots(o) == UNION {{p} \X Slots(o, heap[p]) : p \in DOMAIN heap}

(* The strong counts are what try_gc and ObjectRef::drop rely on: one for  *)
(* the heap's set, one for each slot that refers to the object, one for    *)
(* the returned reference; also for the children that copies share.        *)
StrongExact ==
    status \in {"building", "returned"} =>
        \A o \in DOMAIN heap :
            strong[o] = 1 + SlotsTo(o, built) + Cardinality(HeapSlots(o))
                          + (IF o = result THEN 1 ELSE 0)

(* The components of one array are subarrays of their own, and in an array *)
(* of two dimensions there is no sharing at all.  From three on the copies *)
(* that fill a dimension share what they refer to.                         *)
ComponentsDistinct ==
    result # 0 =>
        \A p, q \in DOMAIN heap : \A i \in DOMAIN heap[p].slots, j \in DOMAIN heap[q].slots :
            (heap[p].slots[i] = heap[q].slots[j] /\ heap[p].slots[i] # Null
                 /\ (p = q \/ Len(counts) <= 2))
                => p = q /\ i = j

(* Whatever the counts, zero, negative or missing: with two dimensions the *)
(* thread never waits for itself, and an allocation that fails leaves      *)
(* nothing in the heap; with more it may well wait, but never after it     *)
(* allocated anything and failed.                                          *)
TwoDimensionsAreSafe ==
    /\ status = "relocked" => Len(counts) > 2
    /\ status \in {"error", "poisoned"} => heap = <<>>

\* The slots of an element, and those an index leads to.
InnermostArrays == Arrays[Len(counts)]
Addressed(a, index) ==
    IF element = "wide" /\ a \in InnermostArrays THEN WideSlotsOf(a, index) ELSE SlotsOf(a, index)
Own(a, index) ==
    IF element = "wide" /\ a \in InnermostArrays THEN {2 * index, 2 * index + 1} ELSE {index}

\* An index so far below zero that twice of it wraps around to an element.
WrapsAround(index, length) == ~OverflowChecks /\ index + IntMod \div 2 < length

(* An index leads to the slots of its own element if it is within bounds,  *)
(* in arrays of any element size, and to nothing if it is not; but longs   *)
(* and doubles whose index cannot be doubled are out of reach, in a        *)
(* release build the lowest integers lead into arrays of them again, and   *)
(* where longs are to be in arrays yet to come (`rest') the bounds are     *)
(* twice too wide.                                                         *)
IndexInBounds ==
    result # 0 =>
        \A d \in Dimensions : \A a \in Arrays[d], index \in Ints :
            IF index \in 0..counts[Len(counts) + 1 - d] - 1
            THEN Addressed(a, index) =
                    IF d = Len(counts) /\ element = "wide" /\ 2 * index \notin Ints
                    THEN {} ELSE Own(a, index)
            ELSE Addressed(a, index) # {} =>
                    /\ d = Len(counts)
                    /\ \/ element = "rest" /\ index \in 0..2 * counts[1] - 1
                       \/ element = "wide" /\ WrapsAround(index, counts[1])

(* Every array that the instruction may be asked for, with counts of zero  *)
(* too, is allocated: the thread never locks HEAP twice.                   *)
NeverRelocked == status # "relocked"

-----------------------------------------------------------------------------
(* Why they hold: an inductive invariant. *)

Slotted == [size : {1, 2}, slots : Seq(Nat)]

TypeOK ==
    /\ counts \in Seq((0..MaxCount) \cup BadCounts) \ {<<>>}
    /\ element \in Elements
    /\ done \in 0..Len(counts)
    /\ built \in Slotted
    /\ heap \in Seq(Slotted)
    /\ strong \in [1..Len(heap) -> Int]
    /\ result \in 0..Len(heap)
    /\ status \in {"building", "returned", "error", "poisoned", "relocked"}

(* What has been allocated is one array for each slot of `built', the last *)
(* ones, and what they refer to; or nothing.                               *)
Youngest(o) == o \in Len(heap) - Len(built.slots) + 1..Len(heap)

BuiltExact ==
    status = "building" =>
        /\ result = 0
        /\ done <= 1 => heap = <<>>
        /\ done = 0 => built = Object(1, <<>>)
        /\ heap = <<>> => \A i \in DOMAIN built.slots : built.slots[i] = Null
        /\ heap # <<>> =>
              /\ Len(built.slots) \in 1..Len(heap)
              /\ \A i \in DOMAIN built.slots :
                    built.slots[i] = Len(heap) - Len(built.slots) + i
              /\ \A o \in DOMAIN heap : Youngest(o) => HeapSlots(o) = {}

\* Arrays refer to older ones; the slots of one array to different ones.
Older ==
    \A p \in DOMAIN heap : \A i \in DOMAIN heap[p].slots :
        /\ heap[p].slots[i] < p
        /\ \A j \in DOMAIN heap[p].slots :
              heap[p].slots[i] = heap[p].slots[j] /\ heap[p].slots[i] # Null => i = j

(* What an array of dimension k (from the innermost, 1) looks like, level  *)
(* being the dimensions of the others.                                     *)
Fits(object, k, level) ==
    IF k = 1 THEN object = NewArray(counts[1], LastDimOSize)
    ELSE /\ object.size = 1
         /\ Len(object.slots) = counts[k]
         /\ \A i \in DOMAIN object.slots :
               object.slots[i] \in DOMAIN heap /\ level[object.slots[i]] = k - 1

Levelled(level) ==
    /\ \A k \in 1..done : counts[k] \in Nat
    /\ \A p \in DOMAIN heap : Fits(heap[p], level[p], level)
    /\ status = "building" =>
          /\ \A p \in DOMAIN heap : level[p] < done
          /\ done > 0 => Fits(built, done, level)
          /\ \A o \in DOMAIN heap : Slots(o, built) \cup HeapSlots(o) # {}
    /\ status = "returned" =>
          /\ done = Len(counts)
          /\ result \in DOMAIN heap
          /\ \A o \in DOMAIN heap : o = result <=> level[o] = done
          /\ \A o \in DOMAIN heap \ {result} : HeapSlots(o) # {}

Shaped ==
    status \in {"building", "returned"} =>
        \E level \in [1..Len(heap) -> Dimensions] : Levelled(level)

\* Two dimensions: nothing but the result refers to anything.
Flat == Len(counts) <= 2 => \A p \in DOMAIN heap \ {result} : ToSet(heap[p].slots) \subseteq {Null}

ResultExact == status # "returned" => result = 0

IInv ==
    /\ TypeOK
    /\ BuiltExact
    /\ Older
    /\ Shaped
    /\ StrongExact
    /\ Flat
    /\ ResultExact
    /\ TwoDimensionsAreSafe
=============================================================================
