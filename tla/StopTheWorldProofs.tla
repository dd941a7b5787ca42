------------------------- MODULE StopTheWorldProofs -------------------------
(* Proofs about StopTheWorld, and about HotLoop, the protocol together     *)
(* with the loops of the interpreter, for every set of mutators and every  *)
(* build.                                                                  *)
EXTENDS HotLoop, FiniteSetTheorems, TLAPS

-----------------------------------------------------------------------------
(* Counting threads. *)

(* The registered and the waiting mutators are finite sets of which one    *)
(* contains the other: Heap.heap_threads and Heap.parked_threads count     *)
(* threads of the same program.                                            *)
LEMMA FiniteCounts ==
    ASSUME TypeOK
    PROVE  /\ IsFiniteSet(Registered) /\ Cardinality(Registered) \in Nat
           /\ IsFiniteSet(Waiting) /\ Cardinality(Waiting) \in Nat
           /\ Waiting \subseteq Registered
           /\ Cardinality(Waiting) <= Cardinality(Registered)
           /\ Cardinality(Waiting) = Cardinality(Registered) => Waiting = Registered
<1>1. Registered \subseteq Thread /\ Waiting \subseteq Registered
  BY DEF Registered, Waiting
<1>2. IsFiniteSet(Registered)
  BY <1>1, ThreadAssumption, FS_Subset
<1>3. QED
  BY <1>1, <1>2, FS_Subset, FS_CardinalityType

(* A mutator that is registered and does not wait keeps the two counts of  *)
(* try_gc's assertion apart.                                               *)
LEMMA RunningKeepsCountsApart ==
    ASSUME TypeOK, NEW t \in Thread, pc[t] \in {"running", "armed", "blocked", "panicked"}
    PROVE  Cardinality(Waiting) < Cardinality(Registered)
<1>1. t \in Registered /\ t \notin Waiting
  BY DEF Registered, Waiting
<1>2. QED
  BY <1>1, FiniteCounts

(* Adding one thread to a count, and taking one away, as the increments    *)
(* and decrements of heap_threads and parked_threads do.                   *)
LEMMA CountOne ==
    ASSUME NEW S, IsFiniteSet(S), NEW x
    PROVE  /\ Cardinality(S) \in Nat
           /\ x \notin S => Cardinality(S \cup {x}) = Cardinality(S) + 1
           /\ x \in S => /\ Cardinality(S \ {x}) = Cardinality(S) - 1
                         /\ Cardinality(S) > 0
<1>1. Cardinality(S) \in Nat
  BY FS_CardinalityType
<1>2. x \notin S => Cardinality(S \cup {x}) = Cardinality(S) + 1
  BY FS_AddElement
<1>3. x \in S => Cardinality(S \ {x}) = Cardinality(S) - 1
  BY FS_RemoveElement
<1>4. x \in S => Cardinality(S) # 0
  BY FS_EmptySet
<1>5. QED
  BY <1>1, <1>2, <1>3, <1>4

(* The counter of Heap.allocate_from_object stays within its type.         *)
LEMMA CounterInRange ==
    ASSUME NEW n \in Nat
    PROVE  n % CounterMod \in 0..CounterMod-1
BY CounterAssumption

-----------------------------------------------------------------------------
(* The inductive invariant. *)

(* The static initialisers of heap.rs and main()'s register_thread.        *)
LEMMA InitIInv == Init => IInv
<1> SUFFICES ASSUME Init PROVE IInv
  OBVIOUS
<1>1. TypeOK
  <2>1. allocCount \in 0..CounterMod-1
    BY CounterAssumption DEF Init
  <2>2. after \in [Thread -> 0..MaxBatch]
    BY BoundAssumption DEF Init
  <2>3. pc \in [Thread -> ThreadState] /\ gc \in GCState
    BY DEF Init, GCState, ThreadState
  <2>4. QED
    BY <2>1, <2>2, <2>3 DEF Init, TypeOK
<1>2. Registered = {Main} /\ Waiting = {}
  BY ThreadAssumption DEF Init, Registered, Waiting
<1>3. CountsAgree
  BY <1>2, FS_EmptySet, FS_Singleton DEF Init, CountsAgree
<1>4. QED
  BY <1>1, <1>3, ModeAssumption
  DEF Init, IInv, PanicsPoison, NotifiedWhenStopped, ArmedSeesStop, NoMissedSignal

(* register_thread: the count of registered threads grows, and the new     *)
(* thread waits at once if the world is being stopped.                     *)
LEMMA RegisterThreadStep ==
    ASSUME IInv, NEW t \in Thread, RegisterThread(t)
    PROVE  IInv'
<1> USE DEF IInv, RegisterThread, StopTheWorldInner, GoTo, NotifyGC, Acquires, LockFree
<1>1. TypeOK'
  BY BoundAssumption DEF TypeOK, GCState, ThreadState
<1>2. Registered' = Registered \cup {t} /\ t \notin Registered /\ t \notin Waiting
  BY DEF TypeOK, Registered, Waiting
<1>3. Waiting' = IF stop THEN Waiting \cup {t} ELSE Waiting
  BY DEF TypeOK, Registered, Waiting
<1>4. CountsAgree'
  BY <1>2, <1>3, FiniteCounts, CountOne DEF CountsAgree, TypeOK
<1>5. PanicsPoison'
  BY DEF TypeOK, PanicsPoison
<1>6. ArmedSeesStop'
  BY DEF TypeOK, ArmedSeesStop
<1>7. NotifiedWhenStopped'
  BY <1>2, <1>3, FiniteCounts DEF TypeOK, NotifiedWhenStopped, CountsAgree
<1>8. NoMissedSignal'
  BY <1>2, <1>3, FiniteCounts DEF TypeOK, NoMissedSignal, GCState, CountsAgree, PanicsPoison
<1>9. QED
  BY <1>1, <1>4, <1>5, <1>6, <1>7, <1>8

(* unregister_thread: the last running thread to leave notifies the        *)
(* collector in place of the waiting ones.                                 *)
LEMMA UnregisterThreadStep ==
    ASSUME IInv, NEW t \in Thread, UnregisterThread(t)
    PROVE  IInv'
<1> USE DEF IInv, UnregisterThread, GoTo, NotifyGC, Acquires, LockFree
<1>1. Registered' = Registered \ {t} /\ Waiting' = Waiting /\ t \in Registered /\ t \notin Waiting
  BY DEF TypeOK, Registered, Waiting
<1>2. CountsAgree' /\ heapThreads' \in Nat
  BY <1>1, FiniteCounts, CountOne DEF CountsAgree, TypeOK
<1>3. TypeOK'
  BY <1>2 DEF TypeOK, GCState, ThreadState
<1>4. PanicsPoison' /\ ArmedSeesStop'
  BY DEF TypeOK, PanicsPoison, ArmedSeesStop
<1>5. gc \notin {"notified", "collecting"}
  BY <1>1 DEF NotifiedWhenStopped
<1>6. NotifiedWhenStopped'
  <2> SUFFICES ASSUME gc' = "notified" PROVE stop' /\ Registered' = Waiting'
    BY <1>5 DEF NotifiedWhenStopped
  <2>1. stop /\ parkedThreads >= heapThreads - 1
    BY <1>5
  <2>2. IsFiniteSet(Registered') /\ Waiting' \subseteq Registered'
    BY <1>1, FiniteCounts, FS_RemoveElement
  <2>3. Cardinality(Waiting') <= Cardinality(Registered')
    BY <2>2, FS_Subset
  <2>4. Cardinality(Waiting') = Cardinality(Registered')
    BY <2>1, <2>3, <1>1, <1>2, FiniteCounts, CountOne DEF CountsAgree, TypeOK
  <2>5. QED
    BY <2>1, <2>2, <2>4, FS_Subset
<1>7. NoMissedSignal'
  BY <1>1, FiniteCounts DEF TypeOK, NoMissedSignal, GCState, CountsAgree, PanicsPoison
<1>8. QED
  BY <1>2, <1>3, <1>4, <1>6, <1>7

(* safepoint's test of the flag changes no count.                          *)
LEMMA SafepointCheckStep ==
    ASSUME IInv, NEW t \in Thread, SafepointCheck(t)
    PROVE  IInv'
<1> USE DEF IInv, SafepointCheck, GoTo
<1>1. Registered' = Registered /\ Waiting' = Waiting
  BY DEF TypeOK, Registered, Waiting
<1>2. TypeOK'
  BY DEF TypeOK, ThreadState
<1>3. QED
  BY <1>1, <1>2
  DEF TypeOK, CountsAgree, PanicsPoison, NotifiedWhenStopped, ArmedSeesStop, NoMissedSignal

(* stop_the_world_inner entered by a running thread: it is counted, and    *)
(* the last one to come notifies the collector.                            *)
LEMMA ParkStep ==
    ASSUME IInv, stop, ~poisoned, NEW t \in Thread, pc[t] \in {"running", "armed"},
           NEW k \in 0..MaxBatch, StopTheWorldInner(t, heapThreads, k), UNCHANGED heapThreads
    PROVE  IInv'
<1> USE DEF IInv, StopTheWorldInner, GoTo, NotifyGC
<1>1. Registered' = Registered /\ Waiting' = Waiting \cup {t} /\ t \in Registered /\ t \notin Waiting
  BY DEF TypeOK, Registered, Waiting
<1>2. TypeOK'
  BY DEF TypeOK, GCState, ThreadState
<1>3. CountsAgree'
  BY <1>1, FiniteCounts, CountOne DEF CountsAgree, TypeOK
<1>4. PanicsPoison' /\ ArmedSeesStop'
  BY DEF TypeOK, PanicsPoison, ArmedSeesStop
<1>5. gc \notin {"notified", "collecting"}
  BY <1>1 DEF NotifiedWhenStopped
<1>6. NotifiedWhenStopped'
  <2> SUFFICES ASSUME gc' = "notified" PROVE Registered' = Waiting'
    BY <1>5 DEF NotifiedWhenStopped
  <2>1. parkedThreads + 1 >= heapThreads
    BY <1>5
  <2>2. IsFiniteSet(Registered') /\ Waiting' \subseteq Registered'
    BY <1>1, FiniteCounts
  <2>3. Cardinality(Waiting') <= Cardinality(Registered')
    BY <2>2, FS_Subset
  <2>4. Cardinality(Waiting') = Cardinality(Registered')
    BY <2>1, <2>3, <1>1, FiniteCounts, CountOne DEF CountsAgree, TypeOK
  <2>5. QED
    BY <2>2, <2>4, FS_Subset
<1>7. NoMissedSignal'
  BY <1>1, FiniteCounts DEF TypeOK, NoMissedSignal, GCState, CountsAgree, PanicsPoison
<1>8. QED
  BY <1>2, <1>3, <1>4, <1>6, <1>7

(* safepoint, once it has the mutex: the flag it saw is still set.         *)
LEMMA SafepointParkStep ==
    ASSUME IInv, NEW t \in Thread, SafepointPark(t)
    PROVE  IInv'
<1>1. stop /\ ~poisoned
  BY DEF IInv, ArmedSeesStop, SafepointPark, Acquires
<1>2. 0 \in 0..MaxBatch
  BY BoundAssumption
<1>3. QED
  BY <1>1, <1>2, ParkStep DEF SafepointPark

(* What allocate_from_object and set_gc_flags do to alloc_count, the       *)
(* object set and the flag keeps their types.                              *)
LEMMA GrowTypes ==
    ASSUME TypeOK, NEW k \in Nat, Grow(k)
    PROVE  allocCount' \in 0..CounterMod-1 /\ live' \in Nat /\ stop' \in BOOLEAN
<1>1. allocCount + k \in Nat
  BY CounterAssumption DEF TypeOK
<1>2. allocCount' \in 0..CounterMod-1
  BY <1>1, CounterInRange DEF Grow
<1>3. QED
  BY <1>2 DEF Grow, TypeOK

(* However an allocation that holds HEAP goes on, its thread does not wait *)
(* afterwards, the flag is not cleared, and a panic poisons the lock.      *)
LEMMA FinishParts ==
    ASSUME TypeOK, NEW t \in Thread, NEW k \in Nat, Finish(t, k)
    PROVE  /\ \E where \in {"running", "blocked", "panicked"} : GoTo(t, where)
           /\ allocCount' \in 0..CounterMod-1 /\ live' \in Nat
           /\ stop' \in BOOLEAN /\ poisoned' \in BOOLEAN
           /\ stop => stop'
           /\ poisoned' # poisoned => poisoned' /\ stop' = stop /\ GoTo(t, "panicked")
<1>1. CASE GoTo(t, "running") /\ Grow(k) /\ UNCHANGED poisoned
  <2>1. stop => stop'
    BY <1>1 DEF Grow
  <2>2. QED
    BY <1>1, <2>1, GrowTypes DEF TypeOK
<1>2. CASE GoTo(t, "running") /\ UNCHANGED <<stop, allocCount, live, poisoned>>
  BY <1>2 DEF TypeOK
<1>3. CASE GoTo(t, "panicked") /\ poisoned' = TRUE /\ UNCHANGED <<stop, allocCount, live>>
  BY <1>3 DEF TypeOK
<1>4. ASSUME NEW j \in 1..k-1, GoTo(t, "blocked"), Grow(j), UNCHANGED poisoned
      PROVE  /\ GoTo(t, "blocked") /\ UNCHANGED poisoned /\ poisoned \in BOOLEAN
             /\ allocCount' \in 0..CounterMod-1 /\ live' \in Nat /\ stop' \in BOOLEAN
             /\ stop => stop'
  <2>1. j \in Nat
    OBVIOUS
  <2>2. stop => stop'
    BY <1>4 DEF Grow
  <2>3. QED
    BY <1>4, <2>1, <2>2, GrowTypes DEF TypeOK
<1>5. QED
  BY <1>1, <1>2, <1>3, <1>4 DEF Finish

(* A registered thread that goes on with the mutex keeps the invariant, if *)
(* it has taken itself off the count of waiting threads: it is registered  *)
(* and does not wait, so the world cannot look stopped.                    *)
LEMMA GoesOnStep ==
    ASSUME IInv, ~stop, ~poisoned, gc # "collecting",
           NEW t \in Thread, NEW k \in Nat, Finish(t, k),
           \/ pc[t] = "running" /\ UNCHANGED parkedThreads
           \/ pc[t] \in {"parked", "woken"} /\ parkedThreads' = parkedThreads - 1,
           after' \in [Thread -> 0..MaxBatch], UNCHANGED <<heapThreads, gc>>
    PROVE  IInv'
<1> USE DEF IInv
<1>1. PICK where \in {"running", "blocked", "panicked"} : pc' = [pc EXCEPT ![t] = where]
  BY FinishParts DEF GoTo
<1>2. pc' \in [Thread -> ThreadState] /\ pc'[t] \notin {"armed", "parked", "woken", "unregistered"}
  BY <1>1 DEF TypeOK, ThreadState
<1>3. Registered' = Registered /\ t \in Registered /\ Waiting' = Waiting \ {t}
  BY <1>1 DEF Registered, Waiting, TypeOK
<1>5. /\ heapThreads' = Cardinality(Registered') /\ parkedThreads' = Cardinality(Waiting')
      /\ parkedThreads' \in Nat /\ parkedThreads' < heapThreads'
  <2>1. CASE pc[t] = "running" /\ UNCHANGED parkedThreads
    <3>1. Waiting' = Waiting /\ Cardinality(Waiting) < Cardinality(Registered)
      BY <1>3, <2>1, RunningKeepsCountsApart DEF Waiting
    <3>2. QED
      BY <1>3, <2>1, <3>1 DEF CountsAgree, TypeOK
  <2>2. CASE pc[t] \in {"parked", "woken"} /\ parkedThreads' = parkedThreads - 1
    <3>1. t \in Waiting
      BY <2>2 DEF Waiting
    <3>2. QED
      BY SMTT(60), <1>3, <2>2, <3>1, FiniteCounts, CountOne DEF CountsAgree, TypeOK
  <2>3. QED
    BY <2>1, <2>2
<1>6. TypeOK'
  BY <1>2, <1>5, FinishParts DEF TypeOK
<1>7. CountsAgree'
  BY <1>5 DEF CountsAgree
<1>8. PanicsPoison'
  BY <1>6 DEF PanicsPoison
<1>9. NotifiedWhenStopped'
  BY DEF NotifiedWhenStopped
<1>10. ArmedSeesStop'
  BY <1>1, <1>2 DEF ArmedSeesStop, TypeOK
<1>11. NoMissedSignal'
  BY <1>5, <1>6 DEF NoMissedSignal, TypeOK
<1>12. QED
  BY <1>6, <1>7, <1>8, <1>9, <1>10, <1>11

(* An allocation waits for the collection if the flag is set, and goes on  *)
(* under the same lock otherwise.                                          *)
LEMMA AllocateStep ==
    ASSUME IInv, NEW t \in Thread, NEW k \in 1..MaxBatch, Allocate(t, k)
    PROVE  IInv'
<1>1. CASE stop
  <2>1. k \in 0..MaxBatch
    BY BoundAssumption
  <2>2. QED
    BY <1>1, <2>1, ParkStep DEF Allocate, Acquires
<1>2. CASE ~stop
  <2>1. k \in Nat /\ after \in [Thread -> 0..MaxBatch]
    BY BoundAssumption DEF IInv, TypeOK
  <2>2. QED
    BY <1>2, <2>1, GoesOnStep DEF Allocate, Acquires, LockFree
<1>3. QED
  BY <1>1, <1>2

(* The multiplication of allocate_array panics without the mutex: the      *)
(* thread stays registered and does not wait.                              *)
LEMMA LengthOverflowsStep ==
    ASSUME IInv, NEW t \in Thread, LengthOverflows(t)
    PROVE  IInv'
<1> USE DEF IInv, LengthOverflows, GoTo
<1>1. Registered' = Registered /\ Waiting' = Waiting
  BY DEF TypeOK, Registered, Waiting
<1>2. TypeOK'
  BY DEF TypeOK, ThreadState
<1>3. QED
  BY <1>1, <1>2
  DEF TypeOK, CountsAgree, PanicsPoison, NotifiedWhenStopped, ArmedSeesStop, NoMissedSignal

(* The end of stop_the_world_inner: the thread that leaves the wait takes  *)
(* itself off the count before its allocation goes on.                     *)
LEMMA WakeStep ==
    ASSUME IInv, NEW t \in Thread, Wake(t)
    PROVE  IInv'
<1> USE DEF IInv
<1>1. pc[t] \in {"woken", "parked"} /\ ~poisoned /\ gc # "collecting"
  BY DEF Wake, Acquires, LockFree
<1>2. UNCHANGED <<heapThreads, gc>>
  BY DEF Wake
<1>4. CASE stop
  <2>1. /\ pc' = [pc EXCEPT ![t] = "parked"]
        /\ UNCHANGED <<stop, allocCount, live, poisoned, parkedThreads, after>>
    BY <1>4 DEF Wake, GoTo
  <2>2. Waiting' = Waiting /\ Registered' = Registered
    BY <1>1, <2>1 DEF Waiting, Registered, TypeOK
  <2>3. TypeOK'
    BY <1>2, <2>1 DEF TypeOK, ThreadState
  <2>4. QED
    BY <1>1, <1>2, <2>1, <2>2, <2>3
    DEF TypeOK, CountsAgree, PanicsPoison, NotifiedWhenStopped, ArmedSeesStop, NoMissedSignal
<1>5. CASE ~stop
  <2>1. after[t] \in Nat /\ [after EXCEPT ![t] = 0] \in [Thread -> 0..MaxBatch]
    BY BoundAssumption DEF TypeOK
  <2>2. QED
    BY <1>1, <1>2, <1>5, <2>1, GoesOnStep DEF Wake
<1>6. QED
  BY <1>4, <1>5

(* ObjectRef::drop: the decrement of alloc_count either stays in its type  *)
(* or poisons the lock.                                                    *)
LEMMA DeallocateStep ==
    ASSUME IInv, NEW t \in Thread, Deallocate(t)
    PROVE  IInv'
<1> USE DEF IInv, Deallocate, GoTo, Acquires, LockFree
<1>1. allocCount + CounterMod - 1 \in Nat
  BY CounterAssumption DEF TypeOK
<1>2. allocCount' \in 0..CounterMod-1
  BY <1>1, CounterInRange DEF TypeOK
<1>3. TypeOK'
  <2>1. live' \in Nat
    BY DEF TypeOK
  <2>2. poisoned' \in BOOLEAN /\ pc' \in [Thread -> ThreadState]
    BY ModeAssumption DEF TypeOK, ThreadState
  <2>3. QED
    BY <1>2, <2>1, <2>2 DEF TypeOK
<1>4. gc' # "collecting"
  OBVIOUS
<1>5. CASE poisoned'
  BY <1>3, <1>4, <1>5
  DEF CountsAgree, PanicsPoison, NotifiedWhenStopped, ArmedSeesStop, NoMissedSignal
<1>6. CASE ~poisoned'
  <2>1. UNCHANGED <<pc, poisoned, stop, heapThreads, parkedThreads, gc>>
    BY <1>6 DEF TypeOK
  <2>2. QED
    BY <1>3, <2>1
    DEF CountsAgree, PanicsPoison, NotifiedWhenStopped, ArmedSeesStop, NoMissedSignal,
        Registered, Waiting
<1>7. QED
  BY <1>5, <1>6

(* A panic on the poisoned lock changes nothing the protocol still uses.   *)
LEMMA PanicOnPoisonStep ==
    ASSUME IInv, NEW t \in Thread, PanicOnPoison(t)
    PROVE  IInv'
<1> USE DEF IInv, PanicOnPoison, GoTo
<1>1. TypeOK'
  BY DEF TypeOK, ThreadState
<1>2. QED
  BY <1>1 DEF CountsAgree, PanicsPoison, NotifiedWhenStopped, ArmedSeesStop, NoMissedSignal

(* The collector acquires the mutex again: it collects with every          *)
(* registered thread waiting, or its assertion poisons the lock.           *)
LEMMA GCWakeStep ==
    ASSUME IInv, GCWake
    PROVE  IInv'
<1> USE DEF IInv, GCWake
<1>1. TypeOK'
  BY DEF TypeOK, GCState
<1>2. Registered' = Registered /\ Waiting' = Waiting
  BY DEF Registered, Waiting
<1>3. CountsAgree' /\ ArmedSeesStop'
  BY <1>2 DEF CountsAgree, ArmedSeesStop, TypeOK
<1>4. PanicsPoison'
  BY DEF PanicsPoison, TypeOK
<1>5. ~poisoned /\ heapThreads = parkedThreads => Registered = Waiting
  BY FiniteCounts DEF CountsAgree
<1>6. NotifiedWhenStopped'
  BY <1>2, <1>5 DEF NotifiedWhenStopped, TypeOK
<1>7. NoMissedSignal'
  BY FiniteCounts DEF NoMissedSignal, CountsAgree, TypeOK
<1>8. QED
  BY <1>1, <1>3, <1>4, <1>6, <1>7

(* The collector clears the flag and wakes the waiting threads, which      *)
(* stay counted until they have the mutex again.                           *)
LEMMA GCFinishStep ==
    ASSUME IInv, GCFinish
    PROVE  IInv'
<1> USE DEF IInv, GCFinish
<1>1. 0 \in 0..CounterMod-1 /\ live' \in Nat
  BY CounterAssumption DEF TypeOK
<1>2. TypeOK'
  BY <1>1 DEF TypeOK, GCState, ThreadState
<1>3. Registered' = Registered /\ Waiting' = Waiting
  BY DEF Registered, Waiting, TypeOK
<1>4. ~poisoned /\ \A t \in Thread : pc[t] # "armed"
  BY DEF PanicsPoison, NotifiedWhenStopped, Registered, Waiting
<1>5. QED
  BY <1>2, <1>3, <1>4
  DEF CountsAgree, PanicsPoison, NotifiedWhenStopped, ArmedSeesStop, NoMissedSignal, TypeOK

(* Every step of the program preserves the inductive invariant.            *)
LEMMA NextIInv == IInv /\ [Next]_vars => IInv'
<1> SUFFICES ASSUME IInv, [Next]_vars PROVE IInv'
  OBVIOUS
<1>1. ASSUME NEW t \in Thread, ThreadStep(t) PROVE IInv'
  BY <1>1, RegisterThreadStep, UnregisterThreadStep, SafepointCheckStep, SafepointParkStep,
     AllocateStep, LengthOverflowsStep, WakeStep, DeallocateStep, PanicOnPoisonStep DEF ThreadStep
<1>2. CASE GCWake
  BY <1>2, GCWakeStep
<1>3. CASE GCFinish
  BY <1>3, GCFinishStep
<1>4. CASE UNCHANGED vars
  BY <1>4 DEF vars, IInv, TypeOK, CountsAgree, PanicsPoison, NotifiedWhenStopped,
     ArmedSeesStop, NoMissedSignal, Registered, Waiting
<1>5. QED
  BY <1>1, <1>2, <1>3, <1>4 DEF Next

-----------------------------------------------------------------------------
(* The theorems. *)

(* Every reachable state of the protocol satisfies the inductive invariant. *)
THEOREM Invariance == Spec => []IInv
BY InitIInv, NextIInv, PTL DEF Spec

(* The state keeps its types: in particular heap_threads and               *)
(* parked_threads are never decremented below zero.                        *)
THEOREM TypeCorrect == Spec => []TypeOK
<1>1. IInv => TypeOK
  BY DEF IInv
<1>2. QED
  BY <1>1, Invariance, PTL

(* try_gc never runs beside a mutator: whoever is registered while the     *)
(* collector holds HEAP waits on PARKED_THREADS, however late the          *)
(* collector started and whatever wakes the condition variables.           *)
THEOREM WorldIsStopped == Spec => []WorldStopped
<1>1. IInv => WorldStopped
  BY DEF IInv, WorldStopped, PanicsPoison, NotifiedWhenStopped, Registered, Waiting, TypeOK,
     ThreadState
<1>2. QED
  BY <1>1, Invariance, PTL

(* The counters compared by try_gc's assertion are the numbers of          *)
(* registered and of waiting threads.                                      *)
THEOREM CountsAreThreads == Spec => []CountsAgree
<1>1. IInv => CountsAgree
  BY DEF IInv
<1>2. QED
  BY <1>1, Invariance, PTL

(* No interleaving of parking, leaving and registering threads loses the   *)
(* notification the collector waits for.                                   *)
THEOREM SignalNeverMissed == Spec => []NoMissedSignal
<1>1. IInv => NoMissedSignal
  BY DEF IInv
<1>2. QED
  BY <1>1, Invariance, PTL

(* A thread that saw the flag outside the mutex finds it set inside.       *)
THEOREM ArmedThreadsPark == Spec => []ArmedSeesStop
<1>1. IInv => ArmedSeesStop
  BY DEF IInv
<1>2. QED
  BY <1>1, Invariance, PTL

-----------------------------------------------------------------------------
(* The protocol implements the barrier. *)

(* The program starts as the barrier does: main() runs, nobody else.       *)
LEMMA BarrierInit == Init => Barrier!Init
<1> SUFFICES ASSUME Init PROVE Barrier!Init
  OBVIOUS
<1>1. AbstractPhase = "idle"
  BY ModeAssumption DEF Init, AbstractPhase
<1>2. AbstractState = [t \in Thread |-> IF t = Main THEN "running" ELSE "out"]
  BY DEF Init, AbstractState
<1>3. QED
  BY <1>1, <1>2 DEF Barrier!Init

(* What moving one thread's pc means to the barrier: the same move, or     *)
(* none when both places look alike.                                       *)
LEMMA AbstractMove ==
    ASSUME TypeOK, NEW t \in Thread, NEW where \in ThreadState, GoTo(t, where)
    PROVE  AbstractState' = [AbstractState EXCEPT ![t] =
               IF where \in {"running", "armed", "blocked"} THEN "running"
               ELSE IF where \in {"parked", "woken"} THEN "stopped"
               ELSE "out"]
BY DEF TypeOK, GoTo, AbstractState

(* stop_the_world_inner entered while the flag is set is the barrier's     *)
(* Stop.                                                                   *)
LEMMA ParkIsStop ==
    ASSUME IInv, stop, ~poisoned, gc # "collecting",
           NEW t \in Thread, pc[t] \in {"running", "armed"},
           NEW k, StopTheWorldInner(t, heapThreads, k)
    PROVE  Barrier!Stop(t)
<1>1. GoTo(t, "parked") /\ stop' = stop /\ poisoned' = poisoned /\ gc' # "collecting"
  BY DEF StopTheWorldInner, NotifyGC
<1>2. AbstractState' = [AbstractState EXCEPT ![t] = "stopped"]
  BY <1>1, AbstractMove DEF IInv, ThreadState
<1>3. AbstractState[t] = "running"
  BY DEF AbstractState
<1>4. AbstractPhase = "requested" /\ AbstractPhase' = "requested"
  BY <1>1 DEF AbstractPhase
<1>5. QED
  BY <1>2, <1>3, <1>4 DEF Barrier!Stop, Barrier!Move

(* An allocation that goes on under the lock is a Request or a Resume of   *)
(* the barrier, its Fail if the thread panics, or no step at all.          *)
LEMMA FinishIsAStep ==
    ASSUME TypeOK, ~stop, ~poisoned, gc # "collecting", UNCHANGED gc,
           NEW t \in Thread, NEW k \in Nat, Finish(t, k),
           AbstractState[t] \in {"running", "stopped"}
    PROVE  [Barrier!Next]_(Barrier!vars)
<1>1. AbstractPhase = "idle"
  BY DEF AbstractPhase
<1>2. CASE poisoned'
  <2>1. GoTo(t, "panicked")
    BY <1>2, FinishParts
  <2>2. AbstractState' = [AbstractState EXCEPT ![t] = "out"]
    BY <2>1, AbstractMove DEF ThreadState
  <2>3. AbstractPhase' = "failed"
    BY <1>2 DEF AbstractPhase
  <2>4. QED
    BY <1>1, <2>2, <2>3 DEF Barrier!Next, Barrier!Fail, Barrier!Move
<1>3. CASE ~poisoned'
  <2>1. GoTo(t, "running") \/ GoTo(t, "blocked")
    BY <1>3 DEF Finish
  <2>2. AbstractState' = [AbstractState EXCEPT ![t] = "running"]
    BY <2>1, AbstractMove DEF ThreadState
  <2>3. AbstractPhase' \in {"idle", "requested"}
    BY <1>3 DEF AbstractPhase
  <2>4. CASE AbstractState[t] = "running"
    <3>1. AbstractState' = AbstractState
      BY <2>2, <2>4 DEF AbstractState
    <3>2. QED
      BY <1>1, <2>3, <2>4, <3>1 DEF Barrier!Next, Barrier!Request, Barrier!vars
  <2>5. CASE AbstractState[t] = "stopped"
    BY <1>1, <2>2, <2>3, <2>5 DEF Barrier!Next, Barrier!Resume, Barrier!Move
  <2>6. QED
    BY <2>4, <2>5
<1>4. QED
  BY <1>2, <1>3

(* Each step of a mutator is one step of the barrier, or none.             *)
LEMMA ThreadSimulation ==
    ASSUME IInv, NEW t \in Thread, ThreadStep(t)
    PROVE  [Barrier!Next]_(Barrier!vars)
<1> USE DEF LockFree, Acquires
<1>0. TypeOK /\ stop \in BOOLEAN
  BY DEF IInv, TypeOK
<1>1. CASE RegisterThread(t)
  <2>1. ~poisoned /\ ~poisoned' /\ gc # "collecting" /\ gc' # "collecting" /\ stop' = stop
    BY <1>1 DEF RegisterThread, StopTheWorldInner, NotifyGC
  <2>2. AbstractState[t] = "out"
    BY <1>1 DEF RegisterThread, AbstractState
  <2>3. CASE stop
    <3>1. AbstractState' = [AbstractState EXCEPT ![t] = "stopped"]
      BY <1>0, <1>1, <2>3, AbstractMove DEF RegisterThread, StopTheWorldInner, ThreadState
    <3>2. AbstractPhase = "requested" /\ AbstractPhase' = "requested"
      BY <2>1, <2>3 DEF AbstractPhase
    <3>3. QED
      BY <2>2, <3>1, <3>2 DEF Barrier!Next, Barrier!Join, Barrier!Move
  <2>4. CASE ~stop
    <3>1. AbstractState' = [AbstractState EXCEPT ![t] = "running"]
      BY <1>0, <1>1, <2>4, AbstractMove DEF RegisterThread, ThreadState
    <3>2. AbstractPhase = "idle" /\ AbstractPhase' = "idle"
      BY <2>1, <2>4 DEF AbstractPhase
    <3>3. QED
      BY <2>2, <3>1, <3>2 DEF Barrier!Next, Barrier!Join, Barrier!Move
  <2>5. QED
    BY <2>3, <2>4
<1>2. CASE UnregisterThread(t)
  <2>1. ~poisoned /\ ~poisoned' /\ gc # "collecting" /\ gc' # "collecting" /\ stop' = stop
    BY <1>2 DEF UnregisterThread, NotifyGC
  <2>2. AbstractState[t] = "running"
    BY <1>2 DEF UnregisterThread, AbstractState
  <2>3. AbstractState' = [AbstractState EXCEPT ![t] = "out"]
    BY <1>0, <1>2, AbstractMove DEF UnregisterThread, ThreadState
  <2>4. AbstractPhase \in {"idle", "requested"} /\ AbstractPhase' = AbstractPhase
    BY <2>1 DEF AbstractPhase
  <2>5. QED
    BY <2>2, <2>3, <2>4 DEF Barrier!Next, Barrier!Leave, Barrier!Move
<1>3. CASE SafepointCheck(t)
  <2>1. AbstractState' = [AbstractState EXCEPT ![t] = "running"]
    BY <1>0, <1>3, AbstractMove DEF SafepointCheck, ThreadState
  <2>2. AbstractState[t] = "running"
    BY <1>3 DEF SafepointCheck, AbstractState
  <2>3. AbstractState' = AbstractState
    BY <2>1, <2>2 DEF AbstractState
  <2>4. AbstractPhase' = AbstractPhase
    BY <1>3 DEF SafepointCheck, AbstractPhase
  <2>5. QED
    BY <2>3, <2>4 DEF Barrier!vars
<1>4. CASE SafepointPark(t)
  <2>1. stop
    BY <1>4 DEF IInv, ArmedSeesStop, SafepointPark
  <2>2. Barrier!Stop(t)
    BY <1>4, <2>1, ParkIsStop DEF SafepointPark
  <2>3. QED
    BY <2>2 DEF Barrier!Next
<1>5. ASSUME NEW k \in 1..MaxBatch, Allocate(t, k)
      PROVE  [Barrier!Next]_(Barrier!vars)
  <2>1. CASE stop
    <3>1. Barrier!Stop(t)
      BY <1>5, <2>1, ParkIsStop DEF Allocate
    <3>2. QED
      BY <3>1 DEF Barrier!Next
  <2>2. CASE ~stop
    <3>1. k \in Nat /\ Finish(t, k) /\ UNCHANGED gc
      BY <1>5, <2>2, BoundAssumption DEF Allocate
    <3>2. ~poisoned /\ gc # "collecting" /\ AbstractState[t] = "running"
      BY <1>5 DEF Allocate, AbstractState
    <3>3. QED
      BY <1>0, <2>2, <3>1, <3>2, FinishIsAStep
  <2>3. QED
    BY <1>0, <2>1, <2>2
<1>6. CASE Wake(t)
  <2>1. ~poisoned /\ gc # "collecting" /\ gc' = gc
    BY <1>6 DEF Wake
  <2>2. AbstractState[t] = "stopped"
    BY <1>6 DEF Wake, AbstractState
  <2>3. CASE stop
    <3>1. AbstractState' = [AbstractState EXCEPT ![t] = "stopped"] /\ UNCHANGED <<stop, poisoned>>
      BY <1>0, <1>6, <2>3, AbstractMove DEF Wake, ThreadState
    <3>2. AbstractState' = AbstractState
      BY <2>2, <3>1 DEF AbstractState
    <3>3. AbstractPhase' = AbstractPhase
      BY <2>1, <3>1 DEF AbstractPhase
    <3>4. QED
      BY <3>2, <3>3 DEF Barrier!vars
  <2>4. CASE ~stop
    <3>1. after[t] \in Nat /\ Finish(t, after[t])
      BY <1>0, <1>6, <2>4 DEF Wake, TypeOK
    <3>2. QED
      BY <1>0, <2>1, <2>2, <2>4, <3>1, FinishIsAStep
  <2>5. QED
    BY <1>0, <2>3, <2>4
<1>7. CASE Deallocate(t)
  <2>1. ~poisoned /\ gc # "collecting" /\ UNCHANGED <<stop, gc>> /\ AbstractState[t] = "running"
    BY <1>7 DEF Deallocate, AbstractState
  <2>2. CASE poisoned'
    <3>1. GoTo(t, "panicked")
      BY <1>7, <2>1, <2>2 DEF Deallocate
    <3>2. AbstractState' = [AbstractState EXCEPT ![t] = "out"]
      BY <1>0, <3>1, AbstractMove DEF ThreadState
    <3>3. AbstractPhase \in {"idle", "requested"} /\ AbstractPhase' = "failed"
      BY <2>1, <2>2 DEF AbstractPhase
    <3>4. QED
      BY <2>1, <3>2, <3>3 DEF Barrier!Next, Barrier!Fail, Barrier!Move
  <2>3. CASE ~poisoned'
    <3>1. pc' = pc
      BY <1>7, <2>3 DEF Deallocate
    <3>2. QED
      BY <2>1, <2>3, <3>1 DEF Barrier!vars, AbstractPhase, AbstractState
  <2>4. QED
    BY <2>2, <2>3
<1>8. CASE PanicOnPoison(t)
  <2>1. AbstractState' = [AbstractState EXCEPT ![t] = "out"]
    BY <1>0, <1>8, AbstractMove DEF PanicOnPoison, ThreadState
  <2>2. AbstractPhase = "failed" /\ AbstractPhase' = "failed"
    BY <1>8 DEF PanicOnPoison, AbstractPhase
  <2>3. QED
    BY <2>1, <2>2 DEF Barrier!Next, Barrier!Crash, Barrier!Move
<1>9. CASE LengthOverflows(t)
  <2>1. AbstractState' = [AbstractState EXCEPT ![t] = "out"] /\ AbstractState[t] = "running"
    BY <1>0, <1>9, AbstractMove DEF LengthOverflows, ThreadState, AbstractState
  <2>2. AbstractPhase' = AbstractPhase
    BY <1>9 DEF LengthOverflows, AbstractPhase
  <2>3. AbstractPhase # "collecting"
    BY <1>9 DEF LengthOverflows, AbstractPhase, IInv, NotifiedWhenStopped, Registered, Waiting
  <2>4. AbstractPhase \in {"idle", "requested", "failed"}
    BY <2>3 DEF AbstractPhase
  <2>5. QED
    BY <2>1, <2>2, <2>4 DEF Barrier!Next, Barrier!Leave, Barrier!Crash, Barrier!Move
<1>10. QED
  BY <1>1, <1>2, <1>3, <1>4, <1>5, <1>6, <1>7, <1>8, <1>9 DEF ThreadStep

(* The collector's steps are the barrier's Collect, Done and Fail.         *)
LEMMA CollectorSimulation ==
    ASSUME IInv, GCWake \/ GCFinish
    PROVE  [Barrier!Next]_(Barrier!vars)
<1>0. stop \in BOOLEAN /\ poisoned \in BOOLEAN /\ gc \in GCState
  BY DEF IInv, TypeOK
<1>1. CASE GCWake
  <2>1. AbstractState' = AbstractState /\ stop' = stop /\ gc # "collecting"
    BY <1>1 DEF GCWake, AbstractState
  <2>2. CASE poisoned
    <3>1. gc' = "panicked" /\ poisoned'
      BY <1>1, <2>2 DEF GCWake
    <3>2. AbstractPhase' = AbstractPhase
      BY <2>2, <3>1 DEF AbstractPhase
    <3>3. QED
      BY <2>1, <3>2 DEF Barrier!vars
  <2>3. CASE ~poisoned /\ ~stop
    <3>1. gc' = "waiting" /\ ~poisoned'
      BY <1>1, <2>3 DEF GCWake
    <3>2. AbstractPhase' = AbstractPhase
      BY <2>1, <2>3, <3>1 DEF AbstractPhase
    <3>3. QED
      BY <2>1, <3>2 DEF Barrier!vars
  <2>4. CASE ~poisoned /\ stop /\ heapThreads = parkedThreads
    <3>1. Waiting = Registered
      BY <2>4, FiniteCounts DEF IInv, CountsAgree
    <3>2. \A t \in Thread : AbstractState[t] # "running"
      BY <3>1 DEF Waiting, Registered, AbstractState
    <3>3. AbstractPhase = "requested" /\ AbstractPhase' = "collecting"
      BY <1>1, <2>1, <2>4 DEF GCWake, AbstractPhase
    <3>4. QED
      BY <2>1, <3>2, <3>3 DEF Barrier!Next, Barrier!Collect
  <2>5. CASE ~poisoned /\ stop /\ heapThreads # parkedThreads
    <3>1. AbstractPhase = "requested" /\ AbstractPhase' = "failed"
      BY <1>1, <2>1, <2>5 DEF GCWake, AbstractPhase
    <3>2. QED
      BY <2>1, <3>1 DEF Barrier!Next, Barrier!Fail
  <2>6. QED
    BY <1>0, <2>2, <2>3, <2>4, <2>5
<1>2. CASE GCFinish
  <2>1. AbstractPhase = "collecting" /\ AbstractPhase' = "idle"
    BY <1>2 DEF IInv, PanicsPoison, GCFinish, AbstractPhase
  <2>2. AbstractState' = AbstractState
    BY <1>2 DEF GCFinish, AbstractState, IInv, TypeOK
  <2>3. QED
    BY <2>1, <2>2 DEF Barrier!Next, Barrier!Done
<1>3. QED
  BY <1>1, <1>2

(* The stop-the-world protocol implements the barrier: every step of the   *)
(* program is a step of WorldBarrier or changes nothing that it sees.      *)
THEOREM Refinement == Spec => ImplementsBarrier
<1>1. IInv /\ [Next]_vars => [Barrier!Next]_(Barrier!vars)
  <2> SUFFICES ASSUME IInv, [Next]_vars PROVE [Barrier!Next]_(Barrier!vars)
    OBVIOUS
  <2>1. CASE UNCHANGED vars
    BY <2>1 DEF vars, Barrier!vars, AbstractPhase, AbstractState
  <2>2. QED
    BY <2>1, ThreadSimulation, CollectorSimulation DEF Next
<1>2. QED
  BY <1>1, BarrierInit, Invariance, PTL DEF Spec, ImplementsBarrier, Barrier!Spec

-----------------------------------------------------------------------------
(* The collector's assertion. *)

(* A collector that waits before the first allocation is at its first lock *)
(* never again.                                                            *)
LEMMA StartedOnce ==
    ASSUME gc # "starting", [Next]_vars
    PROVE  gc' # "starting"
<1>1. ASSUME NEW t \in Thread, ThreadStep(t) PROVE gc' # "starting"
  <2>1. gc' = gc \/ NotifyGC
    BY <1>1 DEF ThreadStep, RegisterThread, UnregisterThread, SafepointCheck, SafepointPark, Allocate,
                LengthOverflows, Wake, Deallocate, PanicOnPoison, StopTheWorldInner
  <2>2. QED
    BY <2>1 DEF NotifyGC
<1>2. CASE GCWake \/ GCFinish
  BY <1>2 DEF GCWake, GCFinish
<1>3. CASE UNCHANGED vars
  BY <1>3 DEF vars
<1>4. QED
  BY <1>1, <1>2, <1>3 DEF Next

(* The assertion at the start of try_gc holds each time, in a debug build  *)
(* too, if the collector waits before the first allocation and is only     *)
(* woken by notifications: only somebody else's panic can stop it.         *)
THEOREM AssertionHolds ==
    ASSUME ~ColdStart, ~SpuriousWakeups
    PROVE  Spec => GCAssertion
<1>1. Init => gc # "starting"
  BY DEF Init
<1>2. gc # "starting" /\ [Next]_vars => (gc # "starting")'
  BY StartedOnce
<1>3. Spec => [](gc # "starting")
  BY <1>1, <1>2, PTL DEF Spec
<1>4. IInv /\ gc # "starting" /\ [Next]_vars => [GCWake /\ ~poisoned => gc' # "panicked"]_vars
  <2> SUFFICES ASSUME IInv, gc # "starting", GCWake, ~poisoned PROVE gc' # "panicked"
    OBVIOUS
  <2>1. gc = "notified"
    BY DEF GCWake
  <2>2. stop /\ Registered = Waiting
    BY <2>1 DEF IInv, NotifiedWhenStopped
  <2>3. heapThreads = parkedThreads
    BY <2>2 DEF IInv, CountsAgree
  <2>4. QED
    BY <2>2, <2>3 DEF GCWake
<1>5. QED
  BY <1>3, <1>4, Invariance, PTL DEF Spec, GCAssertion

-----------------------------------------------------------------------------
(* The loops of the interpreter. *)

(* An interpreter with loops behaves, towards the collector, like any      *)
(* mutator: what is done in a loop is a step of the protocol, or none.     *)
THEOREM LoopsFollowTheProtocol == LoopSpec => Spec
<1>1. LoopInit => Init
  BY DEF LoopInit
<1>2. [LoopNext]_loopVars => [Next]_vars
  <2>1. ASSUME LoopNext PROVE [Next]_vars
    <3>1. ASSUME NEW t \in Thread, Interpret(t) PROVE [Next]_vars
      <4>1. ThreadStep(t) \/ UNCHANGED vars
        BY <3>1 DEF Interpret, EnterLoop, LoopBody, BranchBack, LeaveLoop, ThreadStep
      <4>2. QED
        BY <2>1, <4>1 DEF LoopNext, Next
    <3>2. CASE GCWake \/ GCFinish
      BY <2>1, <3>2 DEF LoopNext, Next
    <3>3. QED
      BY <2>1, <3>1, <3>2 DEF LoopNext
  <2>2. ASSUME UNCHANGED loopVars PROVE UNCHANGED vars
    BY <2>2 DEF loopVars
  <2>3. QED
    BY <2>1, <2>2
<1>3. QED
  BY <1>1, <1>2, PTL DEF LoopSpec, Spec

(* However long a loop keeps the flag from being read, and however wrongly *)
(* the collector starts: no collection runs beside a running mutator.      *)
THEOREM LoopsKeepTheBarrier == LoopSpec => [](IInv /\ WorldStopped) /\ ImplementsBarrier
BY LoopsFollowTheProtocol, Invariance, WorldIsStopped, Refinement, PTL
=============================================================================
