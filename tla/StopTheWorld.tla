---------------------------- MODULE StopTheWorld ----------------------------
(***************************************************************************)
(* The stop-the-world protocol of src/src/vm/heap.rs: mutator threads and  *)
(* the collector thread around the HEAP mutex, the flag                    *)
(* SHOULD_STOP_THE_WORLD and the condition variables PARKED_THREADS and    *)
(* GC_THREAD.                                                              *)
(*                                                                         *)
(* The collector holds HEAP over more than one step (gc = "collecting"),   *)
(* and so does a mutator that waits for the HEAP it holds itself (pc =     *)
(* "blocked"); every other critical section of a mutator is one atomic     *)
(* action that needs the mutex to be free.  What the protocol does without *)
(* the mutex, the flag read of safepoint, is a step of its own.            *)
(***************************************************************************)
EXTENDS Naturals, FiniteSets, Functions

CONSTANTS
    Thread,           \* the mutator threads
    Main,             \* the thread that main() registers
    Threshold,        \* GC_THRESHOLD
    CounterMod,       \* alloc_count is a usize: 2^64 in the program
    MaxBatch,         \* bound: objects allocated under one lock
    MaxLive,          \* bound: objects alive or about to be allocated
    ColdStart,        \* may allocation precede the collector's first lock?
    SpuriousWakeups,  \* may Condvar::wait return without a notification?
    OverflowChecks    \* does the build panic on integer overflow (debug)?

ASSUME ThreadAssumption == IsFiniteSet(Thread) /\ Main \in Thread
ASSUME CounterAssumption ==
    /\ Threshold \in Nat \ {0}
    /\ CounterMod \in Nat \ {0}
    /\ Threshold < CounterMod
ASSUME BoundAssumption == MaxBatch \in Nat \ {0} /\ MaxLive \in Nat
ASSUME ModeAssumption ==
    ColdStart \in BOOLEAN /\ SpuriousWakeups \in BOOLEAN /\ OverflowChecks \in BOOLEAN

VARIABLES
    stop,             \* SHOULD_STOP_THE_WORLD
    heapThreads,      \* Heap.heap_threads
    parkedThreads,    \* Heap.parked_threads
    allocCount,       \* Heap.alloc_count
    live,             \* the number of objects in Heap.objects
    poisoned,         \* HEAP was unlocked by a panic
    gc,               \* where the collector thread is
    pc,               \* where each mutator is
    after             \* objects each mutator allocates once it stops waiting

vars == <<stop, heapThreads, parkedThreads, allocCount, live, poisoned, gc, pc, after>>

GCState == {"starting", "waiting", "notified", "collecting", "panicked"}

\* "armed": safepoint has read the flag as set and does not hold HEAP yet.
\* "woken": notified on PARKED_THREADS, but HEAP is not acquired again.
\* "blocked": an allocation that holds HEAP waits for HEAP.
ThreadState ==
    {"unregistered", "running", "armed", "parked", "woken", "blocked", "panicked"}

TypeOK ==
    /\ stop \in BOOLEAN
    /\ heapThreads \in Nat
    /\ parkedThreads \in Nat
    /\ allocCount \in 0..CounterMod-1
    /\ live \in Nat
    /\ poisoned \in BOOLEAN
    /\ gc \in GCState
    /\ pc \in [Thread -> ThreadState]
    /\ after \in [Thread -> 0..MaxBatch]

Init ==
    /\ stop = FALSE
    /\ heapThreads = 1
    /\ parkedThreads = 0
    /\ allocCount = 0
    /\ live = 0
    /\ poisoned = FALSE
    /\ gc = IF ColdStart THEN "starting" ELSE "waiting"
    /\ pc = [t \in Thread |-> IF t = Main THEN "running" ELSE "unregistered"]
    /\ after = [t \in Thread |-> 0]

-----------------------------------------------------------------------------
(* The mutex and the condition variables. *)

LockFree == gc # "collecting" /\ \A t \in Thread : pc[t] # "blocked"

\* HEAP.lock().expect(..) succeeds.
Acquires == LockFree /\ ~poisoned

\* GC_THREAD.notify_all(): lost unless the collector waits.
NotifyGC == gc' = IF gc = "waiting" THEN "notified" ELSE gc

GoTo(t, where) == pc' = [pc EXCEPT ![t] = where]

(* k calls of Heap::allocate_from_object, each followed by set_gc_flags.   *)
Grow(k) ==
    /\ allocCount' = (allocCount + k) % CounterMod
    /\ live' = live + k
    /\ stop' = (stop \/ \E i \in 1..k : (allocCount + i) % CounterMod >= Threshold)

(* What is left of a call that was to allocate k objects, once it holds    *)
(* HEAP and the flag is clear.  A count may be missing: an error.  One may *)
(* be negative: capacity overflow, a panic.  Both hold only until          *)
(* allocate_multiarray has allocated: after that a bad count, like a count *)
(* of zero, drops an array of references, and the drop locks HEAP.         *)
Finish(t, k) ==
    \/ GoTo(t, "running") /\ Grow(k) /\ UNCHANGED poisoned
    \/ k > 0 /\ GoTo(t, "running") /\ UNCHANGED <<stop, allocCount, live, poisoned>>
    \/ k > 0 /\ GoTo(t, "panicked") /\ poisoned' = TRUE /\ UNCHANGED <<stop, allocCount, live>>
    \/ \E j \in 1..k-1 : GoTo(t, "blocked") /\ Grow(j) /\ UNCHANGED poisoned

\* Mutation: the collector is notified one thread too early.
StopTheWorldInnerEarly(t, registered, k) ==
    /\ IF parkedThreads + 2 >= registered THEN NotifyGC ELSE UNCHANGED gc
    /\ IF stop
       THEN /\ GoTo(t, "parked")
            /\ after' = [after EXCEPT ![t] = k]
            /\ parkedThreads' = parkedThreads + 1
            /\ UNCHANGED <<stop, allocCount, live, poisoned>>
       ELSE /\ Finish(t, k)
            /\ UNCHANGED <<after, parkedThreads>>

(* The first half of stop_the_world_inner, up to the first test of         *)
(* PARKED_THREADS.wait_while: if the flag has been cleared meanwhile the   *)
(* count is restored and the thread goes on under the same lock.           *)
StopTheWorldInner(t, registered, k) ==
    /\ IF parkedThreads + 1 >= registered THEN NotifyGC ELSE UNCHANGED gc
    /\ IF stop
       THEN /\ GoTo(t, "parked")
            /\ after' = [after EXCEPT ![t] = k]
            /\ parkedThreads' = parkedThreads + 1
            /\ UNCHANGED <<stop, allocCount, live, poisoned>>
       ELSE /\ Finish(t, k)
            /\ UNCHANGED <<after, parkedThreads>>

-----------------------------------------------------------------------------
(* The mutators. *)

\* Mutation: a thread that registers while the world stops is not counted.
RegisterThreadUncounted(t) ==
    /\ pc[t] = "unregistered"
    /\ Acquires
    /\ IF stop
       THEN StopTheWorldInner(t, heapThreads + 1, 0) /\ heapThreads' = heapThreads + 1
       ELSE /\ GoTo(t, "running")
            /\ UNCHANGED <<stop, heapThreads, parkedThreads, allocCount, live, poisoned, gc, after>>

RegisterThread(t) ==
    /\ pc[t] = "unregistered"
    /\ Acquires
    /\ heapThreads' = heapThreads + 1
    /\ IF stop
       THEN StopTheWorldInner(t, heapThreads + 1, 0)
       ELSE /\ GoTo(t, "running")
            /\ UNCHANGED <<stop, parkedThreads, allocCount, live, poisoned, gc, after>>

\* Mutation: the last thread to leave does not notify the collector.
UnregisterThreadSilently(t) ==
    /\ pc[t] = "running"
    /\ t # Main
    /\ Acquires
    /\ heapThreads' = heapThreads - 1
    /\ GoTo(t, "unregistered")
    /\ UNCHANGED <<stop, parkedThreads, allocCount, live, poisoned, gc, after>>

\* main() never unregisters: it ends with the process.
UnregisterThread(t) ==
    /\ pc[t] = "running"
    /\ t # Main
    /\ Acquires
    /\ heapThreads' = heapThreads - 1
    /\ GoTo(t, "unregistered")
    /\ IF stop /\ parkedThreads >= heapThreads - 1 THEN NotifyGC ELSE UNCHANGED gc
    /\ UNCHANGED <<stop, parkedThreads, allocCount, live, poisoned, after>>

\* The read of the flag in safepoint, taken without the mutex.
SafepointCheck(t) ==
    /\ pc[t] = "running"
    /\ stop
    /\ GoTo(t, "armed")
    /\ UNCHANGED <<stop, heapThreads, parkedThreads, allocCount, live, poisoned, gc, after>>

SafepointPark(t) ==
    /\ pc[t] = "armed"
    /\ Acquires
    /\ StopTheWorldInner(t, heapThreads, 0)
    /\ UNCHANGED heapThreads

\* The bound MaxLive: objects that parked threads will allocate count too.
RoomFor(k) == live + FoldFunction(+, 0, after) + k <= MaxLive

\* allocate and allocate_array (k = 1), allocate_multiarray (k >= 1).
Allocate(t, k) ==
    /\ pc[t] = "running"
    /\ Acquires
    /\ RoomFor(k)
    /\ IF stop
       THEN StopTheWorldInner(t, heapThreads, k)
       ELSE Finish(t, k) /\ UNCHANGED <<parkedThreads, gc, after>>
    /\ UNCHANGED heapThreads

\* count * size of allocate_array, before HEAP is locked: checked in debug builds.
LengthOverflows(t) ==
    /\ OverflowChecks
    /\ pc[t] = "running"
    /\ GoTo(t, "panicked")
    /\ UNCHANGED <<stop, heapThreads, parkedThreads, allocCount, live, poisoned, gc, after>>

\* Mutation: parked_threads is not decremented after the wait.
WakeStillCounted(t) ==
    /\ pc[t] = "woken" \/ (SpuriousWakeups /\ pc[t] = "parked")
    /\ Acquires
    /\ IF stop
       THEN GoTo(t, "parked") /\ UNCHANGED <<stop, allocCount, live, poisoned, after>>
       ELSE Finish(t, after[t]) /\ after' = [after EXCEPT ![t] = 0]
    /\ UNCHANGED <<heapThreads, parkedThreads, gc>>

\* PARKED_THREADS.wait_while: HEAP is acquired again and the flag tested.
Wake(t) ==
    /\ pc[t] = "woken" \/ (SpuriousWakeups /\ pc[t] = "parked")
    /\ Acquires
    /\ IF stop
       THEN /\ GoTo(t, "parked")
            /\ UNCHANGED <<stop, allocCount, live, poisoned, parkedThreads, after>>
       ELSE /\ parkedThreads' = parkedThreads - 1
            /\ Finish(t, after[t])
            /\ after' = [after EXCEPT ![t] = 0]
    /\ UNCHANGED <<heapThreads, gc>>

(* ObjectRef::drop of an object that only the heap still refers to.  The   *)
(* decrement of alloc_count is checked in debug builds and wraps in        *)
(* release builds.                                                         *)
Deallocate(t) ==
    /\ pc[t] = "running"
    /\ Acquires
    /\ live > 0
    /\ live' = live - 1
    /\ IF OverflowChecks /\ allocCount = 0
       THEN poisoned' = TRUE /\ GoTo(t, "panicked") /\ UNCHANGED allocCount
       ELSE /\ allocCount' = (allocCount + CounterMod - 1) % CounterMod
            /\ UNCHANGED <<poisoned, pc>>
    /\ UNCHANGED <<stop, heapThreads, parkedThreads, gc, after>>

\* Any acquisition of a poisoned HEAP fails its expect.
PanicOnPoison(t) ==
    /\ LockFree /\ poisoned
    /\ pc[t] \in {"unregistered", "running", "armed", "woken"} \/ (SpuriousWakeups /\ pc[t] = "parked")
    /\ GoTo(t, "panicked")
    /\ UNCHANGED <<stop, heapThreads, parkedThreads, allocCount, live, poisoned, gc, after>>

-----------------------------------------------------------------------------
(* The collector. *)

\* Mutation: try_gc without its assert_eq.
GCWakeUnchecked ==
    /\ gc \in {"starting", "notified"} \/ (SpuriousWakeups /\ gc = "waiting")
    /\ LockFree
    /\ gc' = IF poisoned THEN "panicked" ELSE IF ~stop THEN "waiting" ELSE "collecting"
    /\ poisoned' = (gc' = "panicked")
    /\ UNCHANGED <<stop, heapThreads, parkedThreads, allocCount, live, pc, after>>

\* GC_THREAD.wait_while tests the flag, and try_gc starts with its assert_eq.
GCWake ==
    /\ gc \in {"starting", "notified"} \/ (SpuriousWakeups /\ gc = "waiting")
    /\ LockFree
    /\ gc' = IF poisoned THEN "panicked"
             ELSE IF ~stop THEN "waiting"
             ELSE IF heapThreads = parkedThreads THEN "collecting"
             ELSE "panicked"
    /\ poisoned' = (gc' = "panicked")
    /\ UNCHANGED <<stop, heapThreads, parkedThreads, allocCount, live, pc, after>>

\* Mutation: PARKED_THREADS.notify_one().
GCFinishNotifyOne ==
    /\ gc = "collecting"
    /\ gc' = "waiting"
    /\ stop' = FALSE
    /\ IF allocCount >= Threshold
       THEN allocCount' = 0 /\ \E survivors \in 0..live : live' = survivors
       ELSE UNCHANGED <<allocCount, live>>
    /\ \/ \E t \in Thread : pc[t] = "parked" /\ GoTo(t, "woken")
       \/ (\A t \in Thread : pc[t] # "parked") /\ UNCHANGED pc
    /\ UNCHANGED <<heapThreads, parkedThreads, poisoned, after>>

\* The rest of the loop: the sweep, the flag, PARKED_THREADS.notify_all().
GCFinish ==
    /\ gc = "collecting"
    /\ gc' = "waiting"
    /\ stop' = FALSE
    /\ IF allocCount >= Threshold
       THEN allocCount' = 0 /\ \E survivors \in 0..live : live' = survivors
       ELSE UNCHANGED <<allocCount, live>>
    /\ pc' = [t \in Thread |-> IF pc[t] = "parked" THEN "woken" ELSE pc[t]]
    /\ UNCHANGED <<heapThreads, parkedThreads, poisoned, after>>

-----------------------------------------------------------------------------
\* A panic of the main thread ends the process.
ProcessAlive == pc[Main] # "panicked"

ThreadStep(t) ==
    \/ RegisterThread(t)
    \/ UnregisterThread(t)
    \/ SafepointCheck(t)
    \/ SafepointPark(t)
    \/ \E k \in 1..MaxBatch : Allocate(t, k)
    \/ LengthOverflows(t)
    \/ Wake(t)
    \/ Deallocate(t)
    \/ PanicOnPoison(t)

Next ==
    /\ ProcessAlive
    /\ \/ \E t \in Thread : ThreadStep(t)
       \/ GCWake
       \/ GCFinish

Spec == Init /\ [][Next]_vars

(* A thread that waits for the mutex gets it if it stays free, and a       *)
(* collector that was notified is scheduled, while the process lives.      *)
(* Nobody can count on a spurious wakeup, nor on a mutator reaching a      *)
(* safepoint: backward branches have none (mod.rs:1193).                   *)
Fairness ==
    /\ \A t \in Thread :
          /\ WF_vars(ProcessAlive /\ SafepointPark(t))
          /\ WF_vars(ProcessAlive /\ pc[t] = "woken" /\ (Wake(t) \/ PanicOnPoison(t)))
    /\ WF_vars(ProcessAlive /\ gc # "waiting" /\ GCWake)
    /\ WF_vars(ProcessAlive /\ GCFinish)

FairSpec == Spec /\ Fairness

-----------------------------------------------------------------------------
(* Properties. *)

Registered == {t \in Thread : pc[t] # "unregistered"}
Waiting == {t \in Thread : pc[t] \in {"parked", "woken"}}

(* The two counters that try_gc compares are the number of registered and  *)
(* of waiting threads, as long as nobody has panicked under the lock.      *)
CountsAgree ==
    ~poisoned => /\ heapThreads = Cardinality(Registered)
                 /\ parkedThreads = Cardinality(Waiting)

(* While try_gc runs no registered mutator executes: each one waits on     *)
(* PARKED_THREADS, whatever it did before (heap.rs:197 "world should be    *)
(* stopped first").                                                        *)
WorldStopped ==
    gc = "collecting" => \A t \in Thread : pc[t] \in {"unregistered", "parked", "woken"}

(* safepoint tests the flag before it takes the mutex; the flag cannot be  *)
(* cleared in between, so the thread really parks and is counted.          *)
ArmedSeesStop ==
    ~poisoned => \A t \in Thread : pc[t] = "armed" => stop

(* When the last running thread has parked or left, the collector has been *)
(* notified: the notifications of stop_the_world_inner and                 *)
(* unregister_thread are never both missed.                                *)
NoMissedSignal ==
    (~poisoned /\ stop /\ parkedThreads >= heapThreads)
        => gc \in {"starting", "notified", "collecting"}

(* Once the collector is notified, every registered mutator waits and the  *)
(* flag stays set, so its assertion can only succeed.                      *)
NotifiedWhenStopped ==
    (~poisoned /\ gc \in {"notified", "collecting"})
        => stop /\ Registered = Waiting

(* The collector panics under the lock only, which poisons it, and a panic *)
(* under the lock never happens in the middle of a collection.             *)
PanicsPoison ==
    /\ ~poisoned => gc # "panicked"
    /\ gc = "collecting" => ~poisoned

(* The inductive invariant.  It holds for every build and every start.     *)
IInv ==
    /\ TypeOK
    /\ CountsAgree
    /\ PanicsPoison
    /\ NotifiedWhenStopped
    /\ ArmedSeesStop
    /\ NoMissedSignal

(* The collector's own assertion holds each time try_gc is entered         *)
(* (heap.rs:183-186).                                                      *)
GCAssertion == [][GCWake /\ ~poisoned => gc' # "panicked"]_vars

(* A parked mutator is not forgotten: it stays blocked only while the      *)
(* world is stopped again and again, unless the process ends or an         *)
(* allocation waits for the HEAP it holds (heap.rs:103 and 111).           *)
NoLostWakeup ==
    \/ <>(~ProcessAlive \/ \E t \in Thread : pc[t] = "blocked")
    \/ \A t \in Thread : []<>stop \/ []<>(pc[t] \notin {"parked", "woken"})

(* What the protocol promises, abstractly. *)
AbstractPhase ==
    IF poisoned THEN "failed"
    ELSE IF gc = "collecting" THEN "collecting"
    ELSE IF stop THEN "requested"
    ELSE "idle"

AbstractState ==
    [t \in Thread |-> IF pc[t] \in {"running", "armed", "blocked"} THEN "running"
                      ELSE IF pc[t] \in {"parked", "woken"} THEN "stopped"
                      ELSE "out"]

Barrier == INSTANCE WorldBarrier WITH phase <- AbstractPhase, state <- AbstractState

ImplementsBarrier == Barrier!Spec
=============================================================================
