----------------------------- MODULE ObjectHeap -----------------------------
(***************************************************************************)
(* Reference counting of heap objects: ObjectRef and its Drop in           *)
(* src/src/vm/heap.rs, JVMSlot and the instructions that move references   *)
(* in src/src/vm/mod.rs.                                                   *)
(*                                                                         *)
(* A mutator holds references on its operand stack and in its locals       *)
(* (held).  An instruction is a list of tasks; each task is one step, so   *)
(* that two mutators interleave where the code takes no lock.  A drop is   *)
(* three steps: the count is read, HEAP is locked and the count read       *)
(* again, and the Arc is released; releasing the last reference drops the  *)
(* references in the object's slots in turn.                               *)
(*                                                                         *)
(* A collection happens between instructions of all mutators (module       *)
(* StopTheWorld) and frees what is unreachable (module TrialDeletion); it  *)
(* may happen at any such time here, whatever alloc_count says.            *)
(***************************************************************************)
EXTENDS Naturals, Sequences, FiniteSets, FiniteSetsExt, SequencesExt

CONSTANTS
    Thread,      \* the mutators
    Object,      \* the addresses objects may have
    Null,        \* JVMSlot::null()
    Static,      \* a static field: a slot outside the heap
    MaxHeld,     \* bound: references one mutator holds
    RaceFree     \* do two mutators never use the same slot at once?

ASSUME NamesAssumption ==
    /\ IsFiniteSet(Thread) /\ IsFiniteSet(Object)
    /\ Null \notin Object /\ Static \notin Object /\ Null # Static
ASSUME BoundAssumption == MaxHeld \in Nat /\ RaceFree \in BOOLEAN

VARIABLES
    slot,        \* the slot of each object (one is enough) and of Static
    strong,      \* Arc::strong_count, 0 when the object is not allocated
    objects,     \* Heap.objects
    held,        \* how many references to each object each mutator holds
    work,        \* what is left of each mutator's instruction
    panicked     \* "Failed to deallocate an object"

vars == <<slot, strong, objects, held, work, panicked>>

Place == Object \cup {Static}

(* read, take, store: accesses to the slot of `at'.  clone: the reference  *)
(* read from `at', not counted yet.  drop, lock, release: ObjectRef::drop. *)
Task == [op : {"read", "clone", "take", "store", "drop", "lock", "release"},
         obj : Object \cup {Null}, at : Place \cup {Null}]

Accesses == {"read", "clone", "take", "store"}

task(op, obj, at) == [op |-> op, obj |-> obj, at |-> at]

TypeOK ==
    /\ slot \in [Place -> Object \cup {Null}]
    /\ strong \in [Object -> Nat]
    /\ objects \subseteq Object
    /\ held \in [Thread -> [Object -> Nat]]
    /\ work \in [Thread -> Seq(Task)]
    /\ panicked \in BOOLEAN

Init ==
    /\ slot = [p \in Place |-> Null]
    /\ strong = [o \in Object |-> 0]
    /\ objects = {}
    /\ held = [t \in Thread |-> [o \in Object |-> 0]]
    /\ work = [t \in Thread |-> <<>>]
    /\ panicked = FALSE

-----------------------------------------------------------------------------
Holding(t) == {o \in Object : held[t][o] > 0}

Room(t) == MapThenSumSet(LAMBDA o : held[t][o], Object) < MaxHeld

\* A slot that another mutator's instruction has not finished with.
InUse(t, p) ==
    \E u \in Thread \ {t} : \E i \in DOMAIN work[u] :
        work[u][i].at = p /\ work[u][i].op \in Accesses

MayAccess(t, p) == RaceFree => ~InUse(t, p)

Begin(t, tasks) == work[t] = <<>> /\ work' = [work EXCEPT ![t] = tasks]

Take(t, o) == held' = [held EXCEPT ![t][o] = @ - 1]
Push(t, o) == held' = [held EXCEPT ![t][o] = @ + 1]

-----------------------------------------------------------------------------
(* The instructions. *)

\* Mutation: the new object is not inserted into the heap's set.
NewUnlisted(t, o) ==
    /\ work[t] = <<>>
    /\ strong[o] = 0 /\ o \notin objects
    /\ Room(t)
    /\ strong' = [strong EXCEPT ![o] = 2]
    /\ slot' = [slot EXCEPT ![o] = Null]
    /\ Push(t, o)
    /\ UNCHANGED <<objects, work, panicked>>

\* New, NewArray, ..: Heap::allocate_from_object, under the lock.
New(t, o) ==
    /\ work[t] = <<>>
    /\ strong[o] = 0 /\ o \notin objects
    /\ Room(t)
    /\ strong' = [strong EXCEPT ![o] = 2]
    /\ objects' = objects \cup {o}
    /\ slot' = [slot EXCEPT ![o] = Null]
    /\ Push(t, o)
    /\ UNCHANGED <<work, panicked>>

\* Aload, Dup: the reference is cloned.
Dup(t, o) ==
    /\ work[t] = <<>>
    /\ o \in Holding(t)
    /\ Room(t)
    /\ strong' = [strong EXCEPT ![o] = @ + 1]
    /\ Push(t, o)
    /\ UNCHANGED <<slot, objects, work, panicked>>

\* A stack slot or a local is overwritten, truncated or consumed.
Pop(t, o) ==
    /\ o \in Holding(t)
    /\ Take(t, o)
    /\ Begin(t, <<task("drop", o, Null)>>)
    /\ UNCHANGED <<slot, strong, objects, panicked>>

\* GetField, AALoad: the reference to p is dropped at the end.
GetField(t, p) ==
    /\ p \in Holding(t)
    /\ MayAccess(t, p)
    /\ Take(t, p)
    /\ Begin(t, <<task("read", Null, p), task("drop", p, Null)>>)
    /\ UNCHANGED <<slot, strong, objects, panicked>>

GetStatic(t) ==
    /\ MayAccess(t, Static)
    /\ Room(t)
    /\ Begin(t, <<task("read", Null, Static)>>)
    /\ UNCHANGED <<slot, strong, objects, held, panicked>>

\* PutField, AAStore of the reference v: the old one is dropped in place.
PutField(t, p, v) ==
    /\ p \in Holding(t)
    /\ v \in Holding(t) \cup {Null}
    /\ v = p => held[t][p] > 1
    /\ MayAccess(t, p)
    /\ held' = [held EXCEPT ![t] = [o \in Object |->
          @[o] - (IF o = p THEN 1 ELSE 0) - (IF o = v THEN 1 ELSE 0)]]
    /\ Begin(t, <<task("take", Null, p), task("store", v, p), task("drop", p, Null)>>)
    /\ UNCHANGED <<slot, strong, objects, panicked>>

PutStatic(t, v) ==
    /\ v \in Holding(t) \cup {Null}
    /\ MayAccess(t, Static)
    /\ IF v = Null THEN UNCHANGED held ELSE Take(t, v)
    /\ Begin(t, <<task("take", Null, Static), task("store", v, Static)>>)
    /\ UNCHANGED <<slot, strong, objects, panicked>>

-----------------------------------------------------------------------------
(* Their steps. *)

Doing(t, op) == work[t] # <<>> /\ Head(work[t]).op = op

Now(t) == Head(work[t])

Continue(t, tasks) == work' = [work EXCEPT ![t] = tasks \o Tail(@)]

\* JVMSlot::with_object: the pointer is copied out of the slot ..
Read(t) ==
    /\ Doing(t, "read")
    /\ LET p == Now(t).at IN
       Continue(t, IF slot[p] = Null THEN <<>> ELSE <<task("clone", slot[p], p)>>)
    /\ UNCHANGED <<slot, strong, objects, held, panicked>>

\* Mutation: the reference read from a slot is pushed without being cloned.
CloneUncounted(t) ==
    /\ Doing(t, "clone")
    /\ Push(t, Now(t).obj)
    /\ Continue(t, <<>>)
    /\ UNCHANGED <<slot, strong, objects, panicked>>

\* .. and the count of what it points to is incremented.
Clone(t) ==
    /\ Doing(t, "clone")
    /\ strong' = [strong EXCEPT ![Now(t).obj] = @ + 1]
    /\ Push(t, Now(t).obj)
    /\ Continue(t, <<>>)
    /\ UNCHANGED <<slot, objects, panicked>>

\* JVMSlot::drop leaves null in the slot and then drops the reference.
TakeOld(t) ==
    /\ Doing(t, "take")
    /\ LET p == Now(t).at IN
       /\ slot' = [slot EXCEPT ![p] = Null]
       /\ Continue(t, IF slot[p] = Null THEN <<>> ELSE <<task("drop", slot[p], Null)>>)
    /\ UNCHANGED <<strong, objects, held, panicked>>

Store(t) ==
    /\ Doing(t, "store")
    /\ slot' = [slot EXCEPT ![Now(t).at] = Now(t).obj]
    /\ Continue(t, <<>>)
    /\ UNCHANGED <<strong, objects, held, panicked>>

\* ObjectRef::drop reads the count without the lock.
DropCheck(t) ==
    /\ Doing(t, "drop")
    /\ LET o == Now(t).obj IN
       Continue(t, <<task(IF strong[o] = 2 THEN "lock" ELSE "release", o, Null)>>)
    /\ UNCHANGED <<slot, strong, objects, held, panicked>>

\* With the lock it reads the count again and takes the object off the heap.
DropLocked(t) ==
    /\ Doing(t, "lock")
    /\ LET o == Now(t).obj IN
       IF strong[o] = 2
       THEN /\ objects' = objects \ {o}
            /\ strong' = [strong EXCEPT ![o] = IF o \in objects THEN 1 ELSE @]
            /\ panicked' = (panicked \/ o \notin objects)
       ELSE UNCHANGED <<objects, strong, panicked>>
    /\ Continue(t, <<task("release", Now(t).obj, Null)>>)
    /\ UNCHANGED <<slot, held>>

\* Dropping the Arc; the last one frees the object and drops its slots.
Release(t) ==
    /\ Doing(t, "release")
    /\ LET o == Now(t).obj
           frees == strong[o] = 1 /\ slot[o] # Null
       IN /\ strong' = [strong EXCEPT ![o] = IF @ = 0 THEN 0 ELSE @ - 1]
          /\ slot' = IF frees THEN [slot EXCEPT ![o] = Null] ELSE slot
          /\ Continue(t, IF frees THEN <<task("drop", slot[o], Null)>> ELSE <<>>)
    /\ UNCHANGED <<objects, held, panicked>>

-----------------------------------------------------------------------------
(* A collection, when every mutator waits between two instructions. *)

\* Mutation: static fields are not roots.
RootsOfThreads == UNION {Holding(t) : t \in Thread}

Roots == {slot[Static]} \cup UNION {Holding(t) : t \in Thread}

Reachable ==
    {o \in Object : \A S \in SUBSET Object :
        (Roots \ {Null} \subseteq S /\ \A p \in S : slot[p] \in S \cup {Null}) => o \in S}

Collect ==
    /\ \A t \in Thread : work[t] = <<>>
    /\ LET garbage == objects \ Reachable IN
       /\ garbage # {}
       /\ objects' = objects \ garbage
       /\ slot' = [p \in Place |-> IF p \in garbage THEN Null ELSE slot[p]]
       /\ strong' = [o \in Object |->
             IF o \in garbage THEN 0
             ELSE strong[o] - Cardinality({g \in garbage : slot[g] = o})]
    /\ UNCHANGED <<held, work, panicked>>

Instruction(t) ==
    \/ \E o \in Object : New(t, o) \/ Dup(t, o) \/ Pop(t, o) \/ GetField(t, o)
    \/ GetStatic(t)
    \/ \E p \in Object, v \in Object \cup {Null} : PutField(t, p, v)
    \/ \E v \in Object \cup {Null} : PutStatic(t, v)

Step(t) ==
    \/ Read(t) \/ Clone(t) \/ TakeOld(t) \/ Store(t)
    \/ DropCheck(t) \/ DropLocked(t) \/ Release(t)

Next == (\E t \in Thread : Instruction(t) \/ Step(t)) \/ Collect

Spec == Init /\ [][Next]_vars

-----------------------------------------------------------------------------
(* Properties. *)

\* The reference that a task owns: what it will store, or is dropping.
Owns(x, o) == x.op \in {"store", "drop", "lock", "release"} /\ x.obj = o

(* The references to o that unfinished instructions own (by the number of  *)
(* the task from the end of its list), that mutators hold, and in slots.   *)
TaskRefs(o) ==
    UNION {{t} \X {i \in 1..Len(work[t]) : Owns(work[t][Len(work[t]) + 1 - i], o)} : t \in Thread}
HeldRefs(o) == UNION {{t} \X (1..held[t][o]) : t \in Thread}
SlotRefs(o) == {p \in Place : slot[p] = o}

References(o) == Cardinality(TaskRefs(o)) + Cardinality(HeldRefs(o)) + Cardinality(SlotRefs(o))

(* Every reference is counted, and nothing else: the strong count of an    *)
(* object is the number of references on stacks, in slots and in unfinished *)
(* instructions, plus one while the heap lists the object.                 *)
StrongExact ==
    \A o \in Object :
        strong[o] = References(o) + (IF o \in objects THEN 1 ELSE 0)

(* Whatever is referred to, or has been read from a slot, is still         *)
(* allocated (heap.rs:372 "As long as this reference is accessible the     *)
(* object should be available and safe to access").                        *)
NoUseAfterFree ==
    \A o \in Object :
        (References(o) > 0 \/ \E t \in Thread : \E i \in DOMAIN work[t] :
                                work[t][i].op = "clone" /\ work[t][i].obj = o)
            => strong[o] > 0

(* ObjectRef::drop always finds the object it takes off the heap, although *)
(* it decided to look for it before it had the lock; and an allocated      *)
(* object that no unfinished drop is taking apart is in the set that the   *)
(* collector goes through: nothing escapes collection.                     *)
TakeSucceeds ==
    /\ ~panicked
    /\ \A o \in Object :
          (strong[o] > 0 /\ TaskRefs(o) = {}) => o \in objects

-----------------------------------------------------------------------------
(* Why they hold: an inductive invariant. *)

(* Only the first task of an instruction is under way; the others store or *)
(* drop.  An instruction accesses one place, and until the end it owns a   *)
(* reference to the object that the place is a slot of.                    *)
Orderly(w) ==
    /\ \A i \in DOMAIN w :
          /\ w[i].op \notin {"store", "drop"} => i = 1
          /\ w[i].op \in {"clone", "drop", "lock", "release"} => w[i].obj \in Object
          /\ w[i].op \in Accesses => w[i].at \in Place
          /\ (w[i].op \in Accesses /\ w[i].at \in Object) =>
                 i < Len(w) /\ w[Len(w)] = task("drop", w[i].at, Null)
    /\ \A i, j \in DOMAIN w :
          /\ (w[i].op \in Accesses /\ w[j].op \in Accesses) => w[i].at = w[j].at
          /\ (w[i].op = "store" /\ w[j].op = "store") => i = j

WorkOrderly == \A t \in Thread : Orderly(work[t])

(* Two instructions never access the same place. *)
Exclusive ==
    \A t, u \in Thread : \A i \in DOMAIN work[t], j \in DOMAIN work[u] :
        (t # u /\ work[t][i].op \in Accesses /\ work[u][j].op \in Accesses)
            => work[t][i].at # work[u][j].at

(* What was read from a slot is still there, and what is stored does not   *)
(* replace a reference.                                                    *)
SlotsCurrent ==
    \A t \in Thread :
        /\ Doing(t, "clone") => slot[Now(t).at] = Now(t).obj
        /\ \A i \in DOMAIN work[t] :
              (work[t][i].op = "store" /\ ~Doing(t, "take")) => slot[work[t][i].at] = Null

(* An object that was taken off the heap is down to the reference that is  *)
(* being released; a freed one has dropped what it referred to.            *)
UnlistedReleasing ==
    \A o \in Object \ objects : strong[o] # 0 =>
        strong[o] = 1 /\ \E t \in Thread : Doing(t, "release") /\ Now(t).obj = o

FreedEmpty == \A o \in Object : strong[o] = 0 => slot[o] = Null

RefsFinite == \A o \in Object : IsFiniteSet(TaskRefs(o)) /\ IsFiniteSet(HeldRefs(o))

IInv ==
    /\ TypeOK
    /\ StrongExact
    /\ WorkOrderly
    /\ Exclusive
    /\ SlotsCurrent
    /\ UnlistedReleasing
    /\ FreedEmpty
    /\ RefsFinite
    /\ ~panicked
=============================================================================
