# janadiniteJVM: a verification development

janadiniteJVM is a small JVM written in Rust: it parses class files, loads and
initialises classes on demand, interprets their bytecode and manages objects
with reference counts, backed by a stop-the-world cycle collector. This
directory holds TLA+ models of the parts of it that are hard to get right, the
TLC configurations that check them on small instances, and TLAPS proofs, for
instances of any size, about all of them: stopping the world, the collection,
reference counts, arrays, the class loader, class layout and dispatch, frames, and
the way from a class file to the constants its code uses. Every invariant a
passing run checks is also a theorem.

Source paths below are relative to `src/`: `heap.rs`, `mod.rs` and `vm/class.rs`
are in `src/vm/`, the parser is in `janadinite-parse/src/`. `PROJECT.json`
lists, for every definition that models code, the file and lines it models.

## 1. Inventory

### 1.1 Components

| component | state | operations | modelled in |
|---|---|---|---|
| stop-the-world protocol (`heap.rs`) | mutex `HEAP` with `alloc_count`, `heap_threads`, `parked_threads`; the flag `SHOULD_STOP_THE_WORLD`; condition variables `PARKED_THREADS`, `GC_THREAD` | `gc_thread`, `register_thread`, `unregister_thread`, `safepoint`, every allocation, the locked half of `ObjectRef::drop` | `StopTheWorld`, `WorldBarrier`, `HotLoop` |
| cycle collection (`heap.rs:182`) | `objects`, `unreachable`, each object's `gc_refs` and slots | the passes of `try_gc` | `TrialDeletion`, `Collection` |
| object references (`heap.rs:372`, `mod.rs:40`) | `Arc` strong counts, the slots of objects, statics, stacks and locals | `ObjectRef::drop`, `JVMSlot::{with_object, clone, drop}`, the instructions that move references | `ObjectHeap` |
| multi-dimensional arrays (`heap.rs:89`, `mod.rs:1240`) | the array under construction, the heap, the operand stack of counts | `allocate_multiarray`, `Object::new_array`, `clone_unchecked`, the instructions that index arrays | `MultiArray` |
| class loader (`mod.rs:508`) | `loaded_classes` behind a `RwLock`, each thread's calls | `with_class_or_load_by_name`, `load_class_by_name`, running `<clinit>` | `ClassLoader` |
| class layout and resolution (`vm/class.rs:547`, `mod.rs:664`) | vtables, static method tables, field tables | `VMClass::create`, lookups by name and by index, the invocation and field instructions | `ClassLayout` |
| thread context (`mod.rs:172`) | one vector of operands, one of locals, the frames | push and pop of frames and slots, loads, stores, `dup` | `ThreadContext`, `FrameStack` |
| interpreter loop (`mod.rs:876`) | program counter, through the components above | `run_code` | `Program` (program counter, branches, constants), `HotLoop`, and the components' own modules |
| constant pool table (`class/raw.rs:262`) | the table being decoded, the `u16` index | `decode_from`, `encode_into` | `ConstantPool` |
| class file parser (`class.rs:679`) | what has been parsed so far | `Class::decode`, attributes, methods, fields, descriptors | `ClassFile`, `Descriptors` |
| run-time constant pool (`vm/class.rs:180`, `mod.rs:582`) | the entries translated so far | `from_unresolved`, the lookups of constants, classes, arrays, methods and fields | `RuntimePool` |
| instruction stream, opcode macro (`class.rs:550`, `macros/`) | `pc` | `next_op`, `set_pc`, `custom_decode`, the generated decoder | `InstructionStream` |
| byte readers and writers (`io.rs`), errors (`error.rs`) | a byte slice or file | reads and writes | not modelled |
| command line (`main.rs`) | none | starts the collector, runs `main` | the start of `StopTheWorld` |

### 1.2 How they interact

* Every mutator calls into the heap for allocations, for `safepoint` at each
  invocation (`mod.rs:898`, `mod.rs:923`), and for every drop of an object's last
  reference. The collector thread is woken through `GC_THREAD` and wakes the
  mutators through `PARKED_THREADS`; both condition variables share the mutex
  `HEAP`. The flag is also read without the mutex.
* `try_gc` relies on the protocol for exclusive access to every slot, and on the
  exactness of the strong counts that the mutators maintain without `HEAP`.
* The interpreter asks the class loader for classes by name; the loader calls
  the interpreter back to run `<clinit>`, which may load further classes.
* `VMClass::create` copies the superclass's tables, so the loader must have
  loaded the superclass first; method and field indices outlive the lookup in
  the `OnceLock` caches of the run-time constant pool.
* A class goes through four stages before a method runs: table of constants,
  parsed class, run-time constant pool, instructions. Each relies on checks
  that the stages before it made, and panics where it finds them missing.

### 1.3 What is hard here

Threads that park, leave and join around a condition variable whose
notification is lost if nobody waits; a flag read outside the lock; a reference
count read outside the lock and acted on inside it; dropping references while
holding the lock that a drop takes; a rescue pass in hash-set order; a lock
given up in the middle of a recursive load; indices that count in one table and
are used in another; two vectors shared by all frames; panics and errors while a lock is held;
lookups that `expect` what was checked three stages earlier; a program counter
moved by hand beside the reader it belongs to. The list with its lines
is `hazards` in `PROJECT.json`.

## 2. The modules

Each module has one action for each operation of its component. Where a module
contains operators preceded by `Mutation:`, these are plausible bugs of the
operation they stand beside; none is part of a specification, and each one shows
that some property would notice it.

**StopTheWorld** has the three threads-and-locks actors. A mutator's critical
section of `HEAP` is one atomic step that needs the mutex to be free;
only the collector holds it for longer (`gc = "collecting"`), and a mutator that
waits for the mutex it holds itself (`pc[t] = "blocked"`). `pc[t] = "armed"`
is the window in `safepoint` between the read of the flag and the lock;
`"woken"` is the window between a notification and the reacquisition of the mutex;
`after[t]` is the allocation that waits behind `stop_the_world_inner`.
An allocation may fail (`Finish`): a missing count is an error, a negative one a
panic with the mutex held, and after the first objects of a multi-dimensional array
either of them, like a zero count, makes the thread wait for itself (`MultiArray`
says when). `LengthOverflows` is the panic of a debug build before the lock.
A panic with the mutex held sets `poisoned`, and any later `lock().expect`
panics. Three constants select what the environment may do: `ColdStart` (the
mutators may run before the collector thread first takes `HEAP`),
`SpuriousWakeups` and `OverflowChecks` (debug build).

**WorldBarrier** is the abstract promise: a collection begins only when nobody
runs and nobody resumes before its end; after a panic under the lock there is
never a collection again. `ImplementsBarrier` is the refinement mapping, in
`StopTheWorld`.

**HotLoop** extends `StopTheWorld` with the loops of `run_code`, in which no
safepoint lies on a backward branch.

**TrialDeletion** takes `try_gc` pass by pass and object by object, in any
order, starting from any heap graph. `dropUnderLock` records an object that is
freed while its slots still hold references, which would lock `HEAP` again.
**Collection** is its abstract promise: only unreachable objects are freed, and
all of them by the end.

**ObjectHeap** has the instructions that move references, each as a list of
steps, so that two mutators interleave exactly where the code takes no lock:
`with_object` copies the pointer and then increments the count;
`ObjectRef::drop` reads the count, locks, reads it again, and releases the `Arc`
after unlocking. The collection is one step here, justified by
`TrialDeletion` (what it does) and `StopTheWorld` (when it happens). An object
has one slot. `work[t]` is what is left of the instruction that thread `t`
executes, one task for each reference it has to move; the task of a drop turns
from `drop` (the count is to be read) into `lock` (it was 2) or `release`, and from
`lock` into `release`. A reference is something one can count: a task that owns
one, a place on a stack, a slot (`TaskRefs`, `HeldRefs`, `SlotRefs`).

**MultiArray** is `allocate_multiarray`, dimension by dimension, for counts that are
positive, zero, negative or missing and for the three kinds of element the
instruction tells apart; and the slots that the array instructions then
reach with any `i32` index. `BadDimension` ends the call with an error or with a
panic under the lock; `Relocks` is the drop of an array whose slots still hold
references, which locks `HEAP` again.

**ClassLoader** has one action for everything that happens under one hold of
`loaded_classes`, and others for what happens without it: a class is in the table
(`Inserts`) before its `<clinit>` starts (`ClinitStarts`), and other threads may
find it there in between. A thread's stack of calls is explicit, so that recursion over
superclasses and through `<clinit>` interleaves with other threads. All
hierarchies, circular ones included, and all sets of classes needed by each
`<clinit>` within the bounds are initial states; class files may be missing, may
fail to link (`VMClass::create` returns an error) or make the parser panic under
the lock, which poisons it. A recursion over superclasses is a *climb*
(`Climbs`): the classes it came through, up to one whose superclass is loaded
or whose file cannot be read. A thread that fails keeps its calls: the
`<clinit>`s among them are never finished.

**ClassLayout** creates classes one below the other, from every class file
within the bounds, and then resolves methods and fields from any class against
any other.

**ThreadContext** has one action for each kind of instruction, on the two
shared vectors; **FrameStack** is the promise that every frame has its own
stack and locals. `ImplementsFrames` is the refinement mapping.

**Program** takes a class from its file to the execution of one of its methods. It
extends two chains of modules, each of which adds variables and actions:
**ConstantPool** decodes a stream of entries, well formed or not, and
writes and reads a decoded table again; **ClassFile** reads the rest of the file
and parses it, one action for each attribute, method and field, with the widths
that **Descriptors** computes from descriptors; **RuntimePool** translates the
table entry by entry (`LinkEntry`) and has the lookups, as operators that return an
answer, an error or a panic. **InstructionStream** is `next_op` as a
function of code and `pc`. `Program` itself has the loop of `run_code`:
plain instructions, branches, returns and those that use a constant.
`RuntimePool`, `InstructionStream` and `Descriptors` end with the reference
definitions the properties compare with, which read the meaning of an index or
the borders of instructions off the file itself. An opcode of the model
stands for all opcodes with the same operands and the same way on.

**StopTheWorldProofs**, **TrialDeletionProofs**, **ObjectHeapProofs**,
**MultiArrayProofs**, **ClassLoaderProofs**, **ClassLayoutProofs**,
**ThreadContextProofs** and **ProgramProofs** hold the proofs about the modules they are named after (section 5). The invariants that only the proofs
need stand at the end of those modules. The `MC*` modules are what
the configurations run, with symmetry sets where a run has no liveness property. `MCProgram` also lists the
class files and method bodies that `Program` starts from.

Some modules define a type invariant (`TypeOK`) that no run lists: it documents what
the variables hold. Those of `StopTheWorld`, `TrialDeletion`, `ObjectHeap`,
`MultiArray`, `ClassLoader`, `ClassLayout` and `ThreadContext` are proved (section 5).

## 3. The runs

Passing runs:

| run | module | states | what it shows |
|---|---|---|---|
| `stw` | StopTheWorld, fair | 12 723 | `WorldStopped`, `CountsAgree`, `ArmedSeesStop`, `NoMissedSignal`, `GCAssertion`: once the collector waits, no order of allocations, registrations, leavings and safepoints, and no allocation that fails, lets it run beside a mutator, miss its signal or fail its assertion. `NoLostWakeup`: parked threads resume |
| `loops` | HotLoop, fair | 2 169 | the same invariants (`IInv`) and the barrier hold with a cold start, spurious wakeups and overflow checks: what goes wrong ends in a panic or in a thread that waits for itself, never in a collection beside a running mutator. `ServedUnlessLooping`: only these two, or a loop without calls, hold up a request |
| `trial_deletion` | TrialDeletion | 178 147 | `GcRefsExact`, `StrongExact`, `NoDropUnderLock`; `Descends` is a variant that every step decreases, so the rescue loop ends; `ImplementsCollection`: what is unreachable is freed, and nothing else, and the heap knows the rest again, however the rescue passes were ordered |
| `heap` | ObjectHeap | 63 067 | `StrongExact`, `NoUseAfterFree`, `TakeSucceeds`, for two mutators that drop and clone references to the same objects |
| `loading` | ClassLoader, fair | 258 961 | `LoadedOnce`, `OneInitialiser`, `SupersFirst` (superclasses are in the table first, and what is left of the order of `<clinit>`s, section 4, item 7), and `LoadingEnds` whatever the `<clinit>`s need; `FailuresContained`: a thread ends only over a class that its own program asked for, unless a panic poisoned the lock or circular superclasses overflowed the stack |
| `layout` | ClassLayout | 18 869 | `IdsFindMethods`, `SelectsNearest`, `ObjectLayout`, and `RightFieldAtRoot`, the part of the field lookup that is right |
| `frames` | ThreadContext | 83 545 | `ImplementsFrames`: frames are isolated |
| `multiarray` | MultiArray | 16 068 | `ShapeRight`, `StrongExact`, `ComponentsDistinct`; `TwoDimensionsAreSafe`: no count makes an allocation of two dimensions wait for itself or leave something behind; `IndexInBounds`: an index reaches the slots of its own element and no others, with the exceptions of section 4, items 13 and 14 |
| `pool` | Program | 109 807 | a debug build, where an overflow of the index would panic. `ConstantsAtTheirIndices`, `WellFormedDecodes`, `WellFormedLinks`: a well formed file passes every check. `SlotsAsDeclared`: widths of arguments and fields. `NoLookupPanics`: whatever the file, once it is linked no lookup meets one of its `expect`s. `InStep`: code that is well formed is cut into its instructions, jumps included. `ConstantsMeanTheSame`: an instruction gets what the file has at its index, or an error |

Runs that show a disagreement with what the code documents or asserts:

| run | property | what TLC finds |
|---|---|---|
| `cold_start` | `GCAssertion` | allocations reach the threshold before the collector thread has its first lock; its `wait_while` returns at once and `try_gc`'s assertion fails |
| `field_index` | `RightField` | below a class with instance fields, `field_by_idx` reaches another field than the one named |
| `zero_count` | `NeverRelocked` | `new int[0][2][3]` drops arrays while it holds `HEAP`, and waits for itself |

### 3.1 Bounds, and why they are enough

* `stw`: three mutators are what it takes for one to leave, one to park and one
  to join at the same time. `Threshold = 2` stands for `GC_THRESHOLD`:
  the flag is set by a second allocation, so a collection is preceded by an
  ordinary allocation, and `MaxBatch = 2` lets one multi-dimensional allocation
  cross it alone. `MaxLive = 4` leaves room for survivors of a collection and a
  second collection. `CounterMod = 8` is 2^64 in the program: a release build
  wraps `alloc_count` around below zero, and the wrapped value is over the
  threshold, as it is in the program.
* `loops`: two mutators, since each has a second position to be in.
* `trial_deletion`: four objects of two slots with up to three references between
  them: a chain from a root through three objects, which is what it takes for one
  rescue pass not to be enough, cycles, self references, two references to one
  child; each object may have a root of its own. The order of every pass is
  arbitrary.
* `heap`: two mutators, two objects and a static slot: both may hold both, be in
  the middle of a drop of the same object, and close a cycle.
* `loading`: two threads, two classes: either may be the superclass of the
  other, or both of each other, and the `<clinit>`s may need each other. One class
  file of the two may be bad (`MaxBad = 1`), so that the other may depend on it or
  not.
* `layout`: two classes below `java/lang/Object`, each with up to two members, in
  every mixture of inherited, overriding, new, static, narrow and wide.
* `frames`: an operand stack of four, for `dup2`; two locals, so that a
  `long` may straddle the end of them; one invocation below the first.
* `multiarray`: up to four dimensions of up to three; sharing starts with three
  dimensions, and an array that is lost with its children needs two positive counts
  before the bad one. `IntMod = 8` is 2^32 in the program: the indices go from -4 to
  3, beyond both ends of every array, twice an index leaves the range on
  both sides, and on the upper side for an element of the largest array, as it does
  in an array of 2^30 longs.
* `pool`: `IndexMod = 13` is 2^16 in the program. Streams of up to six
  constants, narrow or wide, with any count: a `long` may come at the last index,
  and the index may overflow. The classes have up to eleven entries:
  references before and behind, members of the class itself and of another,
  overloads, arrays of every kind. From three of them (one with a method
  reference, one with a field reference, one with an array class) every
  file is derived in which one single index is any other value. Each class that
  is linked executes a lookup of every kind at every index.
  `Base = 16` is 2^8 in the program: bytes are below it, two of them are an
  operand of 16 bits, and a negative offset begins with the byte 15. One class
  runs all bodies of up to four bytes out of nine that cover the shapes of
  operands, and six longer ones with `wide` and backward branches.
  `IndexMod` and `Base` are scaled down independently, since no property relates
  the two.

### 3.2 Fairness

* `StopTheWorld.Fairness`: weak fairness of the collector and of a mutator's
  wake-up: the operating system schedules threads, and a thread whose
  condition stays true gets the mutex. `std::sync::Mutex` is not fair,
  so this is the weakest assumption under which anything can be said. The mutex
  is free unless the collector is at work or a thread waits for itself, so weak
  fairness of a critical section only says that a thread is not passed over for
  ever in states where it could have the mutex. All of it ends with the process
  (`ProcessAlive`). Nothing says that a running mutator comes to a safepoint, because
  backward branches have none: what that means for a request to stop is the question
  of `HotLoop`, whose fairness is that the interpreter goes on executing, and
  that a mutator that comes to an invocation again and again with the flag
  set sees it there.
  The wake-ups that fairness speaks of are the notified ones: spurious wakeups
  may happen (`SpuriousWakeups`), but nothing relies on them.
* `NoLostWakeup` allows for a thread that is woken and finds the next request
  each time: nothing in the code prevents that. Its other exceptions are the end of
  the process and an allocation that waits for itself.
* `ClassLoader.FairSpec`: a thread inside a call goes on. The `RwLock` is held
  only within one action. No thread waits for another in this code, which
  is why two `<clinit>`s that need each other do not deadlock, and also why a
  class can be used before it is initialised (section 4).

### 3.3 Deadlock checks

Deadlock is checked in `trial_deletion`, `heap` and `layout`. It is
switched off where the system really stops: the main thread has panicked or a thread
waits for itself (`stw`, `loops`, `cold_start`), every thread has failed (`loading`), the outermost method has
returned (`frames`), the allocation has returned or failed (`multiarray`), the file
is rejected or the method has returned (`pool`).

### 3.4 Preconditions

* `ObjectHeap`: `RaceFree = TRUE`, i.e. two mutators never use one static or
  object field at the same time. The code has no synchronisation there
  (`unsafe impl Sync`), and Java programs may do it; see section 4.
* `ThreadContext`: operands stay within `max_stack`, and arguments are on the
  caller's own stack, as compiled code has them. Everything else is tested
  by the code.
* `ClassLayout`: javac's rules: a class declares a name once, static and instance
  methods of one signature do not meet, constructors are not inherited.
* `ClassLoader`: a class names a superclass (an empty name stands for none in
  `load_class_by_name`, and no compiler writes it).
* `Program`: what is checked of a file only when it is well formed says so
  (`WellFormedFile`, `WellFormedCode`); `NoLookupPanics` and the last halves of the
  others hold for every file. An attribute inside a `Code` attribute is not a
  `Code` attribute itself.
* `StopTheWorld`: only the main thread calls `register_thread` in the program
  today; the models let further mutators come and go through the functions that
  the module exports for them. Main does not unregister.

## 4. Known divergences

What was met while modelling. The first three have a run each; the others can be
seen with the change given.

1. Cold start (`cold_start`): nothing makes `main` wait for the collector to reach
   `GC_THREAD.wait_while`. A spurious wakeup with the flag set does the same
   later.
2. Field indices (`field_index`): `vm/class.rs:600` counts a class's fields from 0
   in a table that begins with inherited ones.
3. Zero counts (`zero_count`): `heap.rs:111` drops `ObjectRef`s under the lock.
   A count that is missing (`heap.rs:103`) or negative (`heap.rs:115`) does the same
   from three dimensions on (`multiarray` with `NeverRelocked`). With `HEAP` held for
   ever nobody goes on (`Finish` in `StopTheWorld`; an exception of `NoLostWakeup` and
   `ServedUnlessLooping`).
4. `alloc_count` underflow, `heap.rs:427`: a collection sets the count to 0 while
   objects survive; the next drop of one decrements it. A debug build panics under
   the lock (`Deallocate` in run `loops`); a
   release build wraps around and asks for a collection at the next allocation.
5. Hot loops, `mod.rs:1193`: the comment on `safepoint` says it is for hot loops
   that do not allocate, but backward branches have none (`ServedUnlessLooping`
   without its last disjunct is violated).
6. Slot races, `mod.rs:55`: `heap` with `RaceFree = FALSE` violates
   `NoUseAfterFree`.
7. Class use before initialisation, `mod.rs:542`: a class is in the table
   before its `<clinit>` has run, and other threads do not wait for it.
   `OneInitialiser` says how far it goes: only while another thread is in that
   `<clinit>` or about to start it, or has died in it. In the second case the
   `<clinit>` of a subclass may even run before that of its superclass
   (`SupersFirst`).
8. Inherited code runs with the constant pool of the class where it was
   found (`mod.rs:952`, `mod.rs:916`), not of the class that declares it; the last
   conjunct of `SelectsNearest` is the part that holds.
9. From three dimensions on, arrays share their subarrays (`heap.rs:121`):
   `new int[2][2][1]` has two distinct `int[]`, not four. `ComponentsDistinct`
   states what is distinct.
10. Lost constant: `encode_into` writes a count that is one too small
    (`raw.rs:345`; the doc of the field, `raw.rs:131`, has it right), so the last
    constant of a written class is not read back if it takes one index
    (`ConstantsAtTheirIndices` with 0 instead of 1).
    The property does not condemn that loss; it states that there is no other. In a release build a `long` at the last index makes the index
    start again at 0, and the table goes on into what follows it; if that is enough
    to fill it once more, what is written again is not what was read (`pool` with
    `IndexMod = 5`, `PoolFiles` alone, `OverflowChecks = FALSE` and without the premise
    `Len(original.pool) < IndexMod`).
11. Failures under the lock of the class table: a panic of the parser or of
    `VMClass::create` poisons `loaded_classes` for every thread, and circular
    superclasses recurse until the stack overflows. `FailuresContained` makes
    exceptions of both.
12. A negative length panics with `HEAP` held and so poisons it for every thread, in
    every build (`heap.rs:71`, `heap.rs:115`); Java throws
    `NegativeArraySizeException`. `PanicsPoison` and `ImplementsBarrier` say what still
    holds then: no collection ever begins again.
13. The index of a `long` or `double` array is doubled as an `i32`
    (`mod.rs:1289`, `mod.rs:1302`): a debug build panics, and in a release build the
    index -2^31 + k wraps around to element k. For the same reason, the elements
    from 2^30 on of a larger array cannot be reached.
14. `MultiANewArray` takes the width of the elements from the array's element type
    even when further dimensions are left open (`mod.rs:1352`): in
    `new long[2][3][]` the innermost allocated arrays get two slots for each
    reference, and their bounds are twice too wide for `aaload`.
15. Arrays of the class itself (`ResolvedClassArray`) are not accepted by
    `get_class_or_array_by_ref` (`mod.rs:660`), members of array classes, `clone`
    for one, by none of the lookups. `Unsupported` says so in
    `ConstantsMeanTheSame`.
16. `String`, `InterfaceMethodref` and `InvokeDynamic` constants become unusable
    entries (`vm/class.rs:325`).
17. A truncated operand makes an instruction `Invalid`, which is reported and
    passed over, its remaining bytes running as instructions; only
    a truncated `bipush` ends the method, as a `return` would (`class.rs:556`). The
    same happens to the operands of opcodes that are not implemented,
    `sipush` for one.
18. Malformed descriptors are never rejected: the iterators end early and the call
    takes fewer arguments. `MethodDescriptor::new` splits at every parenthesis.
19. A member of the class itself is resolved by name and descriptor, one of
    another class by name and descriptor (methods) or by name alone (fields,
    `mod.rs:744`), beginning with what is inherited.
20. Not modelled: `PutField` pops one slot for `long` and `double`
    (`mod.rs:1004`); `Iinc` overflows in a debug build (`mod.rs:1048`);
    `pop_create_args` does not look at the start of the frame (`mod.rs:216`).

## 5. Proofs

A theorem speaks of every value of the constants that the named assumptions of
the component's module allow: any number of threads, objects or classes, as long
as it is finite, and any bounds. The inductive invariants, called `IInv` where there
is one for the whole component, were checked by TLC, on the instances above, before
they were proved. Each proof of `IInv /\ [Next]_vars => IInv'` has a lemma for each
action.

### 5.1 StopTheWorldProofs

For any finite set of mutators, any threshold and counter width, and every
combination of the three mode constants.

* `Invariance`: `Spec => []IInv`. The inductive invariant `IInv` consists of
  `TypeOK`, `CountsAgree` (the counters are the numbers of registered and of
  waiting threads), `PanicsPoison` (a panic under the lock never leaves a collection
  behind), `NotifiedWhenStopped`, `ArmedSeesStop` and
  `NoMissedSignal`. `WorldStopped` by itself is not inductive: that the collector
  finds the world stopped depends on the counters being exact, and that nobody
  starts running between its notification and its lock depends on the flag
  staying set in the meantime (`NotifiedWhenStopped`). A thread that read the flag before it took the lock
  will park only because nobody else can clear the flag while it is counted
  as running (`ArmedSeesStop`), which in turn needs the counts.
  The induction has one lemma for each action (`RegisterThreadStep`, ...); the
  two ways to park share `ParkStep`.
* `TypeCorrect`, `WorldIsStopped`, `CountsAreThreads`, `SignalNeverMissed`,
  `ArmedThreadsPark` follow from it.
* `AssertionHolds`: with a warm start and no spurious wakeups, in any build and
  whatever allocations panic, `try_gc`'s own assertion
  never fails (`GCAssertion`): a collector that was
  notified finds the world stopped (`NotifiedWhenStopped`) and the counters exact.
  Both assumptions are necessary (`cold_start`; section 4, item 1). That nobody ever
  panics under the lock is not so under any of the constants (section 4, item 12).
* `Refinement`: `Spec => ImplementsBarrier`. `IInv` is needed for the step of a
  thread that goes from armed to parked and for the beginning of a collection.
* `LoopsFollowTheProtocol`: `LoopSpec => Spec`, i.e. what an interpreter does in its
  loops is a step of the protocol or none; and so `LoopsKeepTheBarrier`: everything
  above that is about safety holds of `HotLoop` too.

The assumptions on constants: the mutators are a finite set with `Main` in it,
the threshold is positive and below the counter's modulus, bounds are numbers,
modes are Booleans.

### 5.2 TrialDeletionProofs

For every finite set of objects, any number of slots, every graph and every order in which a
pass meets the objects.

* `Invariance`. `GcRefsExact` only speaks of the first pass, and the others need
  to know what it left behind (`ExtractExact`: the count of references from
  outside, so that no object with one is given up). `StrongExact` follows from
  `CountsExact`, which also counts the references of objects that are no longer
  in `objects`, and so needs to know that each object is in one list at most
  (`PlacesExact`). `RescueExact` is why the rescue loop may stop: a whole pass that
  rescues nothing has seen every rescued object, and none of them refers to one
  that is given up.
* `GcRefsAreExact`, `StrongCountsAreExact`, `NeverDropsUnderLock`. For the last:
  the drain clears the slots of all that is given up, and what is then freed has empty
  slots and no reference left (`Drained` in `RescueExact`).
* `Refinement`: `Spec => ImplementsCollection`. The step out of the last phase
  maps to the freeing of exactly the unreachable objects; that needs both halves
  of `RescueExact`: what was rescued is reachable, and what is reachable was
  rescued, the set of what is kept being closed under references.
* `CollectionDescends`: `Spec => Descends`, the action property that bounds the
  number of steps. That it is a lexicographic order on natural numbers, and thus that
  try_gc returns, is left to the reader.

### 5.3 ObjectHeapProofs

For finite sets of threads and objects. All theorems have the precondition
`RaceFree`: without it they are false (section 4, item 6).

* `Invariance`: `RaceFree => (Spec => []IInv)`. `StrongExact` is not inductive.
  A clone increments the count of what was read from a slot, so it must still be
  there (`SlotsCurrent`), which holds because no two instructions use the same
  place (`Exclusive`) and because each has a reference to the object of the place
  until its last task (`WorkOrderly`), so that nobody frees that object and drops
  what is in its slot. A drop that has taken its object off the heap must
  find the count at 1 when it releases it (`UnlistedReleasing`), although it gave up the
  lock in between: nobody else has a reference, so nobody can make another.
* `StrongCountsAreExact`, `ReferredToIsAllocated`, `DropFindsItsObject`: the three
  properties of run `heap`.

### 5.4 MultiArrayProofs

For any number of dimensions, any counts, any width of integers (a multiple of 4,
so that a half is even) and both builds.

* `Invariance`. `StrongExact` needs to know what is in the heap while the array is
  built: one array for each slot of the one under construction, to which nothing
  else refers, or nothing at all (`BuiltExact`). That is also why a drop of the array
  under construction waits for itself exactly when anything has been allocated
  (`RelocksIfAny`), which takes three counts. `Shaped` says that every array has
  a level, its dimension from the innermost, that it has the length and the size of
  that level, and that something one level above refers to it.
* `StrongCountsAreExact`, `FailuresAreSafe`, `ComponentsAreDistinct` (from `Older`:
  arrays refer to older ones, and each of their slots to another one),
  `ResultHasShape`, `IndicesStayInBounds`: the invariants of run `multiarray`.
  `ArraysByLevel` identifies the recursive `Arrays` of the properties with the
  levels: a solution of the recursion is written down, and any other would differ
  from it first at some dimension (the order on the natural numbers is well
  founded).

### 5.5 ClassLoaderProofs

For any set of threads, any finite set of classes and all class files, with
circular superclasses and bad files.

* `Invariance`. `LoadedOnce` is not inductive: that a `<clinit>` starts at most once
  follows from the class being inserted once, so `CountsExact` ties one number to the
  other, and `StartExact` says that the `<clinit>` of a class that waits for it has
  not started. For `SupersFirst` a
  call that waits to insert a class must be able to rely on the superclass: the
  last part of `TypeOK` says that it is in the table or is being loaded by
  the call right above; and `TableClosed` says it class by class, from which it
  follows for the whole `Line`. The second half of `SupersFirst`, about the moment
  between insert and `<clinit>`, is the other half of `StartExact`: a thread that is
  about to start the `<clinit>` of a class has no subclass of it in its other calls. `ClinitExact` says that a class that is in the
  table and not ready is in one call of one thread. `AskedFor` and `PoisonExact`
  are what `FailuresContained` needs to know of threads that have not ended
  yet. `Line` and `Depends` are smallest closed sets, so that the induction over a
  chain of superclasses is a use of their definition.
* `ClassesAreLoadedOnce`, `SuperclassesComeFirst`, `InitialisersAreAlone`,
  `FailuresAreContained`: the invariants of run `loading`.

### 5.6 ClassLayoutProofs

For any sets of names of methods and fields, chains of classes of any length and
class files with any number of members. The tables are recursive functions over the
members of a class file; `Recursion` and `SameSteps` say that such a function is what
its steps make it, and each property of a table is carried from member to member.

* `Invariance`. `IdsFindMethods` needs to know that an entry of a table has its own
  place as its id, and that no name is in a vtable twice (`MethodsPlaced`): that
  is what an override replaces and a new method extends. `SelectsNearest` follows from
  `VTablesExact`: an entry of a vtable belongs to the nearest class that
  declares the name, and everything a superclass has is there. `StaticsApart`
  keeps the table of static methods out of the way. For `ObjectLayout`, instance
  fields lie one behind the other up to `NextOffset`, with static ones between
  them or not (`FieldsPacked`), and a subclass has all of its superclass's
  (`FieldsInherited`). `OwnFieldsPlaced` says where the index of a field is its place:
  in a class that inherits no instance field.
* `IdsLeadBack`, `Dispatch`, `Layout`, `FieldAtRoot`: the four invariants of run
  `layout`. `FieldAtRoot` has the premise of its property, without which it is
  false (`field_index`).

### 5.7 ThreadContextProofs

For any set of values, any size of stacks and locals and any depth of calls.

* `TypeCorrect`: `TypeOK` is inductive as it stands. Its last part says that the
  frames' parts of the two vectors lie one behind the other and end where the
  vectors end.
* `Refinement`: `Spec => ImplementsFrames`. The mapping cuts the vectors into the
  frames' parts; the lemmas about subsequences say what a change at the end of a
  vector, or inside the last part, does to the pieces. `TypeOK` gives the order of the
  pieces.

### 5.8 ProgramProofs

For every set of class files and method bodies of any size, any width of indices
and of bytes, and both builds. The stages of a class have an inductive invariant
each; each uses those before it.

* `PoolInvariance`: `Spec => []PoolInv`, the reading of the table. The entries read so
  far are the first of the stream, and the table is the one that they make
  (`TableExact`), whoever wrote the file: the table read back is again that of a
  prefix of the same stream (`OriginalExact`, from what `Written` leaves out of
  a table). The index is the sum of the widths so far unless it has wrapped around
  (`IndexExact`), and what has been read lies below the count (`CountExact`).
  `IndicesKept` and `PoolsDecode` are the invariants of run `pool` about it.
* `ParsedInvariance`: `ParsedExact` says what the parsed class has from the file.
  `WellFormedAreLinked` proves `WellFormedLinks` along with it: at each of the
  checks, the entry that is looked at is that of the file, and `WellFormedFile` says
  what the check asks for. For array classes that is the text of a
  type, which `ArrayClass` takes apart again (`ArrayOfType`).
* `DeclaredSlots`: `Spec => []SlotsAsDeclared`. A descriptor is its types' texts, one
  behind the other, and the parser's iterator finds the end of each one (`[`, then
  a letter or a name up to the first `;`); by induction over the types that are left,
  what it adds up is `MethodSlots`.
* `Invariance`: what `from_unresolved` checked, entry by entry (`EntriesExact`),
  holds of the finished table, since each check looks at the class file's table,
  which no longer changes (`StagesExact`). `TableTyped` is what decoding left.
* `LookupsNeverPanic`: `Spec => []NoLookupPanics`. A lookup follows up to two
  references from its index; each has been checked when the entry it starts from was
  translated.
* `RunInvariance` and `CodeIsReadInStep`: `Spec => []InStep`. With `RunExact`, which
  adds that `last_pc` is the instruction's own address, `InStep` is inductive: the
  next address is that of an instruction because the generated decoder reads as
  many bytes as the instruction has (`Size`), and a branch reaches one because
  its target in `u16` is its target in numbers.
* `ConstantsKeepTheirMeaning`: `Spec => []ConstantsMeanTheSame`. `UsedExact` says that
  the last lookup would have the same answer now, which makes the property one
  about states: any lookup, of any index, in a linked class. `FiledIs` takes an index
  back from the table to the file, `ReferredEntry` follows the references in a
  well formed file, and `ClassFound` and `MemberFound` compare what a translated
  entry answers, arrays and own members included, with what the file says. The
  hypothesis `IndicesAreWords` says that the build panics on overflow or that an index
  of the table has (at least) the two bytes that an index in the code has. The program's
  are both `u16`; run `pool`, which scales the two down independently, is a debug
  build.

### 5.9 Checked by TLC only

* Liveness (`NoLostWakeup`, `ServedUnlessLooping`,
  `LoadingEnds`): it needs fairness and `ENABLED`, out of reach of this prover. That
  `Descends` makes `try_gc` return is left to the reader for the same reason.
* The violations of `GCAssertion`, `RightField` and `NeverRelocked`: a counterexample is one behaviour,
  and TLC prints it.

Induction over data is done without the induction theorems of the library,
which take an operator as a parameter: a statement about every length fails first at
some length (the order on the natural numbers is well founded), and the step
refutes it. What is recursive in these modules is a recursive function.

## 6. Not modelled, and why

* Values of arithmetic, comparison and conversion instructions.
* In class files: access flags (but native and abstract), interfaces, exception
  tables, `max_stack` and `max_locals`, the bytes of attributes other than `Code`.
  None of them changes what is accepted or what an index means. The values of
  numeric constants and MUTF-8 are left out.
* The attribute syntax of the `Decode` macro, which fails at compile time.
* Byte readers and writers, error formatting, command line: I/O without state.
* Memory ordering of `SHOULD_STOP_THE_WORLD`: all its writes happen under
  `HEAP`; a read outside it that returns an older value is the same as
  a read that happened earlier, except that a stale `true` is excluded (a
  thread that reads the flag as set is registered and not parked, so no
  collection can have ended since).
* The `OnceLock` caches of resolution: classes never change, so a cached answer
  is the answer.

## 7. Plan

Built in this order: the protocol and its proofs; the collection; reference
counts; the loader; layout and resolution; frames; arrays; the constant pool; then
the class file, the run-time constant pool, the instruction stream and their
composition; bad counts and indices of arrays; failures of the loader.

Then the proofs, component by component; with those about `ClassLayout` and `Program`
every invariant of the runs is proved.

Next, models: fields of two slots in `ObjectHeap` (`PutField` of a `long`)
and `ThreadContext.Invoke` with the slots `Descriptors` computes.

Next, proofs: that `Descends` bounds the length of a collection, by a
variant that is a single number; that `Program` implements an abstract class whose
constants are those of the file.
