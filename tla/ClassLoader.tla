---------------------------- MODULE ClassLoader ----------------------------
(***************************************************************************)
(* Loading and initialisation of classes: VM in src/src/vm/mod.rs.         *)
(*                                                                         *)
(* loaded_classes is a table behind a RwLock.  load_class_by_name holds    *)
(* the write lock while it reads class files, gives it up when it returns  *)
(* from loading the superclass, takes it again to insert the class, gives  *)
(* it up and then runs <clinit> without it.  One action stands for all     *)
(* that happens under one hold of the lock.                                *)
(*                                                                         *)
(* A thread's calls are its stack of frames, the innermost first.  A class *)
(* file is what the loader sees of it: whether it can be read and linked,  *)
(* the superclass, and the classes its <clinit> needs (or NoClinit).       *)
(***************************************************************************)
EXTENDS Naturals, Sequences, FiniteSets

CONSTANTS
    Thread,
    Class,       \* names that a program asks for
    Object,      \* java/lang/Object, which is built in
    NoClinit,
    MaxNeeds,    \* bound: classes one <clinit> needs
    MaxBad       \* bound: class files that are not good

ASSUME NameAssumption == Object \notin Class /\ IsFiniteSet(Class)
ASSUME BoundAssumption == MaxNeeds \in Nat /\ MaxBad \in Nat

VARIABLES
    super,       \* the superclass named by each class file
    needs,       \* the classes that <clinit> needs
    file,        \* what becomes of each class file when it is read
    table,       \* loaded_classes: how often each name was inserted
    runs,        \* how often each <clinit> was started
    ready,       \* classes whose <clinit> is over, or that have none
    calls,       \* the stack of each thread
    using,       \* the class a thread has just been given, if any
    asked,       \* the classes each thread's program has named
    ended,       \* threads that ended with an error or a panic
    poisoned     \* a thread panicked with the write lock

vars == <<super, needs, file, table, runs, ready, calls, using, asked, ended, poisoned>>
files == <<super, needs, file>>

(* good;  missing: no file, or decode has an error;  unlinkable:           *)
(* VMClass::create has one;  fatal: decode panics (on overflow, in a debug *)
(* build).                                                                 *)
FileKinds == {"good", "missing", "unlinkable", "fatal"}

(* lookup: with_class_or_load_by_name;  load: it has seen no entry and     *)
(* asks for the write lock;  insert: load_class_by_name has the superclass *)
(* (or waits for it above) and asks for the write lock again;  start: the  *)
(* class is in the table, for all threads to see, the lock is given up and *)
(* <clinit> is about to run;  clinit: it runs.                             *)
Frame == [class : Class, at : {"lookup", "load", "insert", "start", "clinit"}, todo : SUBSET Class]

frame(c, at, todo) == [class |-> c, at |-> at, todo |-> todo]

NoNeed == {}

\* A call that has inserted its class and is responsible for its <clinit>.
Initialises(f) == f.at \in {"start", "clinit"}

Loaded == {c \in Class \cup {Object} : table[c] > 0}

(* Types; and what the calls of a thread look like: only the innermost one *)
(* is still looking for its class, and one that waits to insert a class    *)
(* has the superclass in the table or, right above it, the call that loads *)
(* the superclass.                                                         *)
TypeOK ==
    /\ super \in [Class -> Class \cup {Object}]
    /\ needs \in [Class -> {NoClinit} \cup SUBSET Class]
    /\ file \in [Class -> FileKinds]
    /\ table \in [Class \cup {Object} -> Nat]
    /\ runs \in [Class -> Nat]
    /\ ready \subseteq Class \cup {Object}
    /\ calls \in [Thread -> Seq(Frame)]
    /\ \A t \in Thread : \A i \in DOMAIN calls[t] :
          LET f == calls[t][i] IN
          /\ i > 1 => f.at \in {"insert", "clinit"}
          /\ f.at = "insert" =>
                super[f.class] \in Loaded \/ (i > 1 /\ calls[t][i-1].class = super[f.class])
    /\ using \in [Thread -> SUBSET (Class \cup {Object})]
    /\ asked \in [Thread -> SUBSET Class]
    /\ ended \subseteq Thread
    /\ poisoned \in BOOLEAN

(* The superclasses of c, c included, up to java/lang/Object.              *)
Line(c) ==
    {d \in Class \cup {Object} : \A S \in SUBSET (Class \cup {Object}) :
        (c \in S /\ \A x \in S \ {Object} : super[x] \in S) => d \in S}

Init ==
    /\ super \in [Class -> Class \cup {Object}]
    /\ needs \in [Class -> {NoClinit} \cup {S \in SUBSET Class : Cardinality(S) <= MaxNeeds}]
    /\ file \in {f \in [Class -> FileKinds] : Cardinality({c \in Class : f[c] # "good"}) <= MaxBad}
    /\ table = [c \in Class \cup {Object} |-> IF c = Object THEN 1 ELSE 0]
    /\ runs = [c \in Class |-> 0]
    /\ ready = {Object}
    /\ calls = [t \in Thread |-> <<>>]
    /\ using = [t \in Thread |-> {}]
    /\ asked = [t \in Thread |-> {}]
    /\ ended = {}
    /\ poisoned = FALSE

-----------------------------------------------------------------------------
Top(t) == Head(calls[t])
At(t, where) == t \notin ended /\ calls[t] # <<>> /\ Top(t).at = where
Below(t) == Tail(calls[t])

\* A call returns class c to the frame below it, or to the program.
Return(t, c) ==
    /\ calls' = [calls EXCEPT ![t] = Below(t)]
    /\ using' = [using EXCEPT ![t] = {c}]

\* The program executes an instruction that names class c.
Request(t, c) ==
    /\ t \notin ended
    /\ calls[t] = <<>>
    /\ calls' = [calls EXCEPT ![t] = <<frame(c, "lookup", NoNeed)>>]
    /\ using' = [using EXCEPT ![t] = {}]
    /\ asked' = [asked EXCEPT ![t] = @ \cup {c}]
    /\ UNCHANGED <<files, table, runs, ready, ended, poisoned>>

\* Mutation: the write lock is not given up before <clinit>.
LookupLockedOut(t) ==
    /\ At(t, "lookup")
    /\ ~poisoned
    /\ \A u \in Thread : \A i \in DOMAIN calls[u] : ~Initialises(calls[u][i])
    /\ IF Top(t).class \in Loaded
       THEN Return(t, Top(t).class)
       ELSE /\ calls' = [calls EXCEPT ![t] = <<frame(Top(t).class, "load", NoNeed)>> \o Below(t)]
            /\ UNCHANGED using
    /\ UNCHANGED <<files, table, runs, ready, asked, ended, poisoned>>

\* with_class_or_load_by_name under the read lock.
Lookup(t) ==
    /\ At(t, "lookup")
    /\ ~poisoned
    /\ IF Top(t).class \in Loaded
       THEN Return(t, Top(t).class)
       ELSE /\ calls' = [calls EXCEPT ![t] = <<frame(Top(t).class, "load", NoNeed)>> \o Below(t)]
            /\ UNCHANGED using
    /\ UNCHANGED <<files, table, runs, ready, asked, ended, poisoned>>

(* An error returns through every call; one that comes out of a <clinit>   *)
(* panics there.  Either way the thread ends, and the <clinit>s it was in  *)
(* are never finished: its calls stay as they were.                        *)
Fail(t) ==
    /\ using' = [using EXCEPT ![t] = {}]
    /\ ended' = ended \cup {t}
    /\ UNCHANGED calls

\* The stack is full: the process is aborted.
Overflow ==
    /\ ended' = Thread
    /\ UNCHANGED <<calls, using, poisoned>>

Pending(c) == Line(c) \ Loaded
Readable(c) == file[c] \notin {"missing", "fatal"}

(* How load_class_by_name calls itself for the superclass, the topmost     *)
(* call first: it does so when the class is not in the table and its file  *)
(* can be read.                                                            *)
Climbs(c) ==
    {s \in UNION {[1..n -> Pending(c)] : n \in 1..Cardinality(Class)} :
        /\ s[Len(s)] = c
        /\ \A i \in 2..Len(s) : Readable(s[i]) /\ s[i - 1] = super[s[i]]}

\* Mutation: a class is initialised before its superclass.
ChainDownward(s) == [i \in 1..Len(s) |-> frame(s[Len(s) + 1 - i], "insert", NoNeed)]

\* The calls of such a climb.
Chain(s) == [i \in 1..Len(s) |-> frame(s[i], "insert", NoNeed)]

\* Mutation: a missing class file is not an error but a panic.
LoadExpecting(t) ==
    /\ At(t, "load")
    /\ ~poisoned
    /\ LET c == Top(t).class IN
       \/ c \in Loaded /\ Return(t, c) /\ UNCHANGED <<ended, poisoned>>
       \/ \E s \in Climbs(c) :
             /\ Readable(s[1]) /\ super[s[1]] \in Loaded
             /\ calls' = [calls EXCEPT ![t] = Chain(s) \o Below(t)]
             /\ UNCHANGED <<using, ended, poisoned>>
       \/ (\E s \in Climbs(c) : ~Readable(s[1])) /\ Fail(t) /\ poisoned' = TRUE
       \/ (\A d \in Line(c) : d \notin Loaded /\ Readable(d)) /\ Overflow
    /\ UNCHANGED <<files, table, runs, ready, asked>>

(* load_class_by_name with the write lock: it looks again, reads the class *)
(* file and calls itself for the superclass, until that one is in the      *)
(* table, which gives up the lock; or a file cannot be read; or, for a     *)
(* class that is its own superclass by way of others, without an end.      *)
Load(t) ==
    /\ At(t, "load")
    /\ ~poisoned
    /\ LET c == Top(t).class IN
       \/ c \in Loaded /\ Return(t, c) /\ UNCHANGED <<ended, poisoned>>
       \/ \E s \in Climbs(c) :
             /\ Readable(s[1]) /\ super[s[1]] \in Loaded
             /\ calls' = [calls EXCEPT ![t] = Chain(s) \o Below(t)]
             /\ UNCHANGED <<using, ended, poisoned>>
       \/ (\E s \in Climbs(c) : file[s[1]] = "missing") /\ Fail(t) /\ UNCHANGED poisoned
       \/ (\E s \in Climbs(c) : file[s[1]] = "fatal") /\ Fail(t) /\ poisoned' = TRUE
       \/ (\A d \in Line(c) : d \notin Loaded /\ Readable(d)) /\ Overflow
    /\ UNCHANGED <<files, table, runs, ready, asked>>

\* The class goes into the table; a <clinit> is left for later.
Inserts(t, c) ==
    /\ table' = [table EXCEPT ![c] = @ + 1]
    /\ IF needs[c] = NoClinit
       THEN Return(t, c) /\ ready' = ready \cup {c}
       ELSE /\ calls' = [calls EXCEPT ![t] = <<frame(c, "start", needs[c])>> \o Below(t)]
            /\ UNCHANGED <<using, ready>>

\* Mutation: the table is not looked at again.
InsertUnchecked(t) ==
    /\ At(t, "insert")
    /\ ~poisoned
    /\ LET c == Top(t).class IN
       \/ file[c] = "unlinkable" /\ Fail(t) /\ UNCHANGED <<table, ready>>
       \/ file[c] # "unlinkable" /\ Inserts(t, c) /\ UNCHANGED ended
    /\ UNCHANGED <<files, runs, asked, poisoned>>

(* The write lock again: the class may have been inserted meanwhile; or    *)
(* VMClass::create has an error.                                           *)
Insert(t) ==
    /\ At(t, "insert")
    /\ ~poisoned
    /\ LET c == Top(t).class IN
       \/ c \in Loaded /\ Return(t, c) /\ UNCHANGED <<table, ready, ended>>
       \/ c \notin Loaded /\ file[c] = "unlinkable" /\ Fail(t) /\ UNCHANGED <<table, ready>>
       \/ c \notin Loaded /\ file[c] # "unlinkable" /\ Inserts(t, c) /\ UNCHANGED ended
    /\ UNCHANGED <<files, runs, asked, poisoned>>

\* After drop(write_guard): run_code starts <clinit>.
ClinitStarts(t) ==
    /\ At(t, "start")
    /\ runs' = [runs EXCEPT ![Top(t).class] = @ + 1]
    /\ calls' = [calls EXCEPT ![t] = <<[Top(t) EXCEPT !.at = "clinit"]>> \o Below(t)]
    /\ UNCHANGED <<files, table, ready, using, asked, ended, poisoned>>

\* <clinit> executes an instruction that names another class ..
ClinitNeeds(t) ==
    /\ At(t, "clinit")
    /\ \E d \in Top(t).todo :
          calls' = [calls EXCEPT ![t] =
              <<frame(d, "lookup", NoNeed), [Top(t) EXCEPT !.todo = @ \ {d}]>> \o Below(t)]
    /\ using' = [using EXCEPT ![t] = {}]
    /\ UNCHANGED <<files, table, runs, ready, asked, ended, poisoned>>

\* .. and ends.
ClinitEnds(t) ==
    /\ At(t, "clinit")
    /\ Top(t).todo = {}
    /\ ready' = ready \cup {Top(t).class}
    /\ Return(t, Top(t).class)
    /\ UNCHANGED <<files, table, runs, asked, ended, poisoned>>

\* read() and write() return an error after a panic, which is unwrapped.
LockPoisoned(t) ==
    /\ poisoned
    /\ At(t, "lookup") \/ At(t, "load") \/ At(t, "insert")
    /\ Fail(t)
    /\ UNCHANGED <<files, table, runs, ready, asked, poisoned>>

Call(t) ==
    \/ Lookup(t) \/ Load(t) \/ Insert(t) \/ LockPoisoned(t)
    \/ ClinitStarts(t) \/ ClinitNeeds(t) \/ ClinitEnds(t)

Next == \E t \in Thread : Call(t) \/ \E c \in Class : Request(t, c)

Spec == Init /\ [][Next]_vars

\* A thread inside a call goes on: the RwLock is never held for ever.
FairSpec == Spec /\ \A t \in Thread : WF_vars(Call(t))

-----------------------------------------------------------------------------
(* Properties. *)

\* The classes that thread t has inserted and that its calls are to initialise,
\* and those of them whose <clinit> it has yet to start.
Initialising(t) == {calls[t][i].class : i \in {j \in DOMAIN calls[t] : Initialises(calls[t][j])}}
Starting(t) == {calls[t][i].class : i \in {j \in DOMAIN calls[t] : calls[t][j].at = "start"}}

(* Two threads that load a class at once, or one that meets it again while *)
(* it loads the superclass, insert it once and run its <clinit> once:      *)
(* every Arc<VMClass> handed out for a name is the same one.               *)
LoadedOnce == \A c \in Class : table[c] <= 1 /\ runs[c] <= 1

(* A class is in the table only after its superclasses, up to the top.     *)
(* Their <clinit>s need not come first: once a superclass is in the table  *)
(* (mod.rs:542) another thread can insert a subclass and run its <clinit>. *)
(* But that is the only way: a superclass whose <clinit> has not started   *)
(* when that of a class has is one that a thread has just inserted, and    *)
(* this thread is not itself in the <clinit> of the class.                 *)
SupersFirst ==
    \A c \in Loaded \ {Object} : \A d \in Line(c) \ {Object} :
        /\ d \in Loaded
        /\ (runs[c] > 0 /\ needs[d] # NoClinit /\ runs[d] = 0)
              => \E u \in Thread : d \in Starting(u) /\ c \notin Initialising(u)

(* A class that is in the table, or has been handed to a thread, and is    *)
(* not ready is being initialised by exactly one thread (which may have    *)
(* ended in the attempt): only while another thread is in its <clinit> can *)
(* a thread be given a class that is not initialised.                      *)
OneInitialiser ==
    \A c \in (Loaded \cup UNION {using[t] : t \in Thread}) \ ready :
        Cardinality({t \in Thread : c \in Initialising(t)}) = 1

(* What a class depends on: its superclasses, and what the <clinit>s of    *)
(* all these need.                                                         *)
Depends(c) ==
    {d \in Class : \A S \in SUBSET Class :
        (c \in S /\ \A x \in S : {super[x]} \ {Object} \subseteq S
                                /\ (needs[x] # NoClinit => needs[x] \subseteq S)) => d \in S}

Circular(c) == c # Object /\ super[c] # Object /\ c \in Line(super[c])

\* A class none of the threads survives.
Disastrous(c) == file[c] = "fatal" \/ Circular(c)

(* A thread ends because of a class that its own program asked for, by way *)
(* of superclasses and <clinit>s, and that cannot be loaded; what is       *)
(* wrong with a class is no trouble to a thread that has no use for it.    *)
(* The exceptions are a panic with the write lock, and circular            *)
(* superclasses, in any thread: then all of them may end.                  *)
FailuresContained ==
    \A t \in ended :
        \/ \E c \in asked[t] : \E d \in Depends(c) : file[d] # "good"
        \/ \E u \in Thread : \E c \in asked[u] : \E d \in Depends(c) : Disastrous(d)

(* The inductive invariant. *)

\* A class is inserted once, and only then is its <clinit> started.
CountsExact == \A c \in Class : table[c] <= 1 /\ runs[c] <= table[c]

\* The table is closed under superclasses, and a ready class is in it.
TableClosed ==
    /\ Object \in ready /\ ready \subseteq Loaded
    /\ \A c \in Loaded \ {Object} : super[c] \in Loaded

(* A <clinit> that has not started, of a class in the table, is about to   *)
(* start in some thread; and a class about to be initialised is no         *)
(* superclass of another that the same thread initialises.                 *)
StartExact ==
    /\ \A c \in Loaded \ {Object} :
          needs[c] # NoClinit /\ runs[c] = 0 => \E t \in Thread : c \in Starting(t)
    /\ \A t \in Thread : \A d \in Starting(t) :
          runs[d] = 0 /\ \A c \in Initialising(t) \ {d} : d \notin Line(c)

(* A class in the table is ready or is initialised by one call of one      *)
(* thread; and only classes in the table are.                              *)
ClinitExact ==
    /\ \A t \in Thread : using[t] \subseteq Loaded
    /\ \A t \in Thread : Initialising(t) \subseteq Loaded \ ready
    /\ \A c \in Loaded \ ready : \E t \in Thread : c \in Initialising(t)
    /\ \A t, u \in Thread : \A i \in DOMAIN calls[t], j \in DOMAIN calls[u] :
          (/\ Initialises(calls[t][i]) /\ Initialises(calls[u][j])
           /\ calls[t][i].class = calls[u][j].class) => t = u /\ i = j

\* A thread is only busy with what its own program has asked for.
AskedFor ==
    \A t \in Thread : \A i \in DOMAIN calls[t] : \E c \in asked[t] :
        {calls[t][i].class} \cup calls[t][i].todo \subseteq Depends(c)

PoisonExact ==
    poisoned => \E u \in Thread : \E c \in asked[u] : \E d \in Depends(c) : Disastrous(d)

IInv ==
    /\ TypeOK
    /\ CountsExact
    /\ TableClosed
    /\ StartExact
    /\ ClinitExact
    /\ AskedFor
    /\ PoisonExact
    /\ FailuresContained

(* Loading comes to an end, even when the <clinit>s of several classes     *)
(* need each other.                                                        *)
LoadingEnds == \A t \in Thread : []<>(calls[t] = <<>> \/ t \in ended)
=============================================================================
