-------------------------- MODULE ObjectHeapProofs --------------------------
(* Proofs about ObjectHeap, for every finite set of mutators and of         *)
(* objects, however many references there are.                             *)
EXTENDS ObjectHeap, FiniteSetTheorems, SequenceTheorems, TLAPS

-----------------------------------------------------------------------------
(* Counting references.  `Is' and `Owned' are what one thing adds.         *)

Is(x, o) == IF x = o THEN 1 ELSE 0
Owned(x, o) == IF Owns(x, o) THEN 1 ELSE 0

HeldOf(h, o) == UNION {{t} \X (1..h[t][o]) : t \in Thread}
TasksOf(w, o) ==
    UNION {{t} \X {i \in 1..Len(w[t]) : Owns(w[t][Len(w[t]) + 1 - i], o)} : t \in Thread}
SlotsOf(s, o) == {p \in Place : s[p] = o}

(* One element more, or one less.                                          *)
LEMMA OneMore ==
    ASSUME NEW S, IsFiniteSet(S), NEW x, x \notin S
    PROVE  IsFiniteSet(S \cup {x}) /\ Cardinality(S \cup {x}) = Cardinality(S) + 1 /\ Cardinality(S) \in Nat
BY FS_AddElement, FS_CardinalityType

(* The same, for an element taken out.                                     *)
LEMMA OneLess ==
    ASSUME NEW S, IsFiniteSet(S), NEW x \in S
    PROVE  /\ IsFiniteSet(S \ {x}) /\ Cardinality(S) = Cardinality(S \ {x}) + 1
           /\ Cardinality(S) \in Nat /\ Cardinality(S \ {x}) \in Nat
<1>1. IsFiniteSet(S \ {x}) /\ x \notin S \ {x} /\ (S \ {x}) \cup {x} = S
  BY FS_RemoveElement
<1>2. QED
  BY <1>1, OneMore, FS_CardinalityType

(* A mutator holds one reference more.                                     *)
HeldMore(h, g, t, o) ==
    /\ h \in [Thread -> [Object -> Nat]] /\ g \in [Thread -> [Object -> Nat]]
    /\ g[t][o] = h[t][o] + 1
    /\ \A u \in Thread, q \in Object : (u # t \/ q # o) => g[u][q] = h[u][q]

(* Then there is one reference more to what it holds.                      *)
LEMMA HeldCount ==
    ASSUME NEW h, NEW g, NEW t \in Thread, NEW o \in Object, HeldMore(h, g, t, o),
           NEW q \in Object, IsFiniteSet(HeldOf(h, q)) \/ IsFiniteSet(HeldOf(g, q))
    PROVE  /\ IsFiniteSet(HeldOf(h, q)) /\ IsFiniteSet(HeldOf(g, q))
           /\ Cardinality(HeldOf(g, q)) = Cardinality(HeldOf(h, q)) + Is(q, o)
           /\ Cardinality(HeldOf(h, q)) \in Nat
<1> USE DEF HeldMore
<1>1. CASE q = o
  <2>1. h[t][q] \in Nat
    OBVIOUS
  <2>2. 1..g[t][q] = (1..h[t][q]) \cup {h[t][q] + 1} /\ h[t][q] + 1 \notin 1..h[t][q]
    BY SMTT(60), <1>1, <2>1
  <2>3. \A u \in Thread \ {t} : g[u][q] = h[u][q]
    OBVIOUS
  <2>4. HeldOf(g, q) = HeldOf(h, q) \cup {<<t, h[t][q] + 1>>}
    BY <2>2, <2>3 DEF HeldOf
  <2>5. <<t, h[t][q] + 1>> \notin HeldOf(h, q)
    BY <2>2 DEF HeldOf
  <2>6. IsFiniteSet(HeldOf(h, q))
    BY <2>4, FS_Subset
  <2>7. Is(q, o) = 1
    BY <1>1 DEF Is
  <2>8. PICK x : x = <<t, h[t][q] + 1>>
    OBVIOUS
  <2>9. HeldOf(g, q) = HeldOf(h, q) \cup {x} /\ x \notin HeldOf(h, q)
    BY <2>4, <2>5, <2>8
  <2>10. /\ IsFiniteSet(HeldOf(h, q) \cup {x})
         /\ Cardinality(HeldOf(h, q) \cup {x}) = Cardinality(HeldOf(h, q)) + 1
         /\ Cardinality(HeldOf(h, q)) \in Nat
    BY <2>6, <2>9, OneMore
  <2>11. QED
    BY <2>6, <2>7, <2>9, <2>10
<1>2. CASE q # o
  <2>1. HeldOf(g, q) = HeldOf(h, q)
    BY <1>2 DEF HeldOf
  <2>2. QED
    BY <1>2, <2>1, FS_CardinalityType DEF Is
<1>3. QED
  BY <1>1, <1>2

(* A task in front of those of an instruction.                             *)
TaskMore(w, v, t) ==
    /\ w \in [Thread -> Seq(Task)] /\ v \in [Thread -> Seq(Task)]
    /\ Len(v[t]) = Len(w[t]) + 1
    /\ \A i \in 1..Len(w[t]) : v[t][i + 1] = w[t][i]
    /\ \A u \in Thread \ {t} : v[u] = w[u]

(* Then the reference that it owns is one more.                            *)
LEMMA TasksMore ==
    ASSUME NEW w, NEW v, NEW t \in Thread, TaskMore(w, v, t), NEW o
    PROVE  /\ TasksOf(v, o) = TasksOf(w, o) \cup (IF Owns(v[t][1], o) THEN {<<t, Len(v[t])>>} ELSE {})
           /\ <<t, Len(v[t])>> \notin TasksOf(w, o)
<1> USE DEF TaskMore
<1>1. PICK n \in Nat : n = Len(w[t]) /\ Len(v[t]) = n + 1
  BY LenProperties
<1>2. ASSUME NEW i \in 1..n
      PROVE  v[t][(n + 1) + 1 - i] = w[t][n + 1 - i]
  <2>1. n + 1 - i \in 1..n /\ (n + 1 - i) + 1 = (n + 1) + 1 - i
    OBVIOUS
  <2>2. QED
    BY <1>1, <2>1
<1>3. (n + 1) + 1 - (n + 1) = 1 /\ n + 1 \notin 1..n /\ 1..n + 1 = (1..n) \cup {n + 1}
  OBVIOUS
<1>4. {i \in 1..n + 1 : Owns(v[t][(n + 1) + 1 - i], o)}
        = {i \in 1..n : Owns(w[t][n + 1 - i], o)} \cup (IF Owns(v[t][1], o) THEN {n + 1} ELSE {})
  BY <1>2, <1>3
<1>5. TasksOf(v, o) = TasksOf(w, o) \cup (IF Owns(v[t][1], o) THEN {<<t, n + 1>>} ELSE {})
  <2>1. {t} \X {i \in 1..Len(v[t]) : Owns(v[t][Len(v[t]) + 1 - i], o)}
          = ({t} \X {i \in 1..Len(w[t]) : Owns(w[t][Len(w[t]) + 1 - i], o)})
              \cup (IF Owns(v[t][1], o) THEN {<<t, n + 1>>} ELSE {})
    BY <1>1, <1>4
  <2>2. QED
    BY SMTT(60), <2>1 DEF TasksOf
<1>6. <<t, n + 1>> \notin TasksOf(w, o)
  BY <1>1, <1>3 DEF TasksOf
<1>7. QED
  BY <1>1, <1>5, <1>6

(* And the number of references grows with it.                             *)
LEMMA TasksCount ==
    ASSUME NEW w, NEW v, NEW t \in Thread, TaskMore(w, v, t), NEW o, IsFiniteSet(TasksOf(w, o)) \/ IsFiniteSet(TasksOf(v, o))
    PROVE  /\ IsFiniteSet(TasksOf(w, o)) /\ IsFiniteSet(TasksOf(v, o))
           /\ Cardinality(TasksOf(v, o)) = Cardinality(TasksOf(w, o)) + Owned(v[t][1], o)
           /\ Cardinality(TasksOf(w, o)) \in Nat
<1>1. /\ TasksOf(v, o) = TasksOf(w, o) \cup (IF Owns(v[t][1], o) THEN {<<t, Len(v[t])>>} ELSE {})
      /\ <<t, Len(v[t])>> \notin TasksOf(w, o)
  BY TasksMore
<1>2. CASE Owns(v[t][1], o)
  <2>1. TasksOf(v, o) = TasksOf(w, o) \cup {<<t, Len(v[t])>>}
    BY <1>1, <1>2
  <2>2. IsFiniteSet(TasksOf(w, o))
    BY <2>1, FS_Subset
  <2>3. QED
    BY <1>1, <1>2, <2>1, <2>2, OneMore DEF Owned
<1>3. CASE ~Owns(v[t][1], o)
  <2>1. TasksOf(v, o) = TasksOf(w, o)
    BY <1>1, <1>3
  <2>2. QED
    BY <1>3, <2>1, FS_CardinalityType DEF Owned
<1>4. QED
  BY <1>2, <1>3

(* A slot that refers to something else.                                   *)
LEMMA SlotsFinite ==
    ASSUME NEW s, NEW o
    PROVE  IsFiniteSet(SlotsOf(s, o)) /\ Cardinality(SlotsOf(s, o)) \in Nat
<1>1. IsFiniteSet(Place)
  BY NamesAssumption, FS_AddElement DEF Place
<1>2. SlotsOf(s, o) \subseteq Place
  BY DEF SlotsOf
<1>3. QED
  BY <1>1, <1>2, FS_Subset, FS_CardinalityType

(* One slot is written.                                                    *)
SameBut(s, r, p) == \A x \in Place \ {p} : r[x] = s[x]

(* Only what it referred to and what it refers to count differently.       *)
LEMMA SlotCount ==
    ASSUME NEW s, NEW r, NEW p \in Place, SameBut(s, r, p), NEW o
    PROVE  Cardinality(SlotsOf(r, o)) = Cardinality(SlotsOf(s, o)) - Is(s[p], o) + Is(r[p], o)
<1> DEFINE R == SlotsOf(s, o) \ {p}
<1>1. R = SlotsOf(r, o) \ {p}
  BY DEF SlotsOf, SameBut
<1>2. (s[p] = o => p \in SlotsOf(s, o)) /\ (s[p] # o => R = SlotsOf(s, o))
  BY DEF SlotsOf
<1>3. (r[p] = o => p \in SlotsOf(r, o)) /\ (r[p] # o => R = SlotsOf(r, o))
  BY <1>1 DEF SlotsOf
<1>4. IsFiniteSet(SlotsOf(s, o)) /\ IsFiniteSet(SlotsOf(r, o))
  BY SlotsFinite
<1>5. PICK a \in Nat, b \in Nat, c \in Nat :
          a = Cardinality(SlotsOf(s, o)) /\ b = Cardinality(SlotsOf(r, o)) /\ c = Cardinality(R)
  BY <1>4, FS_CardinalityType, FS_RemoveElement
<1>6. a = c + Is(s[p], o)
  <2>1. CASE s[p] = o
    BY <1>2, <1>4, <1>5, <2>1, OneLess DEF Is
  <2>2. CASE s[p] # o
    BY <1>2, <1>5, <2>2 DEF Is
  <2>3. QED
    BY <2>1, <2>2
<1>7. b = c + Is(r[p], o)
  <2>1. CASE r[p] = o
    BY <1>1, <1>3, <1>4, <1>5, <2>1, OneLess DEF Is
  <2>2. CASE r[p] # o
    BY <1>3, <1>5, <2>2 DEF Is
  <2>3. QED
    BY <2>1, <2>2
<1>8. Is(s[p], o) \in Nat /\ Is(r[p], o) \in Nat
  BY DEF Is
<1>9. QED
  BY <1>5, <1>6, <1>7, <1>8

-----------------------------------------------------------------------------
(* What the instructions and their steps do to the counts. *)

Tasks(o) == Cardinality(TaskRefs(o))
Helds(o) == Cardinality(HeldRefs(o))
Slots(o) == Cardinality(SlotRefs(o))
Lists(o) == IF o \in objects THEN 1 ELSE 0

(* The counts are numbers and make up the strong count.                    *)
LEMMA Counts ==
    ASSUME IInv, NEW o \in Object
    PROVE  /\ Tasks(o) \in Nat /\ Helds(o) \in Nat /\ Slots(o) \in Nat /\ Lists(o) \in Nat
           /\ strong[o] = Tasks(o) + Helds(o) + Slots(o) + Lists(o)
           /\ IsFiniteSet(TaskRefs(o)) /\ IsFiniteSet(HeldRefs(o))
<1>1. IsFiniteSet(TaskRefs(o)) /\ IsFiniteSet(HeldRefs(o))
  BY DEF IInv, RefsFinite
<1>2. IsFiniteSet(SlotRefs(o))
  BY SlotsFinite DEF SlotRefs, SlotsOf
<1>3. Tasks(o) \in Nat /\ Helds(o) \in Nat /\ Slots(o) \in Nat /\ Lists(o) \in Nat
  BY <1>1, <1>2, FS_CardinalityType DEF Tasks, Helds, Slots, Lists
<1>4. strong[o] = (Tasks(o) + Helds(o) + Slots(o)) + Lists(o)
  BY DEF IInv, StrongExact, References, Tasks, Helds, Slots, Lists
<1>5. QED
  BY <1>1, <1>3, <1>4

(* A reference that a task owns is counted.                                *)
LEMMA TaskMember ==
    ASSUME TypeOK, NEW t \in Thread, NEW i \in DOMAIN work[t], NEW o, Owns(work[t][i], o)
    PROVE  <<t, Len(work[t]) + 1 - i>> \in TaskRefs(o) /\ Len(work[t]) + 1 - i \in 1..Len(work[t])
<1>1. PICK n \in Nat : n = Len(work[t]) /\ i \in 1..n
  BY LenProperties DEF TypeOK
<1>2. n + 1 - i \in 1..n /\ n + 1 - (n + 1 - i) = i
  BY <1>1
<1>3. QED
  BY SMTT(60), <1>1, <1>2 DEF TaskRefs

(* So there is at least one ..                                             *)
LEMMA TaskCounted ==
    ASSUME IInv, NEW t \in Thread, NEW i \in DOMAIN work[t], NEW o \in Object, Owns(work[t][i], o)
    PROVE  Tasks(o) >= 1
<1>1. TaskRefs(o) # {} /\ IsFiniteSet(TaskRefs(o))
  BY TaskMember DEF IInv, RefsFinite
<1>2. Tasks(o) # 0 /\ Tasks(o) \in Nat
  BY <1>1, FS_EmptySet, FS_CardinalityType DEF Tasks
<1>3. QED
  BY <1>2

(* .. and at least two when two tasks own one.                             *)
LEMMA TasksCounted ==
    ASSUME IInv, NEW t \in Thread, NEW i \in DOMAIN work[t], NEW u \in Thread, NEW j \in DOMAIN work[u],
           t # u \/ i # j, NEW o \in Object, Owns(work[t][i], o), Owns(work[u][j], o)
    PROVE  Tasks(o) >= 2
<1>1. PICK x : x = <<t, Len(work[t]) + 1 - i>> /\ x \in TaskRefs(o)
  BY TaskMember DEF IInv
<1>2. PICK y : y = <<u, Len(work[u]) + 1 - j>> /\ y \in TaskRefs(o)
  BY TaskMember DEF IInv
<1>3. x # y
  <2>0. work[t] \in Seq(Task) /\ work[u] \in Seq(Task)
    BY DEF IInv, TypeOK
  <2>1. PICK m \in Nat : m = Len(work[t]) /\ i \in 1..m
    BY <2>0, LenProperties
  <2>1a. PICK n \in Nat : n = Len(work[u]) /\ j \in 1..n
    BY <2>0, LenProperties
  <2>2. ASSUME t = u, m + 1 - i = n + 1 - j
        PROVE  FALSE
    <3>1. i \in Nat /\ j \in Nat /\ m = n /\ i # j
      BY <2>1, <2>1a, <2>2
    <3>2. QED
      BY <2>1, <2>1a, <2>2, <3>1
  <2>3. QED
    BY <1>1, <1>2, <2>1, <2>1a, <2>2
<1>4. IsFiniteSet(TaskRefs(o))
  BY DEF IInv, RefsFinite
<1>5. /\ IsFiniteSet(TaskRefs(o) \ {x}) /\ Cardinality(TaskRefs(o)) = Cardinality(TaskRefs(o) \ {x}) + 1
      /\ Cardinality(TaskRefs(o) \ {x}) \in Nat
  BY <1>1, <1>4, OneLess
<1>6. Cardinality(TaskRefs(o) \ {x}) # 0
  BY <1>2, <1>3, <1>5, FS_EmptySet
<1>7. QED
  BY <1>5, <1>6 DEF Tasks

(* A reference that a mutator holds counts.                                *)
LEMMA HeldCounted ==
    ASSUME IInv, NEW t \in Thread, NEW o \in Holding(t)
    PROVE  Helds(o) >= 1 /\ o \in Object
<1>1. o \in Object /\ held[t][o] \in Nat /\ held[t][o] > 0
  BY DEF Holding, IInv, TypeOK
<1>2. 1 \in 1..held[t][o]
  BY <1>1
<1>3. <<t, 1>> \in HeldRefs(o)
  BY <1>2 DEF HeldRefs
<1>4. IsFiniteSet(HeldRefs(o))
  BY <1>1 DEF IInv, RefsFinite
<1>5. Helds(o) # 0 /\ Helds(o) \in Nat
  BY <1>3, <1>4, FS_EmptySet, FS_CardinalityType DEF Helds
<1>6. QED
  BY <1>1, <1>5

(* A slot that refers to an object counts.                                 *)
LEMMA SlotCounted ==
    ASSUME NEW p \in Place, slot[p] \in Object
    PROVE  Slots(slot[p]) >= 1
<1>1. IsFiniteSet(SlotRefs(slot[p])) /\ p \in SlotRefs(slot[p])
  BY SlotsFinite DEF SlotRefs, SlotsOf
<1>2. Slots(slot[p]) # 0 /\ Slots(slot[p]) \in Nat
  BY <1>1, FS_EmptySet, FS_CardinalityType DEF Slots
<1>3. QED
  BY <1>2

(* Whatever a mutator holds or a slot refers to is on the heap.            *)
LEMMA ReferredListed ==
    ASSUME IInv, NEW o \in Object, Helds(o) + Slots(o) >= 1
    PROVE  o \in objects /\ strong[o] >= 2
<1>1. /\ Tasks(o) \in Nat /\ Helds(o) \in Nat /\ Slots(o) \in Nat /\ Lists(o) \in Nat
      /\ strong[o] = Tasks(o) + Helds(o) + Slots(o) + Lists(o)
  BY Counts
<1>2. ASSUME o \notin objects
      PROVE  FALSE
  <2>1. strong[o] # 0
    BY <1>1
  <2>2. PICK t \in Thread : strong[o] = 1 /\ Doing(t, "release") /\ Now(t).obj = o
    BY <1>2, <2>1 DEF IInv, UnlistedReleasing
  <2>3. 1 \in DOMAIN work[t] /\ Owns(work[t][1], o)
    BY <2>2, LenProperties, EmptySeq DEF Doing, Now, Owns, IInv, TypeOK
  <2>4. Tasks(o) >= 1
    BY <2>3, TaskCounted
  <2>5. QED
    BY <1>1, <2>2, <2>4
<1>3. Lists(o) = 1
  BY <1>2 DEF Lists
<1>4. QED
  BY <1>1, <1>2, <1>3

(* A mutator holds one reference more.                                     *)
LEMMA PushCount ==
    ASSUME IInv, NEW t \in Thread, NEW o \in Object, Push(t, o), NEW q \in Object
    PROVE  /\ held' \in [Thread -> [Object -> Nat]]
           /\ IsFiniteSet(HeldRefs(q)') /\ Helds(q)' = Helds(q) + Is(q, o)
<1>1. held \in [Thread -> [Object -> Nat]] /\ held' = [held EXCEPT ![t][o] = @ + 1]
  BY DEF IInv, TypeOK, Push
<1>2. PICK g : g = held'
  OBVIOUS
<1>3. /\ g \in [Thread -> [Object -> Nat]] /\ g[t][o] = held[t][o] + 1
      /\ \A u \in Thread, r \in Object : u # t \/ r # o => g[u][r] = held[u][r]
  BY <1>1, <1>2
<1>4. IsFiniteSet(HeldOf(held, q))
  BY DEF IInv, RefsFinite, HeldRefs, HeldOf
<1>4a. PICK h : h = held
  OBVIOUS
<1>4b. HeldMore(h, g, t, o) /\ IsFiniteSet(HeldOf(h, q))
  BY <1>1, <1>3, <1>4, <1>4a DEF HeldMore
<1>5. /\ IsFiniteSet(HeldOf(g, q))
      /\ Cardinality(HeldOf(g, q)) = Cardinality(HeldOf(h, q)) + Is(q, o)
  BY <1>4b, HeldCount
<1>6. QED
  BY <1>2, <1>3, <1>4a, <1>5 DEF Helds, HeldRefs, HeldOf

(* A mutator gives one up.                                                 *)
LEMMA TakeCount ==
    ASSUME IInv, NEW t \in Thread, NEW o \in Holding(t), Take(t, o), NEW q \in Object
    PROVE  /\ held' \in [Thread -> [Object -> Nat]]
           /\ IsFiniteSet(HeldRefs(q)') /\ Helds(q)' + Is(q, o) = Helds(q) /\ Helds(q)' \in Nat
<1>1. /\ held \in [Thread -> [Object -> Nat]] /\ held' = [held EXCEPT ![t][o] = @ - 1]
      /\ o \in Object /\ held[t][o] > 0
  BY DEF IInv, TypeOK, Take, Holding
<1>2. PICK g : g = held'
  OBVIOUS
<1>3. /\ g \in [Thread -> [Object -> Nat]] /\ held[t][o] = g[t][o] + 1
      /\ \A u \in Thread, r \in Object : u # t \/ r # o => held[u][r] = g[u][r]
  BY <1>1, <1>2
<1>4. IsFiniteSet(HeldOf(held, q))
  BY DEF IInv, RefsFinite, HeldRefs, HeldOf
<1>4a. PICK h : h = held
  OBVIOUS
<1>4b. HeldMore(g, h, t, o) /\ IsFiniteSet(HeldOf(h, q)) /\ o \in Object
  BY <1>1, <1>3, <1>4, <1>4a DEF HeldMore
<1>5. /\ IsFiniteSet(HeldOf(g, q)) /\ Cardinality(HeldOf(g, q)) \in Nat
      /\ Cardinality(HeldOf(h, q)) = Cardinality(HeldOf(g, q)) + Is(q, o)
  BY <1>4b, HeldCount
<1>6. QED
  BY <1>2, <1>3, <1>4a, <1>5 DEF Helds, HeldRefs, HeldOf

-----------------------------------------------------------------------------
(* What is left of an instruction after a step. *)

Shorter(w, v) ==
    /\ w \in Seq(Task) /\ v \in Seq(Task) /\ Len(w) = Len(v) + 1
    /\ \A i \in DOMAIN v : i + 1 \in DOMAIN w /\ v[i] = w[i + 1]

Replaced(w, v, x) ==
    /\ w \in Seq(Task) /\ v \in Seq(Task) /\ Len(v) = Len(w) /\ 1 \in DOMAIN w
    /\ DOMAIN v = DOMAIN w
    /\ v[1] = x /\ \A i \in DOMAIN v : i # 1 => v[i] = w[i]

(* The first task of an instruction.                                       *)
LEMMA FirstTask ==
    ASSUME TypeOK, NEW t \in Thread, work[t] # <<>>
    PROVE  1 \in DOMAIN work[t] /\ Now(t) = work[t][1] /\ Now(t) \in Task
<1>1. work[t] \in Seq(Task)
  BY DEF TypeOK
<1>2. Len(work[t]) \in Nat /\ Len(work[t]) # 0 /\ DOMAIN work[t] = 1..Len(work[t])
  BY <1>1, LenProperties, EmptySeq
<1>3. 1 \in DOMAIN work[t]
  BY <1>2
<1>4. QED
  BY <1>1, <1>3, ElementOfSeq DEF Now

(* The first task is done and leaves nothing ..                            *)
LEMMA EndStep ==
    ASSUME TypeOK, NEW t \in Thread, work[t] # <<>>, Continue(t, <<>>)
    PROVE  /\ work' \in [Thread -> Seq(Task)] /\ Shorter(work[t], work'[t])
           /\ \A u \in Thread \ {t} : work'[u] = work[u]
           /\ TaskMore(work', work, t)
<1>1. work \in [Thread -> Seq(Task)] /\ work[t] \in Seq(Task)
  BY DEF TypeOK
<1>2. PICK w \in Seq(Task) : w = work[t] /\ w # <<>>
  BY <1>1
<1>3. PICK v \in Seq(Task) : v = Tail(w)
  BY <1>2, HeadTailProperties
<1>4. <<>> \o v = v
  BY ConcatEmptySeq
<1>5. work' = [work EXCEPT ![t] = v]
  BY <1>2, <1>3, <1>4 DEF Continue
<1>6. Len(w) = Len(v) + 1 /\ \A i \in 1..Len(v) : v[i] = w[i + 1]
  <2>1. PICK n \in Nat : n = Len(w) /\ n # 0
    BY <1>2, LenProperties, EmptySeq
  <2>2. Len(v) = n - 1 /\ n - 1 \in Nat
    <3>1. Len(v) = Len(w) - 1
      BY <1>2, <1>3, HeadTailProperties
    <3>2. n - 1 \in Nat
      BY <2>1
    <3>3. QED
      BY <2>1, <3>1, <3>2
  <2>2a. PICK m \in Nat : m = Len(v) /\ m = n - 1
    BY <2>2
  <2>3. n = m + 1
    BY <2>1, <2>2a
  <2>4. QED
    BY <1>2, <1>3, <2>1, <2>2a, <2>3, HeadTailProperties
<1>7. DOMAIN v = 1..Len(v) /\ DOMAIN w = 1..Len(w) /\ Len(v) \in Nat
  BY LenProperties
<1>8. \A i \in DOMAIN v : i + 1 \in DOMAIN w
  BY <1>6, <1>7
<1>9. work' \in [Thread -> Seq(Task)] /\ work'[t] = v /\ \A u \in Thread \ {t} : work'[u] = work[u]
  BY <1>1, <1>5
<1>10. Shorter(w, v)
  BY <1>6, <1>7, <1>8 DEF Shorter
<1>11. QED
  BY <1>1, <1>2, <1>6, <1>9, <1>10 DEF TaskMore

(* .. or another task in its place.                                        *)
LEMMA GoStep ==
    ASSUME TypeOK, NEW t \in Thread, work[t] # <<>>, NEW x \in Task, Continue(t, <<x>>)
    PROVE  /\ work' \in [Thread -> Seq(Task)] /\ Replaced(work[t], work'[t], x)
           /\ \A u \in Thread \ {t} : work'[u] = work[u]
           /\ \E m : TaskMore(m, work, t) /\ TaskMore(m, work', t)
<1>1. work \in [Thread -> Seq(Task)] /\ work[t] \in Seq(Task)
  BY DEF TypeOK
<1>2. PICK w \in Seq(Task) : w = work[t] /\ w # <<>>
  BY <1>1
<1>3. PICK b \in Seq(Task) : b = Tail(w)
  BY <1>2, HeadTailProperties
<1>3a. <<x>> \in Seq(Task) /\ Len(<<x>>) = 1 /\ <<x>>[1] = x
  OBVIOUS
<1>4. PICK a \in Seq(Task) : a = <<x>> /\ Len(a) = 1 /\ a[1] = x
  BY <1>3a
<1>5. PICK v \in Seq(Task) : v = a \o b
  BY ConcatProperties
<1>6. work' = [work EXCEPT ![t] = v]
  BY <1>2, <1>3, <1>4, <1>5 DEF Continue
<1>7. PICK m \in Nat : m = Len(b) /\ Len(w) = m + 1
  <2>1. PICK n \in Nat : n = Len(w) /\ n # 0
    BY <1>2, LenProperties, EmptySeq
  <2>2. Len(b) = n - 1 /\ n - 1 \in Nat
    <3>1. Len(b) = Len(w) - 1
      BY <1>2, <1>3, HeadTailProperties
    <3>2. n - 1 \in Nat
      BY <2>1
    <3>3. QED
      BY <2>1, <3>1, <3>2
  <2>2a. PICK m \in Nat : m = Len(b) /\ m = n - 1
    BY <2>2
  <2>3. n = m + 1
    BY <2>1, <2>2a
  <2>4. QED
    BY <2>1, <2>2a, <2>3
<1>8. \A i \in 1..m : b[i] = w[i + 1]
  BY <1>2, <1>3, <1>7, HeadTailProperties
<1>9. Len(v) = 1 + m /\ \A i \in 1..1 + m : v[i] = IF i <= 1 THEN a[i] ELSE b[i - 1]
  BY <1>4, <1>5, <1>7, ConcatProperties
<1>10. v[1] = x /\ \A i \in 1..m : v[i + 1] = b[i]
  <2>1. 1 \in 1..1 + m /\ \A i \in 1..m : i + 1 \in 1..1 + m /\ ~(i + 1 <= 1) /\ (i + 1) - 1 = i
    OBVIOUS
  <2>2. QED
    BY <1>4, <1>9, <2>1
<1>11. DOMAIN v = 1..Len(v) /\ DOMAIN w = 1..Len(w)
  BY LenProperties
<1>12. \A i \in DOMAIN v : i # 1 => v[i] = w[i]
  <2>1. SUFFICES ASSUME NEW i \in 1..1 + m, i # 1 PROVE v[i] = w[i]
    BY <1>9, <1>11
  <2>2. i - 1 \in 1..m /\ (i - 1) + 1 = i
    BY <2>1
  <2>3. QED
    BY <1>8, <1>10, <2>2
<1>13. Replaced(w, v, x)
  <2>1. 1 \in 1..m + 1 /\ 1 + m = m + 1
    OBVIOUS
  <2>2. QED
    BY <1>7, <1>9, <1>10, <1>11, <1>12, <2>1 DEF Replaced
<1>14. work' \in [Thread -> Seq(Task)] /\ work'[t] = v /\ \A u \in Thread \ {t} : work'[u] = work[u]
  BY <1>1, <1>6
<1>15. PICK c : c = [work EXCEPT ![t] = b]
  OBVIOUS
<1>16. TaskMore(c, work, t)
  BY <1>1, <1>2, <1>7, <1>8, <1>15 DEF TaskMore
<1>17. TaskMore(c, work', t)
  BY <1>1, <1>7, <1>9, <1>10, <1>14, <1>15 DEF TaskMore
<1>18. QED
  BY <1>2, <1>13, <1>14, <1>16, <1>17

(* The references that tasks own, as a function of the lists.              *)
LEMMA TasksFinite ==
    ASSUME IInv, NEW q \in Object
    PROVE  IsFiniteSet(TasksOf(work, q)) /\ TaskRefs(q) = TasksOf(work, q)
<1>1. TaskRefs(q) = TasksOf(work, q)
  BY DEF TaskRefs, TasksOf
<1>2. QED
  BY <1>1 DEF IInv, RefsFinite

(* What a finished task owned is gone ..                                   *)
LEMMA EndCount ==
    ASSUME IInv, NEW t \in Thread, work[t] # <<>>, Continue(t, <<>>), NEW q \in Object
    PROVE  /\ IsFiniteSet(TaskRefs(q)') /\ Tasks(q)' \in Nat
           /\ Tasks(q) = Tasks(q)' + Owned(Now(t), q)
<1>1. PICK v, w : v = work' /\ w = work /\ TaskMore(v, w, t)
  BY EndStep DEF IInv
<1>2. IsFiniteSet(TasksOf(w, q))
  BY <1>1, TasksFinite
<1>3. /\ IsFiniteSet(TasksOf(v, q)) /\ Cardinality(TasksOf(v, q)) \in Nat
      /\ Cardinality(TasksOf(w, q)) = Cardinality(TasksOf(v, q)) + Owned(w[t][1], q)
  BY <1>1, <1>2, TasksCount
<1>4. Now(t) = w[t][1]
  BY <1>1, FirstTask DEF IInv
<1>5. TasksOf(v, q) = TaskRefs(q)' /\ TasksOf(w, q) = TaskRefs(q)
  BY <1>1 DEF TaskRefs, TasksOf
<1>6. QED
  BY <1>3, <1>4, <1>5 DEF Tasks

(* .. and what the task in its place owns is added.                        *)
LEMMA GoCount ==
    ASSUME IInv, NEW t \in Thread, work[t] # <<>>, NEW x \in Task, Continue(t, <<x>>), NEW q \in Object
    PROVE  /\ IsFiniteSet(TaskRefs(q)') /\ Tasks(q)' \in Nat
           /\ Tasks(q)' + Owned(Now(t), q) = Tasks(q) + Owned(x, q)
<1>1. PICK m : TaskMore(m, work, t) /\ TaskMore(m, work', t)
  BY GoStep DEF IInv
<1>2. PICK v, w : v = work' /\ w = work /\ TaskMore(m, w, t) /\ TaskMore(m, v, t)
  BY <1>1
<1>3. IsFiniteSet(TasksOf(w, q))
  BY <1>2, TasksFinite
<1>4. /\ IsFiniteSet(TasksOf(m, q)) /\ Cardinality(TasksOf(m, q)) \in Nat
      /\ Cardinality(TasksOf(w, q)) = Cardinality(TasksOf(m, q)) + Owned(w[t][1], q)
  BY <1>2, <1>3, TasksCount
<1>5. /\ IsFiniteSet(TasksOf(v, q))
      /\ Cardinality(TasksOf(v, q)) = Cardinality(TasksOf(m, q)) + Owned(v[t][1], q)
  BY <1>2, <1>4, TasksCount
<1>6. Now(t) = w[t][1] /\ v[t][1] = x
  BY <1>2, FirstTask, GoStep DEF IInv, Replaced
<1>7. TasksOf(v, q) = TaskRefs(q)' /\ TasksOf(w, q) = TaskRefs(q)
  BY <1>2 DEF TaskRefs, TasksOf
<1>8. PICK a \in Nat, b \in Nat, c \in Nat :
          a = Cardinality(TasksOf(m, q)) /\ b = Owned(w[t][1], q) /\ c = Owned(v[t][1], q)
  BY <1>4 DEF Owned
<1>9. a + c + b = a + b + c /\ a + c \in Nat
  OBVIOUS
<1>10. QED
  BY <1>4, <1>5, <1>6, <1>7, <1>8, <1>9 DEF Tasks

(* Only the mutator's own list has changed.                                *)
LEMMA BeginStep ==
    ASSUME TypeOK, NEW t \in Thread, NEW s \in Seq(Task), Begin(t, s)
    PROVE  /\ work' \in [Thread -> Seq(Task)] /\ work'[t] = s /\ work[t] = <<>>
           /\ \A u \in Thread \ {t} : work'[u] = work[u]
BY DEF TypeOK, Begin

(* The first tasks of an instruction, one at a time.                       *)
LEMMA OneTask ==
    ASSUME NEW w \in [Thread -> Seq(Task)], NEW t \in Thread, w[t] = <<>>, NEW x \in Task
    PROVE  TaskMore(w, [w EXCEPT ![t] = <<x>>], t)
<1>1. <<x>> \in Seq(Task) /\ Len(<<x>>) = 1 /\ Len(w[t]) = 0 /\ 1..0 = {} /\ 0 + 1 = 1
  OBVIOUS
<1>2. QED
  BY <1>1 DEF TaskMore

(* A second one in front.                                                  *)
LEMMA TwoTasks ==
    ASSUME NEW w \in [Thread -> Seq(Task)], NEW t \in Thread, NEW x \in Task, NEW y \in Task, w[t] = <<y>>
    PROVE  TaskMore(w, [w EXCEPT ![t] = <<x, y>>], t)
<1>1. <<x, y>> \in Seq(Task) /\ Len(<<x, y>>) = 2 /\ Len(w[t]) = 1 /\ 1..1 = {1} /\ 1 + 1 = 2
  OBVIOUS
<1>2. <<x, y>>[2] = w[t][1]
  OBVIOUS
<1>3. QED
  BY <1>1, <1>2 DEF TaskMore

(* A third one.                                                            *)
LEMMA ThreeTasks ==
    ASSUME NEW w \in [Thread -> Seq(Task)], NEW t \in Thread, NEW x \in Task, NEW y \in Task, NEW z \in Task,
           w[t] = <<y, z>>
    PROVE  TaskMore(w, [w EXCEPT ![t] = <<x, y, z>>], t)
<1>1. /\ <<x, y, z>> \in Seq(Task) /\ Len(<<x, y, z>>) = 3 /\ Len(w[t]) = 2
      /\ 1..2 = {1, 2} /\ 2 + 1 = 3 /\ 1 + 1 = 2
  OBVIOUS
<1>2. <<x, y, z>>[2] = w[t][1] /\ <<x, y, z>>[3] = w[t][2]
  OBVIOUS
<1>3. QED
  BY <1>1, <1>2 DEF TaskMore

(* An instruction of one task.                                             *)
LEMMA BeginCount1 ==
    ASSUME IInv, NEW t \in Thread, NEW x \in Task, Begin(t, <<x>>), NEW q \in Object
    PROVE  IsFiniteSet(TaskRefs(q)') /\ Tasks(q)' = Tasks(q) + Owned(x, q)
<1>1. work \in [Thread -> Seq(Task)] /\ work[t] = <<>>
  BY DEF IInv, TypeOK, Begin
<1>2. PICK w \in [Thread -> Seq(Task)] : w = work /\ w[t] = <<>>
  BY <1>1
<1>3. PICK v : v = [w EXCEPT ![t] = <<x>>]
  OBVIOUS
<1>3a. v[t] = <<x>> /\ v[t][1] = x
  BY <1>2, <1>3
<1>4. TaskMore(w, v, t)
  BY <1>2, <1>3, <1>3a, OneTask
<1>5. IsFiniteSet(TasksOf(w, q))
  BY <1>2, TasksFinite
<1>6. /\ IsFiniteSet(TasksOf(v, q)) /\ Cardinality(TasksOf(w, q)) \in Nat
      /\ Cardinality(TasksOf(v, q)) = Cardinality(TasksOf(w, q)) + Owned(v[t][1], q)
  BY <1>4, <1>5, TasksCount
<1>7. work' = v
  BY <1>2, <1>3 DEF Begin
<1>8. TaskRefs(q)' = TasksOf(v, q) /\ TaskRefs(q) = TasksOf(w, q)
  BY <1>2, <1>7 DEF TaskRefs, TasksOf
<1>9. QED
  BY <1>3a, <1>6, <1>8 DEF Tasks

(* An instruction of two tasks.                                            *)
LEMMA BeginCount2 ==
    ASSUME IInv, NEW t \in Thread, NEW x \in Task, NEW y \in Task, Begin(t, <<x, y>>), NEW q \in Object
    PROVE  IsFiniteSet(TaskRefs(q)') /\ Tasks(q)' = Tasks(q) + Owned(y, q) + Owned(x, q)
<1>1. work \in [Thread -> Seq(Task)] /\ work[t] = <<>>
  BY DEF IInv, TypeOK, Begin
<1>2. PICK w \in [Thread -> Seq(Task)] : w = work /\ w[t] = <<>>
  BY <1>1
<1>3. PICK v : v = [w EXCEPT ![t] = <<y>>]
  OBVIOUS
<1>3a. v[t] = <<y>> /\ v[t][1] = y
  BY <1>2, <1>3
<1>4. TaskMore(w, v, t) /\ v \in [Thread -> Seq(Task)]
  BY <1>2, <1>3, <1>3a, OneTask DEF TaskMore
<1>5. PICK u : u = [v EXCEPT ![t] = <<x, y>>]
  OBVIOUS
<1>5a. u[t] = <<x, y>> /\ u[t][1] = x
  BY <1>4, <1>5
<1>6. TaskMore(v, u, t)
  BY <1>3a, <1>4, <1>5, TwoTasks
<1>7. IsFiniteSet(TasksOf(w, q))
  BY <1>2, TasksFinite
<1>8. /\ IsFiniteSet(TasksOf(v, q)) /\ Cardinality(TasksOf(w, q)) \in Nat
      /\ Cardinality(TasksOf(v, q)) = Cardinality(TasksOf(w, q)) + Owned(v[t][1], q)
  BY <1>4, <1>7, TasksCount
<1>9. /\ IsFiniteSet(TasksOf(u, q))
      /\ Cardinality(TasksOf(u, q)) = Cardinality(TasksOf(v, q)) + Owned(u[t][1], q)
  BY <1>6, <1>8, TasksCount
<1>10. work' = u
  BY <1>2, <1>3, <1>5 DEF Begin
<1>11. TaskRefs(q)' = TasksOf(u, q) /\ TaskRefs(q) = TasksOf(w, q)
  BY <1>2, <1>10 DEF TaskRefs, TasksOf
<1>12. IsFiniteSet(TasksOf(u, q)) /\ Cardinality(TasksOf(u, q)) = Cardinality(TasksOf(w, q)) + Owned(y, q) + Owned(x, q)
  BY <1>3a, <1>5a, <1>8, <1>9
<1>13. QED
  BY <1>11, <1>12 DEF Tasks

(* An instruction of three tasks.                                          *)
LEMMA BeginCount3 ==
    ASSUME IInv, NEW t \in Thread, NEW x \in Task, NEW y \in Task, NEW z \in Task,
           Begin(t, <<x, y, z>>), NEW q \in Object
    PROVE  IsFiniteSet(TaskRefs(q)') /\ Tasks(q)' = Tasks(q) + Owned(z, q) + Owned(y, q) + Owned(x, q)
<1>1. work \in [Thread -> Seq(Task)] /\ work[t] = <<>>
  BY DEF IInv, TypeOK, Begin
<1>2. PICK w \in [Thread -> Seq(Task)] : w = work /\ w[t] = <<>>
  BY <1>1
<1>3. PICK v : v = [w EXCEPT ![t] = <<z>>]
  OBVIOUS
<1>3a. v[t] = <<z>> /\ v[t][1] = z
  BY <1>2, <1>3
<1>4. TaskMore(w, v, t) /\ v \in [Thread -> Seq(Task)]
  BY <1>2, <1>3, <1>3a, OneTask DEF TaskMore
<1>5. PICK u : u = [v EXCEPT ![t] = <<y, z>>]
  OBVIOUS
<1>5a. u[t] = <<y, z>> /\ u[t][1] = y
  BY <1>4, <1>5
<1>6. TaskMore(v, u, t) /\ u \in [Thread -> Seq(Task)]
  BY <1>3a, <1>4, <1>5, TwoTasks DEF TaskMore
<1>7. PICK r : r = [u EXCEPT ![t] = <<x, y, z>>]
  OBVIOUS
<1>7a. r[t] = <<x, y, z>> /\ r[t][1] = x
  BY <1>6, <1>7
<1>8. TaskMore(u, r, t)
  BY <1>5a, <1>6, <1>7, ThreeTasks
<1>9. IsFiniteSet(TasksOf(w, q))
  BY <1>2, TasksFinite
<1>10. /\ IsFiniteSet(TasksOf(v, q)) /\ Cardinality(TasksOf(w, q)) \in Nat
       /\ Cardinality(TasksOf(v, q)) = Cardinality(TasksOf(w, q)) + Owned(v[t][1], q)
  BY <1>4, <1>9, TasksCount
<1>11. /\ IsFiniteSet(TasksOf(u, q))
       /\ Cardinality(TasksOf(u, q)) = Cardinality(TasksOf(v, q)) + Owned(u[t][1], q)
  BY <1>6, <1>10, TasksCount
<1>12. /\ IsFiniteSet(TasksOf(r, q))
       /\ Cardinality(TasksOf(r, q)) = Cardinality(TasksOf(u, q)) + Owned(r[t][1], q)
  BY <1>8, <1>11, TasksCount
<1>13. work' = r
  BY <1>2, <1>3, <1>5, <1>7 DEF Begin
<1>14. QED
  BY <1>2, <1>3a, <1>5a, <1>7a, <1>10, <1>11, <1>12, <1>13 DEF Tasks, TaskRefs, TasksOf

-----------------------------------------------------------------------------
(* The order of an instruction's tasks, and the places they access. *)

Touches(w, p) == \E i \in DOMAIN w : w[i].op \in Accesses /\ w[i].at = p

(* Without its first task an instruction is still in order.                *)
LEMMA OrderlyShorter ==
    ASSUME NEW w, NEW v, Shorter(w, v), Orderly(w)
    PROVE  Orderly(v) /\ \A p : Touches(v, p) => Touches(w, p)
<1>1. PICK n \in Nat : n = Len(v) /\ DOMAIN v = 1..n /\ Len(w) = n + 1 /\ DOMAIN w = 1..n + 1
  BY LenProperties DEF Shorter
<1>2. \A i \in 1..n : i \in Nat /\ i + 1 \in 1..n + 1 /\ v[i] = w[i + 1] /\ i + 1 # 1
  BY SMTT(60), <1>1 DEF Shorter
<1>3. ASSUME NEW i \in 1..n
      PROVE  /\ v[i].op \in {"store", "drop"}
             /\ v[i].op \in {"clone", "drop", "lock", "release"} => v[i].obj \in Object
             /\ v[i].op \in Accesses => v[i].at \in Place
             /\ (v[i].op \in Accesses /\ v[i].at \in Object) =>
                   i < n /\ v[n] = task("drop", v[i].at, Null)
  <2>1. PICK k : k = i + 1 /\ k \in DOMAIN w /\ v[i] = w[k] /\ k # 1
    BY <1>1, <1>2
  <2>2. /\ w[k].op \in {"store", "drop"}
        /\ w[k].op \in {"clone", "drop", "lock", "release"} => w[k].obj \in Object
        /\ w[k].op \in Accesses => w[k].at \in Place
    BY <2>1 DEF Orderly
  <2>3. ASSUME w[k].op \in Accesses, w[k].at \in Object
        PROVE  i < n /\ v[n] = task("drop", w[k].at, Null)
    <3>1. k < n + 1 /\ w[n + 1] = task("drop", w[k].at, Null)
      BY <1>1, <2>1, <2>3 DEF Orderly
    <3>2. i < n /\ n \in 1..n
      BY <2>1, <3>1
    <3>3. QED
      BY <1>2, <3>1, <3>2
  <2>4. QED
    BY <2>1, <2>2, <2>3
<1>4. ASSUME NEW i \in 1..n, NEW j \in 1..n
      PROVE  /\ (v[i].op \in Accesses /\ v[j].op \in Accesses) => v[i].at = v[j].at
             /\ (v[i].op = "store" /\ v[j].op = "store") => i = j
  <2>1. PICK k : k = i + 1 /\ k \in DOMAIN w /\ v[i] = w[k]
    BY <1>1, <1>2
  <2>2. PICK l : l = j + 1 /\ l \in DOMAIN w /\ v[j] = w[l]
    BY <1>1, <1>2
  <2>3. k = l => i = j
    BY <2>1, <2>2
  <2>4. QED
    BY <2>1, <2>2, <2>3 DEF Orderly
<1>5. Orderly(v)
  BY <1>1, <1>3, <1>4 DEF Orderly
<1>6. \A p : Touches(v, p) => Touches(w, p)
  BY <1>1, <1>2 DEF Touches
<1>7. QED
  BY <1>5, <1>6

(* Nor does a task in place of the first one disturb the order, if it      *)
(* accesses nothing else.                                                  *)
LEMMA OrderlyReplaced ==
    ASSUME NEW w, NEW v, NEW x \in Task, Replaced(w, v, x), Orderly(w), x.op # "store",
           x.op \in {"clone", "drop", "lock", "release"} => x.obj \in Object,
           x.op \in Accesses => w[1].op \in Accesses /\ x.at = w[1].at
    PROVE  Orderly(v) /\ \A p : Touches(v, p) => Touches(w, p)
<1>1. PICK n \in Nat : n = Len(v) /\ DOMAIN v = 1..n /\ Len(w) = n /\ DOMAIN w = 1..n /\ 1 \in 1..n
  BY LenProperties DEF Replaced
<1>2. v[1] = x /\ \A i \in 1..n : i # 1 => v[i] = w[i]
  BY <1>1 DEF Replaced
<1>3. ASSUME NEW i \in 1..n
      PROVE  /\ v[i].op \notin {"store", "drop"} => i = 1
             /\ v[i].op \in {"clone", "drop", "lock", "release"} => v[i].obj \in Object
             /\ v[i].op \in Accesses => (w[i].op \in Accesses /\ v[i].at = w[i].at)
             /\ v[i].op = "store" => w[i].op = "store" /\ i # 1
  BY <1>1, <1>2 DEF Orderly
<1>4. ASSUME NEW i \in 1..n, v[i].op \in Accesses
      PROVE  v[i].at \in Place
  BY <1>1, <1>3, <1>4 DEF Orderly
<1>5. ASSUME NEW i \in 1..n, v[i].op \in Accesses, v[i].at \in Object
      PROVE  i < n /\ v[n] = task("drop", v[i].at, Null)
  <2>1. i < n /\ w[n] = task("drop", v[i].at, Null)
    BY <1>1, <1>3, <1>5 DEF Orderly
  <2>2. n # 1 /\ n \in 1..n
    BY <2>1
  <2>3. QED
    BY <1>2, <2>1, <2>2
<1>6. ASSUME NEW i \in 1..n, NEW j \in 1..n
      PROVE  /\ (v[i].op \in Accesses /\ v[j].op \in Accesses) => v[i].at = v[j].at
             /\ (v[i].op = "store" /\ v[j].op = "store") => i = j
  BY <1>1, <1>3 DEF Orderly
<1>7. Orderly(v)
  BY <1>1, <1>3, <1>4, <1>5, <1>6 DEF Orderly
<1>8. \A p : Touches(v, p) => Touches(w, p)
  BY <1>1, <1>3 DEF Touches
<1>9. QED
  BY <1>7, <1>8

(* A mutator that starts no access disturbs no other.                      *)
LEMMA WorkKept ==
    ASSUME IInv, NEW t \in Thread, \A u \in Thread \ {t} : work'[u] = work[u],
           Orderly(work'[t]),
           \A p : Touches(work'[t], p) => Touches(work[t], p) \/ ~InUse(t, p)
    PROVE  WorkOrderly' /\ Exclusive'
<1>1. \A u \in Thread : Orderly(work'[u])
  BY DEF IInv, WorkOrderly
<1>2. ASSUME NEW u \in Thread \ {t}, NEW p, Touches(work'[t], p), Touches(work[u], p)
      PROVE  FALSE
  <2>1. InUse(t, p)
    BY <1>2 DEF InUse, Touches
  <2>2. Touches(work[t], p)
    BY <1>2, <2>1
  <2>3. QED
    BY <1>2, <2>2 DEF IInv, Exclusive, Touches
<1>3. ASSUME NEW u \in Thread, NEW r \in Thread, NEW i \in DOMAIN work'[u], NEW j \in DOMAIN work'[r],
             u # r, work'[u][i].op \in Accesses, work'[r][j].op \in Accesses
      PROVE  work'[u][i].at # work'[r][j].at
  <2>1. Touches(work'[u], work'[u][i].at) /\ Touches(work'[r], work'[r][j].at)
    BY <1>3 DEF Touches
  <2>2. CASE u = t
    BY <1>2, <1>3, <2>1, <2>2
  <2>3. CASE r = t
    BY <1>2, <1>3, <2>1, <2>3
  <2>4. CASE u # t /\ r # t
    BY <1>3, <2>4 DEF IInv, Exclusive
  <2>5. QED
    BY <2>2, <2>3, <2>4
<1>4. QED
  BY <1>1, <1>3 DEF WorkOrderly, Exclusive

(* Counting afresh.                                                        *)
LEMMA Recount ==
    ASSUME \A q \in Object :
               /\ IsFiniteSet(TaskRefs(q)') /\ IsFiniteSet(HeldRefs(q)')
               /\ strong'[q] = Tasks(q)' + Helds(q)' + Slots(q)' + Lists(q)'
    PROVE  StrongExact' /\ RefsFinite'
BY DEF StrongExact, RefsFinite, References, Tasks, Helds, Slots, Lists

(* A reference is written over another.                                    *)
LEMMA WriteCount ==
    ASSUME IInv, NEW p \in Place, NEW x \in Object \cup {Null}, slot' = [slot EXCEPT ![p] = x],
           NEW q \in Object
    PROVE  Slots(q)' = Slots(q) - Is(slot[p], q) + Is(x, q)
<1>1. slot \in [Place -> Object \cup {Null}]
  BY DEF IInv, TypeOK
<1>2. PICK s, r : s = slot /\ r = slot' /\ r[p] = x /\ s[p] = slot[p] /\ SameBut(s, r, p)
  BY <1>1 DEF SameBut
<1>2a. SameBut(s, r, p)
  BY <1>2
<1>3. Cardinality(SlotsOf(r, q)) = Cardinality(SlotsOf(s, q)) - Is(s[p], q) + Is(r[p], q)
  BY <1>2a, SlotCount
<1>4. SlotsOf(r, q) = SlotRefs(q)' /\ SlotsOf(s, q) = SlotRefs(q)
  BY <1>2 DEF SlotsOf, SlotRefs
<1>5. QED
  BY <1>2, <1>3, <1>4 DEF Slots

(* What is not touched keeps its counts.                                   *)
LEMMA SameCounts ==
    ASSUME NEW q \in Object
    PROVE  /\ slot' = slot => Slots(q)' = Slots(q)
           /\ held' = held => Helds(q)' = Helds(q) /\ HeldRefs(q)' = HeldRefs(q)
           /\ work' = work => Tasks(q)' = Tasks(q) /\ TaskRefs(q)' = TaskRefs(q)
           /\ objects' = objects => Lists(q)' = Lists(q)
<1>1. ASSUME slot' = slot PROVE Slots(q)' = Slots(q)
  BY <1>1 DEF Slots, SlotRefs
<1>2. ASSUME held' = held PROVE Helds(q)' = Helds(q) /\ HeldRefs(q)' = HeldRefs(q)
  BY <1>2 DEF Helds, HeldRefs
<1>3. ASSUME work' = work PROVE Tasks(q)' = Tasks(q) /\ TaskRefs(q)' = TaskRefs(q)
  BY <1>3 DEF Tasks, TaskRefs
<1>4. ASSUME objects' = objects PROVE Lists(q)' = Lists(q)
  BY <1>4 DEF Lists
<1>5. QED
  BY <1>1, <1>2, <1>3, <1>4

(* An object that is off the heap stays with the mutator that releases it. *)
LEMMA ReleasingStays ==
    ASSUME IInv, NEW t \in Thread, \A u \in Thread \ {t} : work'[u] = work[u],
           ~Doing(t, "release"),
           \A o \in Object \ objects' : o \notin objects /\ strong'[o] = strong[o]
    PROVE  UnlistedReleasing'
<1>1. SUFFICES ASSUME NEW o \in Object \ objects', strong'[o] # 0
               PROVE  strong'[o] = 1 /\ \E u \in Thread : Doing(u, "release")' /\ Now(u)'.obj = o
  BY DEF UnlistedReleasing
<1>2. o \notin objects /\ strong'[o] = strong[o]
  OBVIOUS
<1>3. PICK u \in Thread : strong[o] = 1 /\ Doing(u, "release") /\ Now(u).obj = o
  BY <1>1, <1>2 DEF IInv, UnlistedReleasing
<1>4. work'[u] = work[u]
  BY <1>3
<1>5. Doing(u, "release")' /\ Now(u)'.obj = o
  BY <1>3, <1>4 DEF Doing, Now
<1>6. QED
  BY <1>2, <1>3, <1>5

(* What the others have read and what they will write stays as it was.     *)
LEMMA CurrentKept ==
    ASSUME IInv, NEW t \in Thread, \A u \in Thread \ {t} : work'[u] = work[u],
           \A p \in Place : InUse(t, p) => slot'[p] = slot[p],
           Doing(t, "clone")' => slot'[Now(t)'.at] = Now(t)'.obj,
           \A i \in DOMAIN work'[t] :
               (work'[t][i].op = "store" /\ ~Doing(t, "take")') => slot'[work'[t][i].at] = Null
    PROVE  SlotsCurrent'
<1>1. ASSUME NEW u \in Thread \ {t}
      PROVE  /\ Doing(u, "clone")' => slot'[Now(u)'.at] = Now(u)'.obj
             /\ \A i \in DOMAIN work'[u] :
                   (work'[u][i].op = "store" /\ ~Doing(u, "take")') => slot'[work'[u][i].at] = Null
  <2>1. work'[u] = work[u]
    OBVIOUS
  <2>2. \A op : Doing(u, op)' <=> Doing(u, op)
    BY <2>1 DEF Doing
  <2>3. Now(u)' = Now(u)
    BY <2>1 DEF Now
  <2>4. ASSUME NEW i \in DOMAIN work[u], work[u][i].op \in Accesses
        PROVE  slot'[work[u][i].at] = slot[work[u][i].at]
    <3>1. InUse(t, work[u][i].at)
      BY <2>4 DEF InUse
    <3>2. work[u][i].at \in Place
      BY <2>4 DEF IInv, WorkOrderly, Orderly
    <3>3. QED
      BY <3>1, <3>2
  <2>5. ASSUME Doing(u, "clone")
        PROVE  slot'[Now(u).at] = Now(u).obj
    <3>1. 1 \in DOMAIN work[u] /\ Now(u) = work[u][1] /\ work[u][1].op \in Accesses
      BY <2>5, FirstTask DEF IInv, Doing, Now, Accesses
    <3>2. slot[Now(u).at] = Now(u).obj
      BY <2>5 DEF IInv, SlotsCurrent
    <3>3. QED
      BY <2>4, <3>1, <3>2
  <2>6. ASSUME NEW i \in DOMAIN work[u], work[u][i].op = "store", ~Doing(u, "take")
        PROVE  slot'[work[u][i].at] = Null
    <3>1. slot[work[u][i].at] = Null
      BY <2>6 DEF IInv, SlotsCurrent
    <3>2. work[u][i].op \in Accesses
      BY <2>6 DEF Accesses
    <3>3. QED
      BY <2>4, <3>1, <3>2
  <2>7. QED
    BY <2>1, <2>2, <2>3, <2>5, <2>6
<1>2. QED
  BY <1>1 DEF SlotsCurrent

(* Nothing changes in the work that is under way.                          *)
LEMMA IdleKept ==
    ASSUME IInv, work' = work, slot' = slot
    PROVE  WorkOrderly' /\ Exclusive' /\ SlotsCurrent'
<1>1. WorkOrderly' /\ Exclusive'
  BY DEF IInv, WorkOrderly, Exclusive
<1>2. SlotsCurrent'
  BY DEF IInv, SlotsCurrent, Doing, Now
<1>3. QED
  BY <1>1, <1>2

-----------------------------------------------------------------------------
(* Every instruction and every step of one keeps the invariant. *)

(* A new object: its address referred to nothing and nothing referred to it. *)
LEMMA NewKeeps ==
    ASSUME IInv, NEW t \in Thread, NEW o \in Object, New(t, o)
    PROVE  IInv'
<1>1. /\ work[t] = <<>> /\ strong[o] = 0 /\ o \notin objects /\ Push(t, o)
      /\ strong' = [strong EXCEPT ![o] = 2] /\ objects' = objects \cup {o}
      /\ slot' = [slot EXCEPT ![o] = Null] /\ work' = work /\ panicked' = panicked
  BY DEF New
<1>2. slot' = slot
  BY <1>1 DEF IInv, FreedEmpty, TypeOK, Place
<1>3. TypeOK'
  BY <1>1, <1>2, PushCount DEF IInv, TypeOK
<1>4. ASSUME NEW q \in Object
      PROVE  /\ IsFiniteSet(TaskRefs(q)') /\ IsFiniteSet(HeldRefs(q)')
             /\ strong'[q] = Tasks(q)' + Helds(q)' + Slots(q)' + Lists(q)'
  <2>1. /\ Tasks(q) \in Nat /\ Helds(q) \in Nat /\ Slots(q) \in Nat /\ Lists(q) \in Nat
        /\ strong[q] = Tasks(q) + Helds(q) + Slots(q) + Lists(q)
        /\ IsFiniteSet(TaskRefs(q)) /\ IsFiniteSet(HeldRefs(q))
    BY Counts
  <2>2. IsFiniteSet(HeldRefs(q)') /\ Helds(q)' = Helds(q) + Is(q, o)
    BY <1>1, PushCount
  <2>3. Slots(q)' = Slots(q) /\ Tasks(q)' = Tasks(q) /\ TaskRefs(q)' = TaskRefs(q)
    BY <1>1, <1>2, SameCounts
  <2>4. CASE q = o
    <3>1. strong'[q] = 2 /\ strong[q] = 0 /\ Lists(q)' = 1 /\ Is(q, o) = 1
      BY <1>1, <2>4 DEF IInv, TypeOK, Lists, Is
    <3>2. Tasks(q) = 0 /\ Helds(q) = 0 /\ Slots(q) = 0
      BY <2>1, <3>1
    <3>3. QED
      BY <2>1, <2>2, <2>3, <3>1, <3>2
  <2>5. CASE q # o
    <3>1. strong'[q] = strong[q] /\ Lists(q)' = Lists(q) /\ Is(q, o) = 0
      BY <1>1, <2>5 DEF IInv, TypeOK, Lists, Is
    <3>2. QED
      BY <2>1, <2>2, <2>3, <3>1
  <2>6. QED
    BY <2>4, <2>5
<1>5. StrongExact' /\ RefsFinite'
  BY <1>4, Recount
<1>6. WorkOrderly' /\ Exclusive' /\ SlotsCurrent'
  BY <1>1, <1>2, IdleKept
<1>7. UnlistedReleasing'
  <2>1. ~Doing(t, "release") /\ \A u \in Thread \ {t} : work'[u] = work[u]
    BY <1>1 DEF Doing
  <2>2. \A q \in Object \ objects' : q \notin objects /\ strong'[q] = strong[q]
    BY <1>1 DEF IInv, TypeOK
  <2>3. QED
    BY <2>1, <2>2, ReleasingStays
<1>8. FreedEmpty'
  BY <1>1, <1>2 DEF IInv, FreedEmpty, TypeOK
<1>9. QED
  BY <1>1, <1>3, <1>5, <1>6, <1>7, <1>8 DEF IInv

(* One reference more to an object that a mutator holds one to.            *)
LEMMA DupKeeps ==
    ASSUME IInv, NEW t \in Thread, NEW o \in Object, Dup(t, o)
    PROVE  IInv'
<1>1. /\ work[t] = <<>> /\ o \in Holding(t) /\ Push(t, o)
      /\ strong' = [strong EXCEPT ![o] = @ + 1]
      /\ slot' = slot /\ objects' = objects /\ work' = work /\ panicked' = panicked
  BY DEF Dup
<1>2. o \in objects /\ strong[o] >= 2
  <2>1. Helds(o) >= 1 /\ Helds(o) \in Nat /\ Slots(o) \in Nat
    BY <1>1, HeldCounted, Counts
  <2>2. Helds(o) + Slots(o) >= 1
    BY <2>1
  <2>3. QED
    BY <2>2, ReferredListed
<1>3. TypeOK'
  BY <1>1, PushCount DEF IInv, TypeOK
<1>4. ASSUME NEW q \in Object
      PROVE  /\ IsFiniteSet(TaskRefs(q)') /\ IsFiniteSet(HeldRefs(q)')
             /\ strong'[q] = Tasks(q)' + Helds(q)' + Slots(q)' + Lists(q)'
  <2>1. /\ Tasks(q) \in Nat /\ Helds(q) \in Nat /\ Slots(q) \in Nat /\ Lists(q) \in Nat
        /\ strong[q] = Tasks(q) + Helds(q) + Slots(q) + Lists(q)
        /\ IsFiniteSet(TaskRefs(q)) /\ IsFiniteSet(HeldRefs(q))
    BY Counts
  <2>2. IsFiniteSet(HeldRefs(q)') /\ Helds(q)' = Helds(q) + Is(q, o)
    BY <1>1, PushCount
  <2>3. /\ Slots(q)' = Slots(q) /\ Tasks(q)' = Tasks(q) /\ TaskRefs(q)' = TaskRefs(q)
        /\ Lists(q)' = Lists(q)
    BY <1>1, SameCounts
  <2>4. strong'[q] = strong[q] + Is(q, o)
    BY <1>1 DEF IInv, TypeOK, Is
  <2>5. Is(q, o) \in Nat
    BY DEF Is
  <2>6. QED
    BY <2>1, <2>2, <2>3, <2>4, <2>5
<1>5. StrongExact' /\ RefsFinite'
  BY <1>4, Recount
<1>6. WorkOrderly' /\ Exclusive' /\ SlotsCurrent'
  BY <1>1, IdleKept
<1>7. UnlistedReleasing'
  <2>1. ~Doing(t, "release") /\ \A u \in Thread \ {t} : work'[u] = work[u]
    BY <1>1 DEF Doing
  <2>2. \A q \in Object \ objects' : q \notin objects /\ strong'[q] = strong[q]
    BY <1>1, <1>2 DEF IInv, TypeOK
  <2>3. QED
    BY <2>1, <2>2, ReleasingStays
<1>8. FreedEmpty'
  <2>1. \A q \in Object : strong[q] \in Nat /\ (strong'[q] = strong[q] \/ strong'[q] = strong[q] + 1)
    BY <1>1 DEF IInv, TypeOK
  <2>2. QED
    BY <1>1, <2>1 DEF IInv, FreedEmpty
<1>9. QED
  BY <1>1, <1>3, <1>5, <1>6, <1>7, <1>8 DEF IInv

(* What a task owns.                                                       *)
LEMMA OwnedTask ==
    ASSUME NEW op, NEW o, NEW p, NEW q
    PROVE  /\ op \in {"store", "drop", "lock", "release"} => Owned(task(op, o, p), q) = Is(q, o)
           /\ op \notin {"store", "drop", "lock", "release"} => Owned(task(op, o, p), q) = 0
BY DEF Owned, Owns, task, Is

(* A task is typed.                                                        *)
LEMMA TaskTyped ==
    ASSUME NEW op \in {"read", "clone", "take", "store", "drop", "lock", "release"},
           NEW o \in Object \cup {Null}, NEW p \in Place \cup {Null}
    PROVE  /\ task(op, o, p) \in Task /\ task(op, o, p).op = op
           /\ task(op, o, p).obj = o /\ task(op, o, p).at = p
BY DEF task, Task

(* The beginning of an instruction, when the counts come out right.        *)
LEMMA BegunKeeps ==
    ASSUME IInv, NEW t \in Thread, NEW s \in Seq(Task), Begin(t, s),
           UNCHANGED <<slot, strong, objects, panicked>>,
           held' \in [Thread -> [Object -> Nat]],
           Orderly(s), \A p : Touches(s, p) => ~InUse(t, p),
           1 \in DOMAIN s, s[1].op \in {"read", "take", "drop"},
           s[1].op # "take" => \A i \in DOMAIN s : s[i].op # "store",
           \A q \in Object :
               /\ IsFiniteSet(TaskRefs(q)') /\ IsFiniteSet(HeldRefs(q)')
               /\ Tasks(q)' + Helds(q)' = Tasks(q) + Helds(q)
               /\ Tasks(q)' \in Nat /\ Helds(q)' \in Nat
    PROVE  IInv'
<1>1. /\ work' \in [Thread -> Seq(Task)] /\ work'[t] = s /\ work[t] = <<>>
      /\ \A u \in Thread \ {t} : work'[u] = work[u]
  BY BeginStep DEF IInv
<1>2. TypeOK'
  BY <1>1 DEF IInv, TypeOK
<1>3. ASSUME NEW q \in Object
      PROVE  strong'[q] = Tasks(q)' + Helds(q)' + Slots(q)' + Lists(q)'
  <2>1. /\ Tasks(q) \in Nat /\ Helds(q) \in Nat /\ Slots(q) \in Nat /\ Lists(q) \in Nat
        /\ strong[q] = Tasks(q) + Helds(q) + Slots(q) + Lists(q)
    BY Counts
  <2>2. Slots(q)' = Slots(q) /\ Lists(q)' = Lists(q)
    BY SameCounts
  <2>3. Tasks(q)' + Helds(q)' = Tasks(q) + Helds(q)
    OBVIOUS
  <2>4. QED
    BY <2>1, <2>2, <2>3
<1>4. StrongExact' /\ RefsFinite'
  BY <1>3, Recount
<1>5. WorkOrderly' /\ Exclusive'
  <2>1. Orderly(work'[t]) /\ \A p : Touches(work'[t], p) => Touches(work[t], p) \/ ~InUse(t, p)
    BY <1>1
  <2>2. QED
    BY <1>1, <2>1, WorkKept
<1>6. SlotsCurrent'
  <2>1. PICK v : v = work'[t] /\ v = s /\ v # <<>> /\ Head(v) = v[1]
    BY <1>1, LenProperties, EmptySeq
  <2>2. \A op : Doing(t, op)' <=> v[1].op = op
    BY <2>1 DEF Doing
  <2>3. ~Doing(t, "clone")'
    BY <2>1, <2>2
  <2>4. \A i \in DOMAIN v : v[i].op = "store" => Doing(t, "take")'
    BY <2>1, <2>2
  <2>5. QED
    BY <1>1, <2>1, <2>3, <2>4, CurrentKept
<1>7. UnlistedReleasing'
  <2>1. ~Doing(t, "release")
    BY <1>1 DEF Doing
  <2>2. \A q \in Object \ objects' : q \notin objects /\ strong'[q] = strong[q]
    OBVIOUS
  <2>3. QED
    BY <1>1, <2>1, <2>2, ReleasingStays
<1>8. FreedEmpty'
  BY DEF IInv, FreedEmpty
<1>9. ~panicked'
  BY DEF IInv
<1>10. QED
  BY <1>2, <1>4, <1>5, <1>6, <1>7, <1>8, <1>9 DEF IInv

(* A reference that a mutator gives up is dropped.                         *)
LEMMA PopKeeps ==
    ASSUME IInv, NEW t \in Thread, NEW o \in Object, Pop(t, o)
    PROVE  IInv'
<1>1. PICK x : x = task("drop", o, Null) /\ x \in Task /\ x.op = "drop" /\ x.obj = o
  <2>1. /\ task("drop", o, Null) \in Task /\ task("drop", o, Null).op = "drop"
        /\ task("drop", o, Null).obj = o
    BY TaskTyped
  <2>2. QED
    BY <2>1
<1>2. PICK s : s = <<x>> /\ s \in Seq(Task) /\ DOMAIN s = {1} /\ s[1] = x
  <2>1. <<x>> \in Seq(Task) /\ DOMAIN <<x>> = {1} /\ <<x>>[1] = x
    BY <1>1
  <2>2. QED
    BY <2>1
<1>3. /\ o \in Holding(t) /\ Take(t, o) /\ Begin(t, s) /\ Begin(t, <<x>>)
      /\ UNCHANGED <<slot, strong, objects, panicked>>
  BY <1>1, <1>2 DEF Pop
<1>4. Orderly(s) /\ \A p : ~Touches(s, p)
  BY <1>1, <1>2 DEF Orderly, Touches, Accesses
<1>5. ASSUME NEW q \in Object
      PROVE  /\ IsFiniteSet(TaskRefs(q)') /\ IsFiniteSet(HeldRefs(q)')
             /\ Tasks(q)' + Helds(q)' = Tasks(q) + Helds(q)
             /\ Tasks(q)' \in Nat /\ Helds(q)' \in Nat
  <2>1. Tasks(q) \in Nat /\ Helds(q) \in Nat
    BY Counts
  <2>2. IsFiniteSet(TaskRefs(q)') /\ Tasks(q)' = Tasks(q) + Owned(x, q)
    BY <1>1, <1>3, BeginCount1
  <2>3. IsFiniteSet(HeldRefs(q)') /\ Helds(q)' + Is(q, o) = Helds(q) /\ Helds(q)' \in Nat
    BY <1>3, TakeCount
  <2>4. Owned(x, q) = Is(q, o) /\ Is(q, o) \in Nat
    BY <1>1, OwnedTask DEF Is
  <2>5. QED
    BY <2>1, <2>2, <2>3, <2>4
<1>6. held' \in [Thread -> [Object -> Nat]]
  BY <1>3, TakeCount
<1>7. 1 \in DOMAIN s /\ s[1].op \in {"read", "take", "drop"} /\ \A i \in DOMAIN s : s[i].op # "store"
  BY <1>1, <1>2
<1>8. QED
  BY <1>2, <1>3, <1>4, <1>5, <1>6, <1>7, BegunKeeps

(* Two tasks, or three, that access one place and then drop what it is in. *)
LEMMA InOrder2 ==
    ASSUME NEW x \in Task, NEW y \in Task, NEW p \in Object,
           x.op \in {"read", "take"}, x.at = p, y = task("drop", p, Null)
    PROVE  /\ <<x, y>> \in Seq(Task) /\ 1 \in DOMAIN <<x, y>> /\ <<x, y>>[1] = x
           /\ Orderly(<<x, y>>) /\ \A q : Touches(<<x, y>>, q) => q = p
           /\ \A i \in DOMAIN <<x, y>> : <<x, y>>[i].op # "store"
<1>1. PICK s : s = <<x, y>>
  OBVIOUS
<1>2. s \in Seq(Task) /\ DOMAIN s = {1, 2} /\ Len(s) = 2 /\ s[1] = x /\ s[2] = y
  BY <1>1
<1>3. y.op = "drop" /\ y.obj = p
  BY DEF task
<1>4. Orderly(s)
  BY <1>2, <1>3 DEF Orderly, Accesses, Place
<1>5. \A q : Touches(s, q) => q = p
  BY <1>2, <1>3 DEF Touches, Accesses
<1>6. QED
  BY <1>1, <1>2, <1>3, <1>4, <1>5

(* The same with a store between them.                                     *)
LEMMA InOrder3 ==
    ASSUME NEW x \in Task, NEW y \in Task, NEW z \in Task, NEW p \in Object,
           x.op = "take", x.at = p, y.op = "store", y.at = p, z = task("drop", p, Null)
    PROVE  /\ <<x, y, z>> \in Seq(Task) /\ 1 \in DOMAIN <<x, y, z>> /\ <<x, y, z>>[1] = x
           /\ Orderly(<<x, y, z>>) /\ \A q : Touches(<<x, y, z>>, q) => q = p
<1>1. PICK s : s = <<x, y, z>>
  OBVIOUS
<1>2. /\ s \in Seq(Task) /\ DOMAIN s = {1, 2, 3} /\ Len(s) = 3
      /\ s[1] = x /\ s[2] = y /\ s[3] = z
  BY <1>1
<1>3. z.op = "drop" /\ z.obj = p
  BY DEF task
<1>4. Orderly(s)
  <2>1. ASSUME NEW i \in DOMAIN s
        PROVE  /\ s[i].op \notin {"store", "drop"} => i = 1
               /\ s[i].op \in {"clone", "drop", "lock", "release"} => s[i].obj \in Object
               /\ s[i].op \in Accesses => s[i].at = p /\ i < Len(s)
    BY <1>2, <1>3 DEF Accesses
  <2>2. \A i, j \in DOMAIN s : (s[i].op = "store" /\ s[j].op = "store") => i = j
    BY <1>2, <1>3
  <2>3. s[Len(s)] = task("drop", p, Null) /\ p \in Place
    BY <1>2 DEF Place
  <2>4. QED
    BY <2>1, <2>2, <2>3 DEF Orderly
<1>5. \A q : Touches(s, q) => q = p
  BY <1>2, <1>3 DEF Touches, Accesses
<1>6. QED
  BY <1>1, <1>2, <1>4, <1>5

(* A slot of an object is read.                                            *)
LEMMA GetFieldKeeps ==
    ASSUME RaceFree, IInv, NEW t \in Thread, NEW p \in Object, GetField(t, p)
    PROVE  IInv'
<1>1. PICK x : x = task("read", Null, p) /\ x \in Task /\ x.op = "read" /\ x.at = p
  <2>1. /\ task("read", Null, p) \in Task /\ task("read", Null, p).op = "read"
        /\ task("read", Null, p).at = p
    BY TaskTyped DEF Place
  <2>2. QED
    BY <2>1
<1>2. PICK y : y = task("drop", p, Null) /\ y \in Task
  <2>1. task("drop", p, Null) \in Task
    BY TaskTyped
  <2>2. QED
    BY <2>1
<1>3. PICK s : s = <<x, y>>
  OBVIOUS
<1>4. /\ p \in Holding(t) /\ Take(t, p) /\ Begin(t, <<x, y>>) /\ MayAccess(t, p)
      /\ UNCHANGED <<slot, strong, objects, panicked>>
  BY <1>1, <1>2 DEF GetField
<1>5. /\ s \in Seq(Task) /\ 1 \in DOMAIN s /\ s[1] = x
      /\ Orderly(s) /\ \A q : Touches(s, q) => q = p
      /\ \A i \in DOMAIN s : s[i].op # "store"
  BY <1>1, <1>2, <1>3, InOrder2
<1>6. ASSUME NEW q \in Object
      PROVE  /\ IsFiniteSet(TaskRefs(q)') /\ IsFiniteSet(HeldRefs(q)')
             /\ Tasks(q)' + Helds(q)' = Tasks(q) + Helds(q)
             /\ Tasks(q)' \in Nat /\ Helds(q)' \in Nat
  <2>1. Tasks(q) \in Nat /\ Helds(q) \in Nat
    BY Counts
  <2>2. IsFiniteSet(TaskRefs(q)') /\ Tasks(q)' = Tasks(q) + Owned(y, q) + Owned(x, q)
    BY <1>1, <1>2, <1>4, BeginCount2
  <2>3. IsFiniteSet(HeldRefs(q)') /\ Helds(q)' + Is(q, p) = Helds(q) /\ Helds(q)' \in Nat
    BY <1>4, TakeCount
  <2>4. Owned(y, q) = Is(q, p) /\ Owned(x, q) = 0 /\ Is(q, p) \in Nat
    BY <1>1, <1>2, OwnedTask DEF Is
  <2>5. QED
    BY <2>1, <2>2, <2>3, <2>4
<1>7. held' \in [Thread -> [Object -> Nat]]
  BY <1>4, TakeCount
<1>8. s[1].op \in {"read", "take", "drop"} /\ Begin(t, s)
  BY <1>1, <1>3, <1>4, <1>5
<1>9. \A q : Touches(s, q) => ~InUse(t, q)
  BY <1>4, <1>5 DEF MayAccess
<1>10. QED
  BY <1>4, <1>5, <1>6, <1>7, <1>8, <1>9, BegunKeeps

(* A static field is read.                                                 *)
LEMMA GetStaticKeeps ==
    ASSUME RaceFree, IInv, NEW t \in Thread, GetStatic(t)
    PROVE  IInv'
<1>1. PICK x : x = task("read", Null, Static) /\ x \in Task /\ x.op = "read" /\ x.at = Static
  <2>1. /\ task("read", Null, Static) \in Task /\ task("read", Null, Static).op = "read"
        /\ task("read", Null, Static).at = Static
    BY TaskTyped DEF Place
  <2>2. QED
    BY <2>1
<1>2. PICK s : s = <<x>> /\ s \in Seq(Task) /\ DOMAIN s = {1} /\ s[1] = x
  <2>1. <<x>> \in Seq(Task) /\ DOMAIN <<x>> = {1} /\ <<x>>[1] = x
    BY <1>1
  <2>2. QED
    BY <2>1
<1>3. /\ Begin(t, s) /\ Begin(t, <<x>>) /\ MayAccess(t, Static) /\ held' = held
      /\ UNCHANGED <<slot, strong, objects, panicked>>
  BY <1>1, <1>2 DEF GetStatic
<1>4. Orderly(s) /\ \A p : Touches(s, p) => p = Static
  BY <1>1, <1>2, NamesAssumption DEF Orderly, Touches, Accesses, Place
<1>5. ASSUME NEW q \in Object
      PROVE  /\ IsFiniteSet(TaskRefs(q)') /\ IsFiniteSet(HeldRefs(q)')
             /\ Tasks(q)' + Helds(q)' = Tasks(q) + Helds(q)
             /\ Tasks(q)' \in Nat /\ Helds(q)' \in Nat
  <2>1. Tasks(q) \in Nat /\ Helds(q) \in Nat /\ IsFiniteSet(HeldRefs(q))
    BY Counts
  <2>2. IsFiniteSet(TaskRefs(q)') /\ Tasks(q)' = Tasks(q) + Owned(x, q)
    BY <1>1, <1>3, BeginCount1
  <2>3. HeldRefs(q)' = HeldRefs(q) /\ Helds(q)' = Helds(q)
    BY <1>3, SameCounts
  <2>4. Owned(x, q) = 0
    BY <1>1, OwnedTask
  <2>5. QED
    BY <2>1, <2>2, <2>3, <2>4
<1>6. held' \in [Thread -> [Object -> Nat]]
  BY <1>3 DEF IInv, TypeOK
<1>7. /\ 1 \in DOMAIN s /\ s[1].op \in {"read", "take", "drop"} /\ \A i \in DOMAIN s : s[i].op # "store"
      /\ \A p : Touches(s, p) => ~InUse(t, p)
  BY <1>1, <1>2, <1>3, <1>4 DEF MayAccess
<1>8. QED
  BY <1>2, <1>3, <1>4, <1>5, <1>6, <1>7, BegunKeeps

(* What a mutator gives up with an instruction that writes to a slot of p. *)
Gives(t, p, v) ==
    held' = [held EXCEPT ![t] = [o \in Object |->
                @[o] - (IF o = p THEN 1 ELSE 0) - (IF o = v THEN 1 ELSE 0)]]

(* It is a reference to p and one to v.                                    *)
LEMMA PutHeld ==
    ASSUME IInv, NEW t \in Thread, NEW p \in Holding(t), NEW v \in Holding(t) \cup {Null},
           v = p => held[t][p] > 1, Gives(t, p, v), NEW q \in Object
    PROVE  /\ held' \in [Thread -> [Object -> Nat]] /\ IsFiniteSet(HeldRefs(q)')
           /\ Helds(q)' \in Nat /\ Helds(q)' + Is(q, p) + Is(q, v) = Helds(q)
<1> USE DEF Gives
<1>1. /\ held \in [Thread -> [Object -> Nat]] /\ p \in Object /\ held[t][p] > 0
      /\ v # Null => v \in Object /\ held[t][v] > 0
  BY DEF IInv, TypeOK, Holding
<1>2. PICK h : h = held
  OBVIOUS
<1>3. PICK g : g = [h EXCEPT ![t][p] = @ - 1]
  OBVIOUS
<1>4. HeldMore(g, h, t, p)
  BY <1>1, <1>2, <1>3 DEF HeldMore
<1>5. IsFiniteSet(HeldOf(h, q)) /\ Cardinality(HeldOf(h, q)) = Helds(q)
  BY <1>2 DEF IInv, RefsFinite, HeldRefs, HeldOf, Helds
<1>6. /\ IsFiniteSet(HeldOf(g, q)) /\ Cardinality(HeldOf(g, q)) \in Nat
      /\ Cardinality(HeldOf(h, q)) = Cardinality(HeldOf(g, q)) + Is(q, p)
  BY <1>1, <1>4, <1>5, HeldCount
<1>7. PICK f : f = held'
  OBVIOUS
<1>8. CASE v = Null
  <2>1. f = g
    <3>1. \A o \in Object : o # v
      BY <1>8, NamesAssumption
    <3>2. \A u \in Thread, o \in Object : f[u][o] = g[u][o]
      BY <1>1, <1>2, <1>3, <1>7, <3>1
    <3>3. f \in [Thread -> [Object -> Int]] /\ g \in [Thread -> [Object -> Int]]
      BY <1>1, <1>2, <1>3, <1>7
    <3>4. \A u \in Thread : f[u] = g[u]
      BY <3>2, <3>3
    <3>5. QED
      BY <3>3, <3>4
  <2>2. Is(q, v) = 0 /\ Is(q, p) \in Nat
    BY <1>8, NamesAssumption DEF Is
  <2>3. HeldRefs(q)' = HeldOf(g, q) /\ held' \in [Thread -> [Object -> Nat]]
    <3>1. HeldRefs(q)' = HeldOf(f, q)
      BY <1>7 DEF HeldRefs, HeldOf
    <3>2. g \in [Thread -> [Object -> Nat]]
      BY <1>4 DEF HeldMore
    <3>3. QED
      BY <1>7, <2>1, <3>1, <3>2
  <2>4. QED
    BY <1>5, <1>6, <2>2, <2>3 DEF Helds
<1>9. CASE v # Null
  <2>1. v \in Object /\ held[t][v] > 0
    BY <1>1, <1>9
  <2>2. HeldMore(f, g, t, v)
    <3>1. f \in [Thread -> [Object -> Nat]]
      BY <1>1, <1>7, <2>1
    <3>2. g \in [Thread -> [Object -> Nat]]
      BY <1>4 DEF HeldMore
    <3>3. g[t][v] = f[t][v] + 1
      BY <1>1, <1>2, <1>3, <1>7, <2>1
    <3>4. \A u \in Thread, o \in Object : (u # t \/ o # v) => g[u][o] = f[u][o]
      BY <1>1, <1>2, <1>3, <1>7, <2>1
    <3>5. QED
      BY <3>1, <3>2, <3>3, <3>4 DEF HeldMore
  <2>3. /\ IsFiniteSet(HeldOf(f, q)) /\ Cardinality(HeldOf(f, q)) \in Nat
        /\ Cardinality(HeldOf(g, q)) = Cardinality(HeldOf(f, q)) + Is(q, v)
    BY <1>6, <2>1, <2>2, HeldCount
  <2>4. HeldRefs(q)' = HeldOf(f, q) /\ held' \in [Thread -> [Object -> Nat]]
    BY <1>7, <2>2 DEF HeldRefs, HeldOf, HeldMore
  <2>5. Is(q, v) \in Nat /\ Is(q, p) \in Nat
    BY DEF Is
  <2>6. QED
    BY <1>5, <1>6, <2>3, <2>4, <2>5 DEF Helds
<1>10. QED
  BY <1>8, <1>9

(* A slot of an object is written.                                         *)
LEMMA PutFieldKeeps ==
    ASSUME RaceFree, IInv, NEW t \in Thread, NEW p \in Object, NEW v \in Object \cup {Null},
           PutField(t, p, v)
    PROVE  IInv'
<1>0. p \in Place /\ Null \in Object \cup {Null} /\ Null \in Place \cup {Null}
  BY DEF Place
<1>1. PICK x : x = task("take", Null, p) /\ x \in Task /\ x.op = "take" /\ x.at = p
  <2>1. /\ task("take", Null, p) \in Task /\ task("take", Null, p).op = "take"
        /\ task("take", Null, p).at = p
    BY <1>0, TaskTyped
  <2>2. QED
    BY <2>1
<1>2. PICK y : y = task("store", v, p) /\ y \in Task /\ y.op = "store" /\ y.at = p
  <2>1. /\ task("store", v, p) \in Task /\ task("store", v, p).op = "store"
        /\ task("store", v, p).at = p
    BY <1>0, TaskTyped
  <2>2. QED
    BY <2>1
<1>3. PICK z : z = task("drop", p, Null) /\ z \in Task
  <2>1. task("drop", p, Null) \in Task
    BY <1>0, TaskTyped
  <2>2. QED
    BY <2>1
<1>4. /\ p \in Holding(t) /\ v \in Holding(t) \cup {Null} /\ (v = p => held[t][p] > 1)
      /\ Begin(t, <<x, y, z>>) /\ MayAccess(t, p)
      /\ Gives(t, p, v) /\ UNCHANGED <<slot, strong, objects, panicked>>
  BY <1>1, <1>2, <1>3 DEF PutField, Gives
<1>5. PICK s : s = <<x, y, z>>
  OBVIOUS
<1>6. /\ s \in Seq(Task) /\ 1 \in DOMAIN s /\ s[1] = x
      /\ Orderly(s) /\ \A q : Touches(s, q) => q = p
  BY <1>1, <1>2, <1>3, <1>5, InOrder3
<1>7. ASSUME NEW q \in Object
      PROVE  /\ IsFiniteSet(TaskRefs(q)') /\ IsFiniteSet(HeldRefs(q)')
             /\ Tasks(q)' + Helds(q)' = Tasks(q) + Helds(q)
             /\ Tasks(q)' \in Nat /\ Helds(q)' \in Nat
             /\ held' \in [Thread -> [Object -> Nat]]
  <2>1. Tasks(q) \in Nat /\ Helds(q) \in Nat
    BY Counts
  <2>2. IsFiniteSet(TaskRefs(q)') /\ Tasks(q)' = Tasks(q) + Owned(z, q) + Owned(y, q) + Owned(x, q)
    BY <1>1, <1>2, <1>3, <1>4, BeginCount3
  <2>3. /\ held' \in [Thread -> [Object -> Nat]] /\ IsFiniteSet(HeldRefs(q)')
        /\ Helds(q)' \in Nat /\ Helds(q)' + Is(q, p) + Is(q, v) = Helds(q)
    BY <1>4, PutHeld
  <2>4. /\ Owned(z, q) = Is(q, p) /\ Owned(y, q) = Is(q, v) /\ Owned(x, q) = 0
        /\ Is(q, p) \in Nat /\ Is(q, v) \in Nat
    BY <1>1, <1>2, <1>3, OwnedTask DEF Is
  <2>5. QED
    BY <2>1, <2>2, <2>3, <2>4
<1>8. held' \in [Thread -> [Object -> Nat]]
  BY <1>7
<1>9. s[1].op \in {"read", "take", "drop"} /\ s[1].op = "take" /\ Begin(t, s)
  BY <1>1, <1>4, <1>5, <1>6
<1>10. \A q : Touches(s, q) => ~InUse(t, q)
  BY <1>4, <1>6 DEF MayAccess
<1>11. QED
  BY <1>4, <1>6, <1>7, <1>8, <1>9, <1>10, BegunKeeps

(* A static field is written.                                              *)
LEMMA PutStaticKeeps ==
    ASSUME RaceFree, IInv, NEW t \in Thread, NEW v \in Object \cup {Null}, PutStatic(t, v)
    PROVE  IInv'
<1>0. Static \in Place /\ Static \notin Object
  BY NamesAssumption DEF Place
<1>1. PICK x : x = task("take", Null, Static) /\ x \in Task /\ x.op = "take" /\ x.at = Static
  <2>1. /\ task("take", Null, Static) \in Task /\ task("take", Null, Static).op = "take"
        /\ task("take", Null, Static).at = Static
    BY <1>0, TaskTyped
  <2>2. QED
    BY <2>1
<1>2. PICK y : y = task("store", v, Static) /\ y \in Task /\ y.op = "store" /\ y.at = Static
  <2>1. /\ task("store", v, Static) \in Task /\ task("store", v, Static).op = "store"
        /\ task("store", v, Static).at = Static
    BY <1>0, TaskTyped
  <2>2. QED
    BY <2>1
<1>3. PICK s : s = <<x, y>>
  OBVIOUS
<1>4. /\ v \in Holding(t) \cup {Null} /\ Begin(t, <<x, y>>) /\ MayAccess(t, Static)
      /\ v = Null => held' = held
      /\ v # Null => Take(t, v)
      /\ UNCHANGED <<slot, strong, objects, panicked>>
  BY <1>1, <1>2 DEF PutStatic
<1>5. s \in Seq(Task) /\ DOMAIN s = {1, 2} /\ s[1] = x /\ s[2] = y
  BY <1>1, <1>2, <1>3
<1>6. Orderly(s) /\ \A q : Touches(s, q) => q = Static
  BY <1>0, <1>1, <1>2, <1>5 DEF Orderly, Touches, Accesses
<1>7. ASSUME NEW q \in Object
      PROVE  /\ IsFiniteSet(TaskRefs(q)') /\ IsFiniteSet(HeldRefs(q)')
             /\ Tasks(q)' + Helds(q)' = Tasks(q) + Helds(q)
             /\ Tasks(q)' \in Nat /\ Helds(q)' \in Nat
             /\ held' \in [Thread -> [Object -> Nat]]
  <2>1. Tasks(q) \in Nat /\ Helds(q) \in Nat /\ IsFiniteSet(HeldRefs(q))
    BY Counts
  <2>2. IsFiniteSet(TaskRefs(q)') /\ Tasks(q)' = Tasks(q) + Owned(y, q) + Owned(x, q)
    BY <1>1, <1>2, <1>4, BeginCount2
  <2>3. /\ held' \in [Thread -> [Object -> Nat]] /\ IsFiniteSet(HeldRefs(q)')
        /\ Helds(q)' \in Nat /\ Helds(q)' + Is(q, v) = Helds(q)
    <3>1. CASE v = Null
      <4>1. held' = held
        BY <1>4, <3>1
      <4>2. HeldRefs(q)' = HeldRefs(q) /\ Helds(q)' = Helds(q)
        BY <4>1, SameCounts
      <4>3. Is(q, v) = 0
        BY <3>1, NamesAssumption DEF Is
      <4>4. held' \in [Thread -> [Object -> Nat]]
        BY <4>1 DEF IInv, TypeOK
      <4>5. QED
        BY <2>1, <4>2, <4>3, <4>4
    <3>2. CASE v # Null
      <4>1. v \in Holding(t) /\ Take(t, v)
        BY <1>4, <3>2
      <4>2. QED
        BY <4>1, TakeCount
    <3>3. QED
      BY <3>1, <3>2
  <2>4. Owned(y, q) = Is(q, v) /\ Owned(x, q) = 0 /\ Is(q, v) \in Nat
    BY <1>1, <1>2, OwnedTask DEF Is
  <2>5. QED
    BY <2>1, <2>2, <2>3, <2>4
<1>8. held' \in [Thread -> [Object -> Nat]]
  <2>1. CASE v = Null
    BY <1>4, <2>1 DEF IInv, TypeOK
  <2>2. CASE v # Null
    <3>1. v \in Object
      BY <2>2
    <3>2. QED
      BY <1>7, <3>1
  <2>3. QED
    BY <2>1, <2>2
<1>9. s[1].op \in {"read", "take", "drop"} /\ s[1].op = "take" /\ Begin(t, s) /\ 1 \in DOMAIN s
  BY <1>1, <1>3, <1>4, <1>5
<1>10. \A q : Touches(s, q) => ~InUse(t, q)
  BY <1>4, <1>6 DEF MayAccess
<1>11. QED
  BY <1>4, <1>5, <1>6, <1>7, <1>8, <1>9, <1>10, BegunKeeps

(* An access of this mutator is no other's.                                *)
LEMMA OwnAccess ==
    ASSUME IInv, NEW t \in Thread, NEW i \in DOMAIN work[t], work[t][i].op \in Accesses
    PROVE  ~InUse(t, work[t][i].at)
BY DEF IInv, Exclusive, InUse

(* The first task is done: the order, and what was read and is to be       *)
(* stored, when nothing is left for it ..                                  *)
LEMMA EndWork ==
    ASSUME IInv, NEW t \in Thread, work[t] # <<>>, Continue(t, <<>>),
           \A p \in Place : InUse(t, p) => slot'[p] = slot[p],
           \A i \in DOMAIN work[t] : (i # 1 /\ work[t][i].op = "store") => slot'[work[t][i].at] = Null
    PROVE  /\ work' \in [Thread -> Seq(Task)] /\ \A u \in Thread \ {t} : work'[u] = work[u]
           /\ WorkOrderly' /\ Exclusive' /\ SlotsCurrent'
<1>1. /\ work' \in [Thread -> Seq(Task)] /\ Shorter(work[t], work'[t])
      /\ \A u \in Thread \ {t} : work'[u] = work[u]
  BY EndStep DEF IInv
<1>2. Orderly(work[t])
  BY DEF IInv, WorkOrderly
<1>3. PICK w, v : w = work[t] /\ v = work'[t] /\ Shorter(w, v) /\ Orderly(w)
  BY <1>1, <1>2
<1>4. Orderly(v) /\ \A p : Touches(v, p) => Touches(w, p)
  BY <1>3, OrderlyShorter
<1>5. WorkOrderly' /\ Exclusive'
  BY <1>1, <1>3, <1>4, WorkKept
<1>6. \A i \in DOMAIN v : i \in Nat /\ i # 0 /\ i + 1 \in DOMAIN w /\ v[i] = w[i + 1] /\ i + 1 # 1
  BY <1>3, LenProperties DEF Shorter
<1>7. ~Doing(t, "clone")'
  <2>1. SUFFICES ASSUME v # <<>>, Head(v).op = "clone" PROVE FALSE
    BY <1>3 DEF Doing
  <2>2. v \in Seq(Task)
    BY <1>3 DEF Shorter
  <2>3. 1 \in DOMAIN v /\ Head(v) = v[1]
    BY <2>1, <2>2, LenProperties, EmptySeq
  <2>4. PICK k : k = 1 + 1 /\ k \in DOMAIN w /\ w[k].op = "clone" /\ k # 1
    BY <1>6, <2>1, <2>3
  <2>5. QED
    BY <1>3, <2>4 DEF Orderly
<1>8. \A i \in DOMAIN work'[t] : work'[t][i].op = "store" => slot'[work'[t][i].at] = Null
  BY <1>3, <1>6
<1>9. SlotsCurrent'
  BY <1>1, <1>7, <1>8, CurrentKept
<1>10. QED
  BY <1>1, <1>5, <1>9

(* .. and when another task takes its place.                               *)
LEMMA GoWork ==
    ASSUME IInv, NEW t \in Thread, work[t] # <<>>, NEW x \in Task, Continue(t, <<x>>),
           x.op # "store",
           x.op \in {"clone", "drop", "lock", "release"} => x.obj \in Object,
           x.op \in Accesses => Now(t).op \in Accesses /\ x.at = Now(t).at,
           x.op = "clone" => slot'[x.at] = x.obj,
           \A p \in Place : InUse(t, p) => slot'[p] = slot[p],
           \A i \in DOMAIN work[t] : (i # 1 /\ work[t][i].op = "store") => slot'[work[t][i].at] = Null
    PROVE  /\ work' \in [Thread -> Seq(Task)] /\ \A u \in Thread \ {t} : work'[u] = work[u]
           /\ WorkOrderly' /\ Exclusive' /\ SlotsCurrent'
           /\ Now(t)' = x /\ work'[t] # <<>>
<1>1. /\ work' \in [Thread -> Seq(Task)] /\ Replaced(work[t], work'[t], x)
      /\ \A u \in Thread \ {t} : work'[u] = work[u]
  BY GoStep DEF IInv
<1>2. Orderly(work[t]) /\ Now(t) = work[t][1]
  BY FirstTask DEF IInv, WorkOrderly
<1>3. PICK w, v : w = work[t] /\ v = work'[t] /\ Replaced(w, v, x) /\ Orderly(w) /\ Now(t) = w[1]
  BY <1>1, <1>2
<1>4. Orderly(v) /\ \A p : Touches(v, p) => Touches(w, p)
  BY <1>3, OrderlyReplaced
<1>5. WorkOrderly' /\ Exclusive'
  BY <1>1, <1>3, <1>4, WorkKept
<1>6. v # <<>> /\ Head(v) = x /\ DOMAIN v = DOMAIN w /\ \A i \in DOMAIN v : i # 1 => v[i] = w[i]
  BY <1>3 DEF Replaced
<1>7. Now(t)' = x /\ work'[t] # <<>>
  BY <1>3, <1>6 DEF Now
<1>8. Doing(t, "clone")' => slot'[Now(t)'.at] = Now(t)'.obj
  BY <1>3, <1>6, <1>7 DEF Doing
<1>9. v[1] = x
  BY <1>3 DEF Replaced
<1>10. \A i \in DOMAIN work'[t] : work'[t][i].op = "store" => slot'[work'[t][i].at] = Null
  BY <1>3, <1>6, <1>9
<1>11. SlotsCurrent'
  BY <1>1, <1>8, <1>10, CurrentKept
<1>12. QED
  BY <1>1, <1>5, <1>7, <1>11

(* The task that is done, and that no reference of its own is left behind. *)
LEMMA DoingFirst ==
    ASSUME IInv, NEW t \in Thread, NEW op, Doing(t, op)
    PROVE  /\ work[t] # <<>> /\ 1 \in DOMAIN work[t] /\ Now(t) = work[t][1] /\ Now(t) \in Task
           /\ Now(t).op = op /\ \A r : Doing(t, r) => r = op
           /\ op \in {"clone", "drop", "lock", "release"} => Now(t).obj \in Object
           /\ op \in Accesses => Now(t).at \in Place
           /\ Now(t).obj \in Object \cup {Null}
<1>1. work[t] # <<>> /\ Now(t).op = op /\ \A r : Doing(t, r) => r = op
  BY DEF Doing, Now
<1>2. 1 \in DOMAIN work[t] /\ Now(t) = work[t][1] /\ Now(t) \in Task
  BY <1>1, FirstTask DEF IInv
<1>3. Orderly(work[t])
  BY DEF IInv, WorkOrderly
<1>4. /\ op \in {"clone", "drop", "lock", "release"} => Now(t).obj \in Object
      /\ op \in Accesses => Now(t).at \in Place
  BY <1>1, <1>2, <1>3 DEF Orderly
<1>5. Now(t).obj \in Object \cup {Null}
  BY <1>2 DEF Task
<1>6. QED
  BY <1>1, <1>2, <1>4, <1>5

(* What the first task owns.                                               *)
LEMMA OwnedNow ==
    ASSUME IInv, NEW t \in Thread, NEW op, Doing(t, op), NEW q
    PROVE  /\ op \in {"store", "drop", "lock", "release"} => Owned(Now(t), q) = Is(q, Now(t).obj)
           /\ op \notin {"store", "drop", "lock", "release"} => Owned(Now(t), q) = 0
<1>1. Now(t).op = op
  BY DoingFirst
<1>2. QED
  BY <1>1 DEF Owned, Owns, Is

(* A slot that another mutator will store in is empty.                     *)
LEMMA StoresEmpty ==
    ASSUME IInv, NEW t \in Thread, ~Doing(t, "take"), NEW i \in DOMAIN work[t], work[t][i].op = "store"
    PROVE  slot[work[t][i].at] = Null
BY DEF IInv, SlotsCurrent

(* A pointer is copied out of a slot, which counts nothing yet.            *)
LEMMA ReadKeeps ==
    ASSUME IInv, NEW t \in Thread, Read(t)
    PROVE  IInv'
<1>1. Doing(t, "read") /\ UNCHANGED <<slot, strong, objects, held, panicked>>
  BY DEF Read
<1>2. /\ work[t] # <<>> /\ Now(t).at \in Place /\ Now(t).op = "read"
      /\ \A r : Doing(t, r) => r = "read"
  BY <1>1, DoingFirst DEF Accesses
<1>3. slot[Now(t).at] \in Object \cup {Null}
  BY <1>2 DEF IInv, TypeOK
<1>4. \A p \in Place : InUse(t, p) => slot'[p] = slot[p]
  BY <1>1
<1>5. \A i \in DOMAIN work[t] : (i # 1 /\ work[t][i].op = "store") => slot'[work[t][i].at] = Null
  BY <1>1, <1>2, StoresEmpty
<1>6. /\ work' \in [Thread -> Seq(Task)] /\ \A u \in Thread \ {t} : work'[u] = work[u]
      /\ WorkOrderly' /\ Exclusive' /\ SlotsCurrent'
      /\ \A q \in Object : IsFiniteSet(TaskRefs(q)') /\ Tasks(q)' \in Nat /\ Tasks(q)' = Tasks(q)
  <2>1. CASE slot[Now(t).at] = Null
    <3>1. Continue(t, <<>>)
      BY <2>1 DEF Read
    <3>2. \A q \in Object : Owned(Now(t), q) = 0
      BY <1>1, OwnedNow
    <3>3. \A q \in Object : /\ IsFiniteSet(TaskRefs(q)') /\ Tasks(q)' \in Nat
                            /\ Tasks(q) = Tasks(q)' + Owned(Now(t), q)
      BY <1>2, <3>1, EndCount
    <3>4. QED
      BY <1>2, <1>4, <1>5, <3>1, <3>2, <3>3, EndWork
  <2>2. CASE slot[Now(t).at] # Null
    <3>1. PICK x : /\ x = task("clone", slot[Now(t).at], Now(t).at) /\ x \in Task /\ x.op = "clone"
                   /\ x.obj = slot[Now(t).at] /\ x.at = Now(t).at
      <4>1. PICK p \in Place, o \in Object \cup {Null} : p = Now(t).at /\ o = slot[Now(t).at]
        BY <1>2, <1>3
      <4>2. /\ task("clone", o, p) \in Task /\ task("clone", o, p).op = "clone"
            /\ task("clone", o, p).obj = o /\ task("clone", o, p).at = p
        BY TaskTyped
      <4>3. QED
        BY <4>1, <4>2
    <3>2. Continue(t, <<x>>)
      BY <2>2, <3>1 DEF Read
    <3>3. \A q \in Object : Owned(Now(t), q) = 0 /\ Owned(x, q) = 0
      BY <1>1, <3>1, OwnedNow DEF Owned, Owns
    <3>4. \A q \in Object : /\ IsFiniteSet(TaskRefs(q)') /\ Tasks(q)' \in Nat
                            /\ Tasks(q)' + Owned(Now(t), q) = Tasks(q) + Owned(x, q)
      BY <1>2, <3>1, <3>2, GoCount
    <3>5. \A q \in Object : Tasks(q)' = Tasks(q)
      <4>1. SUFFICES ASSUME NEW q \in Object PROVE Tasks(q)' = Tasks(q)
        OBVIOUS
      <4>2. Tasks(q) \in Nat /\ Tasks(q)' \in Nat /\ Tasks(q)' + 0 = Tasks(q) + 0
        BY <3>3, <3>4, Counts
      <4>3. QED
        BY <4>2
    <3>6. /\ x.op # "store"
          /\ x.op \in {"clone", "drop", "lock", "release"} => x.obj \in Object
          /\ x.op \in Accesses => Now(t).op \in Accesses /\ x.at = Now(t).at
          /\ x.op = "clone" => slot'[x.at] = x.obj
      BY <1>1, <1>2, <1>3, <2>2, <3>1 DEF Accesses
    <3>7. QED
      BY <1>2, <1>4, <1>5, <3>1, <3>2, <3>4, <3>5, <3>6, GoWork
  <2>3. QED
    BY <2>1, <2>2
<1>7. TypeOK'
  BY <1>1, <1>6 DEF IInv, TypeOK
<1>8. StrongExact' /\ RefsFinite'
  <2>1. ASSUME NEW q \in Object
        PROVE  /\ IsFiniteSet(TaskRefs(q)') /\ IsFiniteSet(HeldRefs(q)')
               /\ strong'[q] = Tasks(q)' + Helds(q)' + Slots(q)' + Lists(q)'
    <3>1. /\ Slots(q)' = Slots(q) /\ Helds(q)' = Helds(q) /\ HeldRefs(q)' = HeldRefs(q)
          /\ Lists(q)' = Lists(q)
      BY <1>1, SameCounts
    <3>2. QED
      BY <1>1, <1>6, <3>1, Counts
  <2>2. QED
    BY <2>1, Recount
<1>9. UnlistedReleasing'
  BY <1>1, <1>2, <1>6, ReleasingStays
<1>10. FreedEmpty' /\ ~panicked'
  BY <1>1 DEF IInv, FreedEmpty
<1>11. QED
  BY <1>6, <1>7, <1>8, <1>9, <1>10 DEF IInv

(* What was read is still in the slot, and so on the heap: it is counted.  *)
LEMMA CloneKeeps ==
    ASSUME IInv, NEW t \in Thread, Clone(t)
    PROVE  IInv'
<1>1. /\ Doing(t, "clone") /\ strong' = [strong EXCEPT ![Now(t).obj] = @ + 1]
      /\ Push(t, Now(t).obj) /\ Continue(t, <<>>) /\ UNCHANGED <<slot, objects, panicked>>
  BY DEF Clone
<1>2. /\ work[t] # <<>> /\ Now(t).at \in Place /\ Now(t).obj \in Object
      /\ \A r : Doing(t, r) => r = "clone"
  BY <1>1, DoingFirst DEF Accesses
<1>3. PICK o \in Object : o = Now(t).obj
  BY <1>2
<1>4. o \in objects /\ strong[o] >= 2
  <2>1. slot[Now(t).at] = o
    BY <1>1, <1>3 DEF IInv, SlotsCurrent
  <2>2. Slots(o) >= 1
    BY <1>2, <2>1, SlotCounted
  <2>3. Helds(o) + Slots(o) >= 1
    <3>1. Helds(o) \in Nat /\ Slots(o) \in Nat
      BY Counts
    <3>2. QED
      BY <2>2, <3>1
  <2>4. QED
    BY <2>3, ReferredListed
<1>5. /\ work' \in [Thread -> Seq(Task)] /\ \A u \in Thread \ {t} : work'[u] = work[u]
      /\ WorkOrderly' /\ Exclusive' /\ SlotsCurrent'
  <2>1. \A p \in Place : InUse(t, p) => slot'[p] = slot[p]
    BY <1>1
  <2>2. \A i \in DOMAIN work[t] : (i # 1 /\ work[t][i].op = "store") => slot'[work[t][i].at] = Null
    BY <1>1, <1>2, StoresEmpty
  <2>3. QED
    BY <1>1, <1>2, <2>1, <2>2, EndWork
<1>6. TypeOK'
  <2>1. held' \in [Thread -> [Object -> Nat]]
    BY <1>1, <1>3, PushCount
  <2>2. QED
    BY <1>1, <1>3, <1>5, <2>1 DEF IInv, TypeOK
<1>7. StrongExact' /\ RefsFinite'
  <2>1. ASSUME NEW q \in Object
        PROVE  /\ IsFiniteSet(TaskRefs(q)') /\ IsFiniteSet(HeldRefs(q)')
               /\ strong'[q] = Tasks(q)' + Helds(q)' + Slots(q)' + Lists(q)'
    <3>1. /\ Tasks(q) \in Nat /\ Helds(q) \in Nat /\ Slots(q) \in Nat /\ Lists(q) \in Nat
          /\ strong[q] = Tasks(q) + Helds(q) + Slots(q) + Lists(q)
      BY Counts
    <3>2. IsFiniteSet(HeldRefs(q)') /\ Helds(q)' = Helds(q) + Is(q, o)
      BY <1>1, <1>3, PushCount
    <3>3. Owned(Now(t), q) = 0
      BY <1>1, OwnedNow
    <3>4. /\ IsFiniteSet(TaskRefs(q)') /\ Tasks(q)' \in Nat
          /\ Tasks(q) = Tasks(q)' + Owned(Now(t), q)
      BY <1>1, <1>2, EndCount
    <3>5. Slots(q)' = Slots(q) /\ Lists(q)' = Lists(q)
      BY <1>1, SameCounts
    <3>6. strong'[q] = strong[q] + Is(q, o) /\ Is(q, o) \in Nat
      BY <1>1, <1>3 DEF IInv, TypeOK, Is
    <3>7. QED
      BY <3>1, <3>2, <3>3, <3>4, <3>5, <3>6
  <2>2. QED
    BY <2>1, Recount
<1>8. UnlistedReleasing'
  <2>1. \A q \in Object \ objects' : q \notin objects /\ strong'[q] = strong[q]
    BY <1>1, <1>3, <1>4 DEF IInv, TypeOK
  <2>2. ~Doing(t, "release")
    BY <1>2
  <2>3. QED
    BY <1>5, <2>1, <2>2, ReleasingStays
<1>9. FreedEmpty' /\ ~panicked'
  <2>1. \A q \in Object : strong[q] \in Nat /\ (strong'[q] = strong[q] \/ strong'[q] = strong[q] + 1)
    BY <1>1, <1>3 DEF IInv, TypeOK
  <2>2. QED
    BY <1>1, <2>1 DEF IInv, FreedEmpty
<1>10. QED
  BY <1>5, <1>6, <1>7, <1>8, <1>9 DEF IInv

(* A reference that is overwritten goes from its slot to the task that     *)
(* drops it.                                                               *)
LEMMA TakeOldKeeps ==
    ASSUME IInv, NEW t \in Thread, TakeOld(t)
    PROVE  IInv'
<1>1. /\ Doing(t, "take") /\ slot' = [slot EXCEPT ![Now(t).at] = Null]
      /\ UNCHANGED <<strong, objects, held, panicked>>
  BY DEF TakeOld
<1>2. /\ work[t] # <<>> /\ Now(t).at \in Place /\ 1 \in DOMAIN work[t] /\ Now(t) = work[t][1]
      /\ Now(t).op = "take" /\ \A r : Doing(t, r) => r = "take"
  BY <1>1, DoingFirst DEF Accesses
<1>3. PICK p \in Place, o \in Object \cup {Null} : p = Now(t).at /\ o = slot[p]
  BY <1>2 DEF IInv, TypeOK
<1>4. slot' = [slot EXCEPT ![p] = Null] /\ slot \in [Place -> Object \cup {Null}]
  BY <1>1, <1>3 DEF IInv, TypeOK
<1>5. \A r \in Place : InUse(t, r) => slot'[r] = slot[r]
  <2>1. ~InUse(t, p)
    BY <1>2, <1>3, OwnAccess DEF Accesses
  <2>2. QED
    BY <1>4, <2>1
<1>6. \A i \in DOMAIN work[t] : (i # 1 /\ work[t][i].op = "store") => slot'[work[t][i].at] = Null
  <2>1. \A i \in DOMAIN work[t] : work[t][i].op = "store" => work[t][i].at = p
    BY <1>2, <1>3 DEF IInv, WorkOrderly, Orderly, Accesses
  <2>2. QED
    BY <1>4, <2>1
<1>7. /\ work' \in [Thread -> Seq(Task)] /\ \A u \in Thread \ {t} : work'[u] = work[u]
      /\ WorkOrderly' /\ Exclusive' /\ SlotsCurrent'
      /\ \A q \in Object : IsFiniteSet(TaskRefs(q)') /\ Tasks(q)' \in Nat /\ Tasks(q)' = Tasks(q) + Is(o, q)
  <2>1. CASE o = Null
    <3>1. Continue(t, <<>>)
      BY <1>3, <2>1 DEF TakeOld
    <3>2. \A q \in Object : Owned(Now(t), q) = 0 /\ Is(o, q) = 0
      BY <1>1, <2>1, OwnedNow, NamesAssumption DEF Is
    <3>3. \A q \in Object : /\ IsFiniteSet(TaskRefs(q)') /\ Tasks(q)' \in Nat
                            /\ Tasks(q) = Tasks(q)' + Owned(Now(t), q)
      BY <1>2, <3>1, EndCount
    <3>4. \A q \in Object : Tasks(q)' = Tasks(q) + Is(o, q)
      <4>1. SUFFICES ASSUME NEW q \in Object PROVE Tasks(q)' = Tasks(q) + Is(o, q)
        OBVIOUS
      <4>2. Tasks(q)' \in Nat /\ Tasks(q) = Tasks(q)' + 0 /\ Is(o, q) = 0
        BY <3>2, <3>3
      <4>3. QED
        BY <4>2
    <3>5. QED
      BY <1>2, <1>5, <1>6, <3>1, <3>3, <3>4, EndWork
  <2>2. CASE o # Null
    <3>1. PICK x : /\ x = task("drop", o, Null) /\ x \in Task /\ x.op = "drop" /\ x.obj = o
      <4>1. task("drop", o, Null) \in Task /\ task("drop", o, Null).op = "drop" /\ task("drop", o, Null).obj = o
        BY TaskTyped
      <4>2. QED
        BY <4>1
    <3>2. Continue(t, <<x>>)
      BY <1>3, <2>2, <3>1 DEF TakeOld
    <3>3. \A q \in Object : Owned(Now(t), q) = 0 /\ Owned(x, q) = Is(o, q)
      BY <1>1, <3>1, OwnedNow DEF Owned, Owns, Is
    <3>4. \A q \in Object : /\ IsFiniteSet(TaskRefs(q)') /\ Tasks(q)' \in Nat
                            /\ Tasks(q)' + Owned(Now(t), q) = Tasks(q) + Owned(x, q)
      BY <1>2, <3>1, <3>2, GoCount
    <3>5. \A q \in Object : Tasks(q)' = Tasks(q) + Is(o, q)
      <4>1. SUFFICES ASSUME NEW q \in Object PROVE Tasks(q)' = Tasks(q) + Is(o, q)
        OBVIOUS
      <4>2. Tasks(q)' \in Nat /\ Tasks(q)' + 0 = Tasks(q) + Is(o, q)
        BY <3>3, <3>4
      <4>3. QED
        BY <4>2
    <3>6. /\ x.op # "store" /\ x.op # "clone" /\ x.op \notin Accesses /\ x.obj \in Object
      BY <2>2, <3>1 DEF Accesses
    <3>7. QED
      BY <1>2, <1>5, <1>6, <3>1, <3>2, <3>4, <3>5, <3>6, GoWork
  <2>3. QED
    BY <2>1, <2>2
<1>8. TypeOK'
  BY <1>1, <1>4, <1>7 DEF IInv, TypeOK
<1>9. StrongExact' /\ RefsFinite'
  <2>1. ASSUME NEW q \in Object
        PROVE  /\ IsFiniteSet(TaskRefs(q)') /\ IsFiniteSet(HeldRefs(q)')
               /\ strong'[q] = Tasks(q)' + Helds(q)' + Slots(q)' + Lists(q)'
    <3>1. Helds(q)' = Helds(q) /\ HeldRefs(q)' = HeldRefs(q) /\ Lists(q)' = Lists(q) /\ strong' = strong
      BY <1>1, SameCounts
    <3>2. Slots(q)' = Slots(q) - Is(slot[p], q) + Is(Null, q)
      BY <1>4, WriteCount
    <3>3. Is(Null, q) = 0 /\ Is(slot[p], q) = Is(o, q) /\ Is(o, q) \in Nat
      BY <1>3, NamesAssumption DEF Is
    <3>4. /\ Tasks(q) \in Nat /\ Helds(q) \in Nat /\ Slots(q) \in Nat /\ Lists(q) \in Nat
          /\ strong[q] = Tasks(q) + Helds(q) + Slots(q) + Lists(q) /\ IsFiniteSet(HeldRefs(q))
      BY Counts
    <3>5. Tasks(q)' = Tasks(q) + Is(o, q) /\ IsFiniteSet(TaskRefs(q)')
      BY <1>7
    <3>6. QED
      BY <3>1, <3>2, <3>3, <3>4, <3>5
  <2>2. QED
    BY <2>1, Recount
<1>10. UnlistedReleasing'
  BY <1>1, <1>2, <1>7, ReleasingStays
<1>11. FreedEmpty' /\ ~panicked'
  BY <1>1, <1>4 DEF IInv, FreedEmpty, TypeOK, Place
<1>12. QED
  BY <1>7, <1>8, <1>9, <1>10, <1>11 DEF IInv

(* An object that a slot to be accessed belongs to is still referred to.   *)
LEMMA AccessedCounted ==
    ASSUME IInv, NEW t \in Thread, NEW i \in DOMAIN work[t], work[t][i].op \in Accesses,
           NEW o \in Object, work[t][i].at = o
    PROVE  \E j \in DOMAIN work[t] : j # i /\ Owns(work[t][j], o) /\ work[t][j].op = "drop"
<1>1. PICK n \in Nat : n = Len(work[t]) /\ DOMAIN work[t] = 1..n
  BY LenProperties DEF IInv, TypeOK
<1>2. i < n /\ work[t][n] = task("drop", o, Null)
  BY <1>1 DEF IInv, WorkOrderly, Orderly
<1>3. n \in DOMAIN work[t] /\ n # i
  BY <1>1, <1>2
<1>4. Owns(work[t][n], o) /\ work[t][n].op = "drop"
  BY <1>2 DEF Owns, task
<1>5. QED
  BY <1>3, <1>4

(* The task's reference goes into the slot, which was empty.               *)
LEMMA StoreKeeps ==
    ASSUME IInv, NEW t \in Thread, Store(t)
    PROVE  IInv'
<1>1. /\ Doing(t, "store") /\ slot' = [slot EXCEPT ![Now(t).at] = Now(t).obj] /\ Continue(t, <<>>)
      /\ UNCHANGED <<strong, objects, held, panicked>>
  BY DEF Store
<1>2. /\ work[t] # <<>> /\ Now(t).at \in Place /\ 1 \in DOMAIN work[t] /\ Now(t) = work[t][1]
      /\ Now(t).op = "store" /\ \A r : Doing(t, r) => r = "store"
      /\ Now(t).obj \in Object \cup {Null}
  BY <1>1, DoingFirst DEF Accesses
<1>3. PICK p \in Place, v \in Object \cup {Null} : p = Now(t).at /\ v = Now(t).obj
  BY <1>2
<1>4. slot' = [slot EXCEPT ![p] = v] /\ slot \in [Place -> Object \cup {Null}] /\ slot[p] = Null
  BY <1>1, <1>2, <1>3, StoresEmpty DEF IInv, TypeOK
<1>5. \A r \in Place : InUse(t, r) => slot'[r] = slot[r]
  <2>1. ~InUse(t, p)
    BY <1>2, <1>3, OwnAccess DEF Accesses
  <2>2. QED
    BY <1>4, <2>1
<1>6. \A i \in DOMAIN work[t] : (i # 1 /\ work[t][i].op = "store") => slot'[work[t][i].at] = Null
  BY <1>2 DEF IInv, WorkOrderly, Orderly
<1>7. /\ work' \in [Thread -> Seq(Task)] /\ \A u \in Thread \ {t} : work'[u] = work[u]
      /\ WorkOrderly' /\ Exclusive' /\ SlotsCurrent'
  BY <1>1, <1>2, <1>5, <1>6, EndWork
<1>8. TypeOK'
  BY <1>1, <1>4, <1>7 DEF IInv, TypeOK
<1>9. StrongExact' /\ RefsFinite'
  <2>1. ASSUME NEW q \in Object
        PROVE  /\ IsFiniteSet(TaskRefs(q)') /\ IsFiniteSet(HeldRefs(q)')
               /\ strong'[q] = Tasks(q)' + Helds(q)' + Slots(q)' + Lists(q)'
    <3>1. Helds(q)' = Helds(q) /\ HeldRefs(q)' = HeldRefs(q) /\ Lists(q)' = Lists(q) /\ strong' = strong
      BY <1>1, SameCounts
    <3>2. Slots(q)' = Slots(q) - Is(slot[p], q) + Is(v, q)
      BY <1>4, WriteCount
    <3>3. Is(slot[p], q) = 0 /\ Is(v, q) \in Nat /\ Owned(Now(t), q) = Is(v, q)
      BY <1>1, <1>3, <1>4, OwnedNow, NamesAssumption DEF Is
    <3>4. /\ Tasks(q) \in Nat /\ Helds(q) \in Nat /\ Slots(q) \in Nat /\ Lists(q) \in Nat
          /\ strong[q] = Tasks(q) + Helds(q) + Slots(q) + Lists(q) /\ IsFiniteSet(HeldRefs(q))
      BY Counts
    <3>5. IsFiniteSet(TaskRefs(q)') /\ Tasks(q)' \in Nat /\ Tasks(q) = Tasks(q)' + Owned(Now(t), q)
      BY <1>1, <1>2, EndCount
    <3>6. QED
      BY <3>1, <3>2, <3>3, <3>4, <3>5
  <2>2. QED
    BY <2>1, Recount
<1>10. UnlistedReleasing'
  BY <1>1, <1>2, <1>7, ReleasingStays
<1>11. FreedEmpty' /\ ~panicked'
  <2>1. ASSUME p \in Object
        PROVE  strong[p] # 0
    <3>1. PICK j \in DOMAIN work[t] : Owns(work[t][j], p)
      BY <1>2, <1>3, <2>1, AccessedCounted DEF Accesses
    <3>2. Tasks(p) >= 1
      BY <2>1, <3>1, TaskCounted
    <3>3. /\ Tasks(p) \in Nat /\ Helds(p) \in Nat /\ Slots(p) \in Nat /\ Lists(p) \in Nat
          /\ strong[p] = Tasks(p) + Helds(p) + Slots(p) + Lists(p)
      BY <2>1, Counts
    <3>4. QED
      BY <3>2, <3>3
  <2>2. QED
    BY <1>1, <1>4, <2>1 DEF IInv, FreedEmpty, TypeOK, Place
<1>12. QED
  BY <1>7, <1>8, <1>9, <1>10, <1>11 DEF IInv

(* The steps of a drop that go on with it: the same reference is owned.    *)
LEMMA DropGoesOn ==
    ASSUME IInv, NEW t \in Thread, NEW op \in {"drop", "lock"}, Doing(t, op),
           NEW next \in {"lock", "release"}, Continue(t, <<task(next, Now(t).obj, Null)>>),
           slot' = slot
    PROVE  /\ work' \in [Thread -> Seq(Task)] /\ \A u \in Thread \ {t} : work'[u] = work[u]
           /\ WorkOrderly' /\ Exclusive' /\ SlotsCurrent'
           /\ Now(t)'.op = next /\ Now(t)'.obj = Now(t).obj /\ work'[t] # <<>>
           /\ \A q \in Object : IsFiniteSet(TaskRefs(q)') /\ Tasks(q)' \in Nat /\ Tasks(q)' = Tasks(q)
<1>1. /\ work[t] # <<>> /\ Now(t).obj \in Object /\ Now(t).op = op
      /\ \A r : Doing(t, r) => r = op
  BY DoingFirst
<1>2. PICK o \in Object : o = Now(t).obj
  BY <1>1
<1>3. PICK x : /\ x = task(next, o, Null) /\ x \in Task /\ x.op = next /\ x.obj = o
  <2>1. task(next, o, Null) \in Task /\ task(next, o, Null).op = next /\ task(next, o, Null).obj = o
    BY TaskTyped
  <2>2. QED
    BY <2>1
<1>4. Continue(t, <<x>>)
  BY <1>2, <1>3
<1>5. \A p \in Place : InUse(t, p) => slot'[p] = slot[p]
  OBVIOUS
<1>6. \A i \in DOMAIN work[t] : (i # 1 /\ work[t][i].op = "store") => slot'[work[t][i].at] = Null
  <2>1. ~Doing(t, "take")
    BY <1>1
  <2>2. QED
    BY <2>1, StoresEmpty
<1>7. x.op # "store" /\ x.op # "clone" /\ x.op \notin Accesses /\ x.obj \in Object
  BY <1>3 DEF Accesses
<1>8. /\ work' \in [Thread -> Seq(Task)] /\ \A u \in Thread \ {t} : work'[u] = work[u]
      /\ WorkOrderly' /\ Exclusive' /\ SlotsCurrent' /\ Now(t)' = x /\ work'[t] # <<>>
  BY <1>1, <1>3, <1>4, <1>5, <1>6, <1>7, GoWork
<1>9. ASSUME NEW q \in Object
      PROVE  IsFiniteSet(TaskRefs(q)') /\ Tasks(q)' \in Nat /\ Tasks(q)' = Tasks(q)
  <2>1. Owned(Now(t), q) = Is(q, o) /\ Owned(x, q) = Is(q, o) /\ Is(q, o) \in Nat
    BY <1>2, <1>3, OwnedNow DEF Owned, Owns, Is
  <2>2. /\ IsFiniteSet(TaskRefs(q)') /\ Tasks(q)' \in Nat
        /\ Tasks(q)' + Owned(Now(t), q) = Tasks(q) + Owned(x, q)
    BY <1>1, <1>3, <1>4, GoCount
  <2>3. Tasks(q) \in Nat
    BY Counts
  <2>4. QED
    BY <2>1, <2>2, <2>3
<1>10. QED
  BY <1>2, <1>3, <1>8, <1>9

(* The count is read without the lock.                                     *)
LEMMA DropCheckKeeps ==
    ASSUME IInv, NEW t \in Thread, DropCheck(t)
    PROVE  IInv'
<1>1. Doing(t, "drop") /\ UNCHANGED <<slot, strong, objects, held, panicked>>
  BY DEF DropCheck
<1>2. PICK next \in {"lock", "release"} : Continue(t, <<task(next, Now(t).obj, Null)>>)
  BY DEF DropCheck
<1>3. /\ work' \in [Thread -> Seq(Task)] /\ \A u \in Thread \ {t} : work'[u] = work[u]
      /\ WorkOrderly' /\ Exclusive' /\ SlotsCurrent'
      /\ \A q \in Object : IsFiniteSet(TaskRefs(q)') /\ Tasks(q)' \in Nat /\ Tasks(q)' = Tasks(q)
  BY <1>1, <1>2, DropGoesOn
<1>4. TypeOK'
  BY <1>1, <1>3 DEF IInv, TypeOK
<1>5. StrongExact' /\ RefsFinite'
  <2>1. ASSUME NEW q \in Object
        PROVE  /\ IsFiniteSet(TaskRefs(q)') /\ IsFiniteSet(HeldRefs(q)')
               /\ strong'[q] = Tasks(q)' + Helds(q)' + Slots(q)' + Lists(q)'
    <3>1. /\ Slots(q)' = Slots(q) /\ Helds(q)' = Helds(q) /\ HeldRefs(q)' = HeldRefs(q)
          /\ Lists(q)' = Lists(q)
      BY <1>1, SameCounts
    <3>2. QED
      BY <1>1, <1>3, <3>1, Counts
  <2>2. QED
    BY <2>1, Recount
<1>6. UnlistedReleasing'
  <2>1. ~Doing(t, "release")
    BY <1>1, DoingFirst
  <2>2. QED
    BY <1>1, <1>3, <2>1, ReleasingStays
<1>7. FreedEmpty' /\ ~panicked'
  BY <1>1 DEF IInv, FreedEmpty
<1>8. QED
  BY <1>3, <1>4, <1>5, <1>6, <1>7 DEF IInv

(* A count of two, read with the lock, is this reference and the heap's:   *)
(* the object is there to be taken off.                                    *)
LEMMA DropLockedKeeps ==
    ASSUME IInv, NEW t \in Thread, DropLocked(t)
    PROVE  IInv'
<1>1. /\ Doing(t, "lock") /\ UNCHANGED <<slot, held>>
      /\ Continue(t, <<task("release", Now(t).obj, Null)>>)
  BY DEF DropLocked
<1>2. Now(t).obj \in Object /\ \A r : Doing(t, r) => r = "lock"
  BY <1>1, DoingFirst
<1>3. PICK o \in Object : o = Now(t).obj
  BY <1>2
<1>4. /\ work' \in [Thread -> Seq(Task)] /\ \A u \in Thread \ {t} : work'[u] = work[u]
      /\ WorkOrderly' /\ Exclusive' /\ SlotsCurrent'
      /\ Now(t)'.op = "release" /\ Now(t)'.obj = o /\ work'[t] # <<>>
      /\ \A q \in Object : IsFiniteSet(TaskRefs(q)') /\ Tasks(q)' \in Nat /\ Tasks(q)' = Tasks(q)
  BY <1>1, <1>3, DropGoesOn
<1>5. ASSUME NEW q \in Object
      PROVE  /\ Slots(q)' = Slots(q) /\ Helds(q)' = Helds(q) /\ IsFiniteSet(HeldRefs(q)')
             /\ IsFiniteSet(TaskRefs(q)') /\ Tasks(q)' = Tasks(q)
  BY <1>1, <1>4, SameCounts, Counts
<1>6. CASE strong[o] = 2
  <2>1. o \in objects
    <3>1. SUFFICES ASSUME o \notin objects PROVE FALSE
      OBVIOUS
    <3>2. strong[o] = 1
      BY <1>6, <3>1 DEF IInv, UnlistedReleasing
    <3>3. QED
      BY <1>6, <3>2
  <2>2. objects' = objects \ {o} /\ strong' = [strong EXCEPT ![o] = 1] /\ panicked' = panicked
    BY <1>3, <1>6, <2>1 DEF DropLocked, IInv, TypeOK
  <2>3. TypeOK'
    BY <1>1, <1>4, <2>2 DEF IInv, TypeOK
  <2>4. StrongExact' /\ RefsFinite'
    <3>1. ASSUME NEW q \in Object
          PROVE  /\ IsFiniteSet(TaskRefs(q)') /\ IsFiniteSet(HeldRefs(q)')
                 /\ strong'[q] = Tasks(q)' + Helds(q)' + Slots(q)' + Lists(q)'
      <4>1. /\ Tasks(q) \in Nat /\ Helds(q) \in Nat /\ Slots(q) \in Nat /\ Lists(q) \in Nat
            /\ strong[q] = Tasks(q) + Helds(q) + Slots(q) + Lists(q)
        BY Counts
      <4>2. CASE q = o
        <5>1. strong'[q] = 1 /\ strong[q] = 2 /\ Lists(q)' = 0 /\ Lists(q) = 1
          BY <1>6, <2>1, <2>2, <4>2 DEF IInv, TypeOK, Lists
        <5>2. QED
          BY <1>5, <4>1, <5>1
      <4>3. CASE q # o
        <5>1. strong'[q] = strong[q] /\ Lists(q)' = Lists(q)
          BY <2>2, <4>3 DEF IInv, TypeOK, Lists
        <5>2. QED
          BY <1>5, <4>1, <5>1
      <4>4. QED
        BY <4>2, <4>3
    <3>2. QED
      BY <3>1, Recount
  <2>5. UnlistedReleasing'
    <3>1. ASSUME NEW q \in Object \ objects', strong'[q] # 0
          PROVE  strong'[q] = 1 /\ \E u \in Thread : Doing(u, "release")' /\ Now(u)'.obj = q
      <4>1. CASE q = o
        <5>1. Doing(t, "release")'
          BY <1>4 DEF Doing, Now
        <5>2. strong'[q] = 1
          BY <2>2, <4>1 DEF IInv, TypeOK
        <5>3. QED
          BY <1>4, <4>1, <5>1, <5>2
      <4>2. CASE q # o
        <5>1. strong'[q] = strong[q] /\ q \notin objects
          BY <2>2, <4>2 DEF IInv, TypeOK
        <5>2. PICK u \in Thread : strong[q] = 1 /\ Doing(u, "release") /\ Now(u).obj = q
          BY <3>1, <5>1 DEF IInv, UnlistedReleasing
        <5>3. u # t
          BY <1>2, <5>2
        <5>4. work'[u] = work[u]
          BY <1>4, <5>3
        <5>5. Doing(u, "release")' /\ Now(u)'.obj = q
          BY <5>2, <5>4 DEF Doing, Now
        <5>6. QED
          BY <5>1, <5>2, <5>5
      <4>3. QED
        BY <4>1, <4>2
    <3>2. QED
      BY <3>1 DEF UnlistedReleasing
  <2>6. FreedEmpty' /\ ~panicked'
    BY <1>1, <1>6, <2>2 DEF IInv, FreedEmpty, TypeOK
  <2>7. QED
    BY <1>4, <2>3, <2>4, <2>5, <2>6 DEF IInv
<1>7. CASE strong[o] # 2
  <2>1. UNCHANGED <<objects, strong, panicked>>
    BY <1>3, <1>7 DEF DropLocked
  <2>2. TypeOK'
    BY <1>1, <1>4, <2>1 DEF IInv, TypeOK
  <2>3. StrongExact' /\ RefsFinite'
    <3>1. ASSUME NEW q \in Object
          PROVE  /\ IsFiniteSet(TaskRefs(q)') /\ IsFiniteSet(HeldRefs(q)')
                 /\ strong'[q] = Tasks(q)' + Helds(q)' + Slots(q)' + Lists(q)'
      BY <1>5, <2>1, Counts, SameCounts
    <3>2. QED
      BY <3>1, Recount
  <2>4. UnlistedReleasing'
    <3>1. ~Doing(t, "release")
      BY <1>2
    <3>2. QED
      BY <1>4, <2>1, <3>1, ReleasingStays
  <2>5. FreedEmpty' /\ ~panicked'
    BY <1>1, <2>1 DEF IInv, FreedEmpty
  <2>6. QED
    BY <1>4, <2>2, <2>3, <2>4, <2>5 DEF IInv
<1>8. QED
  BY <1>6, <1>7

(* The last reference: nobody else is about to access the object's slot.   *)
LEMMA ReleaseKeeps ==
    ASSUME IInv, NEW t \in Thread, Release(t)
    PROVE  IInv'
<1>1. Doing(t, "release") /\ UNCHANGED <<objects, held, panicked>>
  BY DEF Release
<1>2. /\ work[t] # <<>> /\ Now(t).obj \in Object /\ \A r : Doing(t, r) => r = "release"
      /\ 1 \in DOMAIN work[t] /\ Now(t) = work[t][1] /\ Now(t).op = "release"
  BY <1>1, DoingFirst
<1>3. PICK o \in Object : o = Now(t).obj
  BY <1>2
<1>4. PICK s \in Object \cup {Null} : s = slot[o]
  BY DEF IInv, TypeOK, Place
<1>5. Owns(work[t][1], o)
  BY <1>2, <1>3 DEF Owns
<1>6. Tasks(o) >= 1 /\ strong[o] >= 1 /\ strong \in [Object -> Nat]
  <2>1. Tasks(o) >= 1
    BY <1>2, <1>5, TaskCounted
  <2>2. /\ Tasks(o) \in Nat /\ Helds(o) \in Nat /\ Slots(o) \in Nat /\ Lists(o) \in Nat
        /\ strong[o] = Tasks(o) + Helds(o) + Slots(o) + Lists(o)
    BY Counts
  <2>3. QED
    BY <2>1, <2>2 DEF IInv, TypeOK
<1>7. strong' = [strong EXCEPT ![o] = strong[o] - 1]
  <2>1. strong' = [strong EXCEPT ![o] = IF strong[o] = 0 THEN 0 ELSE strong[o] - 1]
    BY <1>3 DEF Release
  <2>2. strong[o] # 0
    BY <1>6
  <2>3. QED
    BY <2>1, <2>2
<1>8. slot \in [Place -> Object \cup {Null}] /\ o \in Place
  BY DEF IInv, TypeOK, Place
<1>9. PICK z \in Object \cup {Null} : z = IF strong[o] = 1 THEN s ELSE Null
  OBVIOUS
<1>10. slot' = IF z = Null THEN slot ELSE [slot EXCEPT ![o] = Null]
  BY <1>3, <1>4, <1>9 DEF Release
<1>11. \A p \in Place : slot'[p] = slot[p] \/ slot'[p] = Null
  BY <1>8, <1>10
<1>12. \A p \in Place : InUse(t, p) => slot'[p] = slot[p]
  <2>1. SUFFICES ASSUME InUse(t, o), z # Null PROVE FALSE
    BY <1>8, <1>10
  <2>2a. PICK u \in Thread \ {t} : \E i \in DOMAIN work[u] : work[u][i].at = o /\ work[u][i].op \in Accesses
    BY <2>1 DEF InUse
  <2>2. PICK i \in DOMAIN work[u] : work[u][i].at = o /\ work[u][i].op \in Accesses
    BY <2>2a
  <2>3. PICK j \in DOMAIN work[u] : Owns(work[u][j], o)
    BY <2>2, AccessedCounted
  <2>4. Tasks(o) >= 2
    BY <1>2, <1>5, <2>3, TasksCounted
  <2>5. /\ Tasks(o) \in Nat /\ Helds(o) \in Nat /\ Slots(o) \in Nat /\ Lists(o) \in Nat
        /\ strong[o] = Tasks(o) + Helds(o) + Slots(o) + Lists(o)
    BY Counts
  <2>6. strong[o] = 1
    BY <1>9, <2>1
  <2>7. QED
    BY <2>4, <2>5, <2>6
<1>13. \A i \in DOMAIN work[t] : (i # 1 /\ work[t][i].op = "store") => slot'[work[t][i].at] = Null
  <2>1. SUFFICES ASSUME NEW i \in DOMAIN work[t], work[t][i].op = "store"
                 PROVE  slot'[work[t][i].at] = Null
    OBVIOUS
  <2>2. ~Doing(t, "take")
    BY <1>2
  <2>3. slot[work[t][i].at] = Null
    BY <2>1, <2>2, StoresEmpty
  <2>4. work[t][i].at \in Place
    BY <2>1 DEF IInv, WorkOrderly, Orderly, Accesses
  <2>5. QED
    BY <1>11, <2>3, <2>4
<1>14. /\ work' \in [Thread -> Seq(Task)] /\ \A u \in Thread \ {t} : work'[u] = work[u]
       /\ WorkOrderly' /\ Exclusive' /\ SlotsCurrent'
       /\ \A q \in Object : /\ IsFiniteSet(TaskRefs(q)') /\ Tasks(q)' \in Nat
                             /\ Tasks(q)' + Is(q, o) = Tasks(q) + Is(z, q)
  <2>1. CASE z = Null
    <3>1. Continue(t, <<>>)
      BY <1>3, <1>4, <1>9, <2>1 DEF Release
    <3>2. \A q \in Object : Owned(Now(t), q) = Is(q, o) /\ Is(z, q) = 0
      BY <1>1, <1>3, <2>1, OwnedNow, NamesAssumption DEF Is
    <3>3. \A q \in Object : /\ IsFiniteSet(TaskRefs(q)') /\ Tasks(q)' \in Nat
                            /\ Tasks(q) = Tasks(q)' + Owned(Now(t), q)
      BY <1>2, <3>1, EndCount
    <3>4. \A q \in Object : Tasks(q)' + Is(q, o) = Tasks(q) + Is(z, q)
      <4>1. SUFFICES ASSUME NEW q \in Object PROVE Tasks(q)' + Is(q, o) = Tasks(q) + Is(z, q)
        OBVIOUS
      <4>2. /\ Tasks(q)' \in Nat /\ Tasks(q) = Tasks(q)' + Is(q, o) /\ Is(z, q) = 0
            /\ Is(q, o) \in Nat
        BY <3>2, <3>3 DEF Is
      <4>3. QED
        BY <4>2
    <3>5. QED
      BY <1>2, <1>12, <1>13, <3>1, <3>3, <3>4, EndWork
  <2>2. CASE z # Null
    <3>1. PICK x : x = task("drop", z, Null) /\ x \in Task /\ x.op = "drop" /\ x.obj = z
      <4>1. task("drop", z, Null) \in Task /\ task("drop", z, Null).op = "drop" /\ task("drop", z, Null).obj = z
        BY TaskTyped
      <4>2. QED
        BY <4>1
    <3>2. Continue(t, <<x>>)
      <4>1. strong[o] = 1 /\ slot[o] # Null /\ z = slot[o]
        BY <1>4, <1>9, <2>2
      <4>2. QED
        BY <1>3, <3>1, <4>1 DEF Release
    <3>3. \A q \in Object : Owned(Now(t), q) = Is(q, o) /\ Owned(x, q) = Is(z, q)
      BY <1>1, <1>3, <3>1, OwnedNow DEF Owned, Owns, Is
    <3>4. \A q \in Object : /\ IsFiniteSet(TaskRefs(q)') /\ Tasks(q)' \in Nat
                            /\ Tasks(q)' + Owned(Now(t), q) = Tasks(q) + Owned(x, q)
      BY <1>2, <3>1, <3>2, GoCount
    <3>5. x.op # "store" /\ x.op # "clone" /\ x.op \notin Accesses /\ x.obj \in Object
      BY <2>2, <3>1 DEF Accesses
    <3>6. QED
      BY <1>2, <1>12, <1>13, <3>1, <3>2, <3>3, <3>4, <3>5, GoWork
  <2>3. QED
    BY <2>1, <2>2
<1>15. TypeOK'
  <2>1. strong' \in [Object -> Nat]
    BY <1>6, <1>7
  <2>2. slot' \in [Place -> Object \cup {Null}]
    BY <1>8, <1>10
  <2>3. QED
    BY <1>1, <1>14, <2>1, <2>2 DEF IInv, TypeOK
<1>16. StrongExact' /\ RefsFinite'
  <2>1. ASSUME NEW q \in Object
        PROVE  /\ IsFiniteSet(TaskRefs(q)') /\ IsFiniteSet(HeldRefs(q)')
               /\ strong'[q] = Tasks(q)' + Helds(q)' + Slots(q)' + Lists(q)'
    <3>1. Helds(q)' = Helds(q) /\ HeldRefs(q)' = HeldRefs(q) /\ Lists(q)' = Lists(q)
      BY <1>1, SameCounts
    <3>2. /\ Tasks(q) \in Nat /\ Helds(q) \in Nat /\ Slots(q) \in Nat /\ Lists(q) \in Nat
          /\ strong[q] = Tasks(q) + Helds(q) + Slots(q) + Lists(q) /\ IsFiniteSet(HeldRefs(q))
      BY Counts
    <3>3. Slots(q)' = Slots(q) - Is(z, q)
      <4>1. CASE z = Null
        <5>1. slot' = slot /\ Is(z, q) = 0
          BY <1>10, <4>1, NamesAssumption DEF Is
        <5>2. Slots(q)' = Slots(q)
          BY <5>1, SameCounts
        <5>3. QED
          BY <3>2, <5>1, <5>2
      <4>2. CASE z # Null
        <5>1. slot' = [slot EXCEPT ![o] = Null] /\ slot[o] = z
          BY <1>4, <1>9, <1>10, <4>2
        <5>2. Slots(q)' = Slots(q) - Is(slot[o], q) + Is(Null, q)
          BY <1>8, <5>1, WriteCount
        <5>3. Is(Null, q) = 0 /\ Is(slot[o], q) = Is(z, q) /\ Is(z, q) \in Nat
          BY <5>1, NamesAssumption DEF Is
        <5>4. QED
          BY <3>2, <5>2, <5>3
      <4>3. QED
        BY <4>1, <4>2
    <3>4. strong'[q] = strong[q] - Is(q, o)
      BY <1>6, <1>7 DEF Is
    <3>5. Is(q, o) \in Nat /\ Is(z, q) \in Nat
      BY DEF Is
    <3>6. IsFiniteSet(TaskRefs(q)') /\ Tasks(q)' \in Nat /\ Tasks(q)' + Is(q, o) = Tasks(q) + Is(z, q)
      BY <1>14
    <3>7. Tasks(q)' = Tasks(q) + Is(z, q) - Is(q, o)
      BY <3>2, <3>5, <3>6
    <3>8. QED
      BY <3>1, <3>2, <3>3, <3>4, <3>5, <3>6, <3>7
  <2>2. QED
    BY <2>1, Recount
<1>17. UnlistedReleasing'
  <2>1. ASSUME NEW q \in Object \ objects', strong'[q] # 0
        PROVE  strong'[q] = 1 /\ \E u \in Thread : Doing(u, "release")' /\ Now(u)'.obj = q
    <3>1. q \notin objects /\ (q # o => strong'[q] = strong[q]) /\ (q = o => strong'[q] = strong[o] - 1)
      BY <1>1, <1>6, <1>7
    <3>2. strong[q] # 0
      BY <1>6, <2>1, <3>1
    <3>3. PICK u \in Thread : strong[q] = 1 /\ Doing(u, "release") /\ Now(u).obj = q
      BY <3>1, <3>2 DEF IInv, UnlistedReleasing
    <3>4. q # o
      BY <2>1, <3>1, <3>3
    <3>5. u # t
      BY <1>3, <3>3, <3>4
    <3>6. work'[u] = work[u]
      BY <1>14, <3>5
    <3>7. Doing(u, "release")' /\ Now(u)'.obj = q
      BY <3>3, <3>6 DEF Doing, Now
    <3>8. QED
      BY <3>1, <3>3, <3>4, <3>7
  <2>2. QED
    BY <2>1 DEF UnlistedReleasing
<1>18. FreedEmpty'
  <2>1. ASSUME NEW q \in Object, strong'[q] = 0
        PROVE  slot'[q] = Null
    <3>1. CASE q = o
      <4>1. strong[o] = 1
        BY <1>6, <1>7, <2>1, <3>1
      <4>2. z = slot[o]
        BY <1>4, <1>9, <4>1
      <4>3. QED
        BY <1>8, <1>10, <3>1, <4>2
    <3>2. CASE q # o
      <4>1. strong[q] = 0 /\ q \in Place
        BY <1>6, <1>7, <2>1, <3>2 DEF Place
      <4>2. slot[q] = Null
        BY <4>1 DEF IInv, FreedEmpty
      <4>3. QED
        BY <1>11, <4>1, <4>2
    <3>3. QED
      BY <3>1, <3>2
  <2>2. QED
    BY <2>1 DEF FreedEmpty
<1>19. ~panicked'
  BY <1>1 DEF IInv
<1>20. QED
  BY <1>14, <1>15, <1>16, <1>17, <1>18, <1>19 DEF IInv

-----------------------------------------------------------------------------
(* A collection. *)

(* Whatever is held or in a static field is reachable, and whatever an     *)
(* object refers to that is.                                               *)
LEMMA ReachableClosed ==
    /\ Reachable \subseteq Object
    /\ \A o \in Object : o \in Roots => o \in Reachable
    /\ \A p \in Reachable : slot[p] \in Object => slot[p] \in Reachable
<1>1. Reachable \subseteq Object
  BY DEF Reachable
<1>2. ASSUME NEW o \in Object, o \in Roots
      PROVE  o \in Reachable
  <2>1. o \in Roots \ {Null}
    BY <1>2, NamesAssumption
  <2>2. QED
    BY <2>1 DEF Reachable
<1>3. ASSUME NEW p \in Reachable, slot[p] \in Object
      PROVE  slot[p] \in Reachable
  <2>1. slot[p] # Null
    BY <1>3, NamesAssumption
  <2>2. ASSUME NEW S \in SUBSET Object, Roots \ {Null} \subseteq S /\ \A r \in S : slot[r] \in S \cup {Null}
        PROVE  slot[p] \in S
    <3>1. p \in S
      BY <2>2 DEF Reachable
    <3>2. QED
      BY <2>1, <2>2, <3>1
  <2>3. QED
    BY <1>3, <2>2 DEF Reachable
<1>4. QED
  BY <1>1, <1>2, <1>3

(* Between instructions no drop is under way: what is off the heap is not  *)
(* allocated, and refers to nothing.                                       *)
LEMMA QuietHeap ==
    ASSUME IInv, \A t \in Thread : work[t] = <<>>, NEW o \in Object, o \notin objects
    PROVE  strong[o] = 0 /\ slot[o] = Null
<1>1. strong[o] = 0
  BY DEF IInv, UnlistedReleasing, Doing
<1>2. QED
  BY <1>1 DEF IInv, FreedEmpty

(* Garbage is referred to by garbage only.                                 *)
LEMMA GarbageUnreferred ==
    ASSUME IInv, \A t \in Thread : work[t] = <<>>, NEW o \in Object, o \notin Reachable
    PROVE  /\ Tasks(o) = 0 /\ Helds(o) = 0
           /\ \A p \in Place : slot[p] = o => p \in objects \ Reachable
<1>1. TaskRefs(o) = {}
  BY DEF TaskRefs
<1>2. HeldRefs(o) = {}
  <2>1. ASSUME NEW t \in Thread
        PROVE  1..held[t][o] = {}
    <3>1. held[t][o] \in Nat
      BY DEF IInv, TypeOK
    <3>2. o \notin Holding(t)
      BY ReachableClosed DEF Roots
    <3>3. ~(held[t][o] > 0)
      BY <3>2 DEF Holding
    <3>4. QED
      BY <3>1, <3>3
  <2>2. QED
    BY <2>1 DEF HeldRefs
<1>3. ASSUME NEW p \in Place, slot[p] = o
      PROVE  p \in objects \ Reachable
  <2>1. p # Static
    BY <1>3, ReachableClosed DEF Roots
  <2>2. p \in Object
    BY <2>1 DEF Place
  <2>3. p \notin Reachable
    BY <1>3, ReachableClosed
  <2>4. p \in objects
    BY <1>3, <2>2, QuietHeap, NamesAssumption
  <2>5. QED
    BY <2>3, <2>4
<1>4. QED
  BY <1>1, <1>2, <1>3, FS_EmptySet DEF Tasks, Helds

(* The garbage goes, with the references in its slots.                     *)
LEMMA CollectKeeps ==
    ASSUME IInv, Collect
    PROVE  IInv'
<1>1. PICK garbage : garbage = objects \ Reachable
  OBVIOUS
<1>2. /\ \A t \in Thread : work[t] = <<>>
      /\ objects' = objects \ garbage
      /\ slot' = [p \in Place |-> IF p \in garbage THEN Null ELSE slot[p]]
      /\ strong' = [o \in Object |->
             IF o \in garbage THEN 0
             ELSE strong[o] - Cardinality({g \in garbage : slot[g] = o})]
      /\ UNCHANGED <<held, work, panicked>>
  BY <1>1 DEF Collect
<1>3. garbage \subseteq Object /\ garbage \subseteq Place
  BY <1>1 DEF IInv, TypeOK, Place
<1>4. ASSUME NEW q \in Object
      PROVE  /\ IsFiniteSet(TaskRefs(q)') /\ IsFiniteSet(HeldRefs(q)')
             /\ strong'[q] = Tasks(q)' + Helds(q)' + Slots(q)' + Lists(q)'
             /\ strong'[q] \in Nat
             /\ (q \notin garbage /\ strong[q] = 0) => strong'[q] = 0
             /\ q \in objects \ garbage => strong'[q] # 0
  <2>1. /\ Tasks(q) \in Nat /\ Helds(q) \in Nat /\ Slots(q) \in Nat /\ Lists(q) \in Nat
        /\ strong[q] = Tasks(q) + Helds(q) + Slots(q) + Lists(q)
        /\ IsFiniteSet(TaskRefs(q)) /\ IsFiniteSet(HeldRefs(q))
    BY Counts
  <2>2. /\ Tasks(q)' = Tasks(q) /\ TaskRefs(q)' = TaskRefs(q)
        /\ Helds(q)' = Helds(q) /\ HeldRefs(q)' = HeldRefs(q)
    BY <1>2, SameCounts
  <2>3. PICK D : D = {g \in garbage : slot[g] = q}
    OBVIOUS
  <2>4. SlotRefs(q)' = SlotRefs(q) \ D /\ SlotRefs(q) \cap D = D
    <3>1. q # Null
      BY NamesAssumption
    <3>2. \A p \in Place : slot'[p] = IF p \in garbage THEN Null ELSE slot[p]
      BY <1>2
    <3>3. QED
      BY <1>3, <2>3, <3>1, <3>2 DEF SlotRefs
  <2>5. IsFiniteSet(SlotRefs(q))
    BY SlotsFinite DEF SlotRefs, SlotsOf
  <2>6. IsFiniteSet(SlotRefs(q) \ D) /\ IsFiniteSet(D)
    BY <2>4, <2>5, FS_Subset
  <2>7. Cardinality(SlotRefs(q) \ D) = Cardinality(SlotRefs(q)) - Cardinality(D)
    <3>1. Cardinality(SlotRefs(q) \ D) = Cardinality(SlotRefs(q)) - Cardinality(SlotRefs(q) \cap D)
      BY <2>5, FS_Difference
    <3>2. QED
      BY <2>4, <3>1
  <2>8. Slots(q)' = Slots(q) - Cardinality(D) /\ Slots(q)' \in Nat /\ Cardinality(D) \in Nat
    BY <2>4, <2>6, <2>7, FS_CardinalityType DEF Slots
  <2>9. CASE q \in garbage
    <3>1. q \notin Reachable /\ q \in objects
      BY <1>1, <2>9
    <3>2. Tasks(q) = 0 /\ Helds(q) = 0 /\ \A p \in Place : slot[p] = q => p \in objects \ Reachable
      BY <1>2, <3>1, GarbageUnreferred
    <3>3. SlotRefs(q)' = {}
      BY <1>1, <2>3, <2>4, <3>2 DEF SlotRefs
    <3>4. Slots(q)' = 0
      BY <3>3, FS_EmptySet DEF Slots
    <3>5. Lists(q)' = 0 /\ strong'[q] = 0
      BY <1>2, <2>9 DEF Lists
    <3>6. QED
      BY <2>1, <2>2, <2>9, <3>2, <3>4, <3>5
  <2>10. CASE q \notin garbage
    <3>1. Lists(q)' = Lists(q) /\ strong'[q] = strong[q] - Cardinality(D)
      BY <1>2, <2>3, <2>10 DEF Lists
    <3>2. strong'[q] = Tasks(q)' + Helds(q)' + Slots(q)' + Lists(q)' /\ strong'[q] \in Nat
      BY <2>1, <2>2, <2>8, <3>1
    <3>3. strong[q] = 0 => strong'[q] = 0
      BY <2>8, <3>1, <3>2, <2>1
    <3>4. q \in objects => strong'[q] # 0
      <4>1. SUFFICES ASSUME q \in objects PROVE strong'[q] # 0
        OBVIOUS
      <4>2. Lists(q)' = 1
        BY <3>1, <4>1 DEF Lists
      <4>3. QED
        BY <2>1, <2>2, <2>8, <3>2, <4>2
    <3>5. QED
      BY <2>1, <2>2, <2>10, <3>2, <3>3, <3>4
  <2>11. QED
    BY <2>9, <2>10
<1>5. TypeOK'
  <2>1. strong' \in [Object -> Nat]
    <3>1. \A q \in Object : strong'[q] \in Nat
      BY <1>4
    <3>2. strong' = [q \in Object |-> strong'[q]]
      BY <1>2
    <3>3. QED
      BY <3>1, <3>2
  <2>2. slot' \in [Place -> Object \cup {Null}]
    BY <1>2 DEF IInv, TypeOK
  <2>3. QED
    BY <1>2, <2>1, <2>2 DEF IInv, TypeOK
<1>6. StrongExact' /\ RefsFinite'
  BY <1>4, Recount
<1>7. WorkOrderly' /\ Exclusive'
  BY <1>2 DEF IInv, WorkOrderly, Exclusive
<1>8. SlotsCurrent'
  BY <1>2 DEF SlotsCurrent, Doing
<1>9. UnlistedReleasing'
  <2>1. ASSUME NEW q \in Object \ objects'
        PROVE  strong'[q] = 0
    <3>1. CASE q \in garbage
      BY <1>2, <3>1
    <3>2. CASE q \notin garbage
      <4>1. strong[q] = 0
        BY <1>2, <2>1, <3>2, QuietHeap
      <4>2. QED
        BY <1>4, <3>2, <4>1
    <3>3. QED
      BY <3>1, <3>2
  <2>2. QED
    BY <2>1 DEF UnlistedReleasing
<1>10. FreedEmpty'
  <2>1. ASSUME NEW q \in Object, strong'[q] = 0
        PROVE  slot'[q] = Null
    <3>1. slot'[q] = IF q \in garbage THEN Null ELSE slot[q]
      BY <1>2 DEF Place
    <3>2. ASSUME q \notin garbage
          PROVE  slot[q] = Null
      <4>1. q \notin objects
        BY <1>4, <2>1, <3>2
      <4>2. QED
        BY <1>2, <4>1, QuietHeap
    <3>3. QED
      BY <3>1, <3>2
  <2>2. QED
    BY <2>1 DEF FreedEmpty
<1>11. ~panicked'
  BY <1>2 DEF IInv
<1>12. QED
  BY <1>5, <1>6, <1>7, <1>8, <1>9, <1>10, <1>11 DEF IInv

-----------------------------------------------------------------------------
(* The theorems.  They are about instructions that never use the same slot *)
(* at once: with_object copies a pointer that is not counted yet, and no   *)
(* lock of the code keeps another mutator from overwriting the slot then.  *)

(* Nothing is allocated at first.                                          *)
LEMMA Begins == Init => IInv
<1> SUFFICES ASSUME Init PROVE IInv
  OBVIOUS
<1>1. TypeOK
  <2>1. <<>> \in Seq(Task)
    OBVIOUS
  <2>2. QED
    BY <2>1 DEF Init, TypeOK
<1>2. ASSUME NEW o \in Object
      PROVE  TaskRefs(o) = {} /\ HeldRefs(o) = {} /\ SlotRefs(o) = {} /\ strong[o] = 0 /\ o \notin objects
  BY NamesAssumption DEF Init, TaskRefs, HeldRefs, SlotRefs
<1>3. StrongExact /\ RefsFinite
  BY SMTT(60), <1>2, FS_EmptySet DEF StrongExact, RefsFinite, References
<1>4. WorkOrderly /\ Exclusive /\ SlotsCurrent
  BY DEF Init, WorkOrderly, Orderly, Exclusive, SlotsCurrent, Doing
<1>5. UnlistedReleasing /\ FreedEmpty /\ ~panicked
  BY DEF Init, UnlistedReleasing, FreedEmpty, Place
<1>6. QED
  BY <1>1, <1>3, <1>4, <1>5 DEF IInv

(* Every step keeps the invariant.                                         *)
LEMMA StepKeeps ==
    ASSUME RaceFree, IInv, [Next]_vars
    PROVE  IInv'
<1>1. CASE UNCHANGED vars
  <2>1. slot' = slot /\ strong' = strong /\ objects' = objects /\ held' = held /\ work' = work /\ panicked' = panicked
    BY <1>1 DEF vars
  <2>2. TypeOK' /\ UnlistedReleasing' /\ FreedEmpty' /\ ~panicked'
    BY <2>1 DEF IInv, TypeOK, UnlistedReleasing, FreedEmpty, Doing, Now
  <2>3. WorkOrderly' /\ Exclusive' /\ SlotsCurrent'
    BY <2>1, IdleKept
  <2>4. StrongExact' /\ RefsFinite'
    BY <2>1, SameCounts, Counts, Recount
  <2>5. QED
    BY <2>2, <2>3, <2>4 DEF IInv
<1>2. CASE Collect
  BY <1>2, CollectKeeps
<1>3. ASSUME NEW t \in Thread, Instruction(t)
      PROVE  IInv'
  BY <1>3, NewKeeps, DupKeeps, PopKeeps, GetFieldKeeps, GetStaticKeeps, PutFieldKeeps, PutStaticKeeps
     DEF Instruction
<1>4. ASSUME NEW t \in Thread, Step(t)
      PROVE  IInv'
  BY <1>4, ReadKeeps, CloneKeeps, TakeOldKeeps, StoreKeeps, DropCheckKeeps, DropLockedKeeps, ReleaseKeeps
     DEF Step
<1>5. QED
  BY <1>1, <1>2, <1>3, <1>4 DEF Next

(* The invariant holds in every reachable state of instructions that do    *)
(* not race.                                                               *)
THEOREM Invariance == RaceFree => (Spec => []IInv)
<1>1. SUFFICES ASSUME RaceFree PROVE Spec => []IInv
  OBVIOUS
<1>2. Init => IInv
  BY Begins
<1>3. IInv /\ [Next]_vars => IInv'
  BY <1>1, StepKeeps
<1>4. QED
  BY <1>2, <1>3, PTL DEF Spec

(* Arc::strong_count is exact: every reference on a stack, in a slot or in *)
(* an unfinished instruction is counted, and nothing else is.              *)
THEOREM StrongCountsAreExact == RaceFree => (Spec => []StrongExact)
<1>1. IInv => StrongExact
  BY DEF IInv
<1>2. QED
  BY <1>1, Invariance, PTL

(* An object that is referred to, or was read from a slot, is allocated:   *)
(* the promise of heap.rs:372.                                             *)
THEOREM ReferredToIsAllocated == RaceFree => (Spec => []NoUseAfterFree)
<1>1. ASSUME IInv PROVE NoUseAfterFree
  <2>1. ASSUME NEW o \in Object, References(o) > 0
        PROVE  strong[o] > 0
    <3>1. strong[o] = References(o) + Lists(o)
      BY <1>1 DEF IInv, StrongExact, Lists
    <3>2. strong[o] \in Nat /\ Lists(o) \in {0, 1}
      BY <1>1 DEF IInv, TypeOK, Lists
    <3>3. References(o) \in Nat
      <4>1. Tasks(o) \in Nat /\ Helds(o) \in Nat /\ Slots(o) \in Nat
        BY <1>1, Counts
      <4>2. References(o) = Tasks(o) + Helds(o) + Slots(o)
        BY DEF References, Tasks, Helds, Slots
      <4>3. QED
        BY <4>1, <4>2
    <3>4. QED
      BY <2>1, <3>1, <3>2, <3>3
  <2>2. ASSUME NEW o \in Object, NEW t \in Thread, NEW i \in DOMAIN work[t],
               work[t][i].op = "clone", work[t][i].obj = o
        PROVE  strong[o] > 0
    <3>1. i = 1
      BY <1>1, <2>2 DEF IInv, WorkOrderly, Orderly
    <3>2. work[t] # <<>> /\ Now(t) = work[t][1]
      BY <1>1, <2>2, <3>1, FirstTask DEF IInv, Now
    <3>3. Doing(t, "clone") /\ Now(t).obj = o
      BY <2>2, <3>1, <3>2 DEF Doing, Now
    <3>4. slot[Now(t).at] = o /\ Now(t).at \in Place
      BY <1>1, <3>3, DoingFirst DEF IInv, SlotsCurrent, Accesses
    <3>5. Slots(o) >= 1
      BY <3>4, SlotCounted
    <3>6. Helds(o) + Slots(o) >= 1
      <4>1. Helds(o) \in Nat /\ Slots(o) \in Nat
        BY <1>1, Counts
      <4>2. QED
        BY <3>5, <4>1
    <3>7. strong[o] >= 2 /\ strong[o] \in Nat
      BY <1>1, <3>6, ReferredListed DEF IInv, TypeOK
    <3>8. QED
      BY <3>7
  <2>3. QED
    BY <2>1, <2>2 DEF NoUseAfterFree
<1>2. QED
  BY <1>1, Invariance, PTL

(* ObjectRef::drop never panics, and nothing that nobody is dropping       *)
(* escapes the set that the collector goes through.                        *)
THEOREM DropFindsItsObject == RaceFree => (Spec => []TakeSucceeds)
<1>1. ASSUME IInv PROVE TakeSucceeds
  <2>1. ASSUME NEW o \in Object, strong[o] > 0, TaskRefs(o) = {}, o \notin objects
        PROVE  FALSE
    <3>1. strong[o] # 0
      BY <1>1, <2>1 DEF IInv, TypeOK
    <3>2. PICK t \in Thread : Doing(t, "release") /\ Now(t).obj = o
      BY <1>1, <2>1, <3>1 DEF IInv, UnlistedReleasing
    <3>3. 1 \in DOMAIN work[t] /\ Owns(work[t][1], o)
      BY <1>1, <3>2, DoingFirst DEF Owns
    <3>4. QED
      BY <1>1, <2>1, <3>3, TaskMember DEF IInv
  <2>2. QED
    BY <1>1, <2>1 DEF IInv, TakeSucceeds
<1>2. QED
  BY <1>1, Invariance, PTL
=============================================================================
