--------------------------- MODULE ClassLoaderProofs ---------------------------
(* Proofs about ClassLoader, for every finite set of class files, whatever *)
(* they name as their superclass or need for their <clinit>, and any       *)
(* number of threads.                                                      *)
EXTENDS ClassLoader, FiniteSetTheorems, SequenceTheorems, WellFoundedInduction, TLAPS

AllClasses == Class \cup {Object}

-----------------------------------------------------------------------------
(* Superclasses. *)

\* A set that holds the superclass of whatever it holds.
SuperClosed(S) == \A x \in S \ {Object} : super[x] \in S

(* The line of c holds c, is closed, and is the least set that does.       *)
LEMMA LineIsLeast ==
    ASSUME TypeOK, NEW c \in AllClasses
    PROVE  /\ c \in Line(c) /\ Line(c) \subseteq AllClasses
           /\ SuperClosed(Line(c))
           /\ \A S \in SUBSET AllClasses : c \in S /\ SuperClosed(S) => Line(c) \subseteq S
<1>1. c \in Line(c) /\ Line(c) \subseteq AllClasses
  BY DEF Line, AllClasses
<1>2. ASSUME NEW x \in Line(c) \ {Object}
      PROVE  super[x] \in Line(c)
  <2>1. x \in Class /\ super[x] \in AllClasses
    BY <1>1, <1>2 DEF TypeOK, AllClasses
  <2>2. ASSUME NEW S \in SUBSET AllClasses, c \in S, \A y \in S \ {Object} : super[y] \in S
        PROVE  super[x] \in S
    <3>1. x \in S
      BY <1>2, <2>2 DEF Line, AllClasses
    <3>2. QED
      BY <1>2, <2>2, <3>1
  <2>3. QED
    BY <2>1, <2>2 DEF Line, AllClasses
<1>3. ASSUME NEW S \in SUBSET AllClasses, c \in S, SuperClosed(S)
      PROVE  Line(c) \subseteq S
  BY <1>3 DEF Line, AllClasses, SuperClosed
<1>4. QED
  BY <1>1, <1>2, <1>3 DEF SuperClosed

(* The line of a superclass is part of the line.                           *)
LEMMA LineDescends ==
    ASSUME TypeOK, NEW c \in AllClasses, NEW d \in Line(c)
    PROVE  d \in AllClasses /\ Line(d) \subseteq Line(c)
<1>1. Line(c) \in SUBSET AllClasses /\ SuperClosed(Line(c)) /\ d \in AllClasses
  BY LineIsLeast
<1>2. QED
  BY <1>1, LineIsLeast

(* A line that does not reach the top runs into a circle: of the lines of  *)
(* its classes, all finite, take a least one.                              *)
LEMMA TopOrCircle ==
    ASSUME TypeOK, NEW c \in AllClasses, Object \notin Line(c)
    PROVE  \E d \in Line(c) : Circular(d)
<1> DEFINE Lines == {Line(d) : d \in Line(c)}
<1>1. Lines \subseteq FiniteSubsetsOf(AllClasses)
  <2>1. IsFiniteSet(AllClasses)
    BY NameAssumption, FS_AddElement DEF AllClasses
  <2>2. ASSUME NEW d \in Line(c)
        PROVE  Line(d) \in FiniteSubsetsOf(AllClasses)
    <3>1. Line(d) \subseteq AllClasses
      BY LineDescends, LineIsLeast
    <3>2. QED
      BY <2>1, <3>1, FS_Subset DEF FiniteSubsetsOf
  <2>3. QED
    BY <2>2
<1>2. Lines # {}
  BY LineIsLeast
<1>3. IsWellFoundedOn(StrictSubsetOrdering(AllClasses), FiniteSubsetsOf(AllClasses))
  BY FS_StrictSubsetOrderingWellFounded
<1> HIDE DEF Lines
<1>4. PICK M \in Lines : \A N \in Lines : <<N, M>> \notin StrictSubsetOrdering(AllClasses)
  BY <1>1, <1>2, <1>3, WFMin
<1>5. PICK d \in Line(c) : M = Line(d)
  BY <1>4 DEF Lines
<1>6. d \in Class /\ d # Object /\ super[d] \in Line(c) /\ super[d] # Object
  BY LineIsLeast DEF SuperClosed, AllClasses
<1>7. d \in Line(d) /\ super[d] \in Line(d) /\ Line(d) \subseteq AllClasses
  BY <1>6, LineIsLeast DEF SuperClosed, AllClasses
<1>8. Line(super[d]) \subseteq Line(d)
  BY <1>6, <1>7, LineDescends DEF AllClasses
<1>9. Line(super[d]) = Line(d)
  <2>1. Line(super[d]) \in Lines
    BY <1>6 DEF Lines
  <2>2. <<Line(super[d]), Line(d)>> \notin StrictSubsetOrdering(AllClasses)
    BY <1>4, <1>5, <2>1
  <2>3. QED
    BY <1>7, <1>8, <2>2 DEF StrictSubsetOrdering
<1>10. QED
  BY <1>6, <1>7, <1>9 DEF Circular

-----------------------------------------------------------------------------
(* Dependencies. *)

\* A set that holds what its classes depend on directly.
NeedClosed(S) ==
    \A x \in S : {super[x]} \ {Object} \subseteq S /\ (needs[x] # NoClinit => needs[x] \subseteq S)

(* What c depends on holds c, is closed, and is the least set that does.   *)
LEMMA DependsIsLeast ==
    ASSUME TypeOK, NEW c \in Class
    PROVE  /\ c \in Depends(c) /\ Depends(c) \subseteq Class
           /\ NeedClosed(Depends(c))
           /\ \A S \in SUBSET Class : c \in S /\ NeedClosed(S) => Depends(c) \subseteq S
<1>1. c \in Depends(c) /\ Depends(c) \subseteq Class
  BY DEF Depends
<1>2. ASSUME NEW x \in Depends(c), NEW y \in Class,
             y = super[x] \/ (needs[x] # NoClinit /\ y \in needs[x])
      PROVE  y \in Depends(c)
  <2>1. ASSUME NEW S \in SUBSET Class, c \in S, NeedClosed(S)
        PROVE  y \in S
    <3>1. x \in S
      BY <2>1 DEF Depends, NeedClosed
    <3>2. y # Object
      BY NameAssumption
    <3>3. QED
      BY <1>2, <2>1, <3>1, <3>2 DEF NeedClosed
  <2>2. QED
    BY <2>1 DEF Depends, NeedClosed
<1>3. NeedClosed(Depends(c))
  <2>1. ASSUME NEW x \in Depends(c)
        PROVE  super[x] \in Class \cup {Object} /\ (needs[x] # NoClinit => needs[x] \subseteq Class)
    BY <1>1 DEF TypeOK
  <2>2. QED
    BY <1>2, <2>1 DEF NeedClosed
<1>4. ASSUME NEW S \in SUBSET Class, c \in S, NeedClosed(S)
      PROVE  Depends(c) \subseteq S
  BY <1>4 DEF Depends, NeedClosed
<1>5. QED
  BY <1>1, <1>3, <1>4

(* Dependencies of dependencies are dependencies; and so are superclasses. *)
LEMMA DependsDescends ==
    ASSUME TypeOK, NEW c \in Class, NEW d \in Depends(c)
    PROVE  d \in Class /\ Depends(d) \subseteq Depends(c) /\ Line(d) \ {Object} \subseteq Depends(c)
<1>1. Depends(c) \in SUBSET Class /\ NeedClosed(Depends(c)) /\ d \in Class
  BY DependsIsLeast
<1>2. Depends(d) \subseteq Depends(c)
  BY <1>1, DependsIsLeast
<1>3. Line(d) \subseteq Depends(c) \cup {Object}
  <2> DEFINE S == Depends(c) \cup {Object}
  <2>1. S \in SUBSET AllClasses /\ d \in S /\ d \in AllClasses
    BY <1>1 DEF AllClasses
  <2>2. SuperClosed(S)
    BY <1>1 DEF SuperClosed, NeedClosed
  <2> HIDE DEF S
  <2>3. Line(d) \subseteq S
    BY <2>1, <2>2, LineIsLeast
  <2>4. QED
    BY <2>3 DEF S
<1>4. QED
  BY <1>1, <1>2, <1>3

(* None of this changes: it is a matter of the class files.                *)
LEMMA SameFiles ==
    ASSUME UNCHANGED files
    PROVE  /\ \A c : Line(c)' = Line(c) /\ Depends(c)' = Depends(c)
           /\ \A c : Disastrous(c)' = Disastrous(c)
<1>1. super' = super /\ needs' = needs /\ file' = file
  BY DEF files
<1>2. \A c : Line(c)' = Line(c) /\ Depends(c)' = Depends(c)
  BY <1>1 DEF Line, Depends
<1>3. \A c : Circular(c)' = Circular(c)
  BY <1>1 DEF Circular, Line
<1>4. QED
  BY <1>1, <1>2, <1>3 DEF Disastrous

-----------------------------------------------------------------------------
(* What a step does to the calls of a thread: the innermost call is        *)
(* replaced by the calls in P (none, when it returns).                     *)

(* The frames of the new stack are those of P and, below, the old ones.    *)
LEMMA NewStack ==
    ASSUME NEW old \in Seq(Frame), old # <<>>, NEW P \in Seq(Frame),
           NEW new, new = P \o Tail(old)
    PROVE  /\ new \in Seq(Frame) /\ Len(P) \in Nat
           /\ \A i \in 1..Len(P) : i \in DOMAIN new /\ new[i] = P[i] /\ P[i] \in Frame
           /\ \A i \in DOMAIN new : i \in Nat \ {0} /\ (i \notin 1..Len(P) =>
                 i > Len(P) /\ i - Len(P) + 1 \in DOMAIN old \ {1} /\ new[i] = old[i - Len(P) + 1])
           /\ \A j \in DOMAIN old \ {1} :
                 j \in Nat \ {0} /\ j + Len(P) - 1 \in DOMAIN new /\ new[j + Len(P) - 1] = old[j]
           /\ 1 \in DOMAIN old /\ Head(old) = old[1] /\ old[1] \in Frame
<1>1. /\ Len(old) \in Nat /\ Len(old) > 0 /\ DOMAIN old = 1..Len(old) /\ Head(old) = old[1]
      /\ old[1] \in Frame
  BY HeadTailProperties, LenProperties, EmptySeq, ElementOfSeq
<1>2. /\ Tail(old) \in Seq(Frame) /\ Len(Tail(old)) = Len(old) - 1
      /\ \A i \in 1..(Len(old) - 1) : Tail(old)[i] = old[i + 1]
  BY HeadTailProperties
<1>3. /\ new \in Seq(Frame) /\ Len(new) = Len(P) + Len(old) - 1 /\ Len(P) \in Nat
      /\ DOMAIN new = 1..Len(new)
      /\ \A i \in 1..Len(P) : new[i] = P[i] /\ P[i] \in Frame
      /\ \A i \in 1..(Len(P) + Len(old) - 1) : i > Len(P) => new[i] = Tail(old)[i - Len(P)]
  BY <1>1, <1>2, ConcatProperties, LenProperties, ElementOfSeq
<1>4. ASSUME NEW i \in DOMAIN new, i \notin 1..Len(P)
      PROVE  i > Len(P) /\ i - Len(P) + 1 \in DOMAIN old \ {1} /\ new[i] = old[i - Len(P) + 1]
  <2>1. i \in Nat /\ i > Len(P) /\ i - Len(P) \in 1..(Len(old) - 1)
    BY <1>1, <1>3, <1>4
  <2>2. QED
    BY <2>1, <1>1, <1>2, <1>3
<1>5. ASSUME NEW j \in DOMAIN old \ {1}
      PROVE  j \in Nat \ {0} /\ j + Len(P) - 1 \in DOMAIN new /\ new[j + Len(P) - 1] = old[j]
  <2>1. j \in 2..Len(old) /\ j - 1 \in 1..(Len(old) - 1)
    BY <1>1, <1>5
  <2> DEFINE i == j + Len(P) - 1
  <2>2. i \in 1..(Len(P) + Len(old) - 1) /\ i > Len(P) /\ i - Len(P) = j - 1
    BY <2>1, <1>1, <1>3
  <2>3. new[i] = Tail(old)[i - Len(P)]
    BY <2>2, <1>3
  <2>4. QED
    BY SMTT(60), <2>1, <2>2, <2>3, <1>2, <1>3
<1>6. /\ \A i \in DOMAIN new : i \in Nat \ {0}
      /\ \A i \in 1..Len(P) : i \in DOMAIN new /\ new[i] = P[i] /\ P[i] \in Frame
  BY <1>1, <1>3
<1>7. /\ \A i \in DOMAIN new : i \notin 1..Len(P) =>
            i > Len(P) /\ i - Len(P) + 1 \in DOMAIN old \ {1} /\ new[i] = old[i - Len(P) + 1]
      /\ \A j \in DOMAIN old \ {1} :
            j \in Nat \ {0} /\ j + Len(P) - 1 \in DOMAIN new /\ new[j + Len(P) - 1] = old[j]
  BY <1>4, <1>5
<1>8. new \in Seq(Frame) /\ Len(P) \in Nat /\ 1 \in DOMAIN old /\ Head(old) = old[1] /\ old[1] \in Frame
  BY <1>1, <1>3
<1>9. QED
  BY <1>6, <1>7, <1>8, Zenon

\* A stack of calls: see TypeOK.
Stacked(s) ==
    \A i \in DOMAIN s :
       /\ i > 1 => s[i].at \in {"insert", "clinit"}
       /\ s[i].at = "insert" =>
             super[s[i].class] \in Loaded \/ (i > 1 /\ s[i-1].class = super[s[i].class])

\* TypeOK, but for the order of the calls.
Types ==
    /\ super \in [Class -> Class \cup {Object}]
    /\ needs \in [Class -> {NoClinit} \cup SUBSET Class]
    /\ file \in [Class -> FileKinds]
    /\ table \in [Class \cup {Object} -> Nat]
    /\ runs \in [Class -> Nat]
    /\ ready \subseteq Class \cup {Object}
    /\ calls \in [Thread -> Seq(Frame)]
    /\ using \in [Thread -> SUBSET (Class \cup {Object})]
    /\ asked \in [Thread -> SUBSET Class]
    /\ ended \subseteq Thread
    /\ poisoned \in BOOLEAN

(* TypeOK has these two parts. *)
LEMMA TypeParts == TypeOK <=> Types /\ \A t \in Thread : Stacked(calls[t])
BY DEF TypeOK, Types, Stacked

(* And so it has after a step. *)
LEMMA TypesAgain ==
    ASSUME Types', \A t \in Thread : Stacked(calls[t])'
    PROVE  TypeOK'
BY DEF TypeOK, Types, Stacked

(* The new calls are in order when those of P are, when the innermost call *)
(* of P that was there before is for the same class, or that one is in the *)
(* table.                                                                  *)
LEMMA StaysStacked ==
    ASSUME TypeOK, NEW t \in Thread, calls[t] # <<>>, NEW P \in Seq(Frame),
           calls' = [calls EXCEPT ![t] = P \o Below(t)],
           UNCHANGED files, Loaded \subseteq Loaded',
           \A i \in 1..Len(P) :
              /\ i > 1 => P[i].at \in {"insert", "clinit"}
              /\ P[i].at = "insert" =>
                    super[P[i].class] \in Loaded' \/ (i > 1 /\ P[i-1].class = super[P[i].class]),
           Top(t).class \in Loaded' \/ (Len(P) > 0 /\ P[Len(P)].class = Top(t).class)
    PROVE  calls' \in [Thread -> Seq(Frame)] /\ \A u \in Thread : Stacked(calls[u])'
<1>1. calls \in [Thread -> Seq(Frame)] /\ (\A u \in Thread : Stacked(calls[u])) /\ super' = super
  BY TypeParts DEF Types, files
<1>2. calls'[t] = P \o Tail(calls[t]) /\ \A u \in Thread : u # t => calls'[u] = calls[u]
  BY <1>1 DEF Below
<1>3. ASSUME NEW u \in Thread, u # t
      PROVE  Stacked(calls[u])'
  BY <1>1, <1>2, <1>3 DEF Stacked
<1>4. PICK old \in Seq(Frame) : old = calls[t]
  BY <1>1
<1>5. PICK new : new = calls'[t]
  OBVIOUS
<1>6. /\ new \in Seq(Frame) /\ Len(P) \in Nat
      /\ \A i \in 1..Len(P) : i \in DOMAIN new /\ new[i] = P[i] /\ P[i] \in Frame
      /\ \A i \in DOMAIN new : i \in Nat \ {0} /\ (i \notin 1..Len(P) =>
            i > Len(P) /\ i - Len(P) + 1 \in DOMAIN old \ {1} /\ new[i] = old[i - Len(P) + 1])
      /\ 1 \in DOMAIN old /\ Head(old) = old[1]
  BY SMTT(60), <1>2, <1>4, <1>5, NewStack
<1>7. ASSUME NEW i \in DOMAIN new
      PROVE  /\ i > 1 => new[i].at \in {"insert", "clinit"}
             /\ new[i].at = "insert" =>
                   super[new[i].class] \in Loaded' \/ (i > 1 /\ new[i-1].class = super[new[i].class])
  <2>1. CASE i \in 1..Len(P)
    <3>1. new[i] = P[i] /\ (i > 1 => i - 1 \in 1..Len(P) /\ new[i - 1] = P[i - 1])
      BY <2>1, <1>6
    <3>2. QED
      BY <2>1, <3>1
  <2>2. CASE i \notin 1..Len(P)
    <3>1. PICK j \in DOMAIN old \ {1} : j = i - Len(P) + 1 /\ new[i] = old[j] /\ i > Len(P) /\ i \in Nat
      BY <2>2, <1>6
    <3>2. j > 1
      BY <3>1, <1>6
    <3>3. /\ old[j].at \in {"insert", "clinit"}
          /\ old[j].at = "insert" =>
                super[old[j].class] \in Loaded \/ old[j - 1].class = super[old[j].class]
      BY <3>1, <3>2, <1>1, <1>4 DEF Stacked
    <3>4. CASE j = 2
      <4> DEFINE n == Len(P)
      <4>1. n \in Nat /\ i - 1 = n /\ (n > 0 => i > 1 /\ n \in 1..n)
        <5>1. n \in Nat
          BY <1>6
        <5>2. i \in Nat /\ i > n /\ 2 = i - n + 1
          BY <3>1, <3>4
        <5> HIDE DEF n
        <5>3. QED
          BY <5>1, <5>2
      <4>2. n > 0 => new[n] = P[n]
        BY <4>1, <1>6
      <4>3. old[j - 1] = Top(t)
        BY <3>4, <1>4, <1>6 DEF Top
      <4>4. QED
        BY <3>1, <3>3, <4>1, <4>2, <4>3
    <3>5. CASE j # 2
      <4>1. i - 1 > Len(P) /\ i > 1
        BY <3>1, <3>2, <3>5, <1>6
      <4>2. i - 1 \in DOMAIN new
        BY <4>1, <1>6, LenProperties
      <4>3. i - 1 \notin 1..Len(P) /\ (i - 1) - Len(P) + 1 = j - 1
        BY SMTT(60), <3>1, <4>1, <1>6
      <4>4. new[i - 1] = old[j - 1]
        BY <4>2, <4>3, <1>6
      <4>5. QED
        BY <3>1, <3>3, <4>1, <4>4
    <3>6. QED
      BY <3>4, <3>5
  <2>3. QED
    BY <2>1, <2>2
<1>8. Stacked(calls[t])'
  BY ZenonT(60), <1>1, <1>5, <1>7 DEF Stacked
<1>9. calls' \in [Thread -> Seq(Frame)]
  BY <1>1, <1>2, <1>5, <1>6
<1>10. QED
  BY <1>3, <1>8, <1>9

\* No two calls are in the <clinit> of the same class.
OneClinit ==
    \A t, u \in Thread : \A i \in DOMAIN calls[t], j \in DOMAIN calls[u] :
       (/\ Initialises(calls[t][i]) /\ Initialises(calls[u][j])
        /\ calls[t][i].class = calls[u][j].class) => t = u /\ i = j

(* The <clinit>s that threads are in: those of P replace the one that the  *)
(* innermost call was in, if any.                                          *)
LEMMA ClinitsFollow ==
    ASSUME TypeOK, OneClinit, NEW t \in Thread, calls[t] # <<>>, NEW P \in Seq(Frame),
           calls' = [calls EXCEPT ![t] = P \o Below(t)],
           NEW N, \A i \in 1..Len(P) : Initialises(P[i]) => P[i].class \in N,
           \A i \in 1..Len(P) : Initialises(P[i]) =>
              /\ i = Len(P)
              /\ \/ Initialises(Top(t)) /\ Top(t).class = P[i].class
                 \/ \A u \in Thread : P[i].class \notin Initialising(u)
    PROVE  /\ OneClinit'
           /\ \A u \in Thread : u # t => Initialising(u)' = Initialising(u)
           /\ \A c \in Initialising(t)' : c \in Initialising(t) \/ c \in N
           /\ \A c \in Initialising(t) :
                 c \in Initialising(t)' \/ (Initialises(Top(t)) /\ Top(t).class = c)
           /\ \A i \in 1..Len(P) : Initialises(P[i]) => P[i].class \in Initialising(t)'
           /\ ((\A i \in 1..Len(P) : ~Initialises(P[i])) /\ Initialises(Top(t))) =>
                 \A u \in Thread : Top(t).class \notin Initialising(u)'
<1>1. calls \in [Thread -> Seq(Frame)]
  BY DEF TypeOK
<1>2. calls'[t] = P \o Tail(calls[t]) /\ \A u \in Thread : u # t => calls'[u] = calls[u]
  BY <1>1 DEF Below
<1>3. PICK old \in Seq(Frame) : old = calls[t]
  BY <1>1
<1>4. PICK new : new = calls'[t] /\ new = P \o Tail(old) /\ old # <<>>
  BY <1>2, <1>3
<1>5. /\ new \in Seq(Frame) /\ Len(P) \in Nat
      /\ \A i \in 1..Len(P) : i \in DOMAIN new /\ new[i] = P[i] /\ P[i] \in Frame
      /\ \A i \in DOMAIN new : i \in Nat \ {0} /\ (i \notin 1..Len(P) =>
            i > Len(P) /\ i - Len(P) + 1 \in DOMAIN old \ {1} /\ new[i] = old[i - Len(P) + 1])
      /\ \A j \in DOMAIN old \ {1} :
            j \in Nat \ {0} /\ j + Len(P) - 1 \in DOMAIN new /\ new[j + Len(P) - 1] = old[j]
      /\ 1 \in DOMAIN old /\ Head(old) = old[1] /\ old[1] \in Frame
  BY ZenonT(60), <1>4, NewStack
<1>6. /\ \A c : c \in Initialising(t) <=> \E j \in DOMAIN old : Initialises(old[j]) /\ old[j].class = c
      /\ \A c : c \in Initialising(t)' <=> \E i \in DOMAIN new : Initialises(new[i]) /\ new[i].class = c
      /\ Top(t) = old[1]
  <2>1. Initialising(t) = {old[j].class : j \in {k \in DOMAIN old : Initialises(old[k])}}
    BY <1>3 DEF Initialising
  <2>2. Initialising(t)' = {new[j].class : j \in {k \in DOMAIN new : Initialises(new[k])}}
    BY <1>4 DEF Initialising
  <2>3. Top(t) = old[1]
    BY <1>3, <1>5 DEF Top
  <2>4. QED
    BY <2>1, <2>2, <2>3
<1>7. \A u \in Thread : u # t => Initialising(u)' = Initialising(u)
  BY <1>2 DEF Initialising
<1>8. ASSUME NEW c \in Initialising(t)'
      PROVE  c \in Initialising(t) \/ c \in N
  <2>1. PICK i \in DOMAIN new : Initialises(new[i]) /\ new[i].class = c
    BY <1>6, <1>8
  <2>2. CASE i \in 1..Len(P)
    BY <2>1, <2>2, <1>5
  <2>3. CASE i \notin 1..Len(P)
    <3>1. PICK k \in DOMAIN old : new[i] = old[k]
      BY <2>3, <1>5
    <3>2. QED
      BY <2>1, <3>1, <1>6
  <2>4. QED
    BY <2>2, <2>3
<1>9. ASSUME NEW c \in Initialising(t)
      PROVE  c \in Initialising(t)' \/ (Initialises(Top(t)) /\ Top(t).class = c)
  <2>1. PICK j \in DOMAIN old : Initialises(old[j]) /\ old[j].class = c
    BY <1>6, <1>9
  <2>2. CASE j = 1
    BY <2>1, <2>2, <1>6
  <2>3. CASE j # 1
    BY <2>1, <2>3, <1>5, <1>6
  <2>4. QED
    BY <2>2, <2>3
<1>10. \A i \in 1..Len(P) : Initialises(P[i]) => P[i].class \in Initialising(t)'
  BY <1>5, <1>6
\* Where a <clinit> call was before, if it is not a new one.
<1>11. \A v \in Thread : \A i \in DOMAIN calls'[v] : Initialises(calls'[v][i]) =>
          \/ /\ v = t /\ i = Len(P) /\ \A u \in Thread : calls'[v][i].class \notin Initialising(u)
          \/ \E k \in DOMAIN calls[v] :
                /\ Initialises(calls[v][k]) /\ calls[v][k].class = calls'[v][i].class
                /\ v # t => k = i
                /\ v = t => \/ k = 1 /\ i = Len(P) /\ i \in 1..Len(P)
                            \/ k # 1 /\ k = i - Len(P) + 1 /\ i > Len(P)
  <2>1. ASSUME NEW v \in Thread, NEW i \in DOMAIN calls'[v], Initialises(calls'[v][i]), v # t
        PROVE  \E k \in DOMAIN calls[v] : calls[v][k] = calls'[v][i] /\ k = i
    BY <2>1, <1>2
  <2>2. ASSUME NEW i \in DOMAIN new, Initialises(new[i])
        PROVE  \/ i = Len(P) /\ \A u \in Thread : new[i].class \notin Initialising(u)
               \/ \E k \in DOMAIN old :
                     /\ Initialises(old[k]) /\ old[k].class = new[i].class
                     /\ \/ k = 1 /\ i = Len(P) /\ i \in 1..Len(P)
                        \/ k # 1 /\ k = i - Len(P) + 1 /\ i > Len(P)
    <3>1. CASE i \in 1..Len(P)
      <4>1. new[i] = P[i] /\ Initialises(P[i]) /\ 1 \in DOMAIN old
        BY <2>2, <3>1, <1>5
      <4>2. i = Len(P)
        BY <3>1, <4>1
      <4>3. CASE \A u \in Thread : P[i].class \notin Initialising(u)
        BY <4>1, <4>2, <4>3
      <4>4. CASE Initialises(old[1]) /\ old[1].class = P[i].class
        BY <3>1, <4>1, <4>2, <4>4
      <4>5. QED
        BY <3>1, <4>1, <4>3, <4>4, <1>6
    <3>2. CASE i \notin 1..Len(P)
      BY SMTT(60), <2>2, <3>2, <1>5
    <3>3. QED
      BY <3>1, <3>2
  <2>3. SUFFICES ASSUME NEW v \in Thread, NEW i \in DOMAIN calls'[v], Initialises(calls'[v][i])
                 PROVE  \/ /\ v = t /\ i = Len(P)
                           /\ \A u \in Thread : calls'[v][i].class \notin Initialising(u)
                        \/ \E k \in DOMAIN calls[v] :
                              /\ Initialises(calls[v][k]) /\ calls[v][k].class = calls'[v][i].class
                              /\ v # t => k = i
                              /\ v = t => \/ k = 1 /\ i = Len(P) /\ i \in 1..Len(P)
                                          \/ k # 1 /\ k = i - Len(P) + 1 /\ i > Len(P)
    OBVIOUS
  <2>4. CASE v # t
    BY <2>1, <2>3, <2>4
  <2>5. CASE v = t
    <3>1. calls[v] = old /\ calls'[v] = new
      BY <2>5, <1>3, <1>4
    <3>2. CASE i = Len(P) /\ \A u \in Thread : new[i].class \notin Initialising(u)
      BY <2>5, <3>1, <3>2
    <3>3. CASE \E k \in DOMAIN old :
                  /\ Initialises(old[k]) /\ old[k].class = new[i].class
                  /\ \/ k = 1 /\ i = Len(P) /\ i \in 1..Len(P)
                     \/ k # 1 /\ k = i - Len(P) + 1 /\ i > Len(P)
      BY <2>5, <3>1, <3>3
    <3>4. QED
      BY <2>2, <2>3, <3>1, <3>2, <3>3
  <2>6. QED
    BY <2>4, <2>5
<1>12. \A v \in Thread : \A k \in DOMAIN calls[v] :
          Initialises(calls[v][k]) => calls[v][k].class \in Initialising(v)
  BY DEF Initialising
<1>13. OneClinit'
  <2>1. SUFFICES ASSUME NEW v \in Thread, NEW w \in Thread,
                        NEW i \in DOMAIN calls'[v], NEW j \in DOMAIN calls'[w],
                        Initialises(calls'[v][i]), Initialises(calls'[w][j]),
                        calls'[v][i].class = calls'[w][j].class
                 PROVE  v = w /\ i = j
    BY DEF OneClinit
  <2>2. CASE v = t /\ i = Len(P) /\ \A u \in Thread : calls'[v][i].class \notin Initialising(u)
    <3>1. ~ \E k \in DOMAIN calls[w] : Initialises(calls[w][k]) /\ calls[w][k].class = calls'[w][j].class
      BY <2>1, <2>2, <1>12
    <3>2. w = t /\ j = Len(P)
      BY <2>1, <3>1, <1>11
    <3>3. QED
      BY <2>2, <3>2
  <2>3. CASE w = t /\ j = Len(P) /\ \A u \in Thread : calls'[w][j].class \notin Initialising(u)
    <3>1. ~ \E k \in DOMAIN calls[v] : Initialises(calls[v][k]) /\ calls[v][k].class = calls'[v][i].class
      BY <2>1, <2>3, <1>12
    <3>2. v = t /\ i = Len(P)
      BY ZenonT(60), <2>1, <3>1, <1>11
    <3>3. QED
      BY <2>3, <3>2
  <2>4. CASE /\ ~(v = t /\ i = Len(P) /\ \A u \in Thread : calls'[v][i].class \notin Initialising(u))
             /\ ~(w = t /\ j = Len(P) /\ \A u \in Thread : calls'[w][j].class \notin Initialising(u))
    <3>1. PICK k \in DOMAIN calls[v] :
                /\ Initialises(calls[v][k]) /\ calls[v][k].class = calls'[v][i].class
                /\ v # t => k = i
                /\ v = t => \/ k = 1 /\ i = Len(P) /\ i \in 1..Len(P)
                            \/ k # 1 /\ k = i - Len(P) + 1 /\ i > Len(P)
      BY <2>1, <2>4, <1>11
    <3>2. PICK l \in DOMAIN calls[w] :
                /\ Initialises(calls[w][l]) /\ calls[w][l].class = calls'[w][j].class
                /\ w # t => l = j
                /\ w = t => \/ l = 1 /\ j = Len(P) /\ j \in 1..Len(P)
                            \/ l # 1 /\ l = j - Len(P) + 1 /\ j > Len(P)
      BY <2>1, <2>4, <1>11
    <3>3. v = w /\ k = l
      BY <2>1, <3>1, <3>2 DEF OneClinit
    <3>4. CASE v = t
      <4>1. i \in Nat /\ j \in Nat
        BY <3>3, <3>4, <1>4, <1>5
      <4>2. QED
        BY <3>1, <3>2, <3>3, <3>4, <4>1, <1>5
    <3>5. QED
      BY <3>1, <3>2, <3>3, <3>4
  <2>5. QED
    BY <2>2, <2>3, <2>4
<1>14. ASSUME \A i \in 1..Len(P) : ~Initialises(P[i]), Initialises(Top(t)), NEW u \in Thread
       PROVE  Top(t).class \notin Initialising(u)'
  <2>1. CASE u # t
    <3>1. \A k \in DOMAIN calls[u] : ~(Initialises(calls[u][k]) /\ calls[u][k].class = old[1].class)
      BY <2>1, <1>3, <1>5, <1>6, <1>14 DEF OneClinit
    <3>2. QED
      BY <2>1, <3>1, <1>6, <1>7 DEF Initialising
  <2>2. CASE u = t
    <3>1. \A k \in DOMAIN old \ {1} : ~(Initialises(old[k]) /\ old[k].class = old[1].class)
      BY <1>3, <1>5, <1>6, <1>14 DEF OneClinit
    <3>2. \A i \in DOMAIN new : ~(Initialises(new[i]) /\ new[i].class = old[1].class)
      <4>1. SUFFICES ASSUME NEW i \in DOMAIN new
                     PROVE  ~(Initialises(new[i]) /\ new[i].class = old[1].class)
        OBVIOUS
      <4>2. CASE i \in 1..Len(P)
        BY <4>2, <1>5, <1>14
      <4>3. CASE i \notin 1..Len(P)
        <5>1. PICK k \in DOMAIN old \ {1} : new[i] = old[k]
          BY <4>1, <4>3, <1>5
        <5>2. QED
          BY <5>1, <3>1
      <4>4. QED
        BY <4>2, <4>3
    <3>3. QED
      BY SMTT(60), <2>2, <3>2, <1>6
  <2>3. QED
    BY <2>1, <2>2
<1>15. QED
  BY <1>7, <1>8, <1>9, <1>10, <1>13, <1>14

(* The <clinit>s about to start: of the calls that wait for others none is *)
(* about to start one, so only those of P count.                           *)
LEMMA StartsFollow ==
    ASSUME TypeOK, NEW t \in Thread, calls[t] # <<>>, NEW P \in Seq(Frame),
           calls' = [calls EXCEPT ![t] = P \o Below(t)]
    PROVE  /\ \A u \in Thread : u # t => Starting(u)' = Starting(u)
           /\ \A c : c \in Starting(t)' <=> \E i \in 1..Len(P) : P[i].at = "start" /\ P[i].class = c
           /\ \A c : c \in Starting(t) <=> Top(t).at = "start" /\ Top(t).class = c
<1>1. calls \in [Thread -> Seq(Frame)] /\ Stacked(calls[t])
  BY TypeParts DEF Types
<1>2. calls'[t] = P \o Tail(calls[t]) /\ \A u \in Thread : u # t => calls'[u] = calls[u]
  BY <1>1 DEF Below
<1>3. PICK old \in Seq(Frame) : old = calls[t]
  BY <1>1
<1>4. PICK new : new = calls'[t] /\ new = P \o Tail(old) /\ old # <<>>
  BY <1>2, <1>3
<1>5. /\ \A i \in 1..Len(P) : i \in DOMAIN new /\ new[i] = P[i]
      /\ \A i \in DOMAIN new : i \notin 1..Len(P) => \E k \in DOMAIN old \ {1} : new[i] = old[k]
      /\ \A k \in DOMAIN old \ {1} : k \in Nat \ {0}
      /\ 1 \in DOMAIN old /\ Head(old) = old[1]
  <2>1. /\ new \in Seq(Frame) /\ Len(P) \in Nat
        /\ \A i \in 1..Len(P) : i \in DOMAIN new /\ new[i] = P[i] /\ P[i] \in Frame
        /\ \A i \in DOMAIN new : i \in Nat \ {0} /\ (i \notin 1..Len(P) =>
              i > Len(P) /\ i - Len(P) + 1 \in DOMAIN old \ {1} /\ new[i] = old[i - Len(P) + 1])
        /\ \A j \in DOMAIN old \ {1} :
              j \in Nat \ {0} /\ j + Len(P) - 1 \in DOMAIN new /\ new[j + Len(P) - 1] = old[j]
        /\ 1 \in DOMAIN old /\ Head(old) = old[1] /\ old[1] \in Frame
    BY ZenonT(60), <1>4, NewStack
  <2>2. QED
    BY <2>1, Zenon
<1>6. \A k \in DOMAIN old \ {1} : old[k].at # "start"
  <2>1. \A k \in DOMAIN old \ {1} : k > 1
    BY <1>5
  <2>2. QED
    BY <2>1, <1>1, <1>3 DEF Stacked
<1>7. \A u \in Thread : u # t => Starting(u)' = Starting(u)
  BY <1>2 DEF Starting
<1>8. \A c : c \in Starting(t)' <=> \E i \in DOMAIN new : new[i].at = "start" /\ new[i].class = c
  <2>1. Starting(t)' = {new[j].class : j \in {k \in DOMAIN new : new[k].at = "start"}}
    BY <1>4 DEF Starting
  <2>2. QED
    BY <2>1
<1>9. \A i \in DOMAIN new : new[i].at = "start" => i \in 1..Len(P)
  BY <1>5, <1>6
<1>10. \A c : c \in Starting(t)' <=> \E i \in 1..Len(P) : P[i].at = "start" /\ P[i].class = c
  BY <1>5, <1>8, <1>9
<1>11. \A c : c \in Starting(t) <=> Top(t).at = "start" /\ Top(t).class = c
  <2>1. Starting(t) = {old[j].class : j \in {k \in DOMAIN old : old[k].at = "start"}}
    BY <1>3 DEF Starting
  <2>2. Top(t) = old[1]
    BY <1>3, <1>5 DEF Top
  <2>3. QED
    BY <2>1, <2>2, <1>5, <1>6
<1>12. QED
  BY <1>7, <1>10, <1>11

(* The new calls are still for what the program has asked for when those   *)
(* of P are.                                                               *)
LEMMA StaysAsked ==
    ASSUME TypeOK, AskedFor, NEW t \in Thread, calls[t] # <<>>, NEW P \in Seq(Frame),
           calls' = [calls EXCEPT ![t] = P \o Below(t)],
           UNCHANGED files, UNCHANGED asked,
           \A i \in 1..Len(P) : \E c \in asked[t] : {P[i].class} \cup P[i].todo \subseteq Depends(c)
    PROVE  AskedFor'
<1>1. calls \in [Thread -> Seq(Frame)]
  BY DEF TypeOK
<1>2. calls'[t] = P \o Tail(calls[t]) /\ \A u \in Thread : u # t => calls'[u] = calls[u]
  BY <1>1 DEF Below
<1>3. PICK old \in Seq(Frame) : old = calls[t]
  BY <1>1
<1>4. PICK new : new = calls'[t] /\ new = P \o Tail(old) /\ old # <<>>
  BY <1>2, <1>3
<1>5. /\ new \in Seq(Frame) /\ Len(P) \in Nat
      /\ \A i \in 1..Len(P) : i \in DOMAIN new /\ new[i] = P[i] /\ P[i] \in Frame
      /\ \A i \in DOMAIN new : i \in Nat \ {0} /\ (i \notin 1..Len(P) =>
            i > Len(P) /\ i - Len(P) + 1 \in DOMAIN old \ {1} /\ new[i] = old[i - Len(P) + 1])
      /\ \A j \in DOMAIN old \ {1} :
            j \in Nat \ {0} /\ j + Len(P) - 1 \in DOMAIN new /\ new[j + Len(P) - 1] = old[j]
      /\ 1 \in DOMAIN old /\ Head(old) = old[1] /\ old[1] \in Frame
  BY ZenonT(60), <1>4, NewStack
<1>6. \A i \in DOMAIN new : \E c \in asked[t] : {new[i].class} \cup new[i].todo \subseteq Depends(c)
  BY <1>3, <1>5 DEF AskedFor
<1>7. \A u \in Thread : \A i \in DOMAIN calls'[u] :
         \E c \in asked[u] : {calls'[u][i].class} \cup calls'[u][i].todo \subseteq Depends(c)
  BY ZenonT(60), <1>2, <1>4, <1>6 DEF AskedFor
<1>8. \A c : Depends(c)' = Depends(c)
  BY SameFiles
<1>9. QED
  BY <1>7, <1>8 DEF AskedFor

-----------------------------------------------------------------------------
(* The steps. *)

(* A frame is made of its parts. *)
LEMMA FrameParts ==
    ASSUME NEW c \in Class, NEW at \in {"lookup", "load", "insert", "start", "clinit"}, NEW todo \in SUBSET Class
    PROVE  /\ frame(c, at, todo) \in Frame
           /\ frame(c, at, todo).class = c /\ frame(c, at, todo).at = at
           /\ frame(c, at, todo).todo = todo
BY DEF frame, Frame

(* The innermost call, and the class it was asked for on behalf of.        *)
LEMMA TopCall ==
    ASSUME IInv, NEW t \in Thread, calls[t] # <<>>
    PROVE  /\ Top(t) \in Frame /\ Top(t).class \in Class /\ Top(t).todo \subseteq Class
           /\ 1 \in DOMAIN calls[t] /\ Top(t) = calls[t][1] /\ Below(t) \in Seq(Frame)
           /\ asked[t] \subseteq Class
           /\ \E a \in asked[t] : {Top(t).class} \cup Top(t).todo \subseteq Depends(a)
           /\ Top(t).at = "insert" => super[Top(t).class] \in Loaded
           /\ Initialises(Top(t)) => Top(t).class \in Initialising(t)
<1>1. calls[t] \in Seq(Frame) /\ Stacked(calls[t]) /\ asked[t] \subseteq Class
  BY TypeParts DEF IInv, Types
<1>2. /\ Top(t) \in Frame /\ Below(t) \in Seq(Frame) /\ 1 \in DOMAIN calls[t] /\ Top(t) = calls[t][1]
  BY <1>1, HeadTailProperties, EmptySeq, ElementOfSeq, LenProperties DEF Top, Below
<1>3. Top(t).class \in Class /\ Top(t).todo \subseteq Class
  BY <1>2 DEF Frame
<1>4. \E a \in asked[t] : {Top(t).class} \cup Top(t).todo \subseteq Depends(a)
  BY <1>2 DEF IInv, AskedFor
<1>5. Top(t).at = "insert" => super[Top(t).class] \in Loaded
  BY <1>1, <1>2 DEF Stacked
<1>6. Initialises(Top(t)) => Top(t).class \in Initialising(t)
  BY <1>2 DEF Initialising
<1>7. QED
  BY <1>1, <1>2, <1>3, <1>4, <1>5, <1>6

\* As long as thread t has ended because of a class of its own, or any
\* because of a disaster: see FailuresContained.
OwnFault(t) == \E c \in asked[t] : \E d \in Depends(c) : file[d] # "good"
Disaster == \E u \in Thread : \E c \in asked[u] : \E d \in Depends(c) : Disastrous(d)

(* Faults and disasters last.                                              *)
LEMMA FaultsLast ==
    ASSUME UNCHANGED files, NEW t \in Thread, \A u \in Thread : asked[u] \subseteq asked'[u]
    PROVE  (OwnFault(t) => OwnFault(t)') /\ (Disaster => Disaster')
<1>1. /\ \A c : Depends(c)' = Depends(c) /\ Disastrous(c)' = Disastrous(c)
      /\ file' = file
  BY SameFiles DEF files
<1>2. OwnFault(t) => OwnFault(t)'
  BY <1>1 DEF OwnFault
<1>3. Disaster => Disaster'
  BY <1>1 DEF Disaster
<1>4. QED
  BY <1>2, <1>3

(* While no further thread ends, and the lock is as it was.                *)
LEMMA NobodyEnds ==
    ASSUME IInv, UNCHANGED files, UNCHANGED <<ended, poisoned>>,
           \A u \in Thread : asked[u] \subseteq asked'[u]
    PROVE  PoisonExact' /\ FailuresContained'
<1>1. \A t \in ended : t \in Thread /\ (OwnFault(t) \/ Disaster)
  BY DEF IInv, TypeOK, FailuresContained, OwnFault, Disaster
<1>2. \A t \in Thread : (OwnFault(t) => OwnFault(t)') /\ (Disaster => Disaster')
  BY FaultsLast
<1>3. \A t \in ended' : OwnFault(t)' \/ Disaster'
  BY <1>1, <1>2
<1>4. FailuresContained'
  BY <1>3 DEF FailuresContained, OwnFault, Disaster
<1>5. poisoned' => Disaster'
  <2>1. CASE poisoned
    <3>1. Disaster
      BY <2>1 DEF IInv, PoisonExact, Disaster
    <3>2. PICK u \in Thread : TRUE
      BY <3>1 DEF Disaster
    <3>3. QED
      BY <3>1, <3>2, <1>2
  <2>2. CASE ~poisoned
    BY <2>2
  <2>3. QED
    BY <2>1, <2>2
<1>6. QED
  BY <1>4, <1>5 DEF PoisonExact, Disaster

(* The table is as it was.                                                 *)
LEMMA SameTable ==
    ASSUME IInv, UNCHANGED files, UNCHANGED <<table, runs, ready>>
    PROVE  Loaded' = Loaded /\ CountsExact' /\ TableClosed'
<1>1. super' = super /\ needs' = needs /\ Loaded' = Loaded
  BY DEF files, Loaded
<1>2. QED
  BY <1>1 DEF IInv, CountsExact, TableClosed

(* A step in which no <clinit> starts or gets ready to start.              *)
LEMMA StartsAsBefore ==
    ASSUME IInv, UNCHANGED files, runs' = runs,
           \A u \in Thread : Starting(u)' = Starting(u),
           \A u \in Thread : Starting(u) # {} => Initialising(u)' = Initialising(u),
           \A c \in Loaded' \ {Object} : c \in Loaded \/ needs[c] = NoClinit
    PROVE  StartExact'
<1>1. (\A c : Line(c)' = Line(c)) /\ needs' = needs
  BY SameFiles DEF files
<1>2. ASSUME NEW c \in Loaded' \ {Object}, needs[c] # NoClinit, runs[c] = 0
      PROVE  \E u \in Thread : c \in Starting(u)'
  BY <1>2 DEF IInv, StartExact
<1>3. ASSUME NEW u \in Thread, NEW d \in Starting(u)'
      PROVE  runs[d] = 0 /\ \A c \in Initialising(u)' \ {d} : d \notin Line(c)
  <2>1. d \in Starting(u) /\ Initialising(u)' = Initialising(u)
    BY <1>3
  <2>2. QED
    BY <2>1 DEF IInv, StartExact
<1>4. QED
  BY <1>1, <1>2, <1>3 DEF StartExact

(* A call finds its class, or goes on to look for it, and nothing is       *)
(* inserted or initialised.                                                *)
LEMMA QuietStep ==
    ASSUME IInv, NEW t \in Thread, calls[t] # <<>>, NEW P \in Seq(Frame),
           calls' = [calls EXCEPT ![t] = P \o Below(t)],
           UNCHANGED <<files, table, runs, ready, asked, ended, poisoned>>,
           using' \in [Thread -> SUBSET Loaded],
           ~Initialises(Top(t)),
           \A i \in 1..Len(P) :
              /\ ~Initialises(P[i])
              /\ i > 1 => P[i].at = "insert"
              /\ P[i].at = "insert" =>
                    super[P[i].class] \in Loaded \/ (i > 1 /\ P[i-1].class = super[P[i].class]),
           Top(t).class \in Loaded \/ (Len(P) > 0 /\ P[Len(P)].class = Top(t).class),
           \A i \in 1..Len(P) : \E c \in asked[t] : {P[i].class} \cup P[i].todo \subseteq Depends(c)
    PROVE  IInv'
<1>1. Loaded' = Loaded /\ CountsExact' /\ TableClosed'
  BY SameTable
<1>2. TypeOK /\ OneClinit /\ AskedFor
  BY DEF IInv, ClinitExact, OneClinit
<1>3. calls' \in [Thread -> Seq(Frame)] /\ \A u \in Thread : Stacked(calls[u])'
  BY <1>1, <1>2, StaysStacked
<1>4. Loaded \subseteq Class \cup {Object}
  BY DEF Loaded
<1>5. Types'
  BY <1>2, <1>3, <1>4, TypeParts DEF Types, files
<1>6. TypeOK'
  BY <1>3, <1>5, TypesAgain
<1>7. /\ OneClinit'
      /\ \A u \in Thread : Initialising(u)' = Initialising(u)
  <2>1. /\ OneClinit'
        /\ \A u \in Thread : u # t => Initialising(u)' = Initialising(u)
        /\ \A c \in Initialising(t)' : c \in Initialising(t) \/ c \in {}
        /\ \A c \in Initialising(t) :
              c \in Initialising(t)' \/ (Initialises(Top(t)) /\ Top(t).class = c)
    BY <1>2, ClinitsFollow
  <2>2. Initialising(t)' = Initialising(t)
    BY <2>1
  <2>3. QED
    BY <2>1, <2>2
<1>8. ClinitExact'
  <2>1. /\ \A u \in Thread : Initialising(u)' \subseteq Loaded' \ ready'
        /\ \A c \in Loaded' \ ready' : \E u \in Thread : c \in Initialising(u)'
    BY <1>1, <1>7 DEF IInv, ClinitExact
  <2>2. \A u \in Thread : using'[u] \subseteq Loaded'
    BY <1>1
  <2>3. QED
    BY <2>1, <2>2, <1>7 DEF ClinitExact, OneClinit
<1>9. AskedFor'
  BY <1>2, StaysAsked
<1>10. PoisonExact' /\ FailuresContained'
  BY NobodyEnds
<1>11. StartExact'
  <2>1. \A u \in Thread : Starting(u)' = Starting(u)
    <3>1. /\ \A u \in Thread : u # t => Starting(u)' = Starting(u)
          /\ \A c : c \in Starting(t)' <=> \E i \in 1..Len(P) : P[i].at = "start" /\ P[i].class = c
          /\ \A c : c \in Starting(t) <=> Top(t).at = "start" /\ Top(t).class = c
      BY <1>2, StartsFollow
    <3>2. Top(t).at # "start" /\ \A i \in 1..Len(P) : P[i].at # "start"
      BY DEF Initialises
    <3>3. Starting(t)' = {} /\ Starting(t) = {}
      BY <3>1, <3>2
    <3>4. QED
      BY <3>1, <3>3
  <2>2. QED
    BY <2>1, <1>1, <1>7, StartsAsBefore
<1>12. QED
  BY <1>1, <1>6, <1>8, <1>9, <1>10, <1>11 DEF IInv

(* Threads end, and their calls stay as they are.                          *)
LEMMA EndingStep ==
    ASSUME IInv, UNCHANGED <<files, table, runs, ready, calls, asked>>,
           using' \in [Thread -> SUBSET Loaded],
           ended' \subseteq Thread, poisoned' \in BOOLEAN,
           poisoned' => poisoned \/ Disaster,
           \A t \in ended' \ ended : OwnFault(t) \/ Disaster
    PROVE  IInv'
<1>1. Loaded' = Loaded /\ CountsExact' /\ TableClosed'
  BY SameTable
<1>2. super' = super /\ needs' = needs /\ file' = file
  BY DEF files
<1>3. TypeOK'
  BY <1>1, <1>2 DEF IInv, TypeOK, Loaded
<1>4. \A u \in Thread : Initialising(u)' = Initialising(u)
  BY DEF Initialising
<1>5. ClinitExact'
  BY <1>1, <1>4 DEF IInv, ClinitExact
<1>6. \A c : Depends(c)' = Depends(c) /\ Disastrous(c)' = Disastrous(c)
  BY SameFiles
<1>7. AskedFor'
  BY <1>6 DEF IInv, AskedFor
<1>8. poisoned => Disaster
  BY DEF IInv, PoisonExact, Disaster
<1>9. Disaster' = Disaster /\ \A t \in Thread : OwnFault(t)' = OwnFault(t)
  BY <1>2, <1>6 DEF Disaster, OwnFault
<1>10. PoisonExact'
  BY <1>8, <1>9 DEF PoisonExact, Disaster
<1>11. \A t \in ended : OwnFault(t) \/ Disaster
  BY DEF IInv, FailuresContained, OwnFault, Disaster
<1>12. \A t \in ended' : OwnFault(t)' \/ Disaster'
  BY <1>9, <1>11
<1>13. FailuresContained'
  BY <1>12 DEF FailuresContained, OwnFault, Disaster
<1>14. StartExact'
  <2>1. \A u \in Thread : Starting(u)' = Starting(u)
    BY DEF Starting
  <2>2. QED
    BY <2>1, <1>1, <1>4, StartsAsBefore
<1>15. QED
  BY <1>1, <1>3, <1>5, <1>7, <1>10, <1>13, <1>14 DEF IInv

(* The handling of one instruction starts with a single call.              *)
LEMMA RequestStep ==
    ASSUME IInv, NEW t \in Thread, NEW c \in Class, Request(t, c)
    PROVE  IInv'
<1>1. /\ calls[t] = <<>> /\ UNCHANGED <<files, table, runs, ready, ended, poisoned>>
      /\ calls' = [calls EXCEPT ![t] = <<frame(c, "lookup", NoNeed)>>]
      /\ using' = [using EXCEPT ![t] = {}]
      /\ asked' = [asked EXCEPT ![t] = @ \cup {c}]
  BY DEF Request
<1>2. Loaded' = Loaded /\ CountsExact' /\ TableClosed'
  BY <1>1, SameTable
<1>3. Types /\ super' = super /\ needs' = needs /\ file' = file
  BY <1>1, TypeParts DEF IInv, files
<1>4. PICK f \in Frame : f = frame(c, "lookup", NoNeed) /\ f.class = c /\ f.at = "lookup" /\ f.todo = {}
  <2>1. NoNeed \in SUBSET Class /\ NoNeed = {}
    BY DEF NoNeed
  <2>2. QED
    BY <2>1, FrameParts
<1>5. /\ calls'[t] = <<f>> /\ \A u \in Thread : u # t => calls'[u] = calls[u]
      /\ DOMAIN (calls'[t]) = {1} /\ calls'[t][1] = f
      /\ calls' \in [Thread -> Seq(Frame)]
  BY <1>1, <1>3, <1>4 DEF Types
<1>6. /\ asked'[t] = asked[t] \cup {c} /\ \A u \in Thread : u # t => asked'[u] = asked[u]
      /\ asked' \in [Thread -> SUBSET Class]
      /\ using'[t] = {} /\ \A u \in Thread : u # t => using'[u] = using[u]
      /\ using' \in [Thread -> SUBSET (Class \cup {Object})]
  BY <1>1, <1>3 DEF Types
<1>7. Types'
  BY <1>1, <1>3, <1>5, <1>6 DEF Types
<1>8. ASSUME NEW u \in Thread
      PROVE  Stacked(calls[u])'
  <2>1. CASE u = t
    BY <2>1, <1>4, <1>5 DEF Stacked
  <2>2. CASE u # t
    <3>1. Stacked(calls[u])
      BY TypeParts DEF IInv
    <3>2. QED
      BY <2>2, <3>1, <1>2, <1>3, <1>5 DEF Stacked
  <2>3. QED
    BY <2>1, <2>2
<1>9. TypeOK'
  BY <1>7, <1>8, TypesAgain
<1>10. \A u \in Thread : Initialising(u)' = Initialising(u)
  <2>1. Initialising(t)' = {} /\ Initialising(t) = {}
    BY <1>1, <1>4, <1>5 DEF Initialising, Initialises
  <2>2. ASSUME NEW u \in Thread, u # t
        PROVE  Initialising(u)' = Initialising(u)
    BY <2>2, <1>5 DEF Initialising
  <2>3. QED
    BY <2>1, <2>2
<1>11. OneClinit'
  <2>1. \A u \in Thread : \A i \in DOMAIN calls'[u] : Initialises(calls'[u][i]) => u # t
    BY <1>4, <1>5 DEF Initialises
  <2>2. OneClinit
    BY DEF IInv, ClinitExact, OneClinit
  <2>3. SUFFICES ASSUME NEW u \in Thread, NEW v \in Thread,
                        NEW i \in DOMAIN calls'[u], NEW j \in DOMAIN calls'[v],
                        Initialises(calls'[u][i]), Initialises(calls'[v][j]),
                        calls'[u][i].class = calls'[v][j].class
                 PROVE  u = v /\ i = j
    BY DEF OneClinit, Initialises
  <2>4. calls'[u] = calls[u] /\ calls'[v] = calls[v]
    BY <2>1, <2>3, <1>5
  <2>5. QED
    BY <2>2, <2>3, <2>4 DEF OneClinit
<1>12. ClinitExact'
  BY <1>1, <1>2, <1>6, <1>10, <1>11 DEF IInv, ClinitExact, OneClinit
<1>13. \A d : Depends(d)' = Depends(d)
  BY <1>1, SameFiles
<1>14. AskedFor'
  <2>1. c \in Depends(c)
    BY DependsIsLeast DEF IInv
  <2>2. \A i \in DOMAIN calls'[t] : \E a \in asked'[t] : {calls'[t][i].class} \cup calls'[t][i].todo \subseteq Depends(a)
    BY <2>1, <1>4, <1>5, <1>6
  <2>3. \A u \in Thread : \A i \in DOMAIN calls'[u] : \E a \in asked'[u] :
           {calls'[u][i].class} \cup calls'[u][i].todo \subseteq Depends(a)
    BY <2>2, <1>5, <1>6 DEF IInv, AskedFor
  <2>4. QED
    BY <2>3, <1>13 DEF AskedFor
<1>15. PoisonExact' /\ FailuresContained'
  <2>1. \A u \in Thread : asked[u] \subseteq asked'[u]
    BY <1>6
  <2>2. QED
    BY <2>1, <1>1, NobodyEnds
<1>16. StartExact'
  <2>1. Starting(t)' = {} /\ Starting(t) = {}
    BY <1>1, <1>4, <1>5 DEF Starting
  <2>2. ASSUME NEW u \in Thread, u # t
        PROVE  Starting(u)' = Starting(u)
    BY <2>2, <1>5 DEF Starting
  <2>3. \A u \in Thread : Starting(u)' = Starting(u)
    BY <2>1, <2>2
  <2>4. QED
    BY <2>3, <1>1, <1>2, <1>10, StartsAsBefore
<1>17. QED
  BY <1>2, <1>9, <1>12, <1>14, <1>15, <1>16 DEF IInv

(* A call that finds its class in the table returns it.                    *)
LEMMA ReturnStep ==
    ASSUME IInv, NEW t \in Thread, calls[t] # <<>>, ~Initialises(Top(t)),
           Top(t).class \in Loaded, Return(t, Top(t).class),
           UNCHANGED <<files, table, runs, ready, asked, ended, poisoned>>
    PROVE  IInv'
<1>1. Below(t) \in Seq(Frame) /\ <<>> \in Seq(Frame) /\ Len(<<>>) = 0
  BY TopCall
<1>2. calls' = [calls EXCEPT ![t] = <<>> \o Below(t)]
  <2>1. <<>> \o Below(t) = Below(t)
    BY <1>1, ConcatEmptySeq
  <2>2. QED
    BY <2>1 DEF Return
<1>3. using' \in [Thread -> SUBSET Loaded]
  <2>1. using \in [Thread -> SUBSET Loaded]
    BY DEF IInv, TypeOK, ClinitExact
  <2>2. QED
    BY <2>1 DEF Return
<1>4. \A i \in 1..Len(<<>>) : FALSE
  BY <1>1
<1>5. PICK P \in Seq(Frame) : P = <<>>
  BY <1>1
<1>6. QED
  BY <1>1, <1>2, <1>3, <1>4, <1>5, QuietStep

(* The look under the read lock.                                           *)
LEMMA LookupStep ==
    ASSUME IInv, NEW t \in Thread, Lookup(t)
    PROVE  IInv'
<1>1. /\ calls[t] # <<>> /\ Top(t).at = "lookup"
      /\ UNCHANGED <<files, table, runs, ready, asked, ended, poisoned>>
  BY DEF Lookup, At
<1>2. CASE Top(t).class \in Loaded
  <2>1. Return(t, Top(t).class)
    BY <1>2 DEF Lookup
  <2>2. QED
    BY <1>1, <1>2, <2>1, ReturnStep DEF Initialises
<1>3. CASE Top(t).class \notin Loaded
  <2>1. PICK P : P = <<frame(Top(t).class, "load", NoNeed)>>
    OBVIOUS
  <2>2. calls' = [calls EXCEPT ![t] = P \o Below(t)] /\ using' = using
    BY <1>3, <2>1 DEF Lookup
  <2>3. /\ P \in Seq(Frame) /\ Len(P) = 1
        /\ P[1].class = Top(t).class /\ P[1].at = "load" /\ P[1].todo = {}
    <3>1. NoNeed \in SUBSET Class /\ NoNeed = {} /\ Top(t).class \in Class
      BY <1>1, TopCall DEF NoNeed
    <3>2. QED
      BY <2>1, <3>1, FrameParts
  <2>4. using' \in [Thread -> SUBSET Loaded]
    BY <2>2 DEF IInv, TypeOK, ClinitExact
  <2>5. \A i \in 1..Len(P) :
           /\ ~Initialises(P[i])
           /\ i > 1 => P[i].at = "insert"
           /\ P[i].at = "insert" =>
                 super[P[i].class] \in Loaded \/ (i > 1 /\ P[i-1].class = super[P[i].class])
    BY <2>3 DEF Initialises
  <2>6. \A i \in 1..Len(P) : \E c \in asked[t] : {P[i].class} \cup P[i].todo \subseteq Depends(c)
    <3>1. PICK a \in asked[t] : {Top(t).class} \cup Top(t).todo \subseteq Depends(a)
      BY <1>1, TopCall
    <3>2. {P[1].class} \cup P[1].todo \subseteq Depends(a)
      BY <2>3, <3>1
    <3>3. QED
      BY <2>3, <3>1, <3>2
  <2>7. Len(P) > 0 /\ P[Len(P)].class = Top(t).class /\ ~Initialises(Top(t))
    BY <2>3, <1>1 DEF Initialises
  <2>8. QED
    BY <1>1, <2>2, <2>3, <2>4, <2>5, <2>6, <2>7, QuietStep
<1>4. QED
  BY <1>2, <1>3

(* The frames of a climb: a call for each class, the superclass above the  *)
(* class that extends it, all of them on the line of the class looked for. *)
LEMMA ClimbParts ==
    ASSUME TypeOK, Object \in Loaded, NEW c \in Class, NEW s \in Climbs(c)
    PROVE  /\ s \in Seq(Class) /\ Len(s) \in Nat \ {0} /\ DOMAIN s = 1..Len(s) /\ s[Len(s)] = c
           /\ \A i \in 1..Len(s) : s[i] \in Line(c) \ {Object}
           /\ \A i \in 2..Len(s) : s[i - 1] = super[s[i]]
           /\ Chain(s) \in Seq(Frame) /\ Len(Chain(s)) = Len(s)
           /\ \A i \in 1..Len(s) :
                 Chain(s)[i].class = s[i] /\ Chain(s)[i].at = "insert" /\ Chain(s)[i].todo = {}
<1>1. PICK n \in 1..Cardinality(Class) : s \in [1..n -> Pending(c)]
  BY DEF Climbs
<1>2. Pending(c) \subseteq Class /\ Pending(c) \subseteq Line(c) \ {Object}
  BY LineIsLeast DEF Pending, AllClasses
<1>3. n \in Nat \ {0}
  <2>1. Cardinality(Class) \in Nat
    BY NameAssumption, FS_CardinalityType
  <2>2. QED
    BY <2>1
<1>4. s \in Seq(Class) /\ Len(s) = n /\ DOMAIN s = 1..n
  BY <1>1, <1>2, <1>3, IsASeq
<1>5. /\ s[Len(s)] = c
      /\ \A i \in 2..Len(s) : s[i - 1] = super[s[i]]
  BY DEF Climbs
<1>6. \A i \in 1..Len(s) : s[i] \in Line(c) \ {Object} /\ s[i] \in Class
  BY <1>1, <1>2, <1>4
<1>7. NoNeed \in SUBSET Class /\ NoNeed = {}
  BY DEF NoNeed
<1>8. \A i \in 1..n : /\ frame(s[i], "insert", NoNeed) \in Frame
                      /\ frame(s[i], "insert", NoNeed).class = s[i]
                      /\ frame(s[i], "insert", NoNeed).at = "insert"
                      /\ frame(s[i], "insert", NoNeed).todo = {}
  BY <1>4, <1>6, <1>7, FrameParts
<1>9. Chain(s) = [i \in 1..n |-> frame(s[i], "insert", NoNeed)]
  BY <1>4 DEF Chain
<1>10. Chain(s) \in Seq(Frame) /\ Len(Chain(s)) = n
  <2>1. Chain(s) \in [1..n -> Frame]
    BY <1>8, <1>9
  <2>2. QED
    BY <2>1, <1>3, IsASeq
<1>11. \A i \in 1..n : Chain(s)[i] = frame(s[i], "insert", NoNeed)
  BY <1>9
<1>12. \A i \in 1..Len(s) :
          Chain(s)[i].class = s[i] /\ Chain(s)[i].at = "insert" /\ Chain(s)[i].todo = {}
  BY <1>4, <1>8, <1>11
<1>13. QED
  BY <1>3, <1>4, <1>5, <1>6, <1>10, <1>12

(* Reading class files under the write lock, up the line of superclasses.  *)
LEMMA LoadStep ==
    ASSUME IInv, NEW t \in Thread, Load(t)
    PROVE  IInv'
<1>1. /\ calls[t] # <<>> /\ Top(t).at = "load"
      /\ UNCHANGED <<files, table, runs, ready, asked>>
  BY DEF Load, At
<1>2. PICK c \in Class : c = Top(t).class
  BY <1>1, TopCall
<1>3. PICK a \in asked[t] : c \in Depends(a) /\ a \in Class
  BY <1>1, <1>2, TopCall
<1>4. TypeOK /\ Object \in Loaded
  BY DEF IInv, TableClosed
<1>5. c \in AllClasses /\ Line(c) \ {Object} \subseteq Depends(a)
  BY <1>3, <1>4, DependsDescends DEF AllClasses
<1>6. CASE c \in Loaded /\ Return(t, c) /\ UNCHANGED <<ended, poisoned>>
  BY <1>1, <1>2, <1>6, ReturnStep DEF Initialises
<1>7. ASSUME NEW s \in Climbs(c), super[s[1]] \in Loaded,
             calls' = [calls EXCEPT ![t] = Chain(s) \o Below(t)],
             UNCHANGED <<using, ended, poisoned>>
      PROVE  IInv'
  <2>1. /\ Len(s) \in Nat \ {0} /\ s[Len(s)] = c
        /\ \A i \in 1..Len(s) : s[i] \in Line(c) \ {Object}
        /\ \A i \in 2..Len(s) : s[i - 1] = super[s[i]]
        /\ Chain(s) \in Seq(Frame) /\ Len(Chain(s)) = Len(s)
        /\ \A i \in 1..Len(s) :
              Chain(s)[i].class = s[i] /\ Chain(s)[i].at = "insert" /\ Chain(s)[i].todo = {}
    BY <1>4, ClimbParts
  <2>2. PICK P \in Seq(Frame) : P = Chain(s)
    BY <2>1
  <2>3. calls' = [calls EXCEPT ![t] = P \o Below(t)]
    BY <1>7, <2>2
  <2>4. using' \in [Thread -> SUBSET Loaded]
    BY <1>7 DEF IInv, TypeOK, ClinitExact
  <2>5. \A i \in 1..Len(P) :
           /\ ~Initialises(P[i])
           /\ i > 1 => P[i].at = "insert"
           /\ P[i].at = "insert" =>
                 super[P[i].class] \in Loaded \/ (i > 1 /\ P[i-1].class = super[P[i].class])
    <3>1. ASSUME NEW i \in 1..Len(s)
          PROVE  P[i].at = "insert" /\ P[i].class = s[i]
      BY <2>1, <2>2
    <3>2. ASSUME NEW i \in 1..Len(s), i > 1
          PROVE  P[i-1].class = super[P[i].class]
      <4>1. i \in 2..Len(s) /\ i - 1 \in 1..Len(s)
        BY <3>2, <2>1
      <4>2. QED
        BY <4>1, <3>1, <2>1
    <3>3. super[P[1].class] \in Loaded
      BY <3>1, <2>1, <1>7
    <3>4. \A i \in 1..Len(s) : i > 1 \/ i = 1
      BY <2>1
    <3>5. QED
      BY <3>1, <3>2, <3>3, <3>4, <2>1, <2>2 DEF Initialises
  <2>6. \A i \in 1..Len(P) : \E b \in asked[t] : {P[i].class} \cup P[i].todo \subseteq Depends(b)
    <3>1. \A i \in 1..Len(P) : {P[i].class} \cup P[i].todo \subseteq Depends(a)
      BY <1>5, <2>1, <2>2
    <3>2. QED
      BY <3>1
  <2>7. Len(P) > 0 /\ P[Len(P)].class = Top(t).class /\ ~Initialises(Top(t))
    BY <1>1, <1>2, <2>1, <2>2 DEF Initialises
  <2>8. QED
    BY <1>1, <1>7, <2>3, <2>4, <2>5, <2>6, <2>7, QuietStep
<1>8. ASSUME NEW s \in Climbs(c), file[s[1]] \in {"missing", "fatal"}, Fail(t),
             poisoned' = IF file[s[1]] = "fatal" THEN TRUE ELSE poisoned
      PROVE  IInv'
  <2>1. s[1] \in Depends(a)
    BY <1>4, <1>5, ClimbParts
  <2>2. OwnFault(t)
    BY <2>1, <1>3, <1>8 DEF OwnFault
  <2>3. file[s[1]] = "fatal" => Disaster
    BY <2>1, <1>3 DEF Disaster, Disastrous
  <2>4. /\ UNCHANGED <<files, table, runs, ready, calls, asked>>
        /\ using' \in [Thread -> SUBSET Loaded]
        /\ ended' \subseteq Thread /\ ended' \ ended \subseteq {t}
    BY <1>1, <1>8 DEF Fail, IInv, TypeOK, ClinitExact
  <2>5. poisoned' \in BOOLEAN /\ (poisoned' => poisoned \/ Disaster)
    BY <1>8, <2>3 DEF IInv, TypeOK
  <2>6. QED
    BY <2>2, <2>4, <2>5, EndingStep
<1>9. CASE (\A d \in Line(c) : d \notin Loaded /\ Readable(d)) /\ Overflow
  <2>1. PICK d \in Line(c) : Circular(d)
    BY <1>4, <1>5, <1>9, TopOrCircle
  <2>2. d \in Depends(a) /\ Disastrous(d)
    BY <2>1, <1>5 DEF Disastrous, Circular
  <2>3. Disaster
    BY <2>2, <1>3 DEF Disaster
  <2>4. /\ UNCHANGED <<files, table, runs, ready, calls, asked>>
        /\ using' \in [Thread -> SUBSET Loaded] /\ ended' \subseteq Thread
        /\ poisoned' \in BOOLEAN /\ (poisoned' => poisoned)
    BY <1>1, <1>9 DEF Overflow, IInv, TypeOK, ClinitExact
  <2>5. QED
    BY <2>3, <2>4, EndingStep
<1>10. QED
  BY <1>2, <1>6, <1>7, <1>8, <1>9 DEF Load

(* A class goes into the table; its <clinit>, if it has one, is next.      *)
LEMMA InsertsStep ==
    ASSUME IInv, NEW t \in Thread, calls[t] # <<>>, Top(t).at = "insert",
           NEW c \in Class, c = Top(t).class, c \notin Loaded, Inserts(t, c),
           UNCHANGED <<files, runs, asked, ended, poisoned>>
    PROVE  IInv'
<1>1. /\ super[c] \in Loaded /\ Object \in Loaded /\ c # Object
      /\ \E a \in asked[t] : {c} \cup Top(t).todo \subseteq Depends(a) /\ a \in Class
      /\ Below(t) \in Seq(Frame)
  BY TopCall, NameAssumption DEF IInv, TableClosed
<1>2. TypeOK /\ OneClinit /\ AskedFor /\ Types
  BY TypeParts DEF IInv, ClinitExact, OneClinit
<1>3. super' = super /\ needs' = needs /\ file' = file
  BY DEF files
<1>4. /\ table' = [table EXCEPT ![c] = @ + 1]
      /\ table[c] = 0 /\ runs[c] = 0
      /\ table' \in [Class \cup {Object} -> Nat]
      /\ table'[c] = 1 /\ \A d \in Class \cup {Object} : d # c => table'[d] = table[d]
  BY <1>2 DEF Inserts, Types, Loaded, IInv, CountsExact
<1>5. Loaded' = Loaded \cup {c} /\ Loaded' \subseteq Class \cup {Object}
  BY <1>4 DEF Loaded
<1>6. \A u \in Thread : c \notin Initialising(u)
  BY DEF IInv, ClinitExact
<1>7. c \notin ready /\ ready \subseteq Loaded
  BY DEF IInv, TableClosed
\* What is new of the calls.
<1>8. PICK P \in Seq(Frame) :
        /\ calls' = [calls EXCEPT ![t] = P \o Below(t)]
        /\ \/ /\ needs[c] = NoClinit /\ Len(P) = 0
              /\ ready' = ready \cup {c}
              /\ using' = [using EXCEPT ![t] = {c}]
           \/ /\ needs[c] # NoClinit /\ Len(P) = 1
              /\ P[1].at = "start" /\ P[1].class = c /\ P[1].todo = needs[c]
              /\ ready' = ready /\ using' = using
  <2>1. CASE needs[c] = NoClinit
    <3>1. <<>> \in Seq(Frame) /\ Len(<<>>) = 0 /\ <<>> \o Below(t) = Below(t)
      BY <1>1, ConcatEmptySeq
    <3>2. calls' = [calls EXCEPT ![t] = <<>> \o Below(t)]
      BY <2>1, <3>1 DEF Inserts, Return
    <3>3. ready' = ready \cup {c} /\ using' = [using EXCEPT ![t] = {c}]
      BY <2>1 DEF Inserts, Return
    <3>4. QED
      BY <2>1, <3>1, <3>2, <3>3
  <2>2. CASE needs[c] # NoClinit
    <3>1. needs[c] \in SUBSET Class
      BY <2>2, <1>2 DEF Types
    <3>2. PICK f \in Frame : /\ f = frame(c, "start", needs[c])
                             /\ f.at = "start" /\ f.class = c /\ f.todo = needs[c]
      BY <3>1, FrameParts
    <3>3. <<f>> \in Seq(Frame) /\ Len(<<f>>) = 1 /\ <<f>>[1] = f
      OBVIOUS
    <3>4. /\ calls' = [calls EXCEPT ![t] = <<f>> \o Below(t)]
          /\ ready' = ready /\ using' = using
      BY <2>2, <3>2 DEF Inserts
    <3>5. QED
      BY <2>2, <3>2, <3>3, <3>4
  <2>3. QED
    BY <2>1, <2>2
<1>9. \A i \in 1..Len(P) :
         /\ i = 1 /\ Len(P) = 1 /\ needs[c] # NoClinit
         /\ P[i].at = "start" /\ Initialises(P[i]) /\ P[i].class = c /\ P[i].todo = needs[c]
  <2>1. CASE Len(P) = 0
    BY <2>1
  <2>2. CASE Len(P) # 0
    <3>1. /\ Len(P) = 1 /\ P[1].at = "start" /\ P[1].class = c /\ P[1].todo = needs[c]
          /\ needs[c] # NoClinit
      BY <2>2, <1>8
    <3>2. \A i \in 1..1 : i = 1
      OBVIOUS
    <3>3. QED
      BY <3>1, <3>2 DEF Initialises
  <2>3. QED
    BY <2>1, <2>2
<1>10. calls' \in [Thread -> Seq(Frame)] /\ \A u \in Thread : Stacked(calls[u])'
  <2>1. \A i \in 1..Len(P) :
           /\ i > 1 => P[i].at \in {"insert", "clinit"}
           /\ P[i].at = "insert" =>
                 super[P[i].class] \in Loaded' \/ (i > 1 /\ P[i-1].class = super[P[i].class])
    BY <1>9
  <2>2. Loaded \subseteq Loaded' /\ Top(t).class \in Loaded'
    BY <1>5
  <2>3. QED
    BY <1>2, <1>8, <2>1, <2>2, StaysStacked
<1>11. runs' = runs
  OBVIOUS
<1>12. Types'
  <2>1. ready' \subseteq Class \cup {Object} /\ using' \in [Thread -> SUBSET (Class \cup {Object})]
    <3>1. ready' = ready \cup {c} \/ ready' = ready
      BY <1>8
    <3>2. using' = [using EXCEPT ![t] = {c}] \/ using' = using
      BY <1>8
    <3>3. /\ ready \subseteq Class \cup {Object} /\ {c} \in SUBSET (Class \cup {Object})
          /\ using \in [Thread -> SUBSET (Class \cup {Object})]
      BY <1>2 DEF Types
    <3>4. ready' \subseteq Class \cup {Object}
      BY <3>1, <3>3
    <3>5. using' \in [Thread -> SUBSET (Class \cup {Object})]
      BY <3>2, <3>3
    <3>6. QED
      BY <3>4, <3>5
  <2>2. QED
    BY <2>1, <1>2, <1>3, <1>4, <1>10, <1>11 DEF Types
<1>13. TypeOK'
  BY <1>10, <1>12, TypesAgain
<1>14. CountsExact'
  BY <1>4, <1>11 DEF IInv, CountsExact
<1>15. TableClosed'
  <2>1. Object \in ready' /\ ready' \subseteq Loaded'
    BY <1>5, <1>7, <1>8 DEF IInv, TableClosed
  <2>2. ASSUME NEW d \in Loaded' \ {Object}
        PROVE  super[d] \in Loaded'
    <3>1. CASE d = c
      BY <3>1, <1>1, <1>5
    <3>2. CASE d # c
      <4>1. d \in Loaded \ {Object} /\ d \in Class
        BY <2>2, <3>2, <1>5 DEF Loaded
      <4>2. QED
        BY <4>1, <1>5 DEF IInv, TableClosed
    <3>3. QED
      BY <3>1, <3>2
  <2>3. QED
    BY <2>1, <2>2, <1>3 DEF TableClosed
<1>16. /\ OneClinit'
       /\ \A u \in Thread : u # t => Initialising(u)' = Initialising(u)
       /\ Initialising(t)' = Initialising(t) \cup (IF needs[c] = NoClinit THEN {} ELSE {c})
  <2> DEFINE N == IF needs[c] = NoClinit THEN {} ELSE {c}
  <2>1. \A i \in 1..Len(P) : Initialises(P[i]) =>
           /\ i = Len(P)
           /\ \/ Initialises(Top(t)) /\ Top(t).class = P[i].class
              \/ \A u \in Thread : P[i].class \notin Initialising(u)
    BY <1>6, <1>9
  <2>2. /\ OneClinit'
        /\ \A u \in Thread : u # t => Initialising(u)' = Initialising(u)
        /\ \A d \in Initialising(t)' : d \in Initialising(t) \/ d \in N
        /\ \A d \in Initialising(t) :
              d \in Initialising(t)' \/ (Initialises(Top(t)) /\ Top(t).class = d)
        /\ \A i \in 1..Len(P) : Initialises(P[i]) => P[i].class \in Initialising(t)'
    <3>1. calls' = [calls EXCEPT ![t] = P \o Below(t)]
      BY <1>8
    <3>2. \A i \in 1..Len(P) : Initialises(P[i]) => P[i].class \in N
      BY <1>9
    <3> HIDE DEF N
    <3>3. QED
      BY ZenonT(60), <1>2, <2>1, <3>1, <3>2, ClinitsFollow
  <2>3. Initialising(t) \subseteq Initialising(t)'
    <3>1. ~Initialises(Top(t))
      BY DEF Initialises
    <3>2. QED
      BY <2>2, <3>1
  <2>4. \A d \in Initialising(t)' : d \in Initialising(t) \/ (d = c /\ needs[c] # NoClinit)
    BY <2>2, <1>9
  <2>5. needs[c] # NoClinit => c \in Initialising(t)'
    BY <2>2, <1>8 DEF Initialises
  <2>6. QED
    BY <2>2, <2>3, <2>4, <2>5
<1>17. ClinitExact'
  <2>1. \A u \in Thread : using'[u] \subseteq Loaded'
    <3>1. using \in [Thread -> SUBSET Loaded]
      BY DEF IInv, TypeOK, ClinitExact
    <3>2. QED
      BY <3>1, <1>5, <1>8
  <2>2. /\ \A u \in Thread : Initialising(u) \subseteq Loaded \ ready
        /\ \A d \in Loaded \ ready : \E u \in Thread : d \in Initialising(u)
    BY DEF IInv, ClinitExact
  <2>3. \A u \in Thread : Initialising(u)' \subseteq Loaded' \ ready'
    BY <2>2, <1>5, <1>6, <1>7, <1>8, <1>16
  <2>4. \A d \in Loaded' \ ready' : \E u \in Thread : d \in Initialising(u)'
    BY <2>2, <1>5, <1>8, <1>16
  <2>5. QED
    BY <2>1, <2>3, <2>4, <1>16 DEF ClinitExact, OneClinit
<1>18. AskedFor'
  <2>1. PICK a \in asked[t] : c \in Depends(a) /\ a \in Class
    BY <1>1
  <2>2. needs[c] # NoClinit => needs[c] \subseteq Depends(a)
    BY <1>2, <2>1, DependsIsLeast DEF NeedClosed
  <2>3. \A i \in 1..Len(P) : \E b \in asked[t] : {P[i].class} \cup P[i].todo \subseteq Depends(b)
    BY <2>1, <2>2, <1>9
  <2>4. QED
    BY <1>2, <1>8, <2>3, StaysAsked
<1>19. PoisonExact' /\ FailuresContained'
  BY NobodyEnds
<1>20. StartExact'
  <2>1. /\ \A u \in Thread : u # t => Starting(u)' = Starting(u)
        /\ \A d : d \in Starting(t)' <=> \E i \in 1..Len(P) : P[i].at = "start" /\ P[i].class = d
        /\ Starting(t) = {}
    BY <1>2, <1>8, StartsFollow
  <2>2. Starting(t)' = IF needs[c] = NoClinit THEN {} ELSE {c}
    BY <2>1, <1>8, <1>9
  <2>3. \A d : Line(d)' = Line(d)
    BY SameFiles
  \* The class is on the line of no class in the table.
  <2>4. ASSUME NEW d \in Loaded
        PROVE  c \notin Line(d)
    <3>1. d \in AllClasses /\ Loaded \in SUBSET AllClasses /\ SuperClosed(Loaded)
      BY DEF Loaded, AllClasses, SuperClosed, IInv, TableClosed
    <3>2. Line(d) \subseteq Loaded
      BY <1>2, <3>1, LineIsLeast
    <3>3. QED
      BY <3>2
  <2>5. ASSUME NEW u \in Thread, NEW d \in Starting(u)'
        PROVE  runs'[d] = 0 /\ \A e \in Initialising(u)' \ {d} : d \notin Line(e)'
    <3>1. CASE u # t
      BY <3>1, <2>1, <2>3, <2>5, <1>11, <1>16 DEF IInv, StartExact
    <3>2. CASE u = t
      <4>1. d = c /\ Initialising(t)' \ {c} \subseteq Loaded
        BY <3>2, <2>2, <2>5, <1>16 DEF IInv, ClinitExact
      <4>2. QED
        BY <3>2, <4>1, <2>3, <2>4, <1>4, <1>11
    <3>3. QED
      BY <3>1, <3>2
  <2>6. ASSUME NEW d \in Loaded' \ {Object}, needs'[d] # NoClinit, runs'[d] = 0
        PROVE  \E u \in Thread : d \in Starting(u)'
    <3>1. CASE d = c
      BY <3>1, <2>2, <2>6, <1>3
    <3>2. CASE d # c
      <4>1. PICK u \in Thread : d \in Starting(u)
        BY <3>2, <2>6, <1>3, <1>5, <1>11 DEF IInv, StartExact
      <4>2. QED
        BY <4>1, <2>1
    <3>3. QED
      BY <3>1, <3>2
  <2>7. QED
    BY <2>5, <2>6 DEF StartExact
<1>21. QED
  BY <1>13, <1>14, <1>15, <1>17, <1>18, <1>19, <1>20 DEF IInv

(* The second hold of the write lock.                                      *)
LEMMA InsertStep ==
    ASSUME IInv, NEW t \in Thread, Insert(t)
    PROVE  IInv'
<1>1. calls[t] # <<>> /\ Top(t).at = "insert" /\ UNCHANGED <<files, runs, asked, poisoned>>
  BY DEF Insert, At
<1>2. PICK c \in Class : c = Top(t).class
  BY <1>1, TopCall
<1>3. CASE c \in Loaded /\ Return(t, c) /\ UNCHANGED <<table, ready, ended>>
  BY <1>1, <1>2, <1>3, ReturnStep DEF Initialises
<1>4. CASE c \notin Loaded /\ file[c] = "unlinkable" /\ Fail(t) /\ UNCHANGED <<table, ready>>
  <2>1. OwnFault(t)
    BY <1>1, <1>2, <1>4, TopCall DEF OwnFault
  <2>2. /\ UNCHANGED <<files, table, runs, ready, calls, asked>>
        /\ using' \in [Thread -> SUBSET Loaded]
        /\ ended' \subseteq Thread /\ ended' \ ended \subseteq {t}
        /\ poisoned' \in BOOLEAN /\ (poisoned' => poisoned)
    BY <1>1, <1>4 DEF Fail, IInv, TypeOK, ClinitExact
  <2>3. QED
    BY <2>1, <2>2, EndingStep
<1>5. CASE c \notin Loaded /\ file[c] # "unlinkable" /\ Inserts(t, c) /\ UNCHANGED ended
  BY <1>1, <1>2, <1>5, InsertsStep
<1>6. QED
  BY <1>2, <1>3, <1>4, <1>5 DEF Insert

(* <clinit> starts: the call that inserted the class is now in it.         *)
LEMMA ClinitStartsStep ==
    ASSUME IInv, NEW t \in Thread, ClinitStarts(t)
    PROVE  IInv'
<1>1. /\ calls[t] # <<>> /\ Top(t).at = "start" /\ Initialises(Top(t))
      /\ UNCHANGED <<files, table, ready, using, asked, ended, poisoned>>
  BY DEF ClinitStarts, At, Initialises
<1>2. PICK c \in Class : c = Top(t).class
  BY <1>1, TopCall
<1>3. /\ Top(t) \in Frame /\ c \in Initialising(t) /\ c \in Loaded
      /\ \E a \in asked[t] : {c} \cup Top(t).todo \subseteq Depends(a)
  BY <1>1, <1>2, TopCall DEF IInv, ClinitExact
<1>4. /\ runs' = [runs EXCEPT ![c] = @ + 1]
      /\ calls' = [calls EXCEPT ![t] = <<[Top(t) EXCEPT !.at = "clinit"]>> \o Below(t)]
  BY <1>2 DEF ClinitStarts
<1>5. PICK g \in Frame : /\ g = [Top(t) EXCEPT !.at = "clinit"]
                         /\ g.class = c /\ g.at = "clinit" /\ g.todo = Top(t).todo
  <2>1. PICK h \in Frame : h = Top(t)
    BY <1>3
  <2>2. [h EXCEPT !.at = "clinit"] = [class |-> h.class, at |-> "clinit", todo |-> h.todo]
    BY <2>1 DEF Frame
  <2>3. QED
    BY <2>1, <2>2, <1>2 DEF Frame
<1>6. PICK P \in Seq(Frame) : P = <<g>> /\ Len(P) = 1 /\ P[1] = g
  <2>1. <<g>> \in Seq(Frame) /\ Len(<<g>>) = 1 /\ <<g>>[1] = g
    OBVIOUS
  <2>2. QED
    BY <2>1
<1>7. calls' = [calls EXCEPT ![t] = P \o Below(t)]
  BY <1>4, <1>5, <1>6
<1>8. \A i \in 1..Len(P) : i = 1 /\ i = Len(P) /\ P[i] = g
  <2>1. \A i \in 1..1 : i = 1
    OBVIOUS
  <2>2. QED
    BY <2>1, <1>6
<1>9. TypeOK /\ OneClinit /\ AskedFor /\ Types
  BY TypeParts DEF IInv, ClinitExact, OneClinit
<1>10. super' = super /\ needs' = needs /\ file' = file /\ Loaded' = Loaded
  BY <1>1 DEF files, Loaded
<1>11. calls' \in [Thread -> Seq(Frame)] /\ \A u \in Thread : Stacked(calls[u])'
  <2>1. \A i \in 1..Len(P) :
           /\ i > 1 => P[i].at \in {"insert", "clinit"}
           /\ P[i].at = "insert" =>
                 super[P[i].class] \in Loaded' \/ (i > 1 /\ P[i-1].class = super[P[i].class])
    BY <1>5, <1>8
  <2>2. Loaded \subseteq Loaded' /\ Top(t).class \in Loaded'
    BY <1>2, <1>3, <1>10
  <2>3. QED
    BY <1>1, <1>7, <1>9, <2>1, <2>2, StaysStacked
<1>12. /\ c \in Starting(t) /\ \A d \in Starting(t) : d = c
       /\ Starting(t)' = {} /\ \A u \in Thread : u # t => Starting(u)' = Starting(u)
  <2>1. /\ \A u \in Thread : u # t => Starting(u)' = Starting(u)
        /\ \A d : d \in Starting(t)' <=> \E i \in 1..Len(P) : P[i].at = "start" /\ P[i].class = d
        /\ \A d : d \in Starting(t) <=> Top(t).at = "start" /\ Top(t).class = d
    BY <1>1, <1>7, <1>9, StartsFollow
  <2>2. QED
    BY <2>1, <1>1, <1>2, <1>5, <1>8
<1>13. /\ runs[c] = 0 /\ table[c] > 0 /\ runs \in [Class -> Nat] /\ table \in [Class \cup {Object} -> Nat]
       /\ runs'[c] = 1 /\ \A d : d # c => runs'[d] = runs[d]
  BY <1>3, <1>4, <1>9, <1>12 DEF IInv, StartExact, Loaded, Types
<1>14. TypeOK'
  <2>1. runs' \in [Class -> Nat]
    BY <1>4, <1>13
  <2>2. Types'
    BY <2>1, <1>1, <1>9, <1>10, <1>11 DEF Types
  <2>3. QED
    BY <2>2, <1>11, TypesAgain
<1>15. CountsExact' /\ TableClosed'
  <2>1. \A d \in Class : table[d] \in Nat /\ table[d] <= 1 /\ runs[d] <= table[d]
    BY <1>13 DEF IInv, CountsExact
  <2>2. \A d \in Class : table[d] <= 1 /\ runs'[d] <= table[d]
    BY <2>1, <1>13
  <2>3. QED
    BY <2>2, <1>1, <1>10 DEF IInv, CountsExact, TableClosed
<1>16. OneClinit' /\ \A u \in Thread : Initialising(u)' = Initialising(u)
  <2>1. PICK N : N = {c}
    OBVIOUS
  <2>2. \A i \in 1..Len(P) : Initialises(P[i]) => P[i].class \in N
    BY <2>1, <1>5, <1>8
  <2>3. \A i \in 1..Len(P) : Initialises(P[i]) =>
           /\ i = Len(P)
           /\ \/ Initialises(Top(t)) /\ Top(t).class = P[i].class
              \/ \A u \in Thread : P[i].class \notin Initialising(u)
    BY <1>1, <1>2, <1>5, <1>8
  <2>4. /\ OneClinit'
        /\ \A u \in Thread : u # t => Initialising(u)' = Initialising(u)
        /\ \A d \in Initialising(t)' : d \in Initialising(t) \/ d \in N
        /\ \A d \in Initialising(t) :
              d \in Initialising(t)' \/ (Initialises(Top(t)) /\ Top(t).class = d)
        /\ \A i \in 1..Len(P) : Initialises(P[i]) => P[i].class \in Initialising(t)'
    BY ZenonT(60), <1>1, <1>7, <1>9, <2>2, <2>3, ClinitsFollow
  <2>5. c \in Initialising(t)'
    <3>1. g.class = c /\ g.at = "clinit"
      BY <1>5
    <3>2. Initialises(g)
      BY <3>1 DEF Initialises
    <3>3. 1 \in 1..Len(P) /\ P[1] = g
      <4>1. 1 \in 1..1
        OBVIOUS
      <4>2. QED
        BY <1>6, <4>1
    <3>4. QED
      BY <2>4, <3>1, <3>2, <3>3
  <2>6. \A d : d \in Initialising(t)' <=> d \in Initialising(t)
    BY <2>1, <2>4, <2>5, <1>2, <1>3
  <2>7. Initialising(t)' = Initialising(t)
    BY <2>6
  <2>8. QED
    BY <2>4, <2>7
<1>17. ClinitExact'
  BY <1>1, <1>10, <1>16 DEF IInv, ClinitExact, OneClinit
<1>18. StartExact'
  <2>1. \A d : Line(d)' = Line(d)
    BY <1>1, SameFiles
  <2>2. ASSUME NEW u \in Thread, NEW d \in Starting(u)'
        PROVE  runs'[d] = 0 /\ \A e \in Initialising(u)' \ {d} : d \notin Line(e)'
    <3>1. u # t /\ d \in Starting(u)
      BY <2>2, <1>12
    <3>2. d # c
      <4>1. PICK i \in DOMAIN calls[u] : calls[u][i].at = "start" /\ calls[u][i].class = d
        BY <3>1 DEF Starting
      <4>2. 1 \in DOMAIN calls[t] /\ Top(t) = calls[t][1]
        BY <1>1, TopCall
      <4>3. QED
        BY <4>1, <4>2, <3>1, <1>1, <1>2, <1>9 DEF OneClinit, Initialises
    <3>3. QED
      BY <3>1, <3>2, <2>1, <1>13, <1>16 DEF IInv, StartExact
  <2>3. ASSUME NEW d \in Loaded' \ {Object}, needs'[d] # NoClinit, runs'[d] = 0
        PROVE  \E u \in Thread : d \in Starting(u)'
    <3>1. d # c /\ runs[d] = 0 /\ d \in Loaded \ {Object} /\ needs[d] # NoClinit
      BY <2>3, <1>10, <1>13
    <3>2. PICK u \in Thread : d \in Starting(u)
      BY <3>1 DEF IInv, StartExact
    <3>3. QED
      BY <3>1, <3>2, <1>12
  <2>4. QED
    BY <2>2, <2>3 DEF StartExact
<1>19. AskedFor'
  <2>1. \A i \in 1..Len(P) : \E b \in asked[t] : {P[i].class} \cup P[i].todo \subseteq Depends(b)
    BY <1>3, <1>5, <1>8
  <2>2. QED
    BY <1>1, <1>7, <1>9, <2>1, StaysAsked
<1>20. PoisonExact' /\ FailuresContained'
  BY <1>1, NobodyEnds
<1>21. QED
  BY <1>14, <1>15, <1>17, <1>18, <1>19, <1>20 DEF IInv

(* <clinit> asks for one more of the classes that it needs.                *)
LEMMA ClinitNeedsStep ==
    ASSUME IInv, NEW t \in Thread, ClinitNeeds(t)
    PROVE  IInv'
<1>1. /\ calls[t] # <<>> /\ Top(t).at = "clinit" /\ Initialises(Top(t))
      /\ UNCHANGED <<files, table, runs, ready, asked, ended, poisoned>>
      /\ using' = [using EXCEPT ![t] = {}]
  BY DEF ClinitNeeds, At, Initialises
<1>2. PICK d \in Top(t).todo :
        calls' = [calls EXCEPT ![t] =
            <<frame(d, "lookup", NoNeed), [Top(t) EXCEPT !.todo = @ \ {d}]>> \o Below(t)]
  BY DEF ClinitNeeds
<1>3. /\ Top(t) \in Frame /\ d \in Class /\ Top(t).class \in Initialising(t)
      /\ Top(t).class \in Class /\ Top(t).todo \subseteq Class
  BY <1>1, <1>2, TopCall
<1>4. PICK a \in asked[t] : {Top(t).class} \cup Top(t).todo \subseteq Depends(a)
  BY <1>1, TopCall
<1>5. PICK f \in Frame : /\ f = frame(d, "lookup", NoNeed)
                         /\ f.class = d /\ f.at = "lookup" /\ f.todo = {}
  <2>1. NoNeed \in SUBSET Class /\ NoNeed = {}
    BY DEF NoNeed
  <2>2. QED
    BY <2>1, <1>3, FrameParts
<1>6. PICK g \in Frame : /\ g = [Top(t) EXCEPT !.todo = @ \ {d}]
                         /\ g.class = Top(t).class /\ g.at = "clinit" /\ g.todo = Top(t).todo \ {d}
  <2>1. PICK h \in Frame : h = Top(t) /\ h.at = "clinit"
    BY <1>1, <1>3
  <2>2. [h EXCEPT !.todo = @ \ {d}] = [class |-> h.class, at |-> "clinit", todo |-> h.todo \ {d}]
    BY <2>1 DEF Frame
  <2>3. h.class \in Class /\ h.todo \ {d} \in SUBSET Class
    BY <2>1 DEF Frame
  <2>4. QED
    BY <2>1, <2>2, <2>3 DEF Frame
<1>7. PICK P \in Seq(Frame) : P = <<f, g>> /\ Len(P) = 2 /\ P[1] = f /\ P[2] = g
  <2>1. <<f, g>> \in Seq(Frame) /\ Len(<<f, g>>) = 2 /\ <<f, g>>[1] = f /\ <<f, g>>[2] = g
    OBVIOUS
  <2>2. QED
    BY <2>1
<1>8. calls' = [calls EXCEPT ![t] = P \o Below(t)]
  BY <1>2, <1>5, <1>6, <1>7
<1>9. \A i \in 1..Len(P) : (i = 1 /\ P[i] = f) \/ (i = 2 /\ P[i] = g)
  <2>1. \A i \in 1..2 : i = 1 \/ i = 2
    OBVIOUS
  <2>2. QED
    BY <2>1, <1>7
<1>10. Loaded' = Loaded /\ CountsExact' /\ TableClosed' /\ super' = super /\ needs' = needs /\ file' = file
  BY <1>1, SameTable DEF files
<1>11. TypeOK /\ OneClinit /\ AskedFor /\ Types
  BY TypeParts DEF IInv, ClinitExact, OneClinit
<1>12. calls' \in [Thread -> Seq(Frame)] /\ \A u \in Thread : Stacked(calls[u])'
  <2>1. \A i \in 1..Len(P) :
           /\ i > 1 => P[i].at \in {"insert", "clinit"}
           /\ P[i].at = "insert" =>
                 super[P[i].class] \in Loaded' \/ (i > 1 /\ P[i-1].class = super[P[i].class])
    <3>1. f.at \notin {"insert", "clinit"} /\ g.at = "clinit"
      BY <1>5, <1>6
    <3>2. \A i \in 1..Len(P) : (i = 1 /\ P[i].at # "insert") \/ P[i].at = "clinit"
      BY <3>1, <1>9
    <3>3. \A i \in 1..Len(P) : P[i].at # "insert" /\ (i > 1 => P[i].at = "clinit")
      BY <3>2
    <3>4. QED
      BY <3>3
  <2>2. Loaded \subseteq Loaded' /\ Len(P) > 0 /\ P[Len(P)].class = Top(t).class
    <3>1. Len(P) = 2 /\ P[2].class = Top(t).class
      BY <1>6, <1>7
    <3>2. QED
      BY <3>1, <1>10
  <2>3. QED
    BY <1>1, <1>8, <1>11, <2>1, <2>2, StaysStacked
<1>13. using' \in [Thread -> SUBSET (Class \cup {Object})] /\ \A u \in Thread : using'[u] \subseteq using[u]
  BY <1>1, <1>11 DEF Types
<1>14. Types'
  BY <1>1, <1>10, <1>11, <1>12, <1>13 DEF Types
<1>15. TypeOK'
  BY <1>12, <1>14, TypesAgain
<1>16. OneClinit' /\ \A u \in Thread : Initialising(u)' = Initialising(u)
  <2> DEFINE N == {Top(t).class}
  <2>1. \A i \in 1..Len(P) : Initialises(P[i]) => P[i].class \in N
    BY <1>5, <1>6, <1>9 DEF Initialises
  <2>2. \A i \in 1..Len(P) : Initialises(P[i]) =>
           /\ i = Len(P)
           /\ \/ Initialises(Top(t)) /\ Top(t).class = P[i].class
              \/ \A u \in Thread : P[i].class \notin Initialising(u)
    BY <1>1, <1>5, <1>6, <1>7, <1>9 DEF Initialises
  <2>3. /\ OneClinit'
        /\ \A u \in Thread : u # t => Initialising(u)' = Initialising(u)
        /\ \A c \in Initialising(t)' : c \in Initialising(t) \/ c \in N
        /\ \A c \in Initialising(t) :
              c \in Initialising(t)' \/ (Initialises(Top(t)) /\ Top(t).class = c)
        /\ \A i \in 1..Len(P) : Initialises(P[i]) => P[i].class \in Initialising(t)'
    <3> HIDE DEF N
    <3>1. QED
      BY <1>1, <1>8, <1>11, <2>1, <2>2, ClinitsFollow
  <2>4. Top(t).class \in Initialising(t)'
    <3>1. 2 \in 1..Len(P) /\ Initialises(P[2]) /\ P[2].class = Top(t).class
      <4>1. Len(P) = 2 /\ 2 \in 1..2
        BY <1>7
      <4>2. Initialises(P[2]) /\ P[2].class = Top(t).class
        BY <1>6, <1>7 DEF Initialises
      <4>3. QED
        BY <4>1, <4>2
    <3>2. QED
      BY <2>3, <3>1
  <2>5. Initialising(t)' = Initialising(t)
    <3>1. N \subseteq Initialising(t)
      BY <1>3
    <3> HIDE DEF N
    <3>2. \A c : c \in Initialising(t)' <=> c \in Initialising(t)
      BY <2>3, <2>4, <3>1
    <3>3. QED
      BY <3>2
  <2>6. QED
    BY <2>3, <2>5
<1>17. ClinitExact'
  BY <1>1, <1>10, <1>13, <1>16 DEF IInv, ClinitExact, OneClinit
<1>18. AskedFor'
  <2>1. \A i \in 1..Len(P) : \E b \in asked[t] : {P[i].class} \cup P[i].todo \subseteq Depends(b)
    <3>1. {f.class} \cup f.todo \subseteq Depends(a)
      BY <1>4, <1>5 DEF NoNeed
    <3>2. {g.class} \cup g.todo \subseteq Depends(a)
      <4>1. Top(t).class \in Depends(a)
        BY <1>4
      <4>2. Top(t).todo \subseteq Depends(a)
        BY <1>4
      <4>3. QED
        BY <1>6, <4>1, <4>2
    <3> DEFINE Needs(h) == {h.class} \cup h.todo
    <3>3. Needs(f) \subseteq Depends(a) /\ Needs(g) \subseteq Depends(a)
      BY <3>1, <3>2
    <3> HIDE DEF Needs
    <3>4. \A i \in 1..Len(P) : Needs(P[i]) \subseteq Depends(a)
      BY <1>9, <3>3
    <3>5. \A i \in 1..Len(P) : \E b \in asked[t] : Needs(P[i]) \subseteq Depends(b)
      BY <1>4, <3>4
    <3>6. QED
      BY <3>5 DEF Needs
  <2>2. QED
    BY <1>1, <1>8, <1>11, <2>1, StaysAsked
<1>19. PoisonExact' /\ FailuresContained'
  BY <1>1, NobodyEnds
<1>20. StartExact'
  <2>1. \A i \in 1..Len(P) : P[i].at # "start"
    BY <1>5, <1>6, <1>9
  <2>2. /\ \A u \in Thread : u # t => Starting(u)' = Starting(u)
        /\ \A c : c \in Starting(t)' <=> \E i \in 1..Len(P) : P[i].at = "start" /\ P[i].class = c
        /\ \A c : c \in Starting(t) <=> Top(t).at = "start" /\ Top(t).class = c
    BY <1>1, <1>8, <1>11, StartsFollow
  <2>3. Starting(t)' = {} /\ Starting(t) = {}
    BY <2>1, <2>2, <1>1
  <2>4. \A u \in Thread : Starting(u)' = Starting(u)
    BY <2>2, <2>3
  <2>5. QED
    BY <2>4, <1>1, <1>10, <1>16, StartsAsBefore
<1>21. QED
  BY <1>10, <1>15, <1>17, <1>18, <1>19, <1>20 DEF IInv

(* <clinit> is over.                                                       *)
LEMMA ClinitEndsStep ==
    ASSUME IInv, NEW t \in Thread, ClinitEnds(t)
    PROVE  IInv'
<1>1. /\ calls[t] # <<>> /\ Top(t).at = "clinit" /\ Initialises(Top(t))
      /\ UNCHANGED <<files, table, runs, asked, ended, poisoned>>
  BY DEF ClinitEnds, At, Initialises
<1>2. PICK c \in Class : c = Top(t).class
  BY <1>1, TopCall
<1>3. /\ ready' = ready \cup {c}
      /\ using' = [using EXCEPT ![t] = {c}]
      /\ calls' = [calls EXCEPT ![t] = Below(t)]
  BY <1>2 DEF ClinitEnds, Return
<1>4. Below(t) \in Seq(Frame) /\ c \in Initialising(t) /\ c \in Loaded
  BY <1>1, <1>2, TopCall DEF IInv, ClinitExact
<1>5. PICK P \in Seq(Frame) : P = <<>> /\ Len(P) = 0
  <2>1. <<>> \in Seq(Frame) /\ Len(<<>>) = 0
    OBVIOUS
  <2>2. QED
    BY <2>1
<1>6. calls' = [calls EXCEPT ![t] = P \o Below(t)]
  BY <1>3, <1>4, <1>5, ConcatEmptySeq
<1>7. TypeOK /\ OneClinit /\ AskedFor /\ Types
  BY TypeParts DEF IInv, ClinitExact, OneClinit
<1>8. super' = super /\ needs' = needs /\ file' = file /\ Loaded' = Loaded
  BY <1>1 DEF files, Loaded
<1>9. CountsExact' /\ TableClosed'
  BY <1>1, <1>3, <1>4, <1>8 DEF IInv, CountsExact, TableClosed
<1>10. \A i \in 1..Len(P) : FALSE
  BY <1>5
<1>11. calls' \in [Thread -> Seq(Frame)] /\ \A u \in Thread : Stacked(calls[u])'
  BY <1>1, <1>2, <1>4, <1>6, <1>7, <1>8, <1>10, StaysStacked
<1>12. using' \in [Thread -> SUBSET Loaded] /\ Loaded \subseteq Class \cup {Object}
  <2>1. using \in [Thread -> SUBSET Loaded] /\ {c} \in SUBSET Loaded
    BY <1>4 DEF IInv, TypeOK, ClinitExact
  <2>2. QED
    BY <2>1, <1>3 DEF Loaded
<1>13. Types'
  <2>1. ready' \subseteq Class \cup {Object} /\ using' \in [Thread -> SUBSET (Class \cup {Object})]
    BY <1>3, <1>7, <1>12 DEF Types
  <2>2. QED
    BY <1>1, <1>7, <1>8, <1>11, <2>1 DEF Types
<1>14. TypeOK'
  BY <1>11, <1>13, TypesAgain
<1>15. /\ OneClinit'
       /\ \A u \in Thread : u # t => Initialising(u)' = Initialising(u)
       /\ Initialising(t)' \subseteq Initialising(t)
       /\ \A d \in Initialising(t) : d \in Initialising(t)' \/ d = c
       /\ \A u \in Thread : c \notin Initialising(u)'
  <2>1. PICK N : N = {}
    OBVIOUS
  <2>2. /\ OneClinit'
        /\ \A u \in Thread : u # t => Initialising(u)' = Initialising(u)
        /\ \A d \in Initialising(t)' : d \in Initialising(t) \/ d \in N
        /\ \A d \in Initialising(t) :
              d \in Initialising(t)' \/ (Initialises(Top(t)) /\ Top(t).class = d)
        /\ ((\A i \in 1..Len(P) : ~Initialises(P[i])) /\ Initialises(Top(t))) =>
              \A u \in Thread : Top(t).class \notin Initialising(u)'
    BY <1>1, <1>6, <1>7, <1>10, ClinitsFollow
  <2>3. QED
    BY <2>1, <2>2, <1>1, <1>2, <1>10
<1>16. ClinitExact'
  <2>1. /\ \A u \in Thread : Initialising(u) \subseteq Loaded \ ready
        /\ \A d \in Loaded \ ready : \E u \in Thread : d \in Initialising(u)
    BY DEF IInv, ClinitExact
  <2>2. \A u \in Thread : Initialising(u)' \subseteq Loaded' \ ready'
    BY <2>1, <1>3, <1>8, <1>15
  <2>3. \A d \in Loaded' \ ready' : \E u \in Thread : d \in Initialising(u)'
    BY <2>1, <1>3, <1>8, <1>15
  <2>4. \A u \in Thread : using'[u] \subseteq Loaded'
    BY <1>8, <1>12
  <2>5. QED
    BY <2>2, <2>3, <2>4, <1>15 DEF ClinitExact, OneClinit
<1>17. AskedFor'
  BY <1>1, <1>6, <1>7, <1>10, StaysAsked
<1>18. PoisonExact' /\ FailuresContained'
  BY <1>1, NobodyEnds
<1>19. StartExact'
  <2>1. /\ \A u \in Thread : u # t => Starting(u)' = Starting(u)
        /\ \A d : d \in Starting(t)' <=> \E i \in 1..Len(P) : P[i].at = "start" /\ P[i].class = d
        /\ \A d : d \in Starting(t) <=> Top(t).at = "start" /\ Top(t).class = d
    BY <1>1, <1>6, <1>7, StartsFollow
  <2>2. Starting(t)' = {} /\ Starting(t) = {}
    BY <2>1, <1>1, <1>10
  <2>3. /\ \A u \in Thread : Starting(u)' = Starting(u)
        /\ \A u \in Thread : Starting(u) # {} => Initialising(u)' = Initialising(u)
    BY <2>1, <2>2, <1>15
  <2>4. QED
    BY <2>3, <1>1, <1>8, StartsAsBefore
<1>20. QED
  BY <1>9, <1>14, <1>16, <1>17, <1>18, <1>19 DEF IInv

(* The lock is poisoned.                                                   *)
LEMMA LockPoisonedStep ==
    ASSUME IInv, NEW t \in Thread, LockPoisoned(t)
    PROVE  IInv'
<1>1. /\ UNCHANGED <<files, table, runs, ready, calls, asked, poisoned>>
      /\ using' \in [Thread -> SUBSET Loaded] /\ ended' \subseteq Thread
      /\ poisoned' \in BOOLEAN
  BY DEF LockPoisoned, Fail, IInv, TypeOK, ClinitExact
<1>2. Disaster
  BY DEF LockPoisoned, IInv, PoisonExact, Disaster
<1>3. QED
  BY <1>1, <1>2, EndingStep

-----------------------------------------------------------------------------
(* The initial states satisfy the invariant.                               *)
LEMMA InitInvariant == Init => IInv
<1> SUFFICES ASSUME Init PROVE IInv
  OBVIOUS
<1>1. /\ table = [c \in Class \cup {Object} |-> IF c = Object THEN 1 ELSE 0]
      /\ runs = [c \in Class |-> 0] /\ ready = {Object} /\ calls = [t \in Thread |-> <<>>]
      /\ using = [t \in Thread |-> {}] /\ asked = [t \in Thread |-> {}]
      /\ ended = {} /\ poisoned = FALSE
  BY DEF Init
<1>2. /\ super \in [Class -> Class \cup {Object}]
      /\ needs \in [Class -> {NoClinit} \cup SUBSET Class]
      /\ file \in [Class -> FileKinds]
  BY DEF Init
<1>3. Object \notin Class /\ Loaded = {Object}
  BY <1>1, NameAssumption DEF Loaded
<1>4. \A t \in Thread : DOMAIN calls[t] = {} /\ Initialising(t) = {} /\ Starting(t) = {}
  BY <1>1 DEF Initialising, Starting
<1>5. TypeOK
  <2>1. calls \in [Thread -> Seq(Frame)] /\ table \in [Class \cup {Object} -> Nat] /\ runs \in [Class -> Nat]
    BY <1>1
  <2>2. using \in [Thread -> SUBSET (Class \cup {Object})] /\ asked \in [Thread -> SUBSET Class]
    BY <1>1
  <2>3. Types
    BY <2>1, <2>2, <1>1, <1>2 DEF Types
  <2>4. \A t \in Thread : Stacked(calls[t])
    BY <1>4 DEF Stacked
  <2>5. QED
    BY <2>3, <2>4, TypeParts
<1>6. CountsExact
  BY <1>1, <1>3 DEF CountsExact
<1>7. TableClosed
  BY <1>1, <1>3 DEF TableClosed
<1>8. ClinitExact
  BY <1>1, <1>3, <1>4 DEF ClinitExact
<1>9. AskedFor
  BY <1>4 DEF AskedFor
<1>10. PoisonExact /\ FailuresContained
  BY <1>1 DEF PoisonExact, FailuresContained
<1>11. StartExact
  BY <1>3, <1>4 DEF StartExact
<1>12. QED
  BY <1>5, <1>6, <1>7, <1>8, <1>9, <1>10, <1>11 DEF IInv

(* Every step keeps the invariant.                                         *)
LEMMA NextInvariant == IInv /\ [Next]_vars => IInv'
<1> SUFFICES ASSUME IInv, [Next]_vars PROVE IInv'
  OBVIOUS
<1>1. CASE UNCHANGED vars
  <2>1. /\ UNCHANGED <<files, table, runs, ready, calls, asked>>
        /\ using' \in [Thread -> SUBSET Loaded] /\ ended' = ended /\ poisoned' = poisoned
    BY <1>1 DEF vars, files, IInv, TypeOK, ClinitExact
  <2>2. ended' \subseteq Thread /\ poisoned' \in BOOLEAN /\ ended' \ ended = {}
    BY <2>1 DEF IInv, TypeOK
  <2>3. QED
    BY <2>1, <2>2, EndingStep
<1>2. ASSUME NEW t \in Thread, Call(t)
      PROVE  IInv'
  BY <1>2, LookupStep, LoadStep, InsertStep, LockPoisonedStep, ClinitStartsStep,
     ClinitNeedsStep, ClinitEndsStep DEF Call
<1>3. ASSUME NEW t \in Thread, NEW c \in Class, Request(t, c)
      PROVE  IInv'
  BY <1>3, RequestStep
<1>4. QED
  BY <1>1, <1>2, <1>3 DEF Next

(* The inductive invariant, and with it the types, hold in every state.    *)
THEOREM Invariance == Spec => []IInv
<1>1. Init => IInv
  BY InitInvariant
<1>2. IInv /\ [Next]_vars => IInv'
  BY NextInvariant
<1>3. QED
  BY <1>1, <1>2, PTL DEF Spec

(* However many threads load a class at once, loaded_classes is given one  *)
(* entry for its name and its <clinit> is started at most once.            *)
THEOREM ClassesAreLoadedOnce == Spec => []LoadedOnce
<1>1. IInv => LoadedOnce
  <2>1. SUFFICES ASSUME IInv, NEW c \in Class PROVE table[c] <= 1 /\ runs[c] <= 1
    BY DEF LoadedOnce
  <2>2. table[c] \in Nat /\ runs[c] \in Nat /\ table[c] <= 1 /\ runs[c] <= table[c]
    BY <2>1 DEF IInv, TypeOK, CountsExact
  <2>3. QED
    BY <2>2
<1>2. QED
  BY <1>1, Invariance, PTL

(* A class in loaded_classes has all its superclasses there; and a         *)
(* superclass whose <clinit> comes after that of the class has just been   *)
(* inserted by a thread that is not in the <clinit> of the class.          *)
THEOREM SuperclassesComeFirst == Spec => []SupersFirst
<1>1. IInv => SupersFirst
  <2>1. SUFFICES ASSUME IInv, NEW c \in Loaded \ {Object}, NEW d \in Line(c) \ {Object}
                 PROVE  /\ d \in Loaded
                        /\ (runs[c] > 0 /\ needs[d] # NoClinit /\ runs[d] = 0) =>
                              \E u \in Thread : d \in Starting(u) /\ c \notin Initialising(u)
    BY DEF SupersFirst
  <2>2. c \in AllClasses /\ Loaded \in SUBSET AllClasses /\ SuperClosed(Loaded)
    BY <2>1 DEF Loaded, AllClasses, SuperClosed, IInv, TableClosed
  <2>3. d \in Loaded
    BY <2>1, <2>2, LineIsLeast DEF IInv
  <2>4. ASSUME runs[c] > 0, needs[d] # NoClinit, runs[d] = 0
        PROVE  \E u \in Thread : d \in Starting(u) /\ c \notin Initialising(u)
    <3>1. PICK u \in Thread : d \in Starting(u)
      BY <2>1, <2>3, <2>4 DEF IInv, StartExact
    <3>2. c # d
      BY <2>4
    <3>3. c \notin Initialising(u)
      BY <2>1, <3>1, <3>2 DEF IInv, StartExact
    <3>4. QED
      BY <3>1, <3>3
  <2>5. QED
    BY <2>3, <2>4
<1>2. QED
  BY <1>1, Invariance, PTL

(* A class that can be used before it is initialised is in the <clinit> of *)
(* exactly one thread.                                                     *)
THEOREM InitialisersAreAlone == Spec => []OneInitialiser
<1>1. IInv => OneInitialiser
  <2>1. SUFFICES ASSUME IInv, NEW c \in (Loaded \cup UNION {using[t] : t \in Thread}) \ ready
                 PROVE  Cardinality({t \in Thread : c \in Initialising(t)}) = 1
    BY DEF OneInitialiser
  <2>2. c \in Loaded \ ready
    BY <2>1 DEF IInv, ClinitExact
  <2>3. PICK t \in Thread : c \in Initialising(t)
    BY <2>1, <2>2 DEF IInv, ClinitExact
  <2>4. ASSUME NEW u \in Thread, c \in Initialising(u)
        PROVE  u = t
    <3>1. PICK i \in DOMAIN calls[t] : Initialises(calls[t][i]) /\ calls[t][i].class = c
      BY <2>3 DEF Initialising
    <3>2. PICK j \in DOMAIN calls[u] : Initialises(calls[u][j]) /\ calls[u][j].class = c
      BY <2>4 DEF Initialising
    <3>3. QED
      BY <2>1, <3>1, <3>2 DEF IInv, ClinitExact
  <2>5. {u \in Thread : c \in Initialising(u)} = {t}
    BY <2>3, <2>4
  <2>6. QED
    BY <2>5, FS_Singleton
<1>2. QED
  BY <1>1, Invariance, PTL

(* A thread ends because of a class that its own program depends on, or    *)
(* because of one no thread survives.                                      *)
THEOREM FailuresAreContained == Spec => []FailuresContained
<1>1. IInv => FailuresContained
  BY DEF IInv
<1>2. QED
  BY <1>1, Invariance, PTL
=============================================================================
