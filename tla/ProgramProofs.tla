---------------------------- MODULE ProgramProofs ----------------------------
(* Proofs about Program, for every set of class files and method bodies,   *)
(* any width of indices and every build.                                   *)
EXTENDS Program, SequenceTheorems, WellFoundedInduction, TLAPS

-----------------------------------------------------------------------------
(* Numbers. *)

(* A set of numbers has a least one.                                       *)
LEMMA LeastElement ==
    ASSUME NEW S \in SUBSET Nat, S # {}
    PROVE  /\ \E x \in S : \A y \in S : x <= y
           /\ Min(S) \in S /\ \A y \in S : Min(S) <= y
<1>1. PICK x \in S : \A y \in S : ~(<<y, x>> \in OpToRel(<, Nat))
  BY NatLessThanWellFounded, WFMin
<1>2. ASSUME NEW y \in S, ~(x <= y) PROVE FALSE
  <2>1. y \in Nat /\ x \in Nat /\ y < x
    BY <1>2
  <2>2. <<y, x>> \in OpToRel(<, Nat)
    BY <2>1 DEF OpToRel
  <2>3. QED
    BY <1>1, <2>2
<1>3. QED
  BY <1>2 DEF Min

(* What holds at 0 and goes on holding, holds up to n.                     *)
LEMMA Induction ==
    ASSUME NEW n \in Nat, NEW S, 0 \in S, \A i \in 1..n : i - 1 \in S => i \in S
    PROVE  \A i \in 0..n : i \in S
<1> DEFINE Wrong == {i \in 0..n : i \notin S}
<1> SUFFICES ASSUME Wrong # {} PROVE FALSE
  OBVIOUS
<1>1. Wrong \in SUBSET Nat
  OBVIOUS
<1>2. PICK i \in Wrong : \A j \in Wrong : i <= j
  BY <1>1, LeastElement
<1>3. i \in 1..n /\ i - 1 \in 0..n /\ i \notin S
  OBVIOUS
<1>4. i - 1 \in Wrong
  BY <1>3
<1>5. QED
  BY <1>2, <1>3, <1>4

(* A value that is built in n steps.                                       *)
BuiltIn(f, n, V, base, step) ==
    f \in [0..n -> V] /\ f[0] = base /\ \A i \in 1..n : f[i] = step[<<i, f[i - 1]>>]

LEMMA Recursion ==
    ASSUME NEW n \in Nat, NEW V, NEW base \in V, NEW step \in [(1..n) \X V -> V]
    PROVE  \E f : BuiltIn(f, n, V, base, step)
<1> DEFINE Built(k, f) == f[0] = base /\ \A i \in 1..k : f[i] = step[<<i, f[i - 1]>>]
           S == {k \in 0..n : \E f \in [0..k -> V] : Built(k, f)}
<1>1. 0 \in S
  <2>1. PICK f : f = [i \in 0..0 |-> base]
    OBVIOUS
  <2>2. f \in [0..0 -> V] /\ Built(0, f)
    BY <2>1
  <2>3. \E h \in [0..0 -> V] : Built(0, h)
    BY <2>2
  <2>4. 0 \in 0..n
    OBVIOUS
  <2> HIDE DEF Built
  <2>5. QED
    BY <2>3, <2>4
<1>2. ASSUME NEW k \in 1..n, k - 1 \in S PROVE k \in S
  <2>1. PICK f \in [0..k - 1 -> V] : Built(k - 1, f)
    BY <1>2
  <2>2. <<k, f[k - 1]>> \in (1..n) \X V
    BY <2>1
  <2>3. PICK v \in V : v = step[<<k, f[k - 1]>>]
    BY <2>2
  <2>4. PICK g : g = [i \in 0..k |-> IF i = k THEN v ELSE f[i]]
    OBVIOUS
  <2>5. g \in [0..k -> V] /\ \A i \in 0..k : g[i] = IF i = k THEN v ELSE f[i]
    BY <2>4
  <2>6. Built(k, g)
    <3>1. g[0] = base
      BY <2>1, <2>5
    <3>2. ASSUME NEW i \in 1..k PROVE g[i] = step[<<i, g[i - 1]>>]
      <4>1. g[i - 1] = f[i - 1]
        BY <2>5
      <4>2. CASE i = k
        <5>1. k \in 0..k
          OBVIOUS
        <5>2. g[k] = v
          BY <2>5, <5>1
        <5>3. g[i - 1] = f[k - 1]
          BY <4>1, <4>2
        <5>4. QED
          BY <2>3, <4>2, <5>2, <5>3
      <4>3. CASE i # k
        BY <2>1, <2>5, <4>1, <4>3
      <4>4. QED
        BY <4>2, <4>3
    <3>3. QED
      BY <3>1, <3>2
  <2>7. QED
    BY <2>5, <2>6
<1>3. n \in S
  <2> HIDE DEF S
  <2>1. \A i \in 0..n : i \in S
    BY <1>1, <1>2, Induction
  <2>2. QED
    BY <2>1
<1>4. QED
  BY <1>3 DEF BuiltIn

(* What is built in the same steps is the same.                            *)
Alike(n, f, g) ==
    n \in Nat /\ f[0] = g[0] /\ \A i \in 1..n : f[i - 1] = g[i - 1] => f[i] = g[i]

LEMMA SameSteps ==
    ASSUME NEW n, NEW f, NEW g, Alike(n, f, g)
    PROVE  \A i \in 0..n : f[i] = g[i]
<1> DEFINE S == {i \in 0..n : f[i] = g[i]}
<1>1. n \in Nat /\ 0 \in S /\ \A i \in 1..n : i - 1 \in S => i \in S
  BY DEF Alike
<1>2. \A i \in 0..n : i \in S
  <2> HIDE DEF S
  <2> QED BY <1>1, Induction
<1>3. QED
  BY <1>2

(* What the empty sequence has, and keeps when it grows, all sequences have. *)
LEMMA Growing ==
    ASSUME NEW V, NEW S, <<>> \in S, \A s \in Seq(V), e \in V : s \in S => Append(s, e) \in S
    PROVE  \A s \in Seq(V) : s \in S
<1> SUFFICES ASSUME NEW s \in Seq(V) PROVE s \in S
  OBVIOUS
<1>1. PICK n : n = Len(s) /\ n \in Nat
  BY LenProperties
<1> DEFINE I == {i \in 0..n : SubSeq(s, 1, i) \in S}
<1>2. 0 \in I
  <2>1. SubSeq(s, 1, 0) = <<>>
    BY SubSeqEmpty
  <2>2. 0 \in 0..n
    BY <1>1
  <2>3. QED
    BY <2>1, <2>2
<1>3. ASSUME NEW i \in 1..n, i - 1 \in I PROVE i \in I
  <2>1. s[i] \in V
    BY <1>1, ElementOfSeq
  <2>2. \A k \in 1..i - 1 : s[k] \in V
    BY <1>1, ElementOfSeq
  <2>3. SubSeq(s, 1, i - 1) \in Seq(V)
    BY <1>1, <2>2, SubSeqProperties
  <2>4. 1 \in 1..Len(s) /\ i \in 1..Len(s)
    BY <1>1
  <2>5. SubSeq(s, 1, i) = SubSeq(s, 1, i - 1) \o <<s[i]>>
    BY <2>4, SubSeqRecursiveSecond
  <2>6. SubSeq(s, 1, i) = Append(SubSeq(s, 1, i - 1), s[i])
    BY <2>1, <2>3, <2>5, AppendIsConcat
  <2>7. SubSeq(s, 1, i - 1) \in S
    BY <1>3
  <2>8. Append(SubSeq(s, 1, i - 1), s[i]) \in S
    BY <2>1, <2>3, <2>7
  <2>9. i \in 0..n
    BY <1>1
  <2>10. QED
    BY <2>6, <2>8, <2>9
<1>4. \A i \in 0..n : i \in I
  <2> HIDE DEF I
  <2> QED BY <1>1, <1>2, <1>3, Induction
<1>5. SubSeq(s, 1, n) \in S
  BY <1>1, <1>4
<1>6. QED
  BY <1>1, <1>5, SubSeqFull

(* t is s, of length n, with e behind it.                                  *)
Longer(V, s, e, n, t) ==
    /\ n \in Nat /\ n = Len(s) /\ t = Append(s, e) /\ Len(t) = n + 1
    /\ t \in Seq(V) /\ t[n + 1] = e /\ \A i \in 1..n : t[i] = s[i]
    /\ DOMAIN s = 1..n /\ DOMAIN t = 1..n + 1

LEMMA Appended ==
    ASSUME NEW V, NEW s \in Seq(V), NEW e \in V
    PROVE  \E n, t : Longer(V, s, e, n, t)
<1>1. PICK n : n = Len(s)
  OBVIOUS
<1>2. PICK t : t = Append(s, e)
  OBVIOUS
<1>3. n \in Nat /\ DOMAIN s = 1..n
  BY <1>1, LenProperties
<1>4. t \in Seq(V) /\ Len(t) = n + 1 /\ t[n + 1] = e /\ \A i \in 1..n : t[i] = s[i]
  BY <1>1, <1>2, AppendProperties
<1>5. DOMAIN t = 1..n + 1
  BY <1>4, LenProperties
<1>6. QED
  BY <1>1, <1>2, <1>3, <1>4, <1>5 DEF Longer

-----------------------------------------------------------------------------
(* The table of the class file. *)

\* An entry takes one index or two.
LEMMA PushedLen ==
    ASSUME NEW e
    PROVE  Len(Pushed(e)) \in 1..2
BY DEF Pushed

\* It comes first, and the second is unusable.
LEMMA PushedEntry ==
    ASSUME NEW S, NEW e \in S, Unusable \in S
    PROVE  /\ Pushed(e) \in Seq(S)
           /\ Pushed(e)[1] = e
           /\ \A i \in 2..Len(Pushed(e)) : Pushed(e)[i] = Unusable
<1>1. CASE TakesTwo(e)
  <2>1. PICK u \in S : u = Unusable
    OBVIOUS
  <2>2. PICK p : p = <<e, u>>
    OBVIOUS
  <2>3. p \in Seq(S) /\ Len(p) = 2 /\ p[1] = e /\ p[2] = u
    BY <2>2
  <2>4. \A i \in 2..Len(p) : i = 2
    BY <2>3
  <2>5. Pushed(e) = p
    BY <1>1, <2>1, <2>2 DEF Pushed
  <2>6. QED
    BY <2>1, <2>3, <2>4, <2>5
<1>2. CASE ~TakesTwo(e)
  <2>1. Pushed(e) = <<e>>
    BY <1>2 DEF Pushed
  <2>2. \A i \in 2..1 : FALSE
    OBVIOUS
  <2>3. QED
    BY <2>1, <2>2
<1>3. QED
  BY <1>1, <1>2

(* The indices, one after the other.                                      *)
LEMMA IndexSteps ==
    ASSUME NEW S, NEW stream \in Seq(S)
    PROVE  \E f : /\ f \in [0..Len(stream) -> Nat]
                  /\ f[0] = 1
                  /\ \A i \in 1..Len(stream) : f[i] = f[i - 1] + Len(Pushed(stream[i]))
                  /\ \A m \in 1..Len(stream) + 1 : IndexOf(stream, m) = f[m - 1]
<1>0. PICK n, V, e : n \in Nat /\ n = Len(stream) /\ V = Nat /\ e = 1
  BY LenProperties
<1> n \in Nat
  BY <1>0
<1> DEFINE OneMore(i, s) == s + Len(Pushed(stream[i]))
           Down(g) == [i \in 0..n |-> IF i = 0 THEN e ELSE OneMore(i, g[i - 1])]
<1>1. ASSUME NEW i \in 1..n, NEW s \in V PROVE OneMore(i, s) \in V
  <2>1. stream[i] \in S
    BY <1>0, ElementOfSeq
  <2>2. Len(Pushed(stream[i])) \in 1..2
    BY <2>1, PushedLen
  <2>3. QED
    BY <1>0, <2>2
<1>2. \A m \in 1..n + 1 : IndexOf(stream, m) = (CHOOSE g : g = Down(g))[m - 1]
  BY <1>0 DEF IndexOf
<1>3. e \in V
  BY <1>0
<1> HIDE DEF OneMore
<1>4. PICK step : step = [p \in (1..n) \X V |-> OneMore(p[1], p[2])]
  OBVIOUS
<1>5. step \in [(1..n) \X V -> V]
  BY <1>1, <1>4
<1>6. \A i \in 1..n, s \in V : step[<<i, s>>] = OneMore(i, s)
  BY <1>4
<1>7. PICK f : f \in [0..n -> V] /\ f[0] = e /\ \A i \in 1..n : f[i] = step[<<i, f[i - 1]>>]
  <2>1. \E f : BuiltIn(f, n, V, e, step)
    BY <1>3, <1>5, Recursion
  <2>2. QED
    BY <2>1 DEF BuiltIn
<1>8. \A i \in 1..n : f[i] = OneMore(i, f[i - 1])
  <2>1. \A i \in 1..n : f[i - 1] \in V
    BY <1>7
  <2>2. QED
    BY <1>6, <1>7, <2>1
<1>9. f = Down(f)
  BY <1>7, <1>8
<1>10. PICK g : g = CHOOSE h : h = Down(h)
  OBVIOUS
<1>11. g = Down(g)
  <2> HIDE DEF Down
  <2> QED BY <1>9, <1>10
<1>12. g[0] = e /\ \A i \in 1..n : g[i] = OneMore(i, g[i - 1])
  BY <1>11
<1>13. Alike(n, f, g)
  BY <1>7, <1>8, <1>12 DEF Alike
<1>14. \A i \in 0..n : f[i] = g[i]
  BY <1>13, SameSteps
<1>15. \A m \in 1..n + 1 : IndexOf(stream, m) = f[m - 1]
  <2>1. \A m \in 1..n + 1 : m - 1 \in 0..n
    OBVIOUS
  <2>2. QED
    BY <1>2, <1>10, <1>14, <2>1
<1>16. QED
  BY <1>0, <1>7, <1>8, <1>15 DEF OneMore

(* The tables, one after the other.                                        *)
LEMMA TableSteps ==
    ASSUME NEW S, NEW stream \in Seq(S), Unusable \in S
    PROVE  \E f : /\ f \in [0..Len(stream) -> Seq(S)]
                  /\ f[0] = <<Unusable>>
                  /\ \A i \in 1..Len(stream) : f[i] = f[i - 1] \o Pushed(stream[i])
                  /\ \A m \in 0..Len(stream) : TableOf(stream, m) = f[m]
<1>0. PICK n, V, e : n \in Nat /\ n = Len(stream) /\ V = Seq(S) /\ e = <<Unusable>>
  BY LenProperties
<1> n \in Nat
  BY <1>0
<1> DEFINE OneMore(i, s) == s \o Pushed(stream[i])
           Down(g) == [i \in 0..n |-> IF i = 0 THEN e ELSE OneMore(i, g[i - 1])]
<1>1. ASSUME NEW i \in 1..n, NEW s \in V PROVE OneMore(i, s) \in V
  <2>1. stream[i] \in S
    BY <1>0, ElementOfSeq
  <2>2. Pushed(stream[i]) \in Seq(S)
    BY <2>1 DEF Pushed
  <2>3. QED
    BY <1>0, <2>2, ConcatProperties
<1>2. \A m \in 0..n : TableOf(stream, m) = (CHOOSE g : g = Down(g))[m]
  BY <1>0 DEF TableOf
<1>3. e \in V
  BY <1>0
<1> HIDE DEF OneMore
<1>4. PICK step : step = [p \in (1..n) \X V |-> OneMore(p[1], p[2])]
  OBVIOUS
<1>5. step \in [(1..n) \X V -> V]
  BY <1>1, <1>4
<1>6. \A i \in 1..n, s \in V : step[<<i, s>>] = OneMore(i, s)
  BY <1>4
<1>7. PICK f : f \in [0..n -> V] /\ f[0] = e /\ \A i \in 1..n : f[i] = step[<<i, f[i - 1]>>]
  <2>1. \E f : BuiltIn(f, n, V, e, step)
    BY <1>3, <1>5, Recursion
  <2>2. QED
    BY <2>1 DEF BuiltIn
<1>8. \A i \in 1..n : f[i] = OneMore(i, f[i - 1])
  <2>1. \A i \in 1..n : f[i - 1] \in V
    BY <1>7
  <2>2. QED
    BY <1>6, <1>7, <2>1
<1>9. f = Down(f)
  BY <1>7, <1>8
<1>10. PICK g : g = CHOOSE h : h = Down(h)
  OBVIOUS
<1>11. g = Down(g)
  <2> HIDE DEF Down
  <2> QED BY <1>9, <1>10
<1>12. g[0] = e /\ \A i \in 1..n : g[i] = OneMore(i, g[i - 1])
  BY <1>11
<1>13. Alike(n, f, g)
  BY <1>7, <1>8, <1>12 DEF Alike
<1>14. \A i \in 0..n : f[i] = g[i]
  BY <1>13, SameSteps
<1>15. \A m \in 0..n : TableOf(stream, m) = f[m]
  BY <1>2, <1>10, <1>14
<1>16. QED
  BY <1>0, <1>7, <1>8, <1>15 DEF OneMore

(* What is written, entry by entry.                                        *)
LEMMA WrittenSteps ==
    ASSUME NEW S, NEW table \in Seq(S)
    PROVE  \E f : /\ f \in [0..Len(table) -> Seq(S)]
                  /\ f[0] = <<>>
                  /\ \A i \in 1..Len(table) : f[i] = IF table[i] = Unusable THEN f[i - 1] ELSE Append(f[i - 1], table[i])
                  /\ Written(table) = f[Len(table)]
<1>0. PICK n, V, e : n \in Nat /\ n = Len(table) /\ V = Seq(S) /\ e = <<>>
  BY LenProperties
<1> n \in Nat
  BY <1>0
<1> DEFINE OneMore(i, s) == IF table[i] = Unusable THEN s ELSE Append(s, table[i])
           Down(g) == [i \in 0..n |-> IF i = 0 THEN e ELSE OneMore(i, g[i - 1])]
<1>1. ASSUME NEW i \in 1..n, NEW s \in V PROVE OneMore(i, s) \in V
  <2>1. table[i] \in S
    BY <1>0, ElementOfSeq
  <2>2. Append(s, table[i]) \in Seq(S)
    BY <1>0, <2>1, AppendProperties
  <2>3. QED
    BY <1>0, <2>2
<1>2. Written(table) = (CHOOSE g : g = Down(g))[n]
  BY <1>0 DEF Written
<1>3. e \in V
  BY <1>0
<1> HIDE DEF OneMore
<1>4. PICK step : step = [p \in (1..n) \X V |-> OneMore(p[1], p[2])]
  OBVIOUS
<1>5. step \in [(1..n) \X V -> V]
  BY <1>1, <1>4
<1>6. \A i \in 1..n, s \in V : step[<<i, s>>] = OneMore(i, s)
  BY <1>4
<1>7. PICK f : f \in [0..n -> V] /\ f[0] = e /\ \A i \in 1..n : f[i] = step[<<i, f[i - 1]>>]
  <2>1. \E f : BuiltIn(f, n, V, e, step)
    BY <1>3, <1>5, Recursion
  <2>2. QED
    BY <2>1 DEF BuiltIn
<1>8. \A i \in 1..n : f[i] = OneMore(i, f[i - 1])
  <2>1. \A i \in 1..n : f[i - 1] \in V
    BY <1>7
  <2>2. QED
    BY <1>6, <1>7, <2>1
<1>9. f = Down(f)
  BY <1>7, <1>8
<1>10. PICK g : g = CHOOSE h : h = Down(h)
  OBVIOUS
<1>11. g = Down(g)
  <2> HIDE DEF Down
  <2> QED BY <1>9, <1>10
<1>12. g[0] = e /\ \A i \in 1..n : g[i] = OneMore(i, g[i - 1])
  BY <1>11
<1>13. Alike(n, f, g)
  BY <1>7, <1>8, <1>12 DEF Alike
<1>14. \A i \in 0..n : f[i] = g[i]
  BY <1>13, SameSteps
<1>15. Written(table) = f[n]
  BY <1>2, <1>10, <1>14
<1>16. QED
  BY <1>0, <1>7, <1>8, <1>15 DEF OneMore


(* An index is the one before it and what the entry there takes.           *)
LEMMA IndexNext ==
    ASSUME NEW S, NEW stream \in Seq(S)
    PROVE  /\ IndexOf(stream, 1) = 1
           /\ \A n \in 1..Len(stream) + 1 : IndexOf(stream, n) \in Nat
           /\ \A n \in 1..Len(stream) : IndexOf(stream, n + 1) = IndexOf(stream, n) + Len(Pushed(stream[n]))
<1>0. Len(stream) \in Nat
  BY LenProperties
<1>1. PICK f : /\ f \in [0..Len(stream) -> Nat]
               /\ f[0] = 1
               /\ \A i \in 1..Len(stream) : f[i] = f[i - 1] + Len(Pushed(stream[i]))
               /\ \A m \in 1..Len(stream) + 1 : IndexOf(stream, m) = f[m - 1]
  BY IndexSteps
<1>2. IndexOf(stream, 1) = f[1 - 1]
  BY <1>0, <1>1
<1>3. \A n \in 1..Len(stream) + 1 : IndexOf(stream, n) \in Nat
  BY <1>0, <1>1
<1>4. ASSUME NEW n \in 1..Len(stream)
      PROVE  IndexOf(stream, n + 1) = IndexOf(stream, n) + Len(Pushed(stream[n]))
  <2>1. n \in 1..Len(stream) + 1 /\ n + 1 \in 1..Len(stream) + 1 /\ n + 1 - 1 = n
    BY <1>0
  <2>2. IndexOf(stream, n) = f[n - 1] /\ IndexOf(stream, n + 1) = f[n]
    BY <1>1, <2>1
  <2>3. QED
    BY <1>1, <2>2
<1>5. QED
  BY <1>1, <1>2, <1>3, <1>4

(* Later entries have larger indices.                                      *)
LEMMA IndexGrows ==
    ASSUME NEW S, NEW stream \in Seq(S), NEW m \in 1..Len(stream) + 1, NEW n \in m..Len(stream) + 1
    PROVE  /\ IndexOf(stream, m) + (n - m) <= IndexOf(stream, n)
           /\ IndexOf(stream, m) \in Nat \ {0} /\ IndexOf(stream, n) \in Nat \ {0}
<1>0. Len(stream) \in Nat
  BY LenProperties
<1>1. ASSUME NEW k \in 1..Len(stream)
      PROVE  /\ IndexOf(stream, k) \in Nat /\ IndexOf(stream, k + 1) \in Nat
             /\ IndexOf(stream, k) + 1 <= IndexOf(stream, k + 1)
  <2>1. PICK d, x : d = Len(Pushed(stream[k])) /\ d \in 1..2 /\ x = IndexOf(stream, k)
    BY PushedLen
  <2>2. x \in Nat /\ IndexOf(stream, k + 1) = x + d
    BY <1>0, <2>1, IndexNext
  <2>3. x + d \in Nat /\ x + 1 <= x + d
    <3>1. x \in Nat /\ d \in 1..2
      BY <2>1, <2>2
    <3>2. QED
      BY <3>1
  <2>4. QED
    BY <2>1, <2>2, <2>3
<1> DEFINE Grown(a, b) == IndexOf(stream, a) + (b - a) <= IndexOf(stream, b)
<1>2. ASSUME NEW a \in 1..Len(stream) + 1
      PROVE  \A d \in 0..Len(stream) + 1 - a : Grown(a, a + d)
  <2> DEFINE I == {d \in 0..Len(stream) + 1 - a : Grown(a, a + d)}
  <2>1. Len(stream) + 1 - a \in Nat /\ IndexOf(stream, a) \in Nat
    BY <1>0, IndexNext
  <2>2. 0 \in I
    BY <1>0, <2>1
  <2>3. ASSUME NEW d \in 1..Len(stream) + 1 - a, d - 1 \in I PROVE d \in I
    <3>1. PICK k \in 1..Len(stream) : k = a + d - 1
      BY <1>0
    <3>2. k = a + (d - 1) /\ k + 1 = a + d /\ k - a = d - 1 /\ a + d - a = d
      BY <3>1
    <3>3. IndexOf(stream, a) + (d - 1) <= IndexOf(stream, k)
      BY <2>3, <3>2
    <3>4. IndexOf(stream, a) + d <= IndexOf(stream, k + 1)
      BY SMTT(60), <1>1, <2>1, <3>3
    <3>5. QED
      BY <1>0, <3>2, <3>4
  <2>4. \A d \in 0..Len(stream) + 1 - a : d \in I
    <3> HIDE DEF I
    <3> QED BY <2>1, <2>2, <2>3, Induction
  <2>5. QED
    BY <2>4
<1> HIDE DEF Grown
<1>3. ASSUME NEW a \in 1..Len(stream) + 1, NEW b \in a..Len(stream) + 1 PROVE Grown(a, b)
  <2>1. PICK d \in 0..Len(stream) + 1 - a : b = a + d
    BY <1>0
  <2>2. Grown(a, a + d)
    BY <1>2
  <2>3. QED
    BY <2>1, <2>2
<1>4. Grown(m, n) /\ Grown(1, m) /\ Grown(1, n)
  BY <1>0, <1>3
<1>5. IndexOf(stream, 1) = 1 /\ IndexOf(stream, m) \in Nat /\ IndexOf(stream, n) \in Nat
  BY <1>0, IndexNext
<1>6. QED
  BY <1>4, <1>5 DEF Grown

(* The table grows by what reading an entry pushes.                        *)
LEMMA TableNext ==
    ASSUME NEW S, NEW stream \in Seq(S), Unusable \in S
    PROVE  /\ TableOf(stream, 0) = <<Unusable>>
           /\ \A n \in 0..Len(stream) : TableOf(stream, n) \in Seq(S)
           /\ \A n \in 1..Len(stream) : TableOf(stream, n) = TableOf(stream, n - 1) \o Pushed(stream[n])
<1>0. Len(stream) \in Nat
  BY LenProperties
<1>1. PICK f : /\ f \in [0..Len(stream) -> Seq(S)]
               /\ f[0] = <<Unusable>>
               /\ \A i \in 1..Len(stream) : f[i] = f[i - 1] \o Pushed(stream[i])
               /\ \A m \in 0..Len(stream) : TableOf(stream, m) = f[m]
  BY TableSteps
<1>2. \A n \in 1..Len(stream) : n \in 0..Len(stream) /\ n - 1 \in 0..Len(stream)
  BY <1>0
<1>3. 0 \in 0..Len(stream)
  BY <1>0
<1>4. QED
  BY <1>1, <1>2, <1>3

(* Which entry an index of the table has, and back.                        *)
LEMMA TablePlaces ==
    ASSUME NEW S, NEW stream \in Seq(S), Unusable \in S, NEW k \in 0..Len(stream)
    PROVE  /\ Len(TableOf(stream, k)) = IndexOf(stream, k + 1)
           /\ \A n \in 1..k : /\ IndexOf(stream, n) + 1 \in 1..Len(TableOf(stream, k))
                              /\ TableOf(stream, k)[IndexOf(stream, n) + 1] = stream[n]
           /\ \A i \in 1..Len(TableOf(stream, k)) :
                 \/ TableOf(stream, k)[i] = Unusable
                 \/ \E n \in 1..k : i = IndexOf(stream, n) + 1 /\ TableOf(stream, k)[i] = stream[n]
<1> DEFINE Right(m) ==
        /\ Len(TableOf(stream, m)) = IndexOf(stream, m + 1)
        /\ \A n \in 1..m : /\ IndexOf(stream, n) + 1 \in 1..Len(TableOf(stream, m))
                           /\ TableOf(stream, m)[IndexOf(stream, n) + 1] = stream[n]
        /\ \A i \in 1..Len(TableOf(stream, m)) :
              \/ TableOf(stream, m)[i] = Unusable
              \/ \E n \in 1..m : i = IndexOf(stream, n) + 1 /\ TableOf(stream, m)[i] = stream[n]
      I == {m \in 0..Len(stream) : Right(m)}
<1>0. Len(stream) \in Nat
  BY LenProperties
<1>1. 0 \in I
  <2>1. TableOf(stream, 0) = <<Unusable>> /\ IndexOf(stream, 1) = 1
    BY TableNext, IndexNext
  <2>2. Len(<<Unusable>>) = 1 /\ \A i \in 1..1 : <<Unusable>>[i] = Unusable
    OBVIOUS
  <2>3. Len(TableOf(stream, 0)) = IndexOf(stream, 0 + 1) /\ 0 \in 0..Len(stream)
    <3>1. 0 + 1 = 1 /\ 0 \in 0..Len(stream)
      BY <1>0
    <3>2. Len(TableOf(stream, 0)) = 1
      BY <2>1
    <3>3. QED
      BY <2>1, <3>1, <3>2
  <2>4. \A i \in 1..Len(TableOf(stream, 0)) : TableOf(stream, 0)[i] = Unusable
    BY <2>1, <2>2
  <2>5. \A n \in 1..0 : FALSE
    OBVIOUS
  <2>6. QED
    BY <2>3, <2>4, <2>5
<1>2. ASSUME NEW m \in 1..Len(stream), m - 1 \in I PROVE m \in I
  <2>1. PICK old, new, e, x : /\ old = TableOf(stream, m - 1) /\ new = TableOf(stream, m)
                              /\ e = stream[m] /\ x = IndexOf(stream, m)
    OBVIOUS
  <2>2. old \in Seq(S) /\ new = old \o Pushed(e) /\ x \in Nat /\ x > 0
    <3>1. m - 1 \in 0..Len(stream) /\ m \in m..Len(stream) + 1 /\ m \in 1..Len(stream) + 1
      BY <1>0
    <3>2. x \in Nat \ {0}
      BY <2>1, <3>1, IndexGrows
    <3>3. TableOf(stream, m - 1) \in Seq(S) /\ TableOf(stream, m) = TableOf(stream, m - 1) \o Pushed(stream[m])
      BY <3>1, TableNext
    <3>4. QED
      BY <2>1, <3>2, <3>3
  <2>3. /\ Pushed(e) \in Seq(S) /\ Len(Pushed(e)) \in 1..2
        /\ Pushed(e)[1] = e
        /\ \A i \in 2..Len(Pushed(e)) : Pushed(e)[i] = Unusable
    <3>1. e \in S
      BY <2>1, ElementOfSeq
    <3>2. QED
      BY <3>1, PushedLen, PushedEntry
  <2>4. Len(old) = x
    <3>1. m - 1 + 1 = m
      BY <1>0
    <3>2. QED
      BY <1>2, <2>1, <3>1
  <2>5. /\ Len(new) = x + Len(Pushed(e))
        /\ \A i \in 1..x : new[i] = old[i]
        /\ new[x + 1] = e
        /\ \A i \in x + 2..Len(new) : new[i] = Unusable
    <3>1. /\ Len(new) = x + Len(Pushed(e))
          /\ \A i \in 1..x + Len(Pushed(e)) : new[i] = IF i <= x THEN old[i] ELSE Pushed(e)[i - x]
      BY <2>2, <2>3, <2>4, ConcatProperties
    <3>2. \A i \in 1..x : new[i] = old[i]
      BY <2>2, <2>3, <3>1
    <3>3. new[x + 1] = e
      <4>1. PICK l : l = Len(Pushed(e)) /\ l \in 1..2
        BY <2>3
      <4>2. PICK i : i = x + 1 /\ i - x = 1 /\ i \in 1..x + l /\ ~(i <= x)
        <5>1. x \in Nat /\ l \in 1..2
          BY <2>2, <4>1
        <5>2. QED
          BY <5>1
      <4>3. new[i] = Pushed(e)[i - x]
        BY <3>1, <4>1, <4>2
      <4>4. QED
        BY <2>3, <4>2, <4>3
    <3>4. ASSUME NEW i \in x + 2..Len(new) PROVE new[i] = Unusable
      <4>1. i \in 1..x + Len(Pushed(e)) /\ i - x \in 2..Len(Pushed(e)) /\ ~(i <= x)
        BY <2>2, <2>3, <3>1
      <4>2. QED
        BY <2>3, <3>1, <4>1
    <3>5. QED
      BY <3>1, <3>2, <3>3, <3>4
  <2>6. Len(new) = IndexOf(stream, m + 1)
    BY <2>1, <2>5, IndexNext
  <2>7. ASSUME NEW n \in 1..m
        PROVE  IndexOf(stream, n) + 1 \in 1..Len(new) /\ new[IndexOf(stream, n) + 1] = stream[n]
    <3>1. CASE n = m
      <4>1. IndexOf(stream, n) = x /\ stream[n] = e /\ x + 1 \in 1..x + Len(Pushed(e))
        BY SMTT(60), <2>1, <2>2, <2>3, <3>1
      <4>2. QED
        BY <2>5, <4>1
    <3>2. CASE n # m
      <4>1. n \in 1..m - 1
        BY <3>2
      <4>2. IndexOf(stream, n) + 1 \in 1..x /\ old[IndexOf(stream, n) + 1] = stream[n]
        BY <1>2, <2>1, <2>4, <4>1
      <4>3. QED
        BY <2>2, <2>3, <2>5, <4>2
    <3>3. QED
      BY <3>1, <3>2
  <2>8. ASSUME NEW i \in 1..Len(new)
        PROVE  new[i] = Unusable \/ \E n \in 1..m : i = IndexOf(stream, n) + 1 /\ new[i] = stream[n]
    <3>1. CASE i \in 1..x
      <4>1. old[i] = Unusable \/ \E n \in 1..m - 1 : i = IndexOf(stream, n) + 1 /\ old[i] = stream[n]
        BY <1>2, <2>1, <2>4, <3>1
      <4>2. QED
        BY <2>5, <3>1, <4>1
    <3>2. CASE i = x + 1
      <4>1. m \in 1..m
        OBVIOUS
      <4>2. QED
        BY <2>1, <2>5, <3>2, <4>1
    <3>3. CASE i \in x + 2..Len(new)
      BY <2>5, <3>3
    <3>4. QED
      BY <2>2, <2>3, <2>5, <3>1, <3>2, <3>3
  <2>9. QED
    BY <1>0, <2>1, <2>6, <2>7, <2>8
<1>3. \A m \in 0..Len(stream) : m \in I
  <2> HIDE DEF I
  <2> QED BY <1>0, <1>1, <1>2, Induction
<1>4. QED
  BY <1>3

(* A table of fewer entries is a prefix of one of more.                    *)
LEMMA TablePrefix ==
    ASSUME NEW S, NEW stream \in Seq(S), Unusable \in S, NEW k \in 0..Len(stream), NEW j \in 0..k
    PROVE  IsPrefix(TableOf(stream, j), TableOf(stream, k))
<1>0. Len(stream) \in Nat
  BY LenProperties
<1> DEFINE Agrees(m) == \A i \in 1..Len(TableOf(stream, j)) : TableOf(stream, m)[i] = TableOf(stream, j)[i]
           I == {d \in 0..k - j : Agrees(j + d) }
<1>1. 0 \in I /\ k - j \in Nat
  BY <1>0
<1>2. ASSUME NEW m \in j..Len(stream)
      PROVE  /\ Len(TableOf(stream, j)) \in Nat /\ Len(TableOf(stream, m)) \in Nat
             /\ Len(TableOf(stream, j)) <= Len(TableOf(stream, m))
             /\ TableOf(stream, m) \in Seq(S)
  <2>1. PICK a, b, l : /\ a = j + 1 /\ b = m + 1 /\ l = Len(stream) /\ a \in 1..l + 1 /\ b \in a..l + 1
                       /\ b - a \in Nat /\ m \in 0..l /\ j \in 0..l
    BY <1>0
  <2>2. IndexOf(stream, a) + (b - a) <= IndexOf(stream, b) /\ IndexOf(stream, a) \in Nat /\ IndexOf(stream, b) \in Nat
    BY <2>1, IndexGrows
  <2>3. IndexOf(stream, j + 1) \in Nat /\ IndexOf(stream, m + 1) \in Nat /\ IndexOf(stream, j + 1) <= IndexOf(stream, m + 1)
    BY <2>1, <2>2
  <2>4. Len(TableOf(stream, j)) = IndexOf(stream, j + 1) /\ Len(TableOf(stream, m)) = IndexOf(stream, m + 1)
    BY <2>1, TablePlaces
  <2>5. QED
    BY <2>1, <2>2, <2>3, <2>4, TableNext
<1>3. ASSUME NEW d \in 1..k - j, d - 1 \in I PROVE d \in I
  <2>1. PICK m \in 1..Len(stream) : m = j + d /\ m - 1 = j + (d - 1) /\ m - 1 \in j..Len(stream)
    <3>1. j + d \in 1..Len(stream) /\ j + d - 1 = j + (d - 1) /\ j + d - 1 \in j..Len(stream)
      BY <1>0
    <3>2. QED
      BY <3>1
  <2>2. TableOf(stream, m) = TableOf(stream, m - 1) \o Pushed(stream[m])
    BY TableNext
  <2>3. /\ Len(TableOf(stream, j)) \in Nat /\ Len(TableOf(stream, m - 1)) \in Nat
        /\ Len(TableOf(stream, j)) <= Len(TableOf(stream, m - 1))
        /\ TableOf(stream, m - 1) \in Seq(S)
    BY <1>2, <2>1
  <2>4. Pushed(stream[m]) \in Seq(S) /\ Len(Pushed(stream[m])) \in 1..2
    <3>1. stream[m] \in S
      BY ElementOfSeq
    <3>2. QED
      BY <3>1, PushedLen, PushedEntry
  <2>5. \A i \in 1..Len(TableOf(stream, m - 1)) : TableOf(stream, m)[i] = TableOf(stream, m - 1)[i]
    <3>1. PICK l, r : /\ l = Len(TableOf(stream, m - 1)) /\ r = Len(Pushed(stream[m])) /\ l \in Nat /\ r \in Nat
      BY <2>3, <2>4, LenProperties
    <3>2. \A i \in 1..l + r : TableOf(stream, m)[i] = IF i <= l THEN TableOf(stream, m - 1)[i] ELSE Pushed(stream[m])[i - l]
      BY <2>2, <2>3, <2>4, <3>1, ConcatProperties
    <3>3. QED
      BY <3>1, <3>2
  <2>6. Agrees(m - 1)
    BY <1>3, <2>1
  <2>7. Agrees(m)
    BY <2>3, <2>5, <2>6
  <2>8. QED
    BY <2>1, <2>7
<1>4. \A d \in 0..k - j : d \in I
  <2> HIDE DEF I
  <2> QED BY <1>1, <1>3, Induction
<1>5. Agrees(k)
  <2>1. k - j \in 0..k - j /\ j + (k - j) = k
    BY <1>0
  <2>2. QED
    BY <1>4, <2>1
<1>6. PICK s, t, l : /\ s = TableOf(stream, j) /\ t = TableOf(stream, k) /\ l = Len(s)
  OBVIOUS
<1>7. s \in Seq(S) /\ t \in Seq(S) /\ l \in Nat /\ l <= Len(t) /\ \A i \in 1..l : t[i] = s[i]
  BY <1>0, <1>2, <1>5, <1>6
<1>8. SubSeq(s, 1, l) = SubSeq(t, 1, l)
  BY <1>7
<1>9. QED
  BY <1>6, <1>7, <1>8 DEF IsPrefix

(* What is written for one more entry.                                     *)
LEMMA WrittenAppend ==
    ASSUME NEW S, NEW s \in Seq(S), NEW e \in S
    PROVE  Written(Append(s, e)) = IF e = Unusable THEN Written(s) ELSE Append(Written(s), e)
<1>1. PICK n, more : /\ n \in Nat /\ n = Len(s) /\ more = Append(s, e) /\ Len(more) = n + 1
                     /\ more \in Seq(S) /\ more[n + 1] = e /\ \A i \in 1..n : more[i] = s[i]
  <2>1. PICK l, t : Longer(S, s, e, l, t)
    BY Appended
  <2>2. QED
    BY <2>1 DEF Longer
<1>2. PICK f : /\ f[0] = <<>> /\ Written(s) = f[n]
               /\ \A i \in 1..n : f[i] = IF s[i] = Unusable THEN f[i - 1] ELSE Append(f[i - 1], s[i])
  BY <1>1, WrittenSteps
<1>3. PICK g : /\ g[0] = <<>> /\ Written(more) = g[Len(more)]
               /\ \A i \in 1..Len(more) : g[i] = IF more[i] = Unusable THEN g[i - 1] ELSE Append(g[i - 1], more[i])
  <2>1. more \in Seq(S)
    BY <1>1
  <2>2. QED
    BY <2>1, WrittenSteps
<1>4. Alike(n, f, g)
  BY <1>1, <1>2, <1>3 DEF Alike
<1>5. \A i \in 0..n : f[i] = g[i]
  BY <1>4, SameSteps
<1>6. f[n] = g[n] /\ n + 1 \in 1..n + 1 /\ n + 1 - 1 = n
  BY <1>1, <1>5
<1>7. g[n + 1] = IF more[n + 1] = Unusable THEN g[n] ELSE Append(g[n], more[n + 1])
  BY <1>1, <1>3, <1>6
<1>8. QED
  BY <1>1, <1>2, <1>3, <1>6, <1>7

(* What is written of a table is what was read.                            *)
LEMMA WrittenTable ==
    ASSUME NEW S, NEW stream \in Seq(S), Unusable \in S, NEW k \in 0..Len(stream),
           \A n \in 1..Len(stream) : stream[n] # Unusable
    PROVE  Written(TableOf(stream, k)) = SubSeq(stream, 1, k)
<1>0. Len(stream) \in Nat
  BY LenProperties
<1> DEFINE I == {m \in 0..Len(stream) : Written(TableOf(stream, m)) = SubSeq(stream, 1, m)}
<1>1. 0 \in I
  <2>1. <<>> \in Seq(S) /\ Len(<<>>) = 0 /\ Append(<<>>, Unusable) = <<Unusable>>
    OBVIOUS
  <2>2. Written(<<>>) = <<>>
    BY <2>1, WrittenSteps
  <2>3. Written(<<Unusable>>) = <<>>
    BY <2>1, <2>2, WrittenAppend
  <2>4. SubSeq(stream, 1, 0) = <<>>
    BY SubSeqEmpty
  <2>5. 0 \in 0..Len(stream)
    BY <1>0
  <2>6. QED
    BY <2>3, <2>4, <2>5, TableNext
<1>2. ASSUME NEW m \in 1..Len(stream), m - 1 \in I PROVE m \in I
  <2>1. PICK old, e : old = TableOf(stream, m - 1) /\ e = stream[m]
    OBVIOUS
  <2>2. old \in Seq(S) /\ e \in S /\ TableOf(stream, m) = old \o Pushed(e)
    <3>1. m - 1 \in 0..Len(stream)
      BY <1>0
    <3>2. QED
      BY <2>1, <3>1, TableNext, ElementOfSeq
  <2>3. Written(old) = SubSeq(stream, 1, m - 1)
    BY <1>2, <2>1
  <2>4. Append(old, e) \in Seq(S) /\ Append(old, e) = old \o <<e>>
    BY <2>2, AppendProperties, AppendIsConcat
  <2>5. Written(Append(old, e)) = Append(SubSeq(stream, 1, m - 1), e)
    <3>1. e # Unusable
      BY <2>1
    <3>2. QED
      BY <2>2, <2>3, <3>1, WrittenAppend
  <2>6. Written(old \o Pushed(e)) = Written(Append(old, e))
    <3>1. CASE TakesTwo(e)
      <4>1. Pushed(e) = <<e, Unusable>>
        BY <3>1 DEF Pushed
      <4>2. old \o <<e, Unusable>> = Append(Append(old, e), Unusable)
        BY <2>2
      <4>3. QED
        BY <2>4, <4>1, <4>2, WrittenAppend
    <3>2. CASE ~TakesTwo(e)
      BY <2>4, <3>2 DEF Pushed
    <3>3. QED
      BY <3>1, <3>2
  <2>7. Append(SubSeq(stream, 1, m - 1), e) = SubSeq(stream, 1, m)
    <3>1. \A i \in 1..m - 1 : stream[i] \in S
      BY <1>0, ElementOfSeq
    <3>2. SubSeq(stream, 1, m - 1) \in Seq(S)
      BY <3>1, SubSeqProperties
    <3>3. 1 \in 1..Len(stream) /\ m \in 1..Len(stream)
      BY <1>0
    <3>4. SubSeq(stream, 1, m) = SubSeq(stream, 1, m - 1) \o <<stream[m]>>
      BY <3>3, SubSeqRecursiveSecond
    <3>5. QED
      BY <2>1, <2>2, <3>2, <3>4, AppendIsConcat
  <2>8. m \in 0..Len(stream)
    BY <1>0
  <2>9. QED
    BY <2>2, <2>5, <2>6, <2>7, <2>8
<1>3. \A m \in 0..Len(stream) : m \in I
  <2> HIDE DEF I
  <2> QED BY <1>0, <1>1, <1>2, Induction
<1>4. QED
  BY <1>3
-----------------------------------------------------------------------------
(* Sequences whose elements are not known. *)

(* A sequence is one of its own elements, and of any set that has these.   *)
LEMMA OwnElements ==
    ASSUME NEW S, NEW s \in Seq(S)
    PROVE  s \in Seq(ToSet(s))
<1>1. Len(s) \in Nat /\ s \in [1..Len(s) -> S] /\ DOMAIN s = 1..Len(s)
  BY LenProperties
<1>2. s \in [1..Len(s) -> ToSet(s)]
  BY <1>1 DEF ToSet
<1>3. QED
  BY <1>1, <1>2, SeqDef

(* One more element at the end.                                            *)
LEMMA AppendOwn ==
    ASSUME NEW s, s \in Seq(ToSet(s)), NEW e
    PROVE  /\ Append(s, e) \in Seq(ToSet(Append(s, e)))
           /\ Len(Append(s, e)) = Len(s) + 1 /\ Len(s) \in Nat
           /\ \A i \in 1..Len(s) : Append(s, e)[i] = s[i]
           /\ Append(s, e)[Len(s) + 1] = e
<1> DEFINE S == ToSet(s) \cup {e}
<1>1. s \in Seq(S) /\ e \in S
  BY SeqMonotonic
<1>2. /\ Append(s, e) \in Seq(S)
      /\ Len(Append(s, e)) = Len(s) + 1
      /\ \A i \in 1..Len(s) : Append(s, e)[i] = s[i]
      /\ Append(s, e)[Len(s) + 1] = e
  BY <1>1, AppendProperties
<1>3. Len(s) \in Nat
  BY <1>1, LenProperties
<1>4. QED
  BY <1>2, <1>3, OwnElements

-----------------------------------------------------------------------------
(* What translating an entry keeps. *)

(* Checks and translation depend on the class as it was parsed alone.      *)
LEMMA SameLinks ==
    ASSUME UNCHANGED <<pool, classVars>>
    PROVE  \A e : Links(e)' = Links(e) /\ Linked(e)' = Linked(e)
BY DEF classVars, Links, Linked, LinkedArray, LinkedMember, Member, SelectInSeq, OwnMethods, MemberGood,
       IsUtf8, IsClass, At, Text

(* Names and types, and the text they refer to, are there again. *)
LEMMA KeptTags ==
    ASSUME NEW e, e.tag \in {"Utf8", "NameAndType"}
    PROVE  Linked(e) = e
BY DEF Linked, Kept

(* An entry that still has the tag of one that refers to others is the one *)
(* of the table.                                                           *)
LEMMA ReferringTags ==
    ASSUME NEW e, Linked(e).tag \in {"Class", "Methodref", "Fieldref"}
    PROVE  Linked(e) = e
BY DEF Linked, Kept, LinkedArray, LinkedMember, Entry, Unusable

(* A ClassArray comes from an array class of objects.                      *)
LEMMA ClassArrayTags ==
    ASSUME NEW e, Linked(e).tag = "ClassArray"
    PROVE  /\ e.tag = "Class" /\ IsArrayName(Text(e.at[1]))
           /\ Linked(e).at[1] = e.at[1]
           /\ ArrayClass(Text(e.at[1])).element.kind = "object"
<1>1. e.tag = "Class" /\ IsArrayName(Text(e.at[1])) /\ Linked(e) = LinkedArray(e)
  BY DEF Linked, Kept, LinkedMember, Entry, Unusable
<1>2. QED
  BY <1>1 DEF LinkedArray, Entry

-----------------------------------------------------------------------------
(* The lookups in a linked class. *)

(* Every index, used or not, stands for the translation of what the table  *)
(* has there, and that was checked.                                        *)
LEMMA EntryIsLinked ==
    ASSUME TableTyped, EntriesExact, StagesExact, status = "linked", NEW i
    PROVE  GetEntry(i) = Linked(At(i)) /\ Links(At(i))
<1>1. Len(entries) = Len(pool) /\ DOMAIN pool = 1..Len(pool) /\ DOMAIN entries = 1..Len(entries)
  BY LenProperties DEF TableTyped, EntriesExact, StagesExact
<1>2. CASE i + 1 \in DOMAIN pool
  BY <1>1, <1>2 DEF EntriesExact, GetEntry, At
<1>3. CASE i + 1 \notin DOMAIN pool
  <2>1. GetEntry(i) = Unusable /\ At(i) = Unusable
    BY <1>1, <1>3 DEF GetEntry, At
  <2>2. QED
    BY <2>1 DEF Linked, Links, Unusable, Entry, Kept
<1>4. QED
  BY <1>2, <1>3

(* get_class: the name of a class is Utf8.                                 *)
LEMMA ClassAnswers ==
    ASSUME TableTyped, EntriesExact, StagesExact, status = "linked", NEW i
    PROVE  GetClass(i).is \in {"answer", "error"}
<1>1. CASE GetEntry(i).tag # "Class"
  BY <1>1 DEF GetClass, InvalidConstantPoolEntry
<1>2. CASE GetEntry(i).tag = "Class"
  <2>1. GetEntry(i) = At(i) /\ Links(At(i)) /\ At(i).tag = "Class"
    BY <1>2, EntryIsLinked, ReferringTags
  <2>2. At(At(i).at[1]).tag = "Utf8"
    BY <2>1 DEF Links, IsUtf8
  <2>3. GetEntry(GetEntry(i).at[1]).tag = "Utf8"
    BY <2>1, <2>2, EntryIsLinked, KeptTags
  <2>4. QED
    BY <1>2, <2>3 DEF GetClass, Answer
<1>3. QED
  BY <1>1, <1>2

(* get_class_or_array_by_ref: the name of a ClassArray is Utf8 and is that *)
(* of an array of objects.                                                 *)
LEMMA ClassOrArrayAnswers ==
    ASSUME TableTyped, EntriesExact, StagesExact, status = "linked", NEW i
    PROVE  GetClassOrArray(i).is \in {"answer", "error"}
<1>1. CASE GetEntry(i).tag = "PrimitiveArray"
  BY <1>1 DEF GetClassOrArray, Answer
<1>2. CASE GetEntry(i).tag = "ClassArray"
  <2>1. /\ At(i).tag = "Class" /\ Links(At(i))
        /\ GetEntry(i).at[1] = At(i).at[1]
        /\ ArrayClass(Text(At(i).at[1])).element.kind = "object"
    BY <1>2, EntryIsLinked, ClassArrayTags
  <2>2. At(At(i).at[1]).tag = "Utf8"
    BY <2>1 DEF Links, IsUtf8
  <2>3. GetEntry(At(i).at[1]) = At(At(i).at[1])
    BY <2>2, EntryIsLinked, KeptTags
  <2>4. QED
    BY <1>2, <2>1, <2>2, <2>3 DEF GetClassOrArray, Answer, Text
<1>3. CASE GetEntry(i).tag \notin {"PrimitiveArray", "ClassArray"}
  BY <1>3, ClassAnswers DEF GetClassOrArray
<1>4. QED
  BY <1>1, <1>2, <1>3

(* get_name_and_type, and the class after it.                              *)
LEMMA MemberAnswers ==
    ASSUME TableTyped, EntriesExact, StagesExact, status = "linked",
           NEW i, NEW tag \in {"Methodref", "Fieldref"}
    PROVE  GetMember(i, tag).is \in {"answer", "error"}
<1>1. CASE GetEntry(i).tag # tag
  BY <1>1 DEF GetMember, InvalidConstantPoolEntry
<1>2. CASE GetEntry(i).tag = tag
  <2>1. GetEntry(i) = At(i) /\ Links(At(i)) /\ At(i).tag \in {"Methodref", "Fieldref"}
    BY <1>2, EntryIsLinked, ReferringTags
  <2>2. At(At(i).at[2]).tag = "NameAndType" /\ \A n \in 1..2 : At(At(At(i).at[2]).at[n]).tag = "Utf8"
    BY <2>1 DEF Links, MemberGood, IsUtf8
  <2>3. GetEntry(GetEntry(i).at[2]) = At(At(i).at[2])
    BY <2>1, <2>2, EntryIsLinked, KeptTags
  <2>4. \A n \in 1..2 : GetEntry(GetEntry(GetEntry(i).at[2]).at[n]).tag = "Utf8"
    BY <2>2, <2>3, EntryIsLinked, KeptTags
  <2>5. GetClass(GetEntry(i).at[1]).is \in {"answer", "error"}
    BY ClassAnswers
  <2>6. QED
    BY <1>2, <2>2, <2>3, <2>4, <2>5 DEF GetMember, Answer
<1>3. QED
  BY <1>1, <1>2

(* No instruction makes a lookup panic.                                    *)
LEMMA LookUpAnswers ==
    ASSUME TableTyped, EntriesExact, StagesExact, status = "linked", NEW i,
           NEW op \in {"ldc", "ldc2_w", "new", "anewarray", "multianewarray", "invoke", "field"}
    PROVE  LookUp(op, i).is \in {"answer", "error"}
<1>1. CASE op \in {"ldc", "ldc2_w"}
  BY <1>1 DEF LookUp, GetConstant, Answer, InvalidConstantPoolEntry
<1>2. CASE op \in {"new", "anewarray", "multianewarray"}
  BY <1>2, ClassAnswers, ClassOrArrayAnswers DEF LookUp
<1>3. CASE op = "invoke"
  <2>1. GetMethod(i).is \in {"answer", "error"}
    BY MemberAnswers DEF GetMethod, Own, Answer
  <2>2. QED
    BY <1>3, <2>1 DEF LookUp
<1>4. CASE op = "field"
  <2>1. GetField(i).is \in {"answer", "error"}
    BY MemberAnswers DEF GetField, Own, Answer
  <2>2. QED
    BY <1>4, <2>1 DEF LookUp
<1>5. QED
  BY <1>1, <1>2, <1>3, <1>4

-----------------------------------------------------------------------------
(* The inductive invariant. *)

(* A class before anything has been read of its file.                      *)
LEMMA InitIInv == Init => IInv
<1> SUFFICES ASSUME Init PROVE IInv
  OBVIOUS
<1>1. TableTyped
  <2>1. file \in Files /\ input = file.stream /\ pool = <<Unusable>>
    BY DEF Init, PoolInit
  <2>2. file.stream \in Seq(ToSet(file.stream))
    BY <2>1, FileAssumption
  <2>3. input \in Seq(Constants)
    BY <2>1, <2>2, SeqMonotonic DEF Constants
  <2>4. pool \in Seq(Constants) /\ pool # <<>>
    BY <2>1 DEF Constants
  <2>5. QED
    BY <2>3, <2>4 DEF TableTyped
<1>2. EntriesExact
  BY EmptySeq DEF Init, EntriesExact
<1>3. StagesExact /\ NoLookupPanics
  BY DEF Init, PoolInit, StagesExact, NoLookupPanics
<1>4. QED
  BY <1>1, <1>2, <1>3 DEF IInv

(* As long as no entry is translated there is nothing to know of them.     *)
LEMMA NoEntries ==
    ASSUME entries = <<>>, UNCHANGED entries
    PROVE  EntriesExact'
BY EmptySeq DEF EntriesExact

(* The table of the class file is read, or written and read again.         *)
LEMMA PoolStep ==
    ASSUME IInv, PoolNext, UNCHANGED <<classVars, entries, runVars>>
    PROVE  IInv'
<1>1. status \in {"decoding", "decoded"} /\ UNCHANGED <<file, run>>
  BY DEF PoolNext, ReadFails, ReadEntry, PoolRead, WriteAndReread, Reading, runVars
<1>2. entries = <<>> /\ run = "none"
  BY <1>1 DEF IInv, StagesExact
<1>3. EntriesExact' /\ NoLookupPanics'
  BY <1>1, <1>2, NoEntries DEF IInv, NoLookupPanics
<1>4. status' \in {"failed", "panicked", "decoding", "decoded"}
  BY <1>1 DEF PoolNext, ReadFails, ReadEntry, PoolRead, WriteAndReread, Reading
<1>5. StagesExact'
  BY <1>1, <1>2, <1>4 DEF StagesExact
<1>6. Constants' = Constants
  BY <1>1 DEF Constants
<1>7. TableTyped'
  <2>1. CASE ReadFails \/ PoolRead
    BY <1>6, <2>1 DEF IInv, TableTyped, ReadFails, PoolRead
  <2>2. CASE ReadEntry
    <3> SUFFICES ASSUME original = NoFile
                 PROVE  input' \in Seq(Constants) /\ pool' \in Seq(Constants) \ {<<>>}
      BY <1>6, <2>2 DEF TableTyped, ReadEntry
    <3>1. input \in Seq(Constants) /\ input # <<>> /\ pool \in Seq(Constants) /\ pool # <<>>
      BY <2>2 DEF IInv, TableTyped, ReadEntry, Ready
    <3>2. Head(input) \in Constants /\ Tail(input) \in Seq(Constants)
      BY <3>1, HeadTailProperties
    <3>3. Unusable \in Constants
      BY DEF Constants
    <3>4. Pushed(Head(input)) \in Seq(Constants) /\ Pushed(Head(input)) # <<>>
      BY <3>2, <3>3 DEF Pushed
    <3>5. pool' = pool \o Pushed(Head(input)) /\ input' = Tail(input)
      BY <2>2 DEF ReadEntry
    <3>6. pool' \in Seq(Constants) /\ pool' # <<>>
      BY <3>1, <3>4, <3>5, ConcatProperties, ConcatEqualIffEmpty
    <3>7. QED
      BY <3>2, <3>5, <3>6
  <2>3. CASE WriteAndReread
    <3>1. pool # <<>> /\ original' = [pool |-> pool, rest |-> input]
      BY <2>3 DEF IInv, TableTyped, WriteAndReread
    <3>2. original'.pool # NoFile.pool
      BY <3>1 DEF NoFile
    <3>3. QED
      BY <3>2 DEF TableTyped
  <2>4. QED
    BY <2>1, <2>2, <2>3 DEF PoolNext
<1>8. QED
  BY <1>3, <1>5, <1>7 DEF IInv

(* The rest of the class file is parsed.                                   *)
LEMMA ClassStep ==
    ASSUME IInv, ClassNext, UNCHANGED <<entries, runVars>>
    PROVE  IInv'
<1>1. /\ UNCHANGED <<file, input, pool, original, run, entries>>
      /\ status \in {"decoded", "read", "parsing"}
      /\ status' \in {"read", "parsing", "linking", "rejected"}
      /\ original = NoFile
  BY DEF ClassNext, ReadBody, ParseNames, ParseAttribute, ParseMethod, ParseField, Parsed, Reject,
         AttributesParsed, MethodsParsed, runVars, IInv, StagesExact
<1>2. entries = <<>> /\ run = "none"
  BY <1>1 DEF IInv, StagesExact
<1>3. EntriesExact' /\ NoLookupPanics'
  BY <1>1, <1>2, NoEntries DEF IInv, NoLookupPanics
<1>4. TableTyped' /\ StagesExact'
  BY <1>1, <1>2 DEF IInv, TableTyped, StagesExact, Constants
<1>5. QED
  BY <1>3, <1>4 DEF IInv

(* An entry passes its checks and is translated, or the class is rejected. *)
LEMMA LinkEntryStep ==
    ASSUME IInv, LinkEntry, UNCHANGED runVars
    PROVE  IInv'
<1>1. /\ status = "linking" /\ original = NoFile /\ Len(entries) < Len(pool)
      /\ UNCHANGED <<file, input, pool, original, classVars, run>>
  BY DEF LinkEntry, runVars, IInv, StagesExact
<1>2. run = "none"
  BY <1>1 DEF IInv, StagesExact
<1>3. TableTyped' /\ NoLookupPanics'
  BY <1>1 DEF IInv, TableTyped, Constants, NoLookupPanics
<1>4. \A e : Links(e)' = Links(e) /\ Linked(e)' = Linked(e)
  BY <1>1, SameLinks
<1>5. CASE ~Links(pool[Len(entries) + 1])
  <2>1. status' = "rejected" /\ entries' = entries
    BY <1>5 DEF LinkEntry
  <2>2. EntriesExact'
    BY <1>1, <1>4, <2>1 DEF IInv, EntriesExact
  <2>3. StagesExact'
    BY <1>1, <1>2, <2>1 DEF StagesExact
  <2>4. QED
    BY <1>3, <2>2, <2>3 DEF IInv
<1>6. CASE Links(pool[Len(entries) + 1])
  <2>1. status' = "linking" /\ entries' = Append(entries, Linked(pool[Len(entries) + 1]))
    BY <1>1, <1>6 DEF LinkEntry
  <2>2. /\ entries' \in Seq(ToSet(entries'))
        /\ Len(entries') = Len(entries) + 1 /\ Len(entries) \in Nat
        /\ \A i \in 1..Len(entries) : entries'[i] = entries[i]
        /\ entries'[Len(entries) + 1] = Linked(pool[Len(entries) + 1])
    BY <2>1, AppendOwn DEF IInv, EntriesExact
  <2>3. Len(pool) \in Nat
    BY <1>1, LenProperties DEF IInv, TableTyped
  <2>4. EntriesExact'
    <3> SUFFICES ASSUME NEW i \in 1..Len(entries')
                 PROVE  i <= Len(pool') /\ Links(pool[i])' /\ entries'[i] = Linked(pool[i])'
      BY <2>2 DEF EntriesExact
    <3>1. CASE i \in 1..Len(entries)
      BY <1>1, <1>4, <2>2, <3>1 DEF IInv, EntriesExact
    <3>2. CASE i = Len(entries) + 1
      BY <1>1, <1>4, <1>6, <2>2, <2>3, <3>2
    <3>3. QED
      BY <2>2, <3>1, <3>2
  <2>5. StagesExact'
    BY <1>1, <1>2, <2>1 DEF StagesExact
  <2>6. QED
    BY <1>3, <2>4, <2>5 DEF IInv
<1>7. QED
  BY <1>5, <1>6

(* Steps that leave the table and its translation alone, in a class that   *)
(* is linked, or is from now on.                                           *)
LEMMA LinkedStep ==
    ASSUME IInv, UNCHANGED <<file, input, pool, original, classVars, entries>>,
           status' = "linked", Len(entries) = Len(pool), original = NoFile, run' # "panic"
    PROVE  IInv'
<1>1. \A e : Links(e)' = Links(e) /\ Linked(e)' = Linked(e)
  BY SameLinks
<1>2. EntriesExact' /\ TableTyped'
  BY <1>1 DEF IInv, EntriesExact, TableTyped, Constants
<1>3. StagesExact' /\ NoLookupPanics'
  BY DEF StagesExact, NoLookupPanics
<1>4. QED
  BY <1>2, <1>3 DEF IInv

(* An instruction is executed: a lookup has an answer or an error.         *)
LEMMA RunStep ==
    ASSUME IInv, RunCode \/ RunNext
    PROVE  IInv'
<1>1. status = "linked"
  BY DEF RunCode, RunNext, Plain, Branch, Return, OutOfCode, UseConstant, Runs, IInv, StagesExact
<1>2. UNCHANGED loadVars
  BY DEF RunCode, RunNext, Plain, Branch, Return, OutOfCode, UseConstant
<1>3. Len(entries) = Len(pool) /\ original = NoFile
  BY <1>1 DEF IInv, StagesExact
<1>4. run' # "panic"
  <2>1. CASE RunCode
    BY <2>1 DEF RunCode
  <2>2. CASE Plain \/ Branch
    BY <2>2 DEF Plain, Branch, GoOn, Runs
  <2>3. CASE Return \/ OutOfCode
    BY <2>3 DEF Return, OutOfCode, Stop
  <2>4. CASE UseConstant
    <3>1. /\ run = "running"
          /\ Fetched.op \in {"ldc", "ldc2_w", "new", "anewarray", "multianewarray", "invoke", "field"}
      BY <2>4 DEF UseConstant, Runs
    <3>2. LookUp(Fetched.op, Fetched.operands[1]).is \in {"answer", "error"}
      BY <1>1, <3>1, LookUpAnswers DEF IInv
    <3>3. QED
      BY <2>4, <3>1, <3>2 DEF UseConstant, GoOn, Stop
  <2>5. QED
    BY <2>1, <2>2, <2>3, <2>4 DEF RunNext
<1>5. QED
  BY <1>1, <1>2, <1>3, <1>4, LinkedStep DEF loadVars, poolVars

(* The invariant is inductive.                                             *)
LEMMA NextIInv == IInv /\ [Next]_vars => IInv'
<1> SUFFICES ASSUME IInv, [Next]_vars PROVE IInv'
  OBVIOUS
<1>1. CASE UNCHANGED vars
  <2>1. UNCHANGED <<file, input, pool, original, classVars, entries, status, run>>
    BY <1>1 DEF vars, loadVars, poolVars, runVars
  <2>2. \A e : Links(e)' = Links(e) /\ Linked(e)' = Linked(e)
    BY <2>1, SameLinks
  <2>3. QED
    BY <2>1, <2>2 DEF IInv, TableTyped, Constants, EntriesExact, StagesExact, NoLookupPanics
<1>2. CASE Linking /\ UNCHANGED runVars
  <2>1. /\ Len(entries) = Len(pool) /\ status' = "linked" /\ status = "linking" /\ run' = run
        /\ UNCHANGED <<file, input, pool, original, classVars, entries>>
    BY <1>2 DEF Linking, runVars
  <2>2. original = NoFile /\ run = "none"
    BY <2>1 DEF IInv, StagesExact
  <2>3. QED
    BY <2>1, <2>2, LinkedStep
<1>3. QED
  BY <1>1, <1>2, PoolStep, ClassStep, LinkEntryStep, RunStep DEF Next, LinkNext

-----------------------------------------------------------------------------
(* Theorems. *)

(* What from_unresolved checked and translated stays true of the run-time  *)
(* constant pool for as long as the class is in use.                       *)
THEOREM Invariance == Spec => []IInv
BY InitIInv, NextIInv, PTL DEF Spec

(* Whatever the class file holds and the code asks for: no lookup in a     *)
(* linked class runs into an expect or an unreachable.                     *)
THEOREM LookupsNeverPanic == Spec => []NoLookupPanics
<1>1. IInv => NoLookupPanics
  BY DEF IInv
<1>2. QED
  BY <1>1, Invariance, PTL
-----------------------------------------------------------------------------
(* Reading the table. *)

(* What the files are known to hold.                                       *)
LEMMA FileFacts ==
    ASSUME file \in Files
    PROVE  /\ file.stream \in Seq(Constants) /\ Len(file.stream) \in Nat
           /\ DOMAIN file.stream = 1..Len(file.stream)
           /\ Unusable \in Constants
           /\ \A n \in 1..Len(file.stream) : file.stream[n] # Unusable
           /\ file.count \in Nat /\ file.count < IndexMod
           /\ IndexMod \in Nat /\ IndexMod > 2
<1>1. file.stream \in Seq(ToSet(file.stream))
  BY FileAssumption
<1>2. Unusable \in Constants /\ ToSet(file.stream) \subseteq Constants
  BY DEF Constants
<1>3. file.stream \in Seq(Constants)
  BY <1>1, <1>2, SeqMonotonic
<1>4. Len(file.stream) \in Nat /\ DOMAIN file.stream = 1..Len(file.stream)
  BY <1>3, LenProperties
<1>5. \A n \in 1..Len(file.stream) : file.stream[n] # Unusable
  <2>1. \A n \in DOMAIN file.stream : file.stream[n].tag # "unusable"
    BY FileAssumption
  <2>2. Unusable.tag = "unusable"
    BY DEF Unusable, Entry
  <2>3. QED
    BY <1>4, <2>1, <2>2
<1>6. file.count \in 0..IndexMod - 1
  BY FileAssumption
<1>7. QED
  BY <1>2, <1>3, <1>4, <1>5, <1>6, IndexAssumption

(* What is left of the input.                                              *)
LEMMA InputLeft ==
    ASSUME TableExact
    PROVE  /\ Entries \in Nat /\ Entries <= Len(file.stream)
           /\ input = <<>> <=> Entries = Len(file.stream)
           /\ input # <<>> =>
                 /\ Entries + 1 \in 1..Len(file.stream)
                 /\ Head(input) = file.stream[Entries + 1]
                 /\ Tail(input) = SubSeq(file.stream, Entries + 2, Len(file.stream))
                 /\ Len(file.stream) - Len(Tail(input)) = Entries + 1
<1>0. PICK l, k, s : l = Len(file.stream) /\ k = Entries /\ s = file.stream
  OBVIOUS
<1>1. l \in Nat /\ k \in Nat /\ k <= l /\ input = SubSeq(s, k + 1, l) /\ s \in Seq(Constants)
  BY <1>0, FileFacts DEF TableExact
<1>2. CASE k = l
  <2>1. input = <<>>
    BY <1>1, <1>2, SubSeqEmpty
  <2>2. QED
    BY <1>0, <1>1, <1>2, <2>1
<1>3. CASE k # l
  <2>1. PICK m : m = k + 1 /\ m \in 1..l /\ l \in m..l /\ k + 2 = m + 1
    BY <1>1, <1>3
  <2>2. /\ \A i \in m..l : s[i] \in Constants
        /\ \A i \in m + 1..l : s[i] \in Constants
    BY <1>0, <1>1, <2>1, ElementOfSeq
  <2>3. input = SubSeq(s, m, l)
    BY <1>1, <2>1
  <2>4. Len(input) = l - m + 1 /\ input \in Seq(Constants)
    BY <1>1, <2>1, <2>2, <2>3, SubSeqProperties
  <2>5. Head(input) = s[m] /\ Tail(input) = SubSeq(s, m + 1, l)
    BY <1>0, <1>1, <2>1, <2>3, HeadTailOfSubSeq
  <2>6. Len(Tail(input)) = l - m
    <3>1. Len(SubSeq(s, m + 1, l)) = IF m + 1 <= l THEN l - (m + 1) + 1 ELSE 0
      BY <1>1, <2>1, <2>2, SubSeqProperties
    <3>2. (IF m + 1 <= l THEN l - (m + 1) + 1 ELSE 0) = l - m
      BY <1>1, <2>1
    <3>3. QED
      BY <2>5, <3>1, <3>2
  <2>7. input # <<>>
    <3>1. Len(input) # 0
      BY <1>1, <2>1, <2>4
    <3>2. QED
      BY <3>1
  <2>8. Len(file.stream) - Len(Tail(input)) = k + 1
    <3>1. l - (l - m) = k + 1
      BY <1>1, <2>1
    <3>2. QED
      BY <1>0, <2>6, <3>1
  <2>9. QED
    BY <1>0, <1>1, <1>3, <2>1, <2>5, <2>7, <2>8
<1>4. QED
  BY <1>2, <1>3

(* As long as the index is below the count, and the count is not above     *)
(* that behind the first n entries, the next of these is read.             *)
LEMMA NextIsThere ==
    ASSUME TableExact, IndexExact, Reading, NEW n \in 0..Len(file.stream), Entries <= n,
           \A i \in 1..n : file.stream[i] # Bad,
           count <= IndexOf(file.stream, n + 1), IndexOf(file.stream, n + 1) < IndexMod, count \in Nat
    PROVE  /\ Entries + 1 <= n
           /\ Ready
           /\ index = IndexOf(file.stream, Entries + 1)
           /\ index + Len(Pushed(Head(input))) < IndexMod
           /\ (index + Len(Pushed(Head(input)))) % IndexMod = index + Len(Pushed(Head(input)))
<1>0. PICK l, k, s : l = Len(file.stream) /\ k = Entries /\ s = file.stream
  OBVIOUS
<1>1. l \in Nat /\ k \in Nat /\ k <= n /\ n <= l /\ s \in Seq(Constants) /\ IndexMod \in Nat
  BY <1>0, FileFacts, InputLeft DEF TableExact
<1>2. PICK x, y, z : /\ x = IndexOf(s, k + 1) /\ y = IndexOf(s, n + 1) /\ z = IndexMod
                     /\ x \in Nat /\ y \in Nat /\ z \in Nat /\ x <= y /\ y < z
  <2>1. PICK a, b : /\ a = k + 1 /\ b = n + 1 /\ a \in 1..l + 1 /\ b \in a..l + 1 /\ b - a \in Nat
    BY <1>1
  <2>2. IndexOf(s, a) + (b - a) <= IndexOf(s, b) /\ IndexOf(s, a) \in Nat /\ IndexOf(s, b) \in Nat
    BY <1>0, <1>1, <2>1, IndexGrows
  <2>3. IndexOf(s, b) < IndexMod
    BY <1>0, <2>1
  <2>4. IndexOf(s, a) <= IndexOf(s, b)
    BY <2>1, <2>2
  <2>5. QED
    BY <1>1, <2>1, <2>2, <2>3, <2>4
<1>3. index = x
  BY <1>0, <1>2 DEF IndexExact, Reading
<1>4. x < y
  BY <1>0, <1>2, <1>3 DEF Reading
<1>5. k # n
  BY <1>2, <1>4
<1>6. PICK m : m = k + 1 /\ m \in 1..l /\ m <= n /\ m + 1 \in 1..l + 1 /\ n + 1 \in m + 1..l + 1
               /\ n + 1 - (m + 1) \in Nat
  BY <1>1, <1>5
<1>7. input # <<>> /\ Head(input) = s[m]
  <2>1. k # l
    BY <1>1, <1>5
  <2>2. QED
    BY <1>0, <1>6, <2>1, InputLeft
<1>8. s[m] # Bad
  BY <1>0, <1>6
<1>9. PICK d : d = Len(Pushed(s[m])) /\ d \in 1..2
  BY PushedLen
<1>10. IndexOf(s, m + 1) = x + d
  BY <1>0, <1>1, <1>2, <1>6, <1>9, IndexNext
<1>11. IndexOf(s, m + 1) + (n + 1 - (m + 1)) <= y
  <2>1. PICK a, b : a = m + 1 /\ b = n + 1 /\ a \in 1..l + 1 /\ b \in a..l + 1
    BY <1>6
  <2>2. IndexOf(s, a) + (b - a) <= IndexOf(s, b)
    BY <1>0, <1>1, <2>1, IndexGrows
  <2>3. QED
    BY <1>2, <2>1, <2>2
<1>12. x + d < z /\ x + d \in Nat
  <2>1. PICK e : e = n + 1 - (m + 1) /\ e \in Nat
    BY <1>6
  <2>2. x + d + e <= y
    BY <1>10, <1>11, <2>1
  <2>3. x \in Nat /\ d \in Nat /\ y \in Nat /\ z \in Nat /\ y < z
    BY <1>2, <1>9
  <2>4. QED
    BY <2>1, <2>2, <2>3
<1>13. (x + d) % z = x + d
  <2>1. PICK t : t = x + d /\ t \in Nat /\ t < z /\ z \in Nat /\ z > 2
    BY <1>2, <1>12, IndexAssumption
  <2>2. t % z = t
    BY SMTT(60), <2>1
  <2>3. QED
    BY <2>1, <2>2
<1>14. QED
  BY <1>0, <1>2, <1>3, <1>6, <1>7, <1>8, <1>9, <1>12, <1>13 DEF Ready

(* Indices below a well formed count, and the entries that may follow.     *)
LEMMA FillsRoom ==
    ASSUME file \in Files, NEW n \in 0..Len(file.stream), Fills(n, file.stream, file.count)
    PROVE  /\ \A i \in 1..n : file.stream[i] # Bad
           /\ IndexOf(file.stream, n + 1) = file.count
           /\ IndexOf(file.stream, n + 1) < IndexMod
           /\ file.count \in Nat
BY FileFacts DEF Fills

(* The end of the table is not the end of a well formed one.               *)
LEMMA AllFilled ==
    ASSUME TableExact, IndexExact, NEW n \in 0..Len(file.stream), Entries <= n, status \in {"decoding", "decoded"},
           index >= count, count = file.count, Fills(n, file.stream, file.count)
    PROVE  Entries = n
<1>0. PICK l, k, s : l = Len(file.stream) /\ k = Entries /\ s = file.stream
  OBVIOUS
<1>1. l \in Nat /\ k \in Nat /\ k <= n /\ n <= l /\ s \in Seq(Constants) /\ IndexMod \in Nat
  BY <1>0, FileFacts, InputLeft DEF TableExact
<1>2. PICK x, y : x = IndexOf(s, k + 1) /\ y = IndexOf(s, n + 1) /\ x \in Nat /\ y \in Nat /\ x + (n - k) <= y
  <2>1. PICK a, b : /\ a = k + 1 /\ b = n + 1 /\ a \in 1..l + 1 /\ b \in a..l + 1 /\ b - a = n - k
    BY <1>1
  <2>2. IndexOf(s, a) + (b - a) <= IndexOf(s, b) /\ IndexOf(s, a) \in Nat /\ IndexOf(s, b) \in Nat
    BY <1>0, <1>1, <2>1, IndexGrows
  <2>3. QED
    BY <2>1, <2>2
<1>3. y = count /\ y < IndexMod
  BY <1>0, <1>2, FillsRoom DEF TableExact
<1>4. x < IndexMod
  BY <1>1, <1>2, <1>3
<1>5. index = x
  BY <1>0, <1>2, <1>4 DEF IndexExact
<1>6. x >= y
  BY <1>3, <1>5
<1>7. k = n
  BY <1>1, <1>2, <1>6
<1>8. QED
  BY <1>0, <1>7

(* What PoolInv says of the entries, on its own.                           *)
LEMMA OriginalRoom ==
    ASSUME TableExact, OriginalExact, original # NoFile, Len(original.pool) < IndexMod
    PROVE  \E k \in 0..Len(file.stream) :
              /\ original.pool = TableOf(file.stream, k)
              /\ Entries <= k
              /\ status \in {"decoding", "decoded"}
              /\ \A n \in 1..k : file.stream[n] # Bad
              /\ IndexOf(file.stream, k + 1) = Len(original.pool)
              /\ IndexOf(file.stream, k + 1) < IndexMod
              /\ count = IndexOf(file.stream, k + 1) - 1
              /\ count \in Nat /\ count <= IndexOf(file.stream, k + 1)
<1>1. PICK k \in 0..Len(file.stream) :
            /\ original.pool = TableOf(file.stream, k)
            /\ \A n \in 1..k : file.stream[n] # Bad
            /\ count = (Len(original.pool) - 1) % IndexMod
            /\ Entries <= k
            /\ status \in {"decoding", "decoded"}
  BY DEF OriginalExact
<1>2. file.stream \in Seq(Constants) /\ Unusable \in Constants /\ Len(file.stream) \in Nat
  BY FileFacts DEF TableExact
<1>3. Len(original.pool) = IndexOf(file.stream, k + 1)
  BY <1>1, <1>2, TablePlaces
<1>4. IndexOf(file.stream, k + 1) \in Nat \ {0}
  <2>1. k + 1 \in 1..Len(file.stream) + 1 /\ k + 1 \in k + 1..Len(file.stream) + 1
    BY <1>2
  <2>2. QED
    BY <1>2, <2>1, IndexGrows
<1>5. PICK c, z : /\ c = Len(original.pool) - 1 /\ z = IndexMod /\ c \in Nat /\ c < z /\ z \in Nat /\ z > 2
                  /\ c <= c + 1 /\ c + 1 = Len(original.pool)
  BY <1>3, <1>4, IndexAssumption
<1>6. c % z = c
  <2>1. c \in Nat /\ c < z /\ z \in Nat /\ z > 2
    BY <1>5
  <2>2. QED
    BY <2>1
<1>7. count = c
  BY <1>1, <1>5, <1>6
<1>8. QED
  BY <1>1, <1>3, <1>5, <1>7

(* Before anything is read.                                                *)
LEMMA InitPool == Init => PoolInv
<1> SUFFICES ASSUME Init PROVE PoolInv
  OBVIOUS
<1>1. /\ file \in Files /\ count = file.count /\ input = file.stream /\ original = NoFile
      /\ pool = <<Unusable>> /\ index = 1 /\ status = "decoding"
  BY DEF Init, PoolInit
<1>2. /\ file.stream \in Seq(Constants) /\ Len(file.stream) \in Nat /\ Unusable \in Constants
  BY <1>1, FileFacts
<1>3. Entries = 0 /\ Entries + 1 = 1
  BY <1>1, <1>2 DEF Entries
<1>4. TableOf(file.stream, 0) = <<Unusable>> /\ IndexOf(file.stream, 1) = 1
  BY <1>2, TableNext, IndexNext
<1>5. SubSeq(file.stream, 1, Len(file.stream)) = file.stream
  BY <1>2, SubSeqFull
<1>6. TableExact
  BY <1>1, <1>2, <1>3, <1>4, <1>5 DEF TableExact
<1>7. IndexExact
  BY <1>1, <1>3, <1>4 DEF IndexExact
<1>8. CountExact
  BY <1>1, <1>2, <1>3 DEF CountExact
<1>9. OriginalExact
  BY <1>1 DEF OriginalExact
<1>10. QED
  BY <1>6, <1>7, <1>8, <1>9 DEF PoolInv

(* The reader fails only in a table that is not well formed.               *)
LEMMA ReadFailsPool ==
    ASSUME PoolInv, ReadFails
    PROVE  PoolInv'
<1>1. /\ UNCHANGED <<file, count, input, pool, index, original>> /\ status = "decoding" /\ status' = "failed"
      /\ Reading /\ ~Ready
  BY DEF ReadFails, Reading
<1>2. TableExact' /\ IndexExact'
  BY <1>1 DEF PoolInv, TableExact, IndexExact, Entries
<1>3. CountExact'
  <2> SUFFICES ASSUME original = NoFile, NEW n \in 0..Len(file.stream), Fills(n, file.stream, file.count)
               PROVE  FALSE
    BY <1>1 DEF PoolInv, CountExact, Entries, Fills
  <2>1. Entries <= n /\ count = file.count
    BY DEF PoolInv, CountExact
  <2>2. /\ \A i \in 1..n : file.stream[i] # Bad
        /\ count <= IndexOf(file.stream, n + 1)
        /\ IndexOf(file.stream, n + 1) < IndexMod
        /\ count \in Nat
    BY <2>1, FillsRoom DEF PoolInv, TableExact
  <2>3. QED
    BY <1>1, <2>1, <2>2, NextIsThere DEF PoolInv
<1>4. OriginalExact'
  <2> SUFFICES ASSUME original # NoFile, Len(original.pool) < IndexMod PROVE FALSE
    BY <1>1 DEF PoolInv, OriginalExact, Entries
  <2>1. PICK k \in 0..Len(file.stream) :
              /\ Entries <= k
              /\ \A i \in 1..k : file.stream[i] # Bad
              /\ IndexOf(file.stream, k + 1) < IndexMod
              /\ count \in Nat /\ count <= IndexOf(file.stream, k + 1)
    BY OriginalRoom DEF PoolInv
  <2>2. QED
    BY <1>1, <2>1, NextIsThere DEF PoolInv
<1>5. QED
  BY <1>2, <1>3, <1>4 DEF PoolInv

(* The end of the table.                                                   *)
LEMMA PoolReadPool ==
    ASSUME PoolInv, PoolRead
    PROVE  PoolInv'
<1>1. /\ UNCHANGED <<file, count, input, pool, index, original>> /\ status = "decoding" /\ status' = "decoded"
      /\ index >= count
  BY DEF PoolRead
<1>2. TableExact' /\ IndexExact'
  BY <1>1 DEF PoolInv, TableExact, IndexExact, Entries
<1>3. CountExact'
  <2> SUFFICES ASSUME original = NoFile, NEW n \in 0..Len(file.stream), Fills(n, file.stream, file.count)
               PROVE  Entries = n
    BY <1>1 DEF PoolInv, CountExact, Entries, Fills
  <2>1. Entries <= n /\ count = file.count
    BY DEF PoolInv, CountExact
  <2>2. QED
    BY <1>1, <2>1, AllFilled DEF PoolInv
<1>4. OriginalExact'
  BY <1>1 DEF PoolInv, OriginalExact, Entries
<1>5. QED
  BY <1>2, <1>3, <1>4 DEF PoolInv

(* An entry is read: the next one of the file.                             *)
LEMMA ReadEntryPool ==
    ASSUME PoolInv, ReadEntry
    PROVE  PoolInv'
<1>0. PICK l, k, s, e, d : /\ l = Len(file.stream) /\ k = Entries /\ s = file.stream /\ e = Head(input)
                           /\ d = Len(Pushed(e)) /\ d \in 1..2
  BY PushedLen
<1>1. /\ UNCHANGED <<file, count, original>> /\ status = "decoding" /\ Reading /\ index < count
      /\ input # <<>> /\ e # Bad
      /\ pool' = pool \o Pushed(e) /\ input' = Tail(input)
      /\ IF OverflowChecks /\ index + d >= IndexMod
         THEN status' = "panicked" /\ index' = index
         ELSE index' = (index + d) % IndexMod /\ status' = status
  BY <1>0 DEF ReadEntry, Reading, Ready
<1>2. /\ s \in Seq(Constants) /\ l \in Nat /\ Unusable \in Constants /\ k \in Nat /\ k + 1 \in 1..l
      /\ e = s[k + 1] /\ Tail(input) = SubSeq(s, k + 2, l) /\ l - Len(Tail(input)) = k + 1
      /\ pool = TableOf(s, k) /\ file \in Files /\ \A n \in 1..k : s[n] # Bad
      /\ IndexMod \in Nat /\ IndexMod > 2
  BY <1>0, <1>1, FileFacts, InputLeft DEF PoolInv, TableExact
<1>3. PICK m : /\ m = k + 1 /\ m \in 1..l /\ m - 1 = k /\ k + 2 = m + 1 /\ m \in 1..l + 1 /\ m + 1 \in m..l + 1
               /\ m + 1 \in 1..l + 1 /\ m \in 0..l
  <2>1. k \in Nat /\ l \in Nat /\ k + 1 \in 1..l
    BY <1>2
  <2>2. QED
    BY <2>1
<1>4. Entries' = m
  BY <1>0, <1>1, <1>2, <1>3 DEF Entries
<1>5. TableExact'
  <2>1. TableOf(s, m) = TableOf(s, k) \o Pushed(e)
    BY <1>0, <1>2, <1>3, TableNext
  <2>2. \A n \in 1..m : s[n] # Bad
    BY <1>1, <1>2, <1>3
  <2>3. QED
    BY <1>0, <1>1, <1>2, <1>3, <1>4, <2>1, <2>2 DEF TableExact
<1>6. PICK x, z : /\ x = IndexOf(s, m) /\ IndexOf(s, m + 1) = x + d /\ x \in Nat /\ z = IndexMod /\ z \in Nat /\ z > 2
  <2>1. IndexOf(s, m) \in Nat
    BY <1>0, <1>2, <1>3, IndexNext
  <2>2. IndexOf(s, m + 1) = IndexOf(s, m) + d
    BY <1>0, <1>2, <1>3, IndexNext
  <2>3. QED
    BY <1>2, <2>1, <2>2
<1>7. index \in Nat /\ (OverflowChecks \/ x < z => index = x)
  BY <1>0, <1>1, <1>3, <1>6 DEF PoolInv, IndexExact
<1>8. ASSUME index' = (index + d) % z, status' = status
      PROVE  index' \in Nat /\ (OverflowChecks \/ x + d < z => index' = x + d)
  <2>1. PICK y : y = index + d /\ y \in Nat
    BY <1>0, <1>7
  <2>2. y % z \in Nat /\ (y < z => y % z = y)
    <3>1. y \in Nat /\ z \in Nat /\ z > 2
      BY <1>6, <2>1
    <3>2. QED
      BY <3>1
  <2>3. ASSUME OverflowChecks \/ x + d < z PROVE y = x + d /\ y < z
    <3>1. d \in Nat /\ x \in Nat /\ z \in Nat
      BY <1>0, <1>6
    <3>2. x + d < z => x < z
      BY <1>0, <3>1
    <3>3. y = x + d
      BY <1>7, <2>1, <2>3, <3>2
    <3>4. CASE OverflowChecks
      <4>1. status' # "panicked"
        BY <1>1, <1>8
      <4>2. ~(y >= z)
        BY <1>1, <1>6, <2>1, <3>4, <4>1
      <4>3. QED
        BY <2>1, <3>1, <3>3, <4>2
    <3>5. QED
      BY <2>3, <3>3, <3>4
  <2>4. QED
    BY <1>8, <2>1, <2>2, <2>3
<1>9. IndexExact'
  <2> SUFFICES ASSUME status' \in {"decoding", "decoded"}
               PROVE  /\ index' \in Nat /\ status' # "decoded"
                      /\ OverflowChecks \/ IndexOf(s, m + 1) < z => index' = IndexOf(s, m + 1)
    BY <1>0, <1>1, <1>4, <1>6 DEF IndexExact
  <2>1. index' = (index + d) % z /\ status' = status
    BY <1>1, <1>6
  <2>2. QED
    BY <1>1, <1>6, <1>8, <2>1
<1>10. CountExact'
  <2> SUFFICES ASSUME original = NoFile PROVE CountExact'
    BY <1>1 DEF CountExact
  <2>1. count = file.count
    BY DEF PoolInv, CountExact
  <2>2. ASSUME NEW n \in 1..m, OverflowChecks \/ IndexOf(s, n) < IndexMod PROVE IndexOf(s, n) < count
    <3>1. CASE n = m
      BY <1>1, <1>6, <1>7, <2>2, <3>1
    <3>2. CASE n # m
      <4>1. n \in 1..k
        BY <1>2, <1>3, <3>2
      <4>2. QED
        BY <1>0, <2>2, <4>1 DEF PoolInv, CountExact
    <3>3. QED
      BY <3>1, <3>2
  <2>3. ASSUME NEW n \in 0..Len(file.stream), Fills(n, file.stream, file.count)
        PROVE  m <= n /\ status' = "decoding"
    <3>1. Entries <= n
      BY <2>3 DEF PoolInv, CountExact
    <3>2. /\ \A i \in 1..n : file.stream[i] # Bad
          /\ count <= IndexOf(file.stream, n + 1)
          /\ IndexOf(file.stream, n + 1) < IndexMod
          /\ count \in Nat
      <4>1. /\ \A i \in 1..n : file.stream[i] # Bad
            /\ IndexOf(file.stream, n + 1) = file.count
            /\ IndexOf(file.stream, n + 1) < IndexMod
            /\ file.count \in Nat
        BY <1>2, <2>3, FillsRoom
      <4>2. file.count <= file.count
        BY <4>1
      <4>3. QED
        BY <2>1, <4>1, <4>2
    <3>3. Entries + 1 <= n /\ index + Len(Pushed(Head(input))) < IndexMod
      BY <1>1, <3>1, <3>2, NextIsThere DEF PoolInv
    <3>4. index + d < z
      BY <1>0, <1>6, <3>3
    <3>5. ~(index + d >= IndexMod)
      BY <1>0, <1>6, <1>7, <3>4
    <3>6. QED
      BY <1>0, <1>1, <1>3, <3>3, <3>5
  <2>4. QED
    BY <1>0, <1>1, <1>4, <2>1, <2>2, <2>3 DEF CountExact, Fills
<1>11. OriginalExact'
  <2> SUFFICES ASSUME original # NoFile PROVE OriginalExact'
    BY <1>1 DEF OriginalExact
  <2>1. CASE ~(Len(original.pool) < IndexMod)
    BY <1>1, <2>1 DEF PoolInv, OriginalExact
  <2>2. CASE Len(original.pool) < IndexMod
    <3>1. PICK n \in 0..Len(file.stream) :
                /\ original.pool = TableOf(file.stream, n)
                /\ Entries <= n
                /\ \A i \in 1..n : file.stream[i] # Bad
                /\ IndexOf(file.stream, n + 1) = Len(original.pool)
                /\ IndexOf(file.stream, n + 1) < IndexMod
                /\ count = IndexOf(file.stream, n + 1) - 1
                /\ count \in Nat /\ count <= IndexOf(file.stream, n + 1)
      BY <2>2, OriginalRoom DEF PoolInv
    <3>2. Entries + 1 <= n /\ index + Len(Pushed(Head(input))) < IndexMod
      BY <1>1, <3>1, NextIsThere DEF PoolInv
    <3>3. index + d < z
      BY <1>0, <1>6, <3>2
    <3>4. ~(index + d >= IndexMod)
      BY <1>0, <1>6, <1>7, <3>3
    <3>5. status' = "decoding" /\ m <= n
      BY <1>0, <1>1, <1>3, <3>2, <3>4
    <3>6. count = (Len(original.pool) - 1) % IndexMod
      <4>1. PICK c : c = Len(original.pool) - 1 /\ c = count
        BY <3>1
      <4>2. c \in Nat /\ c < z
        <5>1. Len(original.pool) < z /\ Len(original.pool) = c + 1
          BY <1>6, <2>2, <3>1, <4>1
        <5>2. c \in Nat
          BY <3>1, <4>1
        <5>3. QED
          BY <1>6, <5>1, <5>2
      <4>3. c % z = c
        <5>1. c \in Nat /\ z \in Nat /\ c < z /\ z > 2
          BY <1>6, <4>2
        <5>2. QED
          BY <5>1
      <4>4. QED
        BY <1>6, <4>1, <4>3
    <3>7. QED
      BY <1>1, <1>4, <3>1, <3>5, <3>6 DEF OriginalExact
  <2>3. QED
    BY <2>1, <2>2
<1>12. QED
  BY <1>5, <1>9, <1>10, <1>11 DEF PoolInv

(* What is written is what was read, so it is read from the file again.    *)
LEMMA WriteAndRereadPool ==
    ASSUME PoolInv, WriteAndReread
    PROVE  PoolInv'
<1>0. PICK l, k, s : l = Len(file.stream) /\ k = Entries /\ s = file.stream
  OBVIOUS
<1>1. /\ file' = file /\ original' = [pool |-> pool, rest |-> input] /\ count' = (Len(pool) - 1) % IndexMod
      /\ input' = Written(pool) \o input /\ pool' = <<Unusable>> /\ index' = 1 /\ status' = "decoding"
  BY DEF WriteAndReread
<1>2. /\ s \in Seq(Constants) /\ l \in Nat /\ Unusable \in Constants /\ k \in 0..l /\ k \in Nat
      /\ \A n \in 1..l : s[n] # Unusable
      /\ input = SubSeq(s, k + 1, l) /\ pool = TableOf(s, k) /\ file \in Files /\ \A n \in 1..k : s[n] # Bad
  BY <1>0, FileFacts, InputLeft DEF PoolInv, TableExact
<1>3. input' = s
  <2>1. Written(pool) = SubSeq(s, 1, k)
    BY <1>0, <1>2, WrittenTable
  <2>2. 1 \in 1..l + 1 /\ k \in 1 - 1..l /\ l \in k..l
    BY <1>2
  <2>3. SubSeq(s, 1, k) \o SubSeq(s, k + 1, l) = SubSeq(s, 1, l)
    BY <1>0, <1>2, <2>2, ConcatAdjacentSubSeq
  <2>4. QED
    BY <1>0, <1>1, <1>2, <2>1, <2>3, SubSeqFull
<1>4. Entries' = 0 /\ 0 + 1 = 1 /\ 0 \in 0..l
  <2>1. Entries' = l - l
    BY <1>0, <1>1, <1>3 DEF Entries
  <2>2. l - l = 0 /\ 0 + 1 = 1 /\ 0 \in 0..l
    BY <1>2
  <2>3. QED
    BY <2>1, <2>2
<1>5. TableOf(s, 0) = <<Unusable>> /\ IndexOf(s, 1) = 1
  BY <1>2, TableNext, IndexNext
<1>6. SubSeq(s, 1, l) = s
  BY <1>0, <1>2, SubSeqFull
<1>7. TableExact'
  <2>1. Entries' \in 0..l /\ Entries' + 1 = 1
    BY <1>4
  <2>2. input' = SubSeq(s, Entries' + 1, l)
    BY <1>3, <1>6, <2>1
  <2>3. pool' = TableOf(s, Entries')
    BY <1>1, <1>4, <1>5
  <2>4. \A n \in 1..Entries' : s[n] # Bad
    BY <1>4
  <2>5. QED
    BY <1>0, <1>1, <1>2, <2>1, <2>2, <2>3, <2>4 DEF TableExact
<1>8. IndexExact'
  BY <1>0, <1>1, <1>4, <1>5 DEF IndexExact
<1>9. original' # NoFile
  <2>1. pool # <<>>
    <3>1. PICK a : a = k + 1 /\ a \in 1..l + 1 /\ a \in a..l + 1
      BY <1>2
    <3>2. Len(pool) = IndexOf(s, a)
      BY <1>0, <1>2, <3>1, TablePlaces
    <3>3. IndexOf(s, a) \in Nat \ {0}
      BY <1>0, <1>2, <3>1, IndexGrows
    <3>4. Len(pool) # 0
      BY <3>2, <3>3
    <3>5. QED
      BY <3>4
  <2>2. original'.pool # NoFile.pool
    BY <1>1, <2>1 DEF NoFile
  <2>3. QED
    BY <2>2
<1>10. CountExact'
  BY <1>9 DEF CountExact
<1>11. OriginalExact'
  <2>1. original'.pool = TableOf(s, k) /\ count' = (Len(original'.pool) - 1) % IndexMod
    BY <1>1, <1>2
  <2>2. Entries' <= k
    BY <1>2, <1>4
  <2>3. QED
    BY <1>0, <1>1, <1>2, <2>1, <2>2 DEF OriginalExact
<1>12. QED
  BY <1>7, <1>8, <1>10, <1>11 DEF PoolInv

(* The steps behind the table leave it alone.                              *)
LEMMA TableKept ==
    ASSUME PoolInv, UNCHANGED <<file, count, input, pool, index, original>>,
           status \notin {"decoding", "failed", "panicked"}, original = NoFile,
           status' \notin {"decoding", "decoded", "failed", "panicked"}
    PROVE  PoolInv'
BY DEF PoolInv, TableExact, IndexExact, CountExact, OriginalExact, Entries, Fills

(* The invariant of the table is inductive.                                *)
LEMMA NextPool == IInv /\ PoolInv /\ [Next]_vars => PoolInv'
<1> SUFFICES ASSUME IInv, PoolInv, [Next]_vars PROVE PoolInv'
  OBVIOUS
<1>1. CASE PoolNext
  BY <1>1, ReadFailsPool, PoolReadPool, ReadEntryPool, WriteAndRereadPool DEF PoolNext
<1>2. CASE ClassNext
  <2>1. /\ UNCHANGED <<file, count, input, pool, index, original>>
        /\ status \in {"decoded", "read", "parsing"}
        /\ status' \in {"read", "parsing", "linking", "rejected"}
        /\ original = NoFile
    BY <1>2 DEF ClassNext, ReadBody, ParseNames, ParseAttribute, ParseMethod, ParseField, Parsed, Reject,
                AttributesParsed, MethodsParsed, IInv, StagesExact
  <2>2. QED
    BY <2>1, TableKept
<1>3. CASE LinkNext
  <2>1. /\ UNCHANGED <<file, count, input, pool, index, original>>
        /\ status = "linking" /\ status' \in {"linking", "linked", "rejected"}
        /\ original = NoFile
    BY <1>3 DEF LinkNext, LinkEntry, Linking, IInv, StagesExact
  <2>2. QED
    BY <2>1, TableKept
<1>4. CASE RunCode \/ RunNext \/ UNCHANGED vars
  <2>1. UNCHANGED <<file, count, input, pool, index, original, status>>
    BY <1>4 DEF RunCode, RunNext, Plain, Branch, Return, OutOfCode, UseConstant, vars, loadVars, poolVars
  <2>2. QED
    BY <2>1 DEF PoolInv, TableExact, IndexExact, CountExact, OriginalExact, Entries, Fills
<1>5. QED
  BY <1>1, <1>2, <1>3, <1>4 DEF Next

(* The table that the file describes, whoever wrote the file.              *)
THEOREM PoolInvariance == Spec => []PoolInv
BY InitPool, NextPool, Invariance, PTL DEF Spec

(* The length of the table read so far.                                    *)
LEMMA PoolLen ==
    ASSUME TableExact
    PROVE  /\ pool \in Seq(Constants) /\ Len(pool) = IndexOf(file.stream, Entries + 1)
           /\ DOMAIN pool = 1..Len(pool) /\ Len(pool) \in Nat
<1>1. file.stream \in Seq(Constants) /\ Unusable \in Constants /\ Entries \in 0..Len(file.stream)
  BY FileFacts DEF TableExact
<1>2. pool \in Seq(Constants)
  BY <1>1, TableNext DEF TableExact
<1>3. Len(pool) = IndexOf(file.stream, Entries + 1)
  BY <1>1, TablePlaces DEF TableExact
<1>4. QED
  BY <1>2, <1>3, LenProperties

(* What a class means by an index is in the table there, and is there      *)
(* again when the class was written and read back.                         *)
THEOREM IndicesKept == Spec => []ConstantsAtTheirIndices
<1>1. PoolInv => ConstantsAtTheirIndices
  <2> SUFFICES ASSUME PoolInv PROVE ConstantsAtTheirIndices
    OBVIOUS
  <2>0. PICK l, k, s : l = Len(file.stream) /\ k = Entries /\ s = file.stream
    OBVIOUS
  <2>1. /\ TableExact /\ l \in Nat /\ s \in Seq(Constants) /\ Unusable \in Constants
        /\ k \in 0..l /\ pool = TableOf(s, k)
    BY <2>0, FileFacts DEF PoolInv, TableExact
  <2>2. DOMAIN pool = 1..Len(pool) /\ Len(pool) \in Nat /\ Len(pool) = IndexOf(s, k + 1)
    BY <2>0, <2>1, PoolLen
  <2>3. CASE original = NoFile
    <3>1. ASSUME NEW n \in 1..k
          PROVE  IndexOf(s, n) + 1 \in DOMAIN pool /\ pool[IndexOf(s, n) + 1] = s[n]
      BY <2>0, <2>1, <2>2, TablePlaces
    <3>2. QED
      BY <2>0, <2>3, <3>1 DEF ConstantsAtTheirIndices, Entries
  <2>4. CASE original # NoFile /\ Len(original.pool) < IndexMod
    <3>1. PICK n \in 0..l :
                /\ original.pool = TableOf(s, n)
                /\ k <= n
                /\ status \in {"decoding", "decoded"}
                /\ IndexOf(s, n + 1) = Len(original.pool)
                /\ IndexOf(s, n + 1) < IndexMod
                /\ count = IndexOf(s, n + 1) - 1
      BY <2>0, <2>1, <2>4, OriginalRoom DEF PoolInv
    <3>2. k \in 0..n
      BY <2>1, <3>1
    <3>3. IsPrefix(pool, original.pool)
      BY <2>0, <2>1, <3>1, <3>2, TablePrefix
    <3>4. ASSUME status = "decoded" PROVE Len(original.pool) - Len(pool) <= 1
      <4>1. PICK a, b : a = k + 1 /\ b = n + 1 /\ a \in 1..l + 1 /\ b \in a..l + 1 /\ b - a \in Nat
        BY <2>1, <3>2
      <4>2. IndexOf(s, a) + (b - a) <= IndexOf(s, b) /\ IndexOf(s, a) \in Nat /\ IndexOf(s, b) \in Nat
        BY <2>0, <2>1, <4>1, IndexGrows
      <4>3. PICK x, y : x = IndexOf(s, k + 1) /\ y = IndexOf(s, n + 1) /\ x \in Nat /\ y \in Nat /\ x <= y
        BY <4>1, <4>2
      <4>4. x < IndexMod
        <5>1. IndexMod \in Nat /\ y < IndexMod
          BY <3>1, <4>3, IndexAssumption
        <5>2. QED
          BY <4>3, <5>1
      <4>5. index = x /\ index >= count
        BY <2>0, <3>4, <4>3, <4>4 DEF PoolInv, IndexExact
      <4>6. x >= y - 1
        BY <3>1, <4>3, <4>5
      <4>7. Len(original.pool) = y /\ Len(pool) = x
        BY <2>2, <3>1, <4>3
      <4>8. y - x <= 1
        BY <4>3, <4>6
      <4>9. QED
        BY <4>7, <4>8
    <3>5. QED
      BY <2>4, <3>1, <3>3, <3>4 DEF ConstantsAtTheirIndices
  <2>5. QED
    BY <2>3, <2>4 DEF ConstantsAtTheirIndices
<1>2. QED
  BY <1>1, PoolInvariance, PTL

(* A well formed table is read in every build, and nothing behind it.      *)
THEOREM PoolsDecode == Spec => []WellFormedDecodes
<1>1. PoolInv => WellFormedDecodes
  <2> SUFFICES ASSUME PoolInv, original = NoFile, NEW n \in 0..Len(file.stream),
                      Fills(n, file.stream, file.count)
               PROVE  /\ status \notin {"failed", "panicked"}
                      /\ status = "decoded" =>
                             /\ Len(pool) = file.count
                             /\ input = SubSeq(file.stream, n + 1, Len(file.stream))
    BY DEF WellFormedDecodes
  <2>1. /\ status # "decoding" => Entries = n
        /\ status \notin {"failed", "panicked"}
    BY DEF PoolInv, CountExact
  <2>2. IndexOf(file.stream, n + 1) = file.count
    BY DEF Fills
  <2>3. Len(pool) = IndexOf(file.stream, Entries + 1)
    BY PoolLen DEF PoolInv
  <2>4. QED
    BY <2>1, <2>2, <2>3 DEF PoolInv, TableExact
<1>2. QED
  BY <1>1, PoolInvariance, PTL

-----------------------------------------------------------------------------
(* Parts of sequences. *)

(* Two sequences, one behind the other.                                    *)
LEMMA ConcatPlaces ==
    ASSUME NEW S, NEW s \in Seq(S), NEW t \in Seq(S), NEW m, NEW n, m = Len(s), n = Len(t)
    PROVE  /\ m \in Nat /\ n \in Nat
           /\ s \o t \in Seq(S)
           /\ Len(s \o t) = m + n
           /\ \A i \in 1..m : (s \o t)[i] = s[i]
           /\ \A i \in 1..n : (s \o t)[m + i] = t[i]
<1>0. PICK u : u = s \o t
  OBVIOUS
<1>1. m \in Nat /\ n \in Nat
  BY LenProperties
<1>2. /\ u \in Seq(S) /\ Len(u) = m + n
      /\ \A i \in 1..m + n : u[i] = IF i <= m THEN s[i] ELSE t[i - m]
  BY <1>0, ConcatProperties
<1>3. ASSUME NEW i \in 1..m PROVE u[i] = s[i]
  <2>1. i \in 1..m + n /\ i <= m
    BY <1>1
  <2>2. QED
    BY <1>2, <2>1
<1>4. ASSUME NEW i \in 1..n PROVE u[m + i] = t[i]
  <2>1. PICK j : j = m + i /\ j \in 1..m + n /\ ~(j <= m) /\ j - m = i
    BY <1>1
  <2>2. QED
    BY <1>2, <2>1
<1>5. QED
  BY <1>0, <1>1, <1>2, <1>3, <1>4

(* A part of a sequence.                                                   *)
LEMMA SubSeqPlaces ==
    ASSUME NEW S, NEW s \in Seq(S), NEW a \in 1..Len(s) + 1, NEW b \in a - 1..Len(s)
    PROVE  /\ SubSeq(s, a, b) \in Seq(S)
           /\ Len(SubSeq(s, a, b)) = b - a + 1 /\ b - a + 1 \in Nat
           /\ \A i \in 1..b - a + 1 : SubSeq(s, a, b)[i] = s[a + i - 1]
<1>1. PICK l : l = Len(s) /\ l \in Nat
  BY LenProperties
<1>2. a \in Int /\ b \in Int /\ a >= 1 /\ b <= l /\ a - 1 <= b
  BY <1>1
<1>3. \A i \in a..b : i \in 1..l
  BY <1>1, <1>2
<1>4. \A i \in a..b : s[i] \in S
  BY <1>1, <1>3, ElementOfSeq
<1>5. /\ SubSeq(s, a, b) \in Seq(S)
      /\ Len(SubSeq(s, a, b)) = IF a <= b THEN b - a + 1 ELSE 0
      /\ \A i \in 1..b - a + 1 : SubSeq(s, a, b)[i] = s[a + i - 1]
  BY <1>2, <1>4, SubSeqProperties
<1>6. (IF a <= b THEN b - a + 1 ELSE 0) = b - a + 1 /\ b - a + 1 \in Nat
  BY <1>2
<1>7. QED
  BY <1>5, <1>6

(* A part that has the places of another sequence is that sequence.        *)
LEMMA PartIs ==
    ASSUME NEW S, NEW s \in Seq(S), NEW t \in Seq(S), NEW m \in Nat, NEW n \in Nat, n = Len(t),
           m + n <= Len(s), \A i \in 1..n : s[m + i] = t[i]
    PROVE  SubSeq(s, m + 1, m + n) = t
<1>1. PICK a, b : a = m + 1 /\ b = m + n /\ a \in 1..Len(s) + 1 /\ b \in a - 1..Len(s) /\ b - a + 1 = n
  BY LenProperties
<1>2. PICK u : u = SubSeq(s, a, b)
  OBVIOUS
<1>3. u \in Seq(S) /\ Len(u) = n /\ \A i \in 1..n : u[i] = s[a + i - 1]
  BY <1>1, <1>2, SubSeqPlaces
<1>4. ASSUME NEW i \in 1..n PROVE u[i] = t[i]
  <2>1. a + i - 1 = m + i
    BY <1>1
  <2>2. QED
    BY <1>3, <2>1
<1>5. u = t
  BY <1>3, <1>4, SeqEqual
<1>6. QED
  BY <1>1, <1>2, <1>5

-----------------------------------------------------------------------------
(* Descriptors. *)

(* The first character of a kind, and the first of another kind.           *)
LEMMA FirstInIs ==
    ASSUME NEW s, NEW chars, Len(s) \in Nat, NEW n \in 1..Len(s),
           s[n] \in chars, \A i \in 1..n - 1 : s[i] \notin chars
    PROVE  FirstIn(s, chars) = n
<1> DEFINE There == {i \in 1..Len(s) : s[i] \in chars}
<1>1. FirstIn(s, chars) = IF There # {} THEN Min(There) ELSE 0
  BY DEF FirstIn, SelectInSeq
<1>2. There \in SUBSET Nat /\ n \in There
  OBVIOUS
<1>3. Min(There) \in There /\ Min(There) <= n
  BY <1>2, LeastElement
<1>4. ~(Min(There) < n)
  BY <1>3
<1>5. QED
  BY <1>1, <1>2, <1>3, <1>4

LEMMA FirstInNone ==
    ASSUME NEW s, NEW chars, \A i \in 1..Len(s) : s[i] \notin chars
    PROVE  FirstIn(s, chars) = 0
BY DEF FirstIn, SelectInSeq

LEMMA FirstNotInIs ==
    ASSUME NEW s, NEW chars, Len(s) \in Nat, NEW n \in 1..Len(s),
           s[n] \notin chars, \A i \in 1..n - 1 : s[i] \in chars
    PROVE  FirstNotIn(s, chars) = n
<1> DEFINE There == {i \in 1..Len(s) : s[i] \notin chars}
<1>1. FirstNotIn(s, chars) = IF There # {} THEN Min(There) ELSE 0
  BY DEF FirstNotIn, SelectInSeq
<1>2. There \in SUBSET Nat /\ n \in There
  OBVIOUS
<1>3. Min(There) \in There /\ Min(There) <= n
  BY <1>2, LeastElement
<1>4. ~(Min(There) < n)
  BY <1>3
<1>5. QED
  BY <1>1, <1>2, <1>3, <1>4

(* A base is a letter, or the name of a class between an L and a semicolon. *)
LEMMA BaseForm ==
    ASSUME NEW type, IsType(type), NEW base, base = type.base
    PROVE  /\ type.dimensions \in Nat /\ base \in Seq(ToSet(base)) /\ Len(base) \in Nat \ {0}
           /\ base # <<>> /\ Head(base) = base[1] /\ base[1] # "["
           /\ base[1] # "L" => Len(base) = 1 /\ base[1] \in Narrow \cup Wide
           /\ base[1] = "L" => /\ Len(base) > 1 /\ base[Len(base)] = ";"
                               /\ \A i \in 1..Len(base) - 1 : base[i] \notin {";", "(", ")"}
<1>0. PICK b : b = Len(base)
  OBVIOUS
<1>1. /\ type.dimensions \in Nat
      /\ base \in Seq(ToSet(base))
      /\ \/ b = 1 /\ base[1] \in Narrow \cup Wide
         \/ b > 1 /\ base[1] = "L" /\ base[b] = ";" /\ \A i \in 2..b - 1 : base[i] \notin {";", "(", ")"}
  BY <1>0 DEF IsType
<1>2. b \in Nat
  BY <1>0, <1>1, LenProperties
<1>3. b \in Nat \ {0}
  <2>1. b = 1 \/ b > 1
    BY <1>1
  <2>2. QED
    BY <1>2, <2>1
<1>4. base # <<>>
  <2>1. CASE base = <<>>
    <3>1. b = 0
      BY <1>0, <2>1
    <3>2. QED
      BY <1>3, <3>1
  <2>2. QED
    BY <2>1
<1>5. Head(base) = base[1]
  BY <1>4
<1>6. CASE b = 1 /\ base[1] \in Narrow \cup Wide
  <2>1. base[1] \notin {"L", "["}
    BY <1>6 DEF Narrow, Wide
  <2>2. QED
    BY <1>0, <1>1, <1>3, <1>4, <1>5, <1>6, <2>1
<1>7. CASE b > 1 /\ base[1] = "L" /\ base[b] = ";" /\ \A i \in 2..b - 1 : base[i] \notin {";", "(", ")"}
  <2>1. ASSUME NEW i \in 1..b - 1 PROVE base[i] \notin {";", "(", ")"}
    <3>1. i = 1 \/ i \in 2..b - 1
      BY <1>3
    <3>2. QED
      BY <1>7, <3>1
  <2>2. QED
    BY <1>0, <1>1, <1>3, <1>4, <1>5, <1>7, <2>1
<1>8. QED
  BY <1>1, <1>6, <1>7

(* The text of a type: brackets, then its base.                            *)
LEMMA TypeTextIs ==
    ASSUME NEW type, IsType(type)
    PROVE  /\ type.dimensions \in Nat /\ Len(type.base) \in Nat \ {0}
           /\ type.base \in Seq({"["} \cup ToSet(type.base))
           /\ TypeText(type) \in Seq({"["} \cup ToSet(type.base))
           /\ Len(TypeText(type)) = type.dimensions + Len(type.base)
           /\ \A i \in 1..type.dimensions : TypeText(type)[i] = "["
           /\ \A i \in 1..Len(type.base) : TypeText(type)[type.dimensions + i] = type.base[i]
<1>0. PICK d, base, text : d = type.dimensions /\ base = type.base /\ text = TypeText(type)
  OBVIOUS
<1>1. d \in Nat /\ base \in Seq(ToSet(base)) /\ Len(base) \in Nat \ {0}
  BY <1>0, BaseForm
<1>2. PICK S : S = {"["} \cup ToSet(base)
  OBVIOUS
<1>3. base \in Seq(S)
  <2>1. ToSet(base) \subseteq S
    BY <1>2
  <2>2. QED
    BY <1>1, <2>1, SeqMonotonic
<1>4. PICK brackets : brackets = [i \in 1..d |-> "["]
  OBVIOUS
<1>5. brackets \in Seq(S) /\ d = Len(brackets) /\ \A i \in 1..d : brackets[i] = "["
  <2>1. brackets \in [1..d -> S] /\ \A i \in 1..d : brackets[i] = "["
    BY <1>2, <1>4
  <2>2. brackets \in Seq(S)
    BY <1>1, <2>1, SeqDef
  <2>3. Len(brackets) \in Nat /\ DOMAIN brackets = 1..Len(brackets) /\ DOMAIN brackets = 1..d
    BY <1>4, <2>2, LenProperties
  <2>4. Len(brackets) = d
    <3>1. PICK n : n = Len(brackets) /\ n \in Nat /\ 1..n = 1..d
      BY <2>3
    <3>2. d \in Nat
      BY <1>1
    <3>3. ~(n < d)
      <4>1. n < d => d \in 1..d /\ d \notin 1..n
        BY <3>1, <3>2
      <4>2. QED
        BY <3>1, <4>1
    <3>4. ~(d < n)
      <4>1. d < n => n \in 1..n /\ n \notin 1..d
        BY <3>1, <3>2
      <4>2. QED
        BY <3>1, <4>1
    <3>5. n = d
      BY <3>1, <3>2, <3>3, <3>4
    <3>6. QED
      BY <3>1, <3>5
  <2>5. QED
    BY <2>1, <2>2, <2>4
<1>6. text = brackets \o base
  BY <1>0, <1>4 DEF TypeText
<1>7. /\ text \in Seq(S) /\ Len(text) = d + Len(base)
      /\ \A i \in 1..d : text[i] = "["
      /\ \A i \in 1..Len(base) : text[d + i] = base[i]
  BY <1>3, <1>5, <1>6, ConcatPlaces
<1>8. QED
  BY <1>0, <1>1, <1>2, <1>3, <1>7

(* A text that begins with the base of a type: how far the base goes.      *)
LEMMA BaseEnds ==
    ASSUME NEW type, IsType(type), NEW base, base = type.base,
           NEW S, NEW s \in Seq(S), Len(base) <= Len(s), \A i \in 1..Len(base) : s[i] = base[i]
    PROVE  /\ s # <<>> /\ Head(s) = base[1] /\ s[1] = base[1]
           /\ base[1] = "L" => FirstIn(s, {";"}) = Len(base)
<1>0. PICK b : b = Len(base)
  OBVIOUS
<1>1. b \in Nat \ {0}
  BY <1>0, BaseForm
<1>2. PICK l : l = Len(s) /\ l \in Nat /\ b <= l
  BY <1>0, LenProperties
<1>3. s # <<>>
  <2>1. CASE s = <<>>
    <3>1. l = 0
      BY <1>2, <2>1
    <3>2. l \in Nat /\ b <= l
      BY <1>2
    <3>3. QED
      BY <1>1, <3>1, <3>2
  <2>2. QED
    BY <2>1
<1>4. 1 \in 1..b /\ b \in 1..b
  BY <1>1
<1>5. Head(s) = s[1] /\ s[1] = base[1]
  BY <1>0, <1>3, <1>4
<1>6. ASSUME base[1] = "L" PROVE FirstIn(s, {";"}) = b
  <2>0. base[b] = ";" /\ \A i \in 1..b - 1 : base[i] \notin {";"}
    BY <1>0, <1>6, BaseForm
  <2>1. b \in 1..l /\ s[b] = ";"
    <3>1. l \in Nat /\ b <= l
      BY <1>2
    <3>2. b \in 1..l
      BY <1>1, <3>1
    <3>3. s[b] = base[b]
      BY <1>0, <1>4
    <3>4. QED
      BY <2>0, <3>2, <3>3
  <2>2. \A i \in 1..b - 1 : s[i] \notin {";"}
    <3>1. \A i \in 1..b - 1 : i \in 1..b
      BY <1>1
    <3>2. QED
      BY <1>0, <2>0, <3>1
  <2>3. QED
    BY <1>0, <1>2, <2>1, <2>2, FirstInIs
<1>7. QED
  BY <1>0, <1>3, <1>5, <1>6

(* The first field of such a text is that of the base alone.               *)
LEMMA BaseField ==
    ASSUME NEW type, IsType(type), NEW base, base = type.base,
           NEW S, NEW s \in Seq(S), Len(base) <= Len(s), \A i \in 1..Len(base) : s[i] = base[i]
    PROVE  /\ base[1] = "L" => FirstField(s) = [kind |-> "object", class |-> SubSeq(s, 2, Len(base) - 1)]
           /\ base[1] \in Narrow => FirstField(s) = [kind |-> "narrow", char |-> base[1]]
           /\ base[1] \in Wide => FirstField(s) = [kind |-> "wide", char |-> base[1]]
<1>1. /\ s # <<>> /\ Head(s) = base[1]
      /\ base[1] = "L" => FirstIn(s, {";"}) = Len(base)
  BY BaseEnds
<1>2. Len(base) # 0
  BY BaseForm
<1>3. CASE base[1] = "L"
  <2>1. Head(s) \notin Narrow /\ Head(s) \notin Wide /\ Head(s) # "["
    BY <1>1, <1>3 DEF Narrow, Wide
  <2>2. QED
    BY <1>1, <1>2, <1>3, <2>1 DEF FirstField
<1>4. CASE base[1] \in Narrow
  <2>1. base[1] # "L" /\ base[1] \notin Wide
    BY <1>4 DEF Narrow, Wide
  <2>2. FirstField(s) = [kind |-> "narrow", char |-> Head(s)]
    <3>1. s # <<>> /\ Head(s) \in Narrow /\ Head(s) \notin Wide
      BY <1>1, <1>4, <2>1
    <3>2. QED
      BY <3>1 DEF FirstField, Narrow, Wide
  <2>3. QED
    BY <1>1, <1>4, <2>1, <2>2
<1>5. CASE base[1] \in Wide
  <2>1. base[1] # "L" /\ base[1] \notin Narrow
    BY <1>5 DEF Narrow, Wide
  <2>2. FirstField(s) = [kind |-> "wide", char |-> Head(s)]
    <3>1. s # <<>> /\ Head(s) \in Wide /\ Head(s) \notin Narrow
      BY <1>1, <1>5, <2>1
    <3>2. QED
      BY <3>1 DEF FirstField, Narrow, Wide
  <2>3. QED
    BY <1>1, <1>5, <2>1, <2>2
<1>6. QED
  BY <1>3, <1>4, <1>5

(* The array class of the text of a type: its dimensions and its base.     *)
LEMMA ArrayOfType ==
    ASSUME NEW type, IsType(type), NEW base, base = type.base
    PROVE  /\ ArrayClass(TypeText(type)).dimensions = type.dimensions
           /\ ArrayClass(TypeText(type)).element # NoField
           /\ base[1] = "L" => ArrayClass(TypeText(type)).element =
                                   [kind |-> "object", class |-> SubSeq(base, 2, Len(base) - 1)]
           /\ base[1] # "L" =>
                 /\ ArrayClass(TypeText(type)).element.kind \in {"narrow", "wide"}
                 /\ base = <<ArrayClass(TypeText(type)).element.char>>
<1>0. PICK d, b, text : d = type.dimensions /\ b = Len(base) /\ text = TypeText(type)
  OBVIOUS
<1>1. /\ d \in Nat /\ b \in Nat \ {0} /\ base \in Seq({"["} \cup ToSet(base))
      /\ text \in Seq({"["} \cup ToSet(base)) /\ Len(text) = d + b
      /\ \A i \in 1..d : text[i] = "["
      /\ \A i \in 1..b : text[d + i] = base[i]
  BY <1>0, TypeTextIs
<1>2. /\ base \in Seq(ToSet(base)) /\ base[1] # "["
      /\ base[1] # "L" => b = 1 /\ base[1] \in Narrow \cup Wide
  BY <1>0, BaseForm
<1>3. FirstNotIn(text, {"["}) = d + 1
  <2>1. PICK n : n = d + 1 /\ n \in 1..d + b /\ n - 1 = d /\ d + b \in Nat /\ 1 \in 1..b
    BY <1>1
  <2>2. text[n] = base[1]
    BY <1>1, <2>1
  <2>3. text[n] \notin {"["} /\ \A i \in 1..n - 1 : text[i] \in {"["}
    BY <1>1, <1>2, <2>1, <2>2
  <2>4. n \in 1..Len(text) /\ Len(text) \in Nat
    BY <1>1, <2>1
  <2>5. QED
    BY <2>1, <2>3, <2>4, FirstNotInIs
<1>4. SubSeq(text, d + 1, Len(text)) = base
  <2>1. d + b <= Len(text) /\ b \in Nat
    BY <1>1
  <2>2. SubSeq(text, d + 1, d + b) = base
    BY ZenonT(60), <1>0, <1>1, <2>1, PartIs
  <2>3. QED
    BY <1>1, <2>2
<1>5. d + 1 - 1 = d /\ d + 1 # 0
  BY <1>1
<1>6. PICK a : a = ArrayClass(text) /\ a.dimensions = d /\ a.element = FirstField(base)
  <2>1. PICK n : n = d + 1 /\ n - 1 = d /\ n # 0
    <3>1. d \in Nat
      BY <1>1
    <3>2. QED
      BY <3>1
  <2>2. FirstNotIn(text, {"["}) = n /\ SubSeq(text, n, Len(text)) = base
    BY <1>3, <1>4, <2>1
  <2>3. /\ ArrayClass(text).dimensions = n - 1
        /\ ArrayClass(text).element = FirstField(base)
    BY <2>1, <2>2 DEF ArrayClass
  <2>4. QED
    BY <2>1, <2>3
<1>7. /\ base[1] = "L" => FirstField(base) = [kind |-> "object", class |-> SubSeq(base, 2, b - 1)]
      /\ base[1] \in Narrow => FirstField(base) = [kind |-> "narrow", char |-> base[1]]
      /\ base[1] \in Wide => FirstField(base) = [kind |-> "wide", char |-> base[1]]
  <2>1. Len(base) <= Len(base)
    BY <1>0, <1>1
  <2>2. QED
    BY ZenonT(60), <1>0, <1>1, <2>1, BaseField
<1>8. NoField.kind = "none"
  BY DEF NoField
<1>9. CASE base[1] = "L"
  <2>1. a.element = [kind |-> "object", class |-> SubSeq(base, 2, b - 1)]
    BY <1>6, <1>7, <1>9
  <2>2. a.element.kind = "object"
    BY <2>1
  <2>3. a.element # NoField
    BY <1>8, <2>2
  <2>4. QED
    BY <1>0, <1>6, <1>9, <2>1, <2>3
<1>10. CASE base[1] # "L"
  <2>1. a.element.kind \in {"narrow", "wide"} /\ a.element.char = base[1]
    BY <1>2, <1>6, <1>7, <1>10
  <2>2. a.element # NoField
    BY <1>8, <2>1
  <2>3. base = <<base[1]>>
    <3>1. <<base[1]>> \in Seq(ToSet(base)) /\ Len(<<base[1]>>) = 1 /\ <<base[1]>>[1] = base[1]
      <4>1. base[1] \in ToSet(base)
        BY <1>0, <1>1, <1>2, ElementOfSeq
      <4>2. QED
        BY <4>1
    <3>2. Len(base) = 1 /\ \A i \in 1..1 : i = 1
      BY <1>0, <1>2, <1>10
    <3>3. QED
      BY <1>2, <3>1, <3>2, SeqEqual
  <2>4. QED
    BY <1>0, <1>6, <1>10, <2>1, <2>2, <2>3
<1>11. QED
  BY <1>9, <1>10

-----------------------------------------------------------------------------
(* Parsing and linking. *)

(* The places of the indices in an entry.                                  *)
LEMMA EntryAt ==
    ASSUME file \in Files, NEW n \in 1..Len(file.stream), NEW entry, entry = file.stream[n]
    PROVE  /\ entry.tag = "Class" => entry.at[1] \in ToSet(entry.at) /\ entry.at[1] \in 0..IndexMod - 1
           /\ entry.tag \in {"NameAndType", "Methodref", "Fieldref"} =>
                 \A i \in 1..2 : entry.at[i] \in ToSet(entry.at) /\ entry.at[i] \in 0..IndexMod - 1
<1>1. n \in DOMAIN file.stream
  BY FileFacts
<1>2. /\ entry.at \in Seq(0..IndexMod - 1)
      /\ entry.tag = "Class" => Len(entry.at) = 1
      /\ entry.tag \in {"NameAndType", "Methodref", "Fieldref"} => Len(entry.at) = 2
  BY <1>1, FileAssumption
<1>3. DOMAIN entry.at = 1..Len(entry.at) /\ \A i \in 1..Len(entry.at) : entry.at[i] \in 0..IndexMod - 1
  BY <1>2, LenProperties, ElementOfSeq
<1>4. \A i \in 1..Len(entry.at) : entry.at[i] \in ToSet(entry.at)
  BY <1>3 DEF ToSet
<1>5. ASSUME entry.tag = "Class"
      PROVE  entry.at[1] \in ToSet(entry.at) /\ entry.at[1] \in 0..IndexMod - 1
  <2>1. 1 \in 1..Len(entry.at)
    <3>1. 1 \in 1..1
      OBVIOUS
    <3>2. QED
      BY <1>2, <1>5, <3>1
  <2>2. QED
    BY <1>3, <1>4, <2>1
<1>6. ASSUME entry.tag \in {"NameAndType", "Methodref", "Fieldref"}, NEW i \in 1..2
      PROVE  entry.at[i] \in ToSet(entry.at) /\ entry.at[i] \in 0..IndexMod - 1
  BY <1>2, <1>3, <1>4, <1>6
<1>7. QED
  BY <1>5, <1>6

(* When the table is read, what the file has at an index is in the table.  *)
LEMMA RefersAt ==
    ASSUME TableExact, Entries = Len(file.stream), NEW tag, tag # "blank", NEW i, Refers(tag, i)
    PROVE  /\ At(i) = Filed(i) /\ At(i).tag = tag
           /\ \E n \in 1..Len(file.stream) : At(i) = file.stream[n]
<1> DEFINE there == {n \in DOMAIN file.stream : IndexOf(file.stream, n) = i}
<1>1. Filed(i) # Blank
  BY DEF Refers, Blank, Entry
<1>2. there # {} /\ Filed(i) = file.stream[CHOOSE n \in there : TRUE]
  BY <1>1 DEF Filed
<1>3. PICK n : n \in there /\ Filed(i) = file.stream[n]
  BY <1>2
<1>4. n \in 1..Len(file.stream) /\ IndexOf(file.stream, n) = i
  BY <1>3, FileFacts DEF TableExact
<1>5. /\ file.stream \in Seq(Constants) /\ Unusable \in Constants /\ Len(file.stream) \in 0..Len(file.stream)
      /\ pool = TableOf(file.stream, Len(file.stream)) /\ DOMAIN pool = 1..Len(pool)
  BY FileFacts, PoolLen DEF TableExact
<1>6. i + 1 \in DOMAIN pool /\ pool[i + 1] = file.stream[n]
  BY <1>4, <1>5, TablePlaces
<1>7. QED
  BY <1>3, <1>4, <1>6 DEF At, Refers

(* A well formed file has been read to its end.                            *)
LEMMA WellFormedRead ==
    ASSUME PoolInv, WellFormedFile, original = NoFile, status # "decoding"
    PROVE  TableExact /\ Entries = Len(file.stream) /\ file \in Files /\ Len(file.stream) \in Nat
<1>1. TableExact /\ file \in Files /\ Len(file.stream) \in Nat
  BY FileFacts DEF PoolInv, TableExact
<1>2. Len(file.stream) \in 0..Len(file.stream) /\ Fills(Len(file.stream), file.stream, file.count)
  BY <1>1 DEF WellFormedFile
<1>3. Entries = Len(file.stream)
  BY <1>2 DEF PoolInv, CountExact
<1>4. QED
  BY <1>1, <1>3

(* An entry of such a file passes the checks.                              *)
LEMMA WellFormedEntries ==
    ASSUME TableExact, Entries = Len(file.stream), WellFormedFile, NEW n \in 1..Len(file.stream)
    PROVE  Links(file.stream[n])
<1>0. PICK entry : entry = file.stream[n]
  OBVIOUS
<1>1. /\ file \in Files /\ DOMAIN file.stream = 1..Len(file.stream)
      /\ \A m \in 1..Len(file.stream) : WellFormedEntry(file.stream[m])
  BY FileFacts DEF TableExact, WellFormedFile
<1>2. \A i : Refers("Utf8", i) => IsUtf8(i) /\ Text(i) = FiledText(i)
  BY RefersAt DEF IsUtf8, Text, FiledText
<1>3. CASE entry.tag = "NameAndType"
  <2>1. Refers("Utf8", entry.at[1]) /\ Refers("Utf8", entry.at[2])
    <3>1. entry.at[1] \in ToSet(entry.at) /\ entry.at[2] \in ToSet(entry.at)
      BY <1>0, <1>1, <1>3, EntryAt
    <3>2. QED
      BY <1>0, <1>1, <1>3, <3>1 DEF WellFormedEntry
  <2>2. QED
    BY <1>0, <1>2, <1>3, <2>1 DEF Links
<1>4. CASE entry.tag = "Class"
  <2>1. Refers("Utf8", entry.at[1])
    <3>1. entry.at[1] \in ToSet(entry.at)
      BY <1>0, <1>1, <1>4, EntryAt
    <3>2. QED
      BY <1>0, <1>1, <1>4, <3>1 DEF WellFormedEntry
  <2>2. ASSUME IsArrayName(Text(entry.at[1])) PROVE ArrayGood(Text(entry.at[1]))
    <3>1. PICK type \in ToSet(file.types) : TypeText(type) = Text(entry.at[1])
      BY <1>0, <1>1, <1>2, <1>4, <2>1, <2>2 DEF WellFormedEntry
    <3>2. IsType(type)
      BY <1>1, BodyAssumption DEF ToSet
    <3>3. QED
      BY <3>1, <3>2, ArrayOfType DEF ArrayGood
  <2>3. QED
    BY <1>0, <1>2, <1>4, <2>1, <2>2 DEF Links
<1>5. CASE entry.tag \in {"Methodref", "Fieldref"}
  <2>1. Refers("Class", entry.at[1]) /\ Refers("NameAndType", entry.at[2])
    BY <1>0, <1>1, <1>5 DEF WellFormedEntry
  <2>2. PICK c \in 1..Len(file.stream) : At(entry.at[1]) = file.stream[c] /\ At(entry.at[1]).tag = "Class"
    BY <2>1, RefersAt
  <2>3. PICK t \in 1..Len(file.stream) : At(entry.at[2]) = file.stream[t] /\ At(entry.at[2]).tag = "NameAndType"
    BY <2>1, RefersAt
  <2>4. IsUtf8(At(entry.at[1]).at[1])
    <3>1. At(entry.at[1]).at[1] \in ToSet(At(entry.at[1]).at)
      BY <1>1, <2>2, EntryAt
    <3>2. Refers("Utf8", At(entry.at[1]).at[1])
      BY <1>1, <2>2, <3>1 DEF WellFormedEntry
    <3>3. QED
      BY <1>2, <3>2
  <2>5. ASSUME NEW i \in 1..2 PROVE IsUtf8(At(entry.at[2]).at[i])
    <3>1. At(entry.at[2]).at[i] \in ToSet(At(entry.at[2]).at)
      BY <1>1, <2>3, EntryAt
    <3>2. Refers("Utf8", At(entry.at[2]).at[i])
      BY <1>1, <2>3, <3>1 DEF WellFormedEntry
    <3>3. QED
      BY <1>2, <3>2
  <2>6. MemberGood(entry)
    BY <2>2, <2>3, <2>4, <2>5 DEF MemberGood, IsClass
  <2>7. QED
    BY <1>0, <1>5, <2>6 DEF Links
<1>6. CASE entry.tag \notin {"NameAndType", "Class", "Methodref", "Fieldref"}
  BY <1>0, <1>6 DEF Links
<1>7. QED
  BY <1>3, <1>4, <1>5, <1>6

(* And so does everything else of it, but for its attributes.              *)
LEMMA WellFormedPasses ==
    ASSUME PoolInv, WellFormedFile, original = NoFile, status # "decoding"
    PROVE  /\ file.body.complete /\ input = <<>> /\ NamesGood
           /\ \A m \in DOMAIN file.body.methods : \A i \in 1..2 : IsUtf8(file.body.methods[m].at[i])
           /\ \A m \in DOMAIN file.body.fields : \A i \in 1..2 : IsUtf8(file.body.fields[m].at[i])
           /\ \A m \in 1..Len(pool) : Links(pool[m])
<1>1. TableExact /\ Entries = Len(file.stream) /\ file \in Files /\ Len(file.stream) \in Nat
  BY WellFormedRead
<1>2. file.body.complete /\ input = <<>>
  BY <1>1, InputLeft DEF WellFormedFile
<1>3. \A i : Refers("Utf8", i) => IsUtf8(i)
  BY <1>1, RefersAt DEF IsUtf8
<1>4. \A m \in 1..Len(file.stream) : WellFormedEntry(file.stream[m])
  BY <1>1, FileFacts DEF WellFormedFile
<1>5. ASSUME NEW i, Refers("Class", i) PROVE IsClass(i) /\ IsUtf8(At(i).at[1])
  <2>1. PICK n \in 1..Len(file.stream) : At(i) = file.stream[n] /\ At(i).tag = "Class"
    BY <1>1, <1>5, RefersAt
  <2>2. At(i).at[1] \in ToSet(At(i).at)
    BY <1>1, <2>1, EntryAt
  <2>3. Refers("Utf8", At(i).at[1])
    BY <1>4, <2>1, <2>2 DEF WellFormedEntry
  <2>4. QED
    BY <1>3, <2>1, <2>3 DEF IsClass
<1>6. NamesGood
  BY <1>5 DEF NamesGood, WellFormedFile
<1>7. ASSUME NEW m \in DOMAIN file.body.methods, NEW i \in 1..2 PROVE IsUtf8(file.body.methods[m].at[i])
  <2>1. file.body.methods[m].at[i] \in ToSet(file.body.methods[m].at)
    <3>1. DOMAIN file.body.methods[m].at = {1, 2}
      BY <1>1, <1>2, BodyAssumption
    <3>2. i \in {1, 2}
      OBVIOUS
    <3>3. QED
      BY <3>1, <3>2 DEF ToSet
  <2>2. QED
    BY <1>3, <2>1 DEF WellFormedFile
<1>8. ASSUME NEW m \in DOMAIN file.body.fields, NEW i \in 1..2 PROVE IsUtf8(file.body.fields[m].at[i])
  <2>1. file.body.fields[m].at[i] \in ToSet(file.body.fields[m].at)
    <3>1. DOMAIN file.body.fields[m].at = {1, 2}
      BY <1>1, <1>2, BodyAssumption
    <3>2. i \in {1, 2}
      OBVIOUS
    <3>3. QED
      BY <3>1, <3>2 DEF ToSet
  <2>2. QED
    BY <1>3, <2>1 DEF WellFormedFile
<1>9. ASSUME NEW m \in 1..Len(pool) PROVE Links(pool[m])
  <2>1. /\ file.stream \in Seq(Constants) /\ Unusable \in Constants /\ Len(file.stream) \in 0..Len(file.stream)
        /\ pool = TableOf(file.stream, Len(file.stream))
    BY <1>1, FileFacts DEF TableExact
  <2>2. pool[m] = Unusable \/ \E n \in 1..Len(file.stream) : pool[m] = file.stream[n]
    BY <2>1, TablePlaces
  <2>3. Links(Unusable)
    BY DEF Links, Unusable, Entry
  <2>4. QED
    BY <1>1, <2>2, <2>3, WellFormedEntries
<1>10. QED
  BY <1>2, <1>6, <1>7, <1>8, <1>9

(* Before anything is parsed.                                              *)
LEMMA InitParsed == Init => ParsedExact /\ WellFormedLinks
BY EmptySeq DEF Init, PoolInit, ClassInit, ParsedExact, WellFormedLinks

(* What a step leaves alone.                                               *)
LEMMA SameClass ==
    ASSUME UNCHANGED <<file, count, input, pool, classVars, original>>
    PROVE  /\ WellFormedFile' = WellFormedFile /\ AttributesGood' = AttributesGood
           /\ Text(At(file.body.this).at[1])' = Text(At(file.body.this).at[1])
<1>1. \A i : At(i)' = At(i)
  BY DEF At
<1>2. \A attrs : AllGood(attrs)' = AllGood(attrs)
  BY <1>1 DEF AllGood, AttributeGood, IsCode, IsUtf8, Text
<1>3. \A method : CodeAttributes(method)' = CodeAttributes(method)
  BY <1>1 DEF CodeAttributes, IsCode, Text
<1>4. \A method : MethodGood(method)' = MethodGood(method)
  BY <1>1, <1>2, <1>3 DEF MethodGood, IsUtf8
<1>5. AttributesGood' = AttributesGood
  BY <1>2, <1>4 DEF AttributesGood
<1>6. WellFormedFile' = WellFormedFile
  BY DEF WellFormedFile, WellFormedEntry, Refers, Filed, FiledText, Fills
<1>7. Text(At(file.body.this).at[1])' = Text(At(file.body.this).at[1])
  BY <1>1 DEF Text
<1>8. QED
  BY <1>5, <1>6, <1>7

(* As long as the class is not rejected, what is to be shown is how it is  *)
(* parsed.                                                                 *)
LEMMA NotRejected ==
    ASSUME status' # "rejected"
    PROVE  WellFormedLinks'
BY DEF WellFormedLinks

(* A step that rejects the class, of a file that is not well formed.       *)
LEMMA RejectedRight ==
    ASSUME UNCHANGED <<file, count, input, pool, classVars, original>>, ~(WellFormedFile /\ AttributesGood)
    PROVE  WellFormedLinks'
BY SameClass DEF WellFormedLinks

(* Steps that parse nothing.                                               *)
LEMMA ParsedKept ==
    ASSUME ParsedExact, UNCHANGED <<file, pool, classVars>>,
           status' \in {"read", "parsing", "linking", "linked"} => file.body.complete,
           status' \in {"parsing", "linking", "linked"} => thisName = Text(At(file.body.this).at[1]),
           status' = "rejected" => original' = NoFile
    PROVE  ParsedExact'
BY DEF ParsedExact, classVars, Text, At

(* The rest of the file is there, and the class and its superclass are     *)
(* named.                                                                  *)
LEMMA ReadBodyParsed ==
    ASSUME PoolInv, ParsedExact, ReadBody
    PROVE  ParsedExact' /\ WellFormedLinks'
<1>1. /\ UNCHANGED <<file, count, input, pool, index, original, classVars>>
      /\ status = "decoded" /\ original = NoFile
      /\ status' = IF file.body.complete /\ input = <<>> THEN "read" ELSE "rejected"
  BY DEF ReadBody
<1>2. ParsedExact'
  BY <1>1, ParsedKept
<1>3. CASE status' = "rejected"
  <2>1. ~WellFormedFile
    BY <1>1, <1>3, WellFormedPasses
  <2>2. QED
    BY <1>1, <1>2, <2>1, RejectedRight
<1>4. CASE status' # "rejected"
  BY <1>2, <1>4, NotRejected
<1>5. QED
  BY <1>2, <1>3, <1>4

LEMMA ParseNamesParsed ==
    ASSUME PoolInv, IInv, ParsedExact, ParseNames
    PROVE  ParsedExact' /\ WellFormedLinks'
<1>1. /\ UNCHANGED <<file, count, input, pool, index, original>>
      /\ status = "read" /\ original = NoFile
  BY DEF ParseNames, IInv, StagesExact
<1>2. CASE NamesGood
  <2>1. /\ thisName' = Text(At(file.body.this).at[1])
        /\ status' = "parsing" /\ UNCHANGED <<attributes, methods, fields>>
    BY <1>2 DEF ParseNames
  <2>2. Text(At(file.body.this).at[1])' = Text(At(file.body.this).at[1])
    BY <1>1 DEF Text, At
  <2>3. ParsedExact'
    BY <1>1, <2>1, <2>2 DEF ParsedExact
  <2>4. QED
    BY <2>1, <2>3, NotRejected
<1>3. CASE ~NamesGood
  <2>1. status' = "rejected" /\ UNCHANGED classVars
    BY <1>3 DEF ParseNames, Reject
  <2>2. ParsedExact'
    BY <1>1, <2>1, ParsedKept
  <2>3. ~WellFormedFile
    BY <1>1, <1>3, WellFormedPasses
  <2>4. QED
    BY <1>1, <2>1, <2>2, <2>3, RejectedRight
<1>4. QED
  BY <1>2, <1>3

(* The attributes of the class.                                            *)
LEMMA ParseAttributeParsed ==
    ASSUME PoolInv, IInv, ParsedExact, ParseAttribute
    PROVE  ParsedExact' /\ WellFormedLinks'
<1>1. /\ UNCHANGED <<file, count, input, pool, index, original, thisName, superName, methods, fields>>
      /\ status = "parsing" /\ original = NoFile
      /\ attributes < Len(file.body.attributes)
      /\ file.body.complete
      /\ thisName = Text(At(file.body.this).at[1])
  BY DEF ParseAttribute, Reject, classVars, IInv, StagesExact, ParsedExact
<1>2. CASE AttributeGood(file.body.attributes[attributes + 1])
  <2>1. attributes' = attributes + 1 /\ status' = "parsing"
    BY <1>1, <1>2 DEF ParseAttribute
  <2>2. attributes' \in Nat
    BY <2>1 DEF ParsedExact
  <2>3. Text(At(file.body.this).at[1])' = Text(At(file.body.this).at[1])
    BY <1>1 DEF Text, At
  <2>4. ParsedExact'
    BY <1>1, <2>1, <2>2, <2>3 DEF ParsedExact
  <2>5. QED
    BY <2>1, <2>4, NotRejected
<1>3. CASE ~AttributeGood(file.body.attributes[attributes + 1])
  <2>1. status' = "rejected" /\ UNCHANGED classVars
    BY <1>3 DEF ParseAttribute, Reject
  <2>2. ParsedExact'
    BY <1>1, <2>1, ParsedKept
  <2>3. ASSUME file \in Files PROVE attributes + 1 \in DOMAIN file.body.attributes
    <3>1. file.body.attributes \in Seq(ToSet(file.body.attributes))
      BY <1>1, <2>3, BodyAssumption
    <3>2. PICK n : n = Len(file.body.attributes) /\ n \in Nat /\ DOMAIN file.body.attributes = 1..n
      BY <3>1, LenProperties
    <3>3. attributes \in Nat /\ attributes < n
      BY <1>1, <3>2 DEF ParsedExact
    <3>4. attributes + 1 \in 1..n
      BY <3>2, <3>3
    <3>5. QED
      BY <3>2, <3>4
  <2>4. file \in Files
    BY DEF PoolInv, TableExact
  <2>5. ~AttributesGood
    BY <1>3, <2>3, <2>4 DEF AttributesGood, AllGood
  <2>6. QED
    BY <1>1, <2>1, <2>2, <2>5, RejectedRight
<1>4. QED
  BY <1>2, <1>3

(* A method: its descriptor is measured.                                    *)
LEMMA ParseMethodParsed ==
    ASSUME PoolInv, IInv, ParsedExact, ParseMethod
    PROVE  ParsedExact' /\ WellFormedLinks'
<1>1. /\ UNCHANGED <<file, count, input, pool, index, original, thisName, superName, attributes, fields>>
      /\ status = "parsing" /\ original = NoFile
      /\ Len(methods) < Len(file.body.methods)
      /\ file.body.complete /\ file \in Files
      /\ thisName = Text(At(file.body.this).at[1])
      /\ methods \in Seq(ToSet(methods))
  BY DEF ParseMethod, MethodsParsed, AttributesParsed, Reject, classVars, IInv, StagesExact, ParsedExact,
         PoolInv, TableExact
<1>2. PICK n : n = Len(methods) + 1
  OBVIOUS
<1>3. CASE MethodGood(file.body.methods[n])
  <2>0. PICK more : more = [name |-> Text(file.body.methods[n].at[1]),
                            descriptor |-> Text(file.body.methods[n].at[2]),
                            argsSize |-> ArgsSize(Text(file.body.methods[n].at[2])),
                            code |-> CodeAttributes(file.body.methods[n]) # {}]
    OBVIOUS
  <2>1. /\ more.descriptor = Text(file.body.methods[n].at[2])
        /\ more.argsSize = ArgsSize(more.descriptor)
        /\ methods' = Append(methods, more)
        /\ status' = "parsing"
    <3>1. more.descriptor = Text(file.body.methods[n].at[2]) /\ more.argsSize = ArgsSize(more.descriptor)
      BY <2>0
    <3>2. methods' = Append(methods, more) /\ status' = "parsing"
      BY <1>1, <1>2, <1>3, <2>0 DEF ParseMethod
    <3>3. QED
      BY <3>1, <3>2
  <2>2. /\ methods' \in Seq(ToSet(methods'))
        /\ Len(methods') = Len(methods) + 1 /\ Len(methods) \in Nat
        /\ \A i \in 1..Len(methods) : methods'[i] = methods[i]
        /\ methods'[Len(methods) + 1] = more
    BY <1>1, <2>1, AppendOwn
  <2>3. ASSUME NEW i \in 1..Len(methods') PROVE methods'[i].argsSize = ArgsSize(methods'[i].descriptor)
    <3>1. CASE i \in 1..Len(methods)
      BY <2>2, <3>1 DEF ParsedExact
    <3>2. CASE i = Len(methods) + 1
      BY <2>1, <2>2, <3>2
    <3>3. QED
      BY <2>2, <3>1, <3>2
  <2>4. Text(At(file.body.this).at[1])' = Text(At(file.body.this).at[1])
    BY <1>1 DEF Text, At
  <2>5. ParsedExact'
    BY <1>1, <2>1, <2>2, <2>3, <2>4 DEF ParsedExact
  <2>6. QED
    BY <2>1, <2>5, NotRejected
<1>4. CASE ~MethodGood(file.body.methods[n])
  <2>1. status' = "rejected" /\ UNCHANGED classVars
    BY <1>2, <1>4 DEF ParseMethod, Reject
  <2>2. ParsedExact'
    BY <1>1, <2>1, ParsedKept
  <2>3. n \in DOMAIN file.body.methods
    <3>1. file.body.methods \in Seq(ToSet(file.body.methods))
      BY <1>1, BodyAssumption
    <3>2. PICK l, m : /\ l = Len(file.body.methods) /\ l \in Nat /\ DOMAIN file.body.methods = 1..l
                      /\ m = Len(methods) /\ m \in Nat /\ m < l /\ n = m + 1
      BY <1>1, <1>2, <3>1, LenProperties
    <3>3. n \in 1..l
      BY <3>2
    <3>4. QED
      BY <3>2, <3>3
  <2>5. WellFormedFile => \A i \in 1..2 : IsUtf8(file.body.methods[n].at[i])
    BY <1>1, <1>2, <2>3, WellFormedPasses
  <2>6. ~(WellFormedFile /\ AttributesGood)
    BY <1>4, <2>3, <2>5 DEF AttributesGood
  <2>7. QED
    BY <1>1, <2>1, <2>2, <2>6, RejectedRight
<1>5. QED
  BY <1>3, <1>4

(* A field: its descriptor is measured.                                    *)
LEMMA ParseFieldParsed ==
    ASSUME PoolInv, IInv, ParsedExact, ParseField
    PROVE  ParsedExact' /\ WellFormedLinks'
<1>1. /\ UNCHANGED <<file, count, input, pool, index, original, thisName, superName, attributes, methods>>
      /\ status = "parsing" /\ original = NoFile
      /\ Len(fields) < Len(file.body.fields)
      /\ file.body.complete /\ file \in Files
      /\ thisName = Text(At(file.body.this).at[1])
      /\ fields \in Seq(ToSet(fields))
  BY DEF ParseField, MethodsParsed, AttributesParsed, Reject, classVars, IInv, StagesExact, ParsedExact,
         PoolInv, TableExact
<1>2. PICK n : n = Len(fields) + 1
  OBVIOUS
<1>3. CASE FieldGood(file.body.fields[n])
  <2>1. PICK more : /\ more.descriptor = Text(file.body.fields[n].at[2])
                    /\ more.slotCount = SlotCount(FirstField(more.descriptor))
                    /\ fields' = Append(fields, more)
                    /\ status' = "parsing"
    <3>1. PICK more : more = [name |-> Text(file.body.fields[n].at[1]), descriptor |-> Text(file.body.fields[n].at[2]),
                          slotCount |-> SlotCount(FirstField(Text(file.body.fields[n].at[2])))]
      OBVIOUS
    <3>2. fields' = Append(fields, more) /\ status' = "parsing"
      BY <1>1, <1>2, <1>3, <3>1 DEF ParseField
    <3>3. QED
      BY <3>1, <3>2
  <2>2. /\ fields' \in Seq(ToSet(fields'))
        /\ Len(fields') = Len(fields) + 1 /\ Len(fields) \in Nat
        /\ \A i \in 1..Len(fields) : fields'[i] = fields[i]
        /\ fields'[Len(fields) + 1] = more
    BY <1>1, <2>1, AppendOwn
  <2>3. ASSUME NEW i \in 1..Len(fields') PROVE fields'[i].slotCount = SlotCount(FirstField(fields'[i].descriptor))
    <3>1. CASE i \in 1..Len(fields)
      BY <2>2, <3>1 DEF ParsedExact
    <3>2. CASE i = Len(fields) + 1
      BY <2>1, <2>2, <3>2
    <3>3. QED
      BY <2>2, <3>1, <3>2
  <2>4. Text(At(file.body.this).at[1])' = Text(At(file.body.this).at[1])
    BY <1>1 DEF Text, At
  <2>5. ParsedExact'
    BY <1>1, <2>1, <2>2, <2>3, <2>4 DEF ParsedExact
  <2>6. QED
    BY <2>1, <2>5, NotRejected
<1>4. CASE ~FieldGood(file.body.fields[n])
  <2>1. status' = "rejected" /\ UNCHANGED classVars
    BY <1>2, <1>4 DEF ParseField, Reject
  <2>2. ParsedExact'
    BY <1>1, <2>1, ParsedKept
  <2>3. n \in DOMAIN file.body.fields
    <3>1. file.body.fields \in Seq(ToSet(file.body.fields))
      BY <1>1, BodyAssumption
    <3>2. PICK l, m : /\ l = Len(file.body.fields) /\ l \in Nat /\ DOMAIN file.body.fields = 1..l
                      /\ m = Len(fields) /\ m \in Nat /\ m < l /\ n = m + 1
      BY <1>1, <1>2, <3>1, LenProperties
    <3>3. n \in 1..l
      BY <3>2
    <3>4. QED
      BY <3>2, <3>3
  <2>5. WellFormedFile => \A i \in 1..2 : IsUtf8(file.body.fields[n].at[i])
    BY <1>1, <1>2, <2>3, WellFormedPasses
  <2>6. ~(WellFormedFile /\ AttributesGood)
    <3> SUFFICES ASSUME WellFormedFile, AttributesGood PROVE FALSE
      OBVIOUS
    <3>1. AllGood(file.body.fields[n].attributes)
      BY <2>3 DEF AttributesGood
    <3>2. 1 \in 1..2 /\ 2 \in 1..2
      OBVIOUS
    <3>3. QED
      BY <1>4, <2>5, <3>1, <3>2 DEF FieldGood
  <2>7. QED
    BY <1>1, <2>1, <2>2, <2>6, RejectedRight
<1>5. QED
  BY <1>3, <1>4

(* An entry of a well formed file passes its checks.                       *)
LEMMA LinkEntryParsed ==
    ASSUME PoolInv, IInv, ParsedExact, LinkEntry
    PROVE  ParsedExact' /\ WellFormedLinks'
<1>1. /\ UNCHANGED <<file, count, input, pool, index, original, classVars>>
      /\ status = "linking" /\ original = NoFile
      /\ Len(entries) < Len(pool)
  BY DEF LinkEntry, IInv, StagesExact
<1>2. status' \in {"linking", "rejected"} /\ file.body.complete /\ thisName = Text(At(file.body.this).at[1])
  BY <1>1 DEF LinkEntry, ParsedExact
<1>3. ParsedExact'
  BY <1>1, <1>2, ParsedKept
<1>4. CASE ~Links(pool[Len(entries) + 1])
  <2>1. PICK m, n : m = Len(entries) /\ m \in Nat /\ n = Len(pool) /\ n \in Nat /\ m < n
    BY <1>1, LenProperties DEF IInv, EntriesExact, TableTyped
  <2>2. m + 1 \in 1..n
    BY <2>1
  <2>3. ~WellFormedFile
    BY <1>1, <1>4, <2>1, <2>2, WellFormedPasses
  <2>4. QED
    BY <1>1, <1>3, <2>3, RejectedRight
<1>5. CASE Links(pool[Len(entries) + 1])
  <2>1. status' = "linking"
    BY <1>1, <1>5 DEF LinkEntry
  <2>2. QED
    BY <1>3, <2>1, NotRejected
<1>6. QED
  BY <1>4, <1>5

(* What has been parsed is exact, and no well formed file is rejected.     *)
LEMMA NextParsed ==
    ASSUME PoolInv, IInv, ParsedExact, WellFormedLinks, [Next]_vars
    PROVE  ParsedExact' /\ WellFormedLinks'
<1>1. CASE PoolNext /\ UNCHANGED classVars
  <2>1. status' \in {"failed", "panicked", "decoding", "decoded"} /\ UNCHANGED <<file, classVars>>
    BY <1>1 DEF PoolNext, ReadFails, ReadEntry, PoolRead, WriteAndReread, Reading
  <2>2. ParsedExact'
    BY <2>1 DEF ParsedExact, classVars
  <2>3. QED
    BY <2>1, <2>2, NotRejected
<1>2. CASE Parsed
  <2>1. /\ UNCHANGED <<file, count, input, pool, index, original, classVars>>
        /\ status = "parsing" /\ status' = "linking"
    BY <1>2 DEF Parsed, MethodsParsed, AttributesParsed
  <2>2. file.body.complete /\ thisName = Text(At(file.body.this).at[1])
    BY <2>1 DEF ParsedExact
  <2>3. QED
    BY <2>1, <2>2, ParsedKept, NotRejected
<1>3. CASE Linking
  <2>1. /\ UNCHANGED <<file, count, input, pool, index, original, classVars>>
        /\ status = "linking" /\ status' = "linked"
    BY <1>3 DEF Linking
  <2>2. file.body.complete /\ thisName = Text(At(file.body.this).at[1])
    BY <2>1 DEF ParsedExact
  <2>3. QED
    BY <2>1, <2>2, ParsedKept, NotRejected
<1>4. CASE RunCode \/ RunNext \/ UNCHANGED vars
  <2>1. UNCHANGED <<file, count, input, pool, index, original, classVars, status>>
    BY <1>4 DEF RunCode, RunNext, Plain, Branch, Return, OutOfCode, UseConstant, vars, loadVars, poolVars
  <2>2. ParsedExact'
    BY <2>1, ParsedKept DEF ParsedExact
  <2>3. CASE status' # "rejected"
    BY <2>2, <2>3, NotRejected
  <2>4. CASE status' = "rejected"
    BY <2>1, <2>2, <2>4, RejectedRight DEF WellFormedLinks
  <2>5. QED
    BY <2>3, <2>4
<1>5. QED
  BY <1>1, <1>2, <1>3, <1>4, ReadBodyParsed, ParseNamesParsed, ParseAttributeParsed, ParseMethodParsed,
     ParseFieldParsed, LinkEntryParsed DEF Next, ClassNext, LinkNext

(* What has been parsed is what the file says.                             *)
THEOREM ParsedInvariance == Spec => [](ParsedExact /\ WellFormedLinks)
<1>1. PoolInv /\ IInv /\ (ParsedExact /\ WellFormedLinks) /\ [Next]_vars => (ParsedExact /\ WellFormedLinks)'
  BY NextParsed
<1>2. Init => ParsedExact /\ WellFormedLinks
  BY InitParsed
<1>3. QED
  BY <1>1, <1>2, Invariance, PoolInvariance, PTL DEF Spec

(* A class file as a compiler writes it, with sound attributes, is linked: *)
(* none of the checks on the way stumbles over it.                         *)
THEOREM WellFormedAreLinked == Spec => []WellFormedLinks
BY ParsedInvariance, PTL

-----------------------------------------------------------------------------
(* The instructions of a method. *)

(* An instruction has one to six bytes.                                    *)
LEMMA SizeIs ==
    ASSUME NEW bytes, NEW at
    PROVE  Size(bytes, at) \in Nat
BY DEF Size

(* The first instruction is the first.                                     *)
LEMMA FirstStarts ==
    ASSUME NEW S, NEW bytes \in Seq(S)
    PROVE  /\ Starts(bytes) \subseteq 0..Len(bytes) - 1
           /\ Starts(bytes) # {} => 0 \in Starts(bytes)
<1>0. PICK n, V, e : n \in Nat /\ n = Len(bytes) /\ V = Nat /\ e = 0
  BY LenProperties
<1> n \in Nat
  BY <1>0
<1> DEFINE OneMore(i, s) == IF s >= n THEN s ELSE s + Size(bytes, s)
           Down(g) == [i \in 0..n |-> IF i = 0 THEN e ELSE OneMore(i, g[i - 1])]
<1>1. ASSUME NEW i \in 1..n, NEW s \in V PROVE OneMore(i, s) \in V
  <2>1. Size(bytes, s) \in Nat
    BY SizeIs
  <2>2. s + Size(bytes, s) \in Nat
    BY <1>0, <2>1
  <2>3. QED
    BY <1>0, <2>2
<1>2. Starts(bytes) = {(CHOOSE g : g = Down(g))[m] : m \in 0..n} \cap 0..n - 1
  BY <1>0 DEF Starts
<1>3. e \in V
  BY <1>0
<1> HIDE DEF OneMore
<1>4. PICK step : step = [p \in (1..n) \X V |-> OneMore(p[1], p[2])]
  OBVIOUS
<1>5. step \in [(1..n) \X V -> V]
  BY <1>1, <1>4
<1>6. \A i \in 1..n, s \in V : step[<<i, s>>] = OneMore(i, s)
  BY <1>4
<1>7. PICK f : f \in [0..n -> V] /\ f[0] = e /\ \A i \in 1..n : f[i] = step[<<i, f[i - 1]>>]
  <2>1. \E f : BuiltIn(f, n, V, e, step)
    BY <1>3, <1>5, Recursion
  <2>2. QED
    BY <2>1 DEF BuiltIn
<1>8. \A i \in 1..n : f[i] = OneMore(i, f[i - 1])
  <2>1. \A i \in 1..n : f[i - 1] \in V
    BY <1>7
  <2>2. QED
    BY <1>6, <1>7, <2>1
<1>9. f = Down(f)
  BY <1>7, <1>8
<1>10. PICK g : g = CHOOSE h : h = Down(h)
  OBVIOUS
<1>11. g = Down(g)
  <2> HIDE DEF Down
  <2> QED BY <1>9, <1>10
<1>12. g[0] = e /\ \A i \in 1..n : g[i] = OneMore(i, g[i - 1])
  BY <1>11
<1>13. Alike(n, f, g)
  BY <1>7, <1>8, <1>12 DEF Alike
<1>14. \A i \in 0..n : f[i] = g[i]
  BY <1>13, SameSteps
<1>15. 0 \in {g[m] : m \in 0..n}
  <2>1. 0 \in 0..n /\ g[0] = 0
    BY <1>0, <1>12
  <2>2. QED
    BY <2>1
<1>16. Starts(bytes) \subseteq 0..n - 1 /\ (Starts(bytes) # {} => 0 \in Starts(bytes))
  <2> HIDE DEF Down
  <2>1. Starts(bytes) = {g[m] : m \in 0..n} \cap 0..n - 1
    BY <1>2, <1>10
  <2>2. 0..n - 1 # {} => 0 \in 0..n - 1
    OBVIOUS
  <2>3. QED
    BY <1>15, <2>1, <2>2
<1>17. QED
  BY <1>0, <1>16

(* An operand that is all there.                                           *)
LEMMA ReadIs ==
    ASSUME NEW bytes, NEW i, NEW width, i.op # "invalid", ~(i.next + width > Len(bytes))
    PROVE  /\ Read(bytes, i, width).op = i.op
           /\ Read(bytes, i, width).next = i.next + width
           /\ Read(bytes, i, width).operands = Append(i.operands, Unsigned(SubSeq(bytes, i.next + 1, i.next + width)))
BY DEF Read, Instruction

LEMMA StartIs ==
    ASSUME NEW op, NEW at, NEW i, i = Instruction(op, <<>>, at)
    PROVE  i.op = op /\ i.next = at /\ i.operands = <<>>
BY DEF Instruction

\* What an instruction stands for.
Known == {"return", "plain", "bipush", "local", "if", "goto", "wide", "iinc",
          "ldc", "ldc2_w", "new", "anewarray", "invoke", "field", "multianewarray", "unimplemented"}

LEMMA OpcodeKnown ==
    ASSUME NEW byte \in Nat
    PROVE  Opcode(byte) \in Known
<1>1. Len(Opcodes) = 15 /\ \A i \in 1..15 : Opcodes[i] \in Known
  BY DEF Opcodes, Known
<1>2. byte < 15 => byte + 1 \in 1..15
  OBVIOUS
<1>3. QED
  BY <1>1, <1>2 DEF Opcode, Known

\* One operand of one byte or two, two operands.
OneByte == {"local", "ldc"}
TwoBytes == {"if", "goto", "ldc2_w", "new", "anewarray", "invoke", "field"}

(* An instruction that is all there is decoded as such, and the next one   *)
(* is where it ends.                                                       *)
LEMMA InstructionIs ==
    ASSUME NEW bytes, Len(bytes) \in Nat, NEW p \in Nat, p < Len(bytes), bytes[p + 1] \in Nat,
           p + Size(bytes, p) <= Len(bytes),
           NEW op, op = Opcode(bytes[p + 1]), op # "unimplemented", op = "wide" => Size(bytes, p) > 1
    PROVE  /\ NextOp(bytes, p).op \in Known \ {"wide", "unimplemented"}
           /\ NextOp(bytes, p).next = p + Size(bytes, p)
           /\ NextOp(bytes, p).op = op \/ (op = "wide" /\ NextOp(bytes, p).op \in {"local", "iinc"})
           /\ op = "ldc" => NextOp(bytes, p).operands[1] = Unsigned(SubSeq(bytes, p + 2, p + 2))
           /\ op \in TwoBytes \cup {"multianewarray"} =>
                 NextOp(bytes, p).operands[1] = Unsigned(SubSeq(bytes, p + 2, p + 3))
<1>0. PICK l, i, z : l = Len(bytes) /\ i = NextOp(bytes, p) /\ z = Size(bytes, p)
  OBVIOUS
<1>1. l \in Nat /\ z \in Nat /\ p < l /\ p + z <= l
  BY <1>0, SizeIs
<1>2. op \in Known
  BY OpcodeKnown
<1>3. PICK q : q = p + 1 /\ q \in Nat /\ ~(p >= l)
  BY <1>1
<1>4. NextOp(bytes, p) = CASE op = "bipush" -> ReadsBipush(bytes, q)
                           [] op = "wide" -> ReadsWide(bytes, q)
                           [] op = "unimplemented" -> Instruction("invalid", <<>>, q)
                           [] OTHER -> Reads(bytes, op, Operands(op), q)
  BY <1>0, <1>3 DEF NextOp
<1>5. CASE op \in {"return", "plain"}
  <2>1. z = 1 /\ Operands(op) = <<>>
    BY <1>0, <1>5 DEF Size, Operands
  <2>2. i = Reads(bytes, op, Operands(op), q)
    BY <1>0, <1>4, <1>5
  <2>3. i = Instruction(op, <<>>, q)
    BY <2>1, <2>2 DEF Reads
  <2>4. i.op = op /\ i.next = q
    BY <2>3 DEF Instruction
  <2>5. QED
    BY <1>0, <1>3, <1>5, <2>1, <2>4 DEF Known, TwoBytes
<1>6. CASE op = "bipush"
  <2>1. z = 2
    BY <1>0, <1>6 DEF Size
  <2>2. i = ReadsBipush(bytes, q) /\ ~(q + 1 > l)
    BY <1>0, <1>1, <1>3, <1>4, <1>6, <2>1
  <2>3. i.op = op /\ i.next = q + 1
    BY <1>0, <1>6, <2>2 DEF ReadsBipush, Instruction
  <2>4. q + 1 = p + z
    BY <1>3, <2>1
  <2>5. QED
    BY <1>0, <1>6, <2>3, <2>4 DEF Known, TwoBytes
<1>7. CASE op \in OneByte \cup TwoBytes
  <2>1. PICK w : /\ Operands(op) = <<w>> /\ w \in Nat /\ z = w + 1
                 /\ op = "ldc" => w = 1
                 /\ op \in TwoBytes => w = 2
    <3>1. CASE op \in OneByte
      BY <1>0, <3>1 DEF Size, Operands, OneByte, TwoBytes
    <3>2. CASE op \in TwoBytes
      BY <1>0, <3>2 DEF Size, Operands, TwoBytes
    <3>3. QED
      BY <1>7, <3>1, <3>2
  <2>2. PICK r : r = q + w /\ ~(q + w > l) /\ r = p + z
    BY <1>1, <1>3, <2>1
  <2>3. i = Reads(bytes, op, <<w>>, q)
    BY <1>0, <1>4, <1>7, <2>1 DEF OneByte, TwoBytes
  <2>4. PICK a : a = Instruction(op, <<>>, q) /\ a.op = op /\ a.next = q /\ a.operands = <<>>
    BY StartIs
  <2>5. i = Read(bytes, a, w)
    <3>1. <<w>> # <<>> /\ Len(<<w>>) = 1 /\ <<w>>[1] = w
      OBVIOUS
    <3>2. QED
      BY <2>3, <2>4, <3>1 DEF Reads
  <2>6. a.op # "invalid" /\ ~(a.next + w > Len(bytes))
    BY <1>0, <1>7, <2>2, <2>4 DEF OneByte, TwoBytes
  <2>7. i.op = op /\ i.next = p + z /\ i.operands[1] = Unsigned(SubSeq(bytes, q + 1, q + w))
    <3>1. i.op = a.op /\ i.next = a.next + w /\ i.operands = Append(a.operands, Unsigned(SubSeq(bytes, a.next + 1, a.next + w)))
      BY <2>5, <2>6, ReadIs
    <3>2. PICK u : u = Unsigned(SubSeq(bytes, q + 1, q + w)) /\ i.operands = Append(<<>>, u)
      BY <2>4, <3>1
    <3>3. i.operands[1] = u
      BY <3>2
    <3>4. QED
      BY <2>2, <2>4, <3>1, <3>2, <3>3
  <2>8. q + 1 = p + 2 /\ (w = 1 => q + w = p + 2) /\ (w = 2 => q + w = p + 3)
    BY <1>3
  <2>9. QED
    BY <1>0, <1>7, <2>1, <2>7, <2>8 DEF OneByte, TwoBytes, Known
<1>8. CASE op \in {"iinc", "multianewarray"}
  <2>1. PICK v, w : /\ Operands(op) = <<v, w>> /\ v \in Nat /\ w \in Nat /\ z = v + w + 1
                    /\ op = "multianewarray" => v = 2
    BY <1>0, <1>8 DEF Size, Operands
  <2>2. PICK r : r = q + v /\ ~(q + v > l) /\ ~(r + w > l) /\ r + w = p + z
    BY <1>1, <1>3, <2>1
  <2>3. i = Reads(bytes, op, <<v, w>>, q)
    BY <1>0, <1>4, <1>8, <2>1
  <2>4. PICK a, b : /\ a = Instruction(op, <<>>, q) /\ a.op = op /\ a.next = q /\ a.operands = <<>>
                    /\ b = Read(bytes, a, v)
    BY StartIs
  <2>5. i = Read(bytes, b, w)
    <3>1. <<v, w>> # <<>> /\ Len(<<v, w>>) = 2 /\ <<v, w>>[1] = v /\ <<v, w>>[2] = w
      OBVIOUS
    <3>2. QED
      BY <2>3, <2>4, <3>1 DEF Reads
  <2>6. a.op # "invalid" /\ ~(a.next + v > Len(bytes))
    BY <1>0, <1>8, <2>2, <2>4
  <2>7. PICK u : u = Unsigned(SubSeq(bytes, q + 1, q + v)) /\ b.op = op /\ b.next = r /\ b.operands = Append(<<>>, u)
    <3>1. b.op = a.op /\ b.next = a.next + v /\ b.operands = Append(a.operands, Unsigned(SubSeq(bytes, a.next + 1, a.next + v)))
      BY <2>4, <2>6, ReadIs
    <3>2. QED
      BY <2>2, <2>4, <3>1
  <2>8. b.op # "invalid" /\ ~(b.next + w > Len(bytes))
    BY <1>0, <1>8, <2>2, <2>7
  <2>9. PICK o : i.op = op /\ i.next = p + z /\ i.operands = Append(Append(<<>>, u), o)
    <3>1. i.op = b.op /\ i.next = b.next + w /\ i.operands = Append(b.operands, Unsigned(SubSeq(bytes, b.next + 1, b.next + w)))
      BY <2>5, <2>8, ReadIs
    <3>2. QED
      BY <2>2, <2>7, <3>1
  <2>10. i.operands[1] = u
    <3>1. PICK S : S = {u, o}
      OBVIOUS
    <3>2. <<u>> \in Seq(S) /\ Len(<<u>>) = 1 /\ <<u>>[1] = u /\ Append(<<>>, u) = <<u>>
      BY <3>1
    <3>3. PICK s : s = <<u>> /\ s \in Seq(S) /\ Len(s) = 1 /\ s[1] = u
      BY <3>2
    <3>4. o \in S /\ 1 \in 1..1
      BY <3>1
    <3>5. Append(s, o)[1] = s[1]
      BY <3>3, <3>4, AppendProperties
    <3>6. QED
      BY <2>9, <3>2, <3>3, <3>5
  <2>11. q + 1 = p + 2 /\ (v = 2 => q + v = p + 3)
    BY <1>3
  <2>12. QED
    BY <1>0, <1>8, <2>1, <2>7, <2>9, <2>10, <2>11 DEF TwoBytes, Known
<1>9. CASE op = "wide"
  <2>1. ~(p + 2 > l)
    <3>1. p + 2 > l => z = 1
      BY <1>0, <1>9 DEF Size
    <3>2. QED
      BY <1>0, <1>9, <3>1
  <2>2. PICK wide : wide = Opcode(bytes[q + 1])
    OBVIOUS
  <2>3. z = CASE wide = "local" -> 4 [] wide = "iinc" -> 6 [] OTHER -> 1
    <3>1. q + 1 = p + 2
      BY <1>3
    <3>2. QED
      BY <1>0, <1>9, <2>1, <2>2, <3>1 DEF Size
  <2>4. wide \in {"local", "iinc"}
    BY <1>0, <1>9, <2>3
  <2>5. PICK r : r = q + 1 /\ r \in Nat /\ ~(q + 1 > l)
    BY <1>1, <1>3, <2>1
  <2>6. i = Reads(bytes, wide, WideOperands(wide), r)
    BY <1>0, <1>4, <1>9, <2>2, <2>4, <2>5 DEF ReadsWide, HasWide
  <2>7. PICK a, b : /\ a = Instruction(wide, <<>>, r) /\ a.op = wide /\ a.next = r
                    /\ b = Read(bytes, a, 2)
    BY StartIs
  <2>8. CASE wide = "local"
    <3>1. z = 4 /\ WideOperands(wide) = <<2>>
      BY <2>3, <2>8 DEF WideOperands
    <3>2. ~(r + 2 > l) /\ r + 2 = p + z
      BY <1>1, <1>3, <2>5, <3>1
    <3>3. i = b
      <4>1. <<2>> # <<>> /\ Len(<<2>>) = 1 /\ <<2>>[1] = 2
        OBVIOUS
      <4>2. QED
        BY <2>6, <2>7, <3>1, <4>1 DEF Reads
    <3>4. a.op # "invalid" /\ ~(a.next + 2 > Len(bytes))
      BY <1>0, <2>4, <2>7, <3>2
    <3>5. b.op = a.op /\ b.next = a.next + 2
      BY <2>7, <3>4, ReadIs
    <3>6. QED
      BY <1>0, <1>9, <2>7, <2>8, <3>2, <3>3, <3>5 DEF TwoBytes, Known
  <2>9. CASE wide = "iinc"
    <3>1. z = 6 /\ WideOperands(wide) = <<2, 2>>
      BY <2>3, <2>9 DEF WideOperands
    <3>2. PICK t : t = r + 2 /\ ~(r + 2 > l) /\ ~(t + 2 > l) /\ t + 2 = p + z
      BY <1>1, <1>3, <2>5, <3>1
    <3>3. i = Read(bytes, b, 2)
      <4>1. <<2, 2>> # <<>> /\ Len(<<2, 2>>) = 2 /\ <<2, 2>>[1] = 2 /\ <<2, 2>>[2] = 2
        OBVIOUS
      <4>2. QED
        BY <2>6, <2>7, <3>1, <4>1 DEF Reads
    <3>4. a.op # "invalid" /\ ~(a.next + 2 > Len(bytes))
      BY <1>0, <2>4, <2>7, <3>2
    <3>5. b.op = a.op /\ b.next = a.next + 2
      BY <2>7, <3>4, ReadIs
    <3>6. b.op # "invalid" /\ ~(b.next + 2 > Len(bytes))
      BY <1>0, <2>4, <2>7, <3>2, <3>5
    <3>7. i.op = b.op /\ i.next = b.next + 2
      BY <3>3, <3>6, ReadIs
    <3>8. QED
      BY <1>0, <1>9, <2>7, <2>9, <3>2, <3>5, <3>7 DEF TwoBytes, Known
  <2>10. QED
    BY <2>4, <2>8, <2>9
<1>10. QED
  BY <1>2, <1>5, <1>6, <1>7, <1>8, <1>9 DEF Known, OneByte, TwoBytes

(* Where an instruction of well formed code leads to.                      *)
LEMMA InstructionAt ==
    ASSUME NEW c \in Seq(0..Base - 1), WellFormedCode(c), NEW p \in Starts(c)
    PROVE  /\ p \in Nat /\ p < Len(c)
           /\ NextOp(c, p).op \in Known \ {"wide", "unimplemented"}
           /\ NextOp(c, p).op \notin {"return", "goto"} => NextOp(c, p).next \in Starts(c)
           /\ NextOp(c, p).op \in {"if", "goto"} => p + Signed(NextOp(c, p).operands[1]) \in Starts(c)
           /\ NextOp(c, p).op \in {"ldc", "ldc2_w", "new", "anewarray", "multianewarray", "invoke", "field"} =>
                 /\ NextOp(c, p).op = Opcode(c[p + 1])
                 /\ NextOp(c, p).operands[1] =
                       Unsigned(SubSeq(c, p + 2, p + (IF NextOp(c, p).op = "ldc" THEN 2 ELSE 3)))
<1>0. PICK i, op : i = NextOp(c, p) /\ op = Opcode(c[p + 1])
  OBVIOUS
<1>1. p \in Nat /\ p < Len(c) /\ Len(c) \in Nat /\ c[p + 1] \in Nat
  <2>1. Len(c) \in Nat
    BY LenProperties
  <2>2. p \in 0..Len(c) - 1
    BY FirstStarts
  <2>3. p + 1 \in 1..Len(c) /\ p \in Nat /\ p < Len(c)
    BY <2>1, <2>2
  <2>4. c[p + 1] \in 0..Base - 1
    BY <2>3, ElementOfSeq
  <2>5. QED
    BY <2>1, <2>3, <2>4
<1>2. /\ p + Size(c, p) <= Len(c)
      /\ op = "wide" => Size(c, p) > 1
      /\ op # "unimplemented"
      /\ op \in {"if", "goto"} => Target(c, p) \in Starts(c)
      /\ op \in {"return", "goto"} \/ p + Size(c, p) \in Starts(c)
  BY <1>0 DEF WellFormedCode
<1>3. /\ i.op \in Known \ {"wide", "unimplemented"}
      /\ i.next = p + Size(c, p)
      /\ i.op = op \/ (op = "wide" /\ i.op \in {"local", "iinc"})
      /\ op = "ldc" => i.operands[1] = Unsigned(SubSeq(c, p + 2, p + 2))
      /\ op \in TwoBytes \cup {"multianewarray"} => i.operands[1] = Unsigned(SubSeq(c, p + 2, p + 3))
  BY <1>0, <1>1, <1>2, InstructionIs
<1>4. i.op \notin {"return", "goto"} => i.next \in Starts(c)
  BY <1>2, <1>3
<1>5. ASSUME i.op \in {"if", "goto"} PROVE p + Signed(i.operands[1]) \in Starts(c)
  <2>1. i.op = op /\ op \in TwoBytes
    BY <1>3, <1>5 DEF TwoBytes
  <2>2. QED
    BY <1>2, <1>3, <1>5, <2>1 DEF Target
<1>6. ASSUME i.op \in {"ldc", "ldc2_w", "new", "anewarray", "multianewarray", "invoke", "field"}
      PROVE  i.op = op /\ i.operands[1] = Unsigned(SubSeq(c, p + 2, p + (IF i.op = "ldc" THEN 2 ELSE 3)))
  <2>1. i.op = op
    BY <1>3, <1>6
  <2>2. CASE op = "ldc"
    BY <1>3, <2>1, <2>2
  <2>3. CASE op # "ldc"
    <3>1. op \in TwoBytes \cup {"multianewarray"}
      BY <1>6, <2>1, <2>3 DEF TwoBytes
    <3>2. QED
      BY <1>3, <2>1, <2>3, <3>1
  <2>4. QED
    BY <2>2, <2>3
<1>7. QED
  BY <1>0, <1>1, <1>3, <1>4, <1>5, <1>6

(* An address within the code is not cut off.                              *)
LEMMA TargetKept ==
    ASSUME NEW c, WellFormedCode(c), Len(c) \in Nat, NEW p, NEW o, p + o \in Starts(c), Starts(c) \subseteq 0..Len(c) - 1
    PROVE  Plus(p, o) = p + o
<1>1. PICK to, l, b : to = p + o /\ l = Len(c) /\ b = Base * Base
  OBVIOUS
<1>2. l \in Nat /\ to \in 0..l - 1 /\ l <= b
  BY <1>1 DEF WellFormedCode
<1>3. b \in Int
  BY <1>1, BaseAssumption
<1>4. ~(to < 0) /\ ~(to >= b)
  BY <1>2, <1>3
<1>5. QED
  BY <1>1, <1>4 DEF Plus

(* The steps of a run.                                                     *)
LEMMA RunInStep ==
    ASSUME IInv, RunExact, InStep, RunNext
    PROVE  RunExact' /\ InStep'
<1>1. /\ run = "running" /\ status = "linked" /\ UNCHANGED <<code, loadVars>>
      /\ code \in Seq(0..Base - 1) /\ lastPc = pc
  <2>1. run = "running" /\ UNCHANGED <<code, loadVars>>
    BY DEF RunNext, Plain, Branch, Return, OutOfCode, UseConstant, Runs
  <2>2. QED
    BY <2>1 DEF IInv, StagesExact, RunExact
<1>2. CASE ~WellFormedCode(code)
  <2>1. RunExact'
    <3>1. \/ run' = run /\ lastPc' = pc'
          \/ run' # "none" /\ run' # "running"
      <4>1. CASE UseConstant
        <5>1. CASE \E to : GoOn(to)
          BY <5>1 DEF GoOn
        <5>2. CASE \E how \in {"error"} : Stop(how)
          BY <5>2 DEF Stop
        <5>3. ASSUME Fetched.op \in {"ldc", "ldc2_w", "new", "anewarray", "multianewarray", "invoke", "field"}
              PROVE  LookUp(Fetched.op, Fetched.operands[1]).is \in {"answer", "error"}
          BY <1>1, <5>3, LookUpAnswers DEF IInv
        <5>4. QED
          BY <4>1, <5>1, <5>2, <5>3 DEF UseConstant, Runs
      <4>2. CASE Plain \/ Branch
        BY <1>1, <4>2 DEF Plain, Branch, GoOn
      <4>3. CASE Return \/ OutOfCode
        BY <4>3 DEF Return, OutOfCode, Stop
      <4>4. QED
        BY <4>1, <4>2, <4>3 DEF RunNext
    <3>2. QED
      BY <1>1, <3>1 DEF RunExact
  <2>2. InStep'
    BY <1>1, <1>2 DEF InStep
  <2>3. QED
    BY <2>1, <2>2
<1>3. CASE WellFormedCode(code)
  <2>1. /\ pc \in Starts(code)
        /\ used # NoUse =>
              /\ used.at \in Starts(code)
              /\ used.op = Opcode(code[used.at + 1])
              /\ used.index = Unsigned(SubSeq(code, used.at + 2, used.at + (IF used.op = "ldc" THEN 2 ELSE 3)))
    BY <1>1, <1>3 DEF InStep
  <2>2. /\ pc \in Nat /\ pc < Len(code)
        /\ Fetched.op \in Known \ {"wide", "unimplemented"}
        /\ Fetched.op \notin {"return", "goto"} => Fetched.next \in Starts(code)
        /\ Fetched.op \in {"if", "goto"} => pc + Signed(Fetched.operands[1]) \in Starts(code)
        /\ Fetched.op \in {"ldc", "ldc2_w", "new", "anewarray", "multianewarray", "invoke", "field"} =>
              /\ Fetched.op = Opcode(code[pc + 1])
              /\ Fetched.operands[1] =
                    Unsigned(SubSeq(code, pc + 2, pc + (IF Fetched.op = "ldc" THEN 2 ELSE 3)))
    BY <1>1, <1>3, <2>1, InstructionAt DEF Fetched
  <2>3. \/ /\ run' = "running" /\ lastPc' = pc' /\ pc' \in Starts(code)
        \/ /\ run' \in {"returned", "error"}
    <3>1. CASE Plain
      <4>1. GoOn(Fetched.next) /\ Fetched.op \notin {"return", "goto"}
        BY <3>1 DEF Plain, Runs
      <4>2. QED
        BY <1>1, <2>2, <4>1 DEF GoOn
    <3>2. CASE Branch
      <4>1. Fetched.op \in {"if", "goto"}
        BY <3>2 DEF Branch, Runs
      <4>2. Plus(lastPc, Signed(Fetched.operands[1])) = pc + Signed(Fetched.operands[1])
        BY <1>1, <1>3, <2>2, <4>1, TargetKept, FirstStarts, LenProperties
      <4>3. PICK to \in Starts(code) : GoOn(to)
        BY <2>2, <3>2, <4>1, <4>2 DEF Branch
      <4>4. QED
        BY <1>1, <4>3 DEF GoOn
    <3>3. CASE Return
      BY <3>3 DEF Return, Stop
    <3>4. CASE OutOfCode
      BY <2>2, <3>4 DEF OutOfCode, Runs, Known
    <3>5. CASE UseConstant
      <4>1. Fetched.op \in {"ldc", "ldc2_w", "new", "anewarray", "multianewarray", "invoke", "field"}
        BY <3>5 DEF UseConstant, Runs
      <4>2. LookUp(Fetched.op, Fetched.operands[1]).is \in {"answer", "error"}
        BY <1>1, <4>1, LookUpAnswers DEF IInv
      <4>3. Stop("error") \/ GoOn(Fetched.next)
        BY <3>5, <4>2 DEF UseConstant
      <4>4. Fetched.next \in Starts(code)
        BY <2>2, <4>1
      <4>5. QED
        BY <1>1, <4>3, <4>4 DEF Stop, GoOn
    <3>6. QED
      BY <3>1, <3>2, <3>3, <3>4, <3>5 DEF RunNext
  <2>4. \/ used' = used
        \/ /\ used'.at \in Starts(code)
           /\ used'.op = Opcode(code[used'.at + 1])
           /\ used'.index = Unsigned(SubSeq(code, used'.at + 2, used'.at + (IF used'.op = "ldc" THEN 2 ELSE 3)))
    <3>1. CASE UseConstant /\ used' # used
      <4>1. Fetched.op \in {"ldc", "ldc2_w", "new", "anewarray", "multianewarray", "invoke", "field"}
        BY <3>1 DEF UseConstant, Runs
      <4>2. used'.op = Fetched.op /\ used'.at = pc /\ used'.index = Fetched.operands[1]
        BY <3>1 DEF UseConstant
      <4>3. QED
        BY <2>1, <2>2, <4>1, <4>2
    <3>2. CASE ~UseConstant
      BY <3>2 DEF RunNext, Plain, Branch, Return, OutOfCode
    <3>3. QED
      BY <3>1, <3>2
  <2>5. RunExact'
    BY <1>1, <2>3 DEF RunExact
  <2>6. run' = "running" => Fetched'.op \notin {"none", "invalid"}
    <3> SUFFICES ASSUME run' = "running" PROVE Fetched'.op \notin {"none", "invalid"}
      OBVIOUS
    <3>1. pc' \in Starts(code) /\ code' = code
      BY <1>1, <2>3
    <3>2. NextOp(code, pc').op \in Known
      BY <1>1, <1>3, <3>1, InstructionAt
    <3>3. QED
      BY <3>1, <3>2 DEF Fetched, Known
  <2>7. InStep'
    BY <1>1, <2>1, <2>3, <2>4, <2>6 DEF InStep
  <2>8. QED
    BY <2>5, <2>7
<1>4. QED
  BY <1>2, <1>3

(* A run begins with the first instruction; nothing else touches it.       *)
LEMMA NextInStep ==
    ASSUME PoolInv, IInv, RunExact, InStep, [Next]_vars
    PROVE  RunExact' /\ InStep'
<1>1. CASE UNCHANGED runVars
  BY <1>1 DEF RunExact, InStep, runVars, Fetched
<1>2. CASE RunCode
  <2>1. /\ run = "none" /\ run' = "running" /\ pc' = 0 /\ lastPc' = 0 /\ used' = NoUse
        /\ code' \in Codes[file.code]
    BY <1>2 DEF RunCode, RunExact
  <2>2. PICK c : c = code' /\ c \in Seq(0..Base - 1)
    BY <2>1, CodeAssumption DEF PoolInv, TableExact
  <2>3. RunExact'
    BY <2>1, <2>2 DEF RunExact
  <2>4. ASSUME WellFormedCode(c)
        PROVE  0 \in Starts(c) /\ NextOp(c, 0).op \in Known
    <3>1. 0 \in Starts(c)
      BY <2>2, <2>4, FirstStarts DEF WellFormedCode
    <3>2. QED
      BY <2>2, <2>4, <3>1, InstructionAt
  <2>5. InStep'
    BY <2>1, <2>2, <2>4 DEF InStep, Fetched, Known
  <2>6. QED
    BY <2>3, <2>5
<1>3. QED
  BY <1>1, <1>2, RunInStep DEF Next, vars

(* The run, and the code it follows.                                       *)
THEOREM RunInvariance == Spec => [](RunExact /\ InStep)
<1>1. Init => RunExact /\ InStep
  BY DEF Init, RunExact, InStep
<1>2. PoolInv /\ IInv /\ (RunExact /\ InStep) /\ [Next]_vars => (RunExact /\ InStep)'
  BY NextInStep
<1>3. QED
  BY <1>1, <1>2, Invariance, PoolInvariance, PTL DEF Spec

(* Code as a compiler writes it is read in step, whatever branches it      *)
(* takes: no operand is taken for an instruction.                          *)
THEOREM CodeIsReadInStep == Spec => []InStep
BY RunInvariance, PTL

-----------------------------------------------------------------------------
(* The slots of a descriptor. *)

(* The characters of some types.                                           *)
Characters(types) == UNION {ToSet(TypeText(types[i])) : i \in 1..Len(types)}

(* The texts of more and more types.                                       *)
LEMMA TextSteps ==
    ASSUME NEW types, types \in Seq(ToSet(types)), \A i \in 1..Len(types) : IsType(types[i])
    PROVE  \E f : /\ f \in [0..Len(types) -> Seq(Characters(types))]
                  /\ f[0] = <<>>
                  /\ \A i \in 1..Len(types) : f[i] = f[i - 1] \o TypeText(types[i])
                  /\ TypesText(types) = f[Len(types)]
<1>0. PICK n, V, e : n \in Nat /\ n = Len(types) /\ V = Seq(Characters(types)) /\ e = <<>>
  BY LenProperties
<1> n \in Nat
  BY <1>0
<1> DEFINE OneMore(i, s) == s \o TypeText(types[i])
           Down(g) == [i \in 0..n |-> IF i = 0 THEN e ELSE OneMore(i, g[i - 1])]
<1>1. ASSUME NEW i \in 1..n, NEW s \in V PROVE OneMore(i, s) \in V
  <2>1. TypeText(types[i]) \in Seq(ToSet(TypeText(types[i])))
    BY <1>0, TypeTextIs, OwnElements
  <2>2. ToSet(TypeText(types[i])) \subseteq Characters(types)
    BY <1>0 DEF Characters
  <2>3. TypeText(types[i]) \in V
    BY <1>0, <2>1, <2>2, SeqMonotonic
  <2>4. QED
    BY <1>0, <2>3, ConcatProperties
<1>2. TypesText(types) = (CHOOSE g : g = Down(g))[n]
  BY <1>0 DEF TypesText
<1>3. e \in V
  BY <1>0
<1> HIDE DEF OneMore
<1>4. PICK step : step = [p \in (1..n) \X V |-> OneMore(p[1], p[2])]
  OBVIOUS
<1>5. step \in [(1..n) \X V -> V]
  BY <1>1, <1>4
<1>6. \A i \in 1..n, s \in V : step[<<i, s>>] = OneMore(i, s)
  BY <1>4
<1>7. PICK f : f \in [0..n -> V] /\ f[0] = e /\ \A i \in 1..n : f[i] = step[<<i, f[i - 1]>>]
  <2>1. \E f : BuiltIn(f, n, V, e, step)
    BY <1>3, <1>5, Recursion
  <2>2. QED
    BY <2>1 DEF BuiltIn
<1>8. \A i \in 1..n : f[i] = OneMore(i, f[i - 1])
  <2>1. \A i \in 1..n : f[i - 1] \in V
    BY <1>7
  <2>2. QED
    BY <1>6, <1>7, <2>1
<1>9. f = Down(f)
  BY <1>7, <1>8
<1>10. PICK g : g = CHOOSE h : h = Down(h)
  OBVIOUS
<1>11. g = Down(g)
  <2> HIDE DEF Down
  <2> QED BY <1>9, <1>10
<1>12. g[0] = e /\ \A i \in 1..n : g[i] = OneMore(i, g[i - 1])
  BY <1>11
<1>13. Alike(n, f, g)
  BY <1>7, <1>8, <1>12 DEF Alike
<1>14. \A i \in 0..n : f[i] = g[i]
  BY <1>13, SameSteps
<1>15. TypesText(types) = f[n]
  BY <1>2, <1>10, <1>14
<1>16. QED
  BY <1>0, <1>7, <1>8, <1>15 DEF OneMore

(* Their slots.                                                            *)
LEMMA SlotSteps ==
    ASSUME NEW types, types \in Seq(ToSet(types))
    PROVE  \E f : /\ f \in [0..Len(types) -> Nat]
                  /\ f[0] = 0
                  /\ \A i \in 1..Len(types) : f[i] = f[i - 1] + TypeSlots(types[i])
                  /\ MethodSlots(types) = f[Len(types)]
<1>0. PICK n, V, e : n \in Nat /\ n = Len(types) /\ V = Nat /\ e = 0
  BY LenProperties
<1> n \in Nat
  BY <1>0
<1> DEFINE OneMore(i, s) == s + TypeSlots(types[i])
           Down(g) == [i \in 0..n |-> IF i = 0 THEN e ELSE OneMore(i, g[i - 1])]
<1>1. ASSUME NEW i \in 1..n, NEW s \in V PROVE OneMore(i, s) \in V
  <2>1. TypeSlots(types[i]) \in 1..2
    BY DEF TypeSlots
  <2>2. QED
    BY <1>0, <2>1
<1>2. MethodSlots(types) = (CHOOSE g : g = Down(g))[n]
  BY <1>0 DEF MethodSlots
<1>3. e \in V
  BY <1>0
<1> HIDE DEF OneMore
<1>4. PICK step : step = [p \in (1..n) \X V |-> OneMore(p[1], p[2])]
  OBVIOUS
<1>5. step \in [(1..n) \X V -> V]
  BY <1>1, <1>4
<1>6. \A i \in 1..n, s \in V : step[<<i, s>>] = OneMore(i, s)
  BY <1>4
<1>7. PICK f : f \in [0..n -> V] /\ f[0] = e /\ \A i \in 1..n : f[i] = step[<<i, f[i - 1]>>]
  <2>1. \E f : BuiltIn(f, n, V, e, step)
    BY <1>3, <1>5, Recursion
  <2>2. QED
    BY <2>1 DEF BuiltIn
<1>8. \A i \in 1..n : f[i] = OneMore(i, f[i - 1])
  <2>1. \A i \in 1..n : f[i - 1] \in V
    BY <1>7
  <2>2. QED
    BY <1>6, <1>7, <2>1
<1>9. f = Down(f)
  BY <1>7, <1>8
<1>10. PICK g : g = CHOOSE h : h = Down(h)
  OBVIOUS
<1>11. g = Down(g)
  <2> HIDE DEF Down
  <2> QED BY <1>9, <1>10
<1>12. g[0] = e /\ \A i \in 1..n : g[i] = OneMore(i, g[i - 1])
  BY <1>11
<1>13. Alike(n, f, g)
  BY <1>7, <1>8, <1>12 DEF Alike
<1>14. \A i \in 0..n : f[i] = g[i]
  BY <1>13, SameSteps
<1>15. MethodSlots(types) = f[n]
  BY <1>2, <1>10, <1>14
<1>16. QED
  BY <1>0, <1>7, <1>8, <1>15 DEF OneMore

(* The first field of the text of a type has the slots of the type.        *)
LEMMA SlotsOfType ==
    ASSUME NEW type, IsType(type)
    PROVE  SlotCount(FirstField(TypeText(type))) = TypeSlots(type)
<1>0. PICK d, base, text : d = type.dimensions /\ base = type.base /\ text = TypeText(type)
  OBVIOUS
<1>1. /\ d \in Nat /\ Len(base) \in Nat \ {0} /\ text \in Seq({"["} \cup ToSet(base))
      /\ Len(text) = d + Len(base)
      /\ \A i \in 1..d : text[i] = "["
      /\ \A i \in 1..Len(base) : text[d + i] = base[i]
  BY <1>0, TypeTextIs
<1>2. /\ Head(base) = base[1]
      /\ base[1] = "L" \/ base[1] \in Narrow \/ base[1] \in Wide
  BY <1>0, BaseForm
<1>3. CASE d = 0
  <2>1. PICK b : b = Len(base) /\ b \in Nat /\ Len(text) = b /\ \A i \in 1..b : text[i] = base[i]
    <3>1. PICK b : b = Len(base) /\ b \in Nat
      BY <1>1
    <3>2. 0 + b = b /\ \A i \in 1..b : 0 + i = i
      BY <3>1
    <3>3. QED
      BY <1>1, <1>3, <3>1, <3>2
  <2>2. b <= b
    BY <2>1
  <2>3. Len(base) <= Len(text) /\ \A i \in 1..Len(base) : text[i] = base[i]
    BY <2>1, <2>2
  <2>4. /\ base[1] = "L" => FirstField(text) = [kind |-> "object", class |-> SubSeq(text, 2, Len(base) - 1)]
        /\ base[1] \in Narrow => FirstField(text) = [kind |-> "narrow", char |-> base[1]]
        /\ base[1] \in Wide => FirstField(text) = [kind |-> "wide", char |-> base[1]]
    <3>1. PICK S : S = {"["} \cup ToSet(base) /\ text \in Seq(S)
      BY <1>1
    <3>2. base = type.base
      BY <1>0
    <3>3. QED
      BY <2>3, <3>1, <3>2, BaseField
  <2>5. NoField.kind = "none"
    BY DEF NoField
  <2>6. CASE base[1] \in Wide
    <3>1. PICK f : f = FirstField(text) /\ f.kind = "wide"
      BY <2>4, <2>6
    <3>2. SlotCount(f) = 2
      BY <2>5, <3>1 DEF SlotCount
    <3>3. TypeSlots(type) = 2
      BY <1>0, <1>2, <1>3, <2>6 DEF TypeSlots
    <3>4. QED
      BY <1>0, <3>1, <3>2, <3>3
  <2>7. CASE base[1] = "L" \/ base[1] \in Narrow
    <3>1. PICK f : f = FirstField(text) /\ f.kind \in {"object", "narrow"}
      BY <2>4, <2>7
    <3>2. SlotCount(f) = 1
      BY <2>5, <3>1 DEF SlotCount
    <3>3. base[1] \notin Wide
      BY <2>7 DEF Narrow, Wide
    <3>4. TypeSlots(type) = 1
      BY <1>0, <1>2, <3>3 DEF TypeSlots
    <3>5. QED
      BY <1>0, <3>1, <3>2, <3>4
  <2>8. QED
    BY <1>2, <2>6, <2>7
<1>4. CASE d # 0
  <2>1. 1 \in 1..d /\ Len(text) # 0
    BY <1>1, <1>4
  <2>2. text[1] = "[" /\ text # <<>>
    BY <1>1, <2>1
  <2>3. Head(text) = "["
    BY <1>1, <2>2
  <2>4. PICK f : f = FirstField(text) /\ f = [kind |-> "array"]
    BY <2>2, <2>3 DEF FirstField, Narrow, Wide
  <2>5. SlotCount(f) = 1
    <3>1. f.kind = "array" /\ NoField.kind = "none"
      BY <2>4 DEF NoField
    <3>2. QED
      BY <3>1 DEF SlotCount
  <2>6. TypeSlots(type) = 1
    BY <1>0, <1>4 DEF TypeSlots
  <2>7. QED
    BY <1>0, <2>4, <2>5, <2>6
<1>5. QED
  BY <1>3, <1>4

(* In a text that begins with that of a type, the first argument is that.  *)
LEMMA ArgEndsWithType ==
    ASSUME NEW type, IsType(type), NEW S, NEW r \in Seq(S), "[" \in S,
           Len(TypeText(type)) <= Len(r), \A i \in 1..Len(TypeText(type)) : r[i] = TypeText(type)[i]
    PROVE  ArgEnd(r) = Len(TypeText(type)) /\ Len(TypeText(type)) \in Nat \ {0}
<1>0. PICK d, base, text, b, l : /\ d = type.dimensions /\ base = type.base /\ text = TypeText(type)
                                 /\ b = Len(base) /\ l = Len(r)
  OBVIOUS
<1>1. /\ d \in Nat /\ b \in Nat \ {0}
      /\ Len(text) = d + b
      /\ \A i \in 1..d : text[i] = "["
      /\ \A i \in 1..b : text[d + i] = base[i]
  BY <1>0, TypeTextIs
<1>2. l \in Nat /\ d + b <= l /\ \A i \in 1..d + b : r[i] = text[i]
  <2>1. l \in Nat
    BY <1>0, LenProperties
  <2>2. QED
    BY <1>0, <1>1, <2>1
<1>3. /\ base[1] # "["
      /\ base[1] # "L" => b = 1
  BY <1>0, BaseForm
<1>n. PICK n : n = d + 1
  OBVIOUS
<1>4. n = d + 1 /\ n \in 1..l /\ n \in 1..d + b /\ n - 1 = d /\ n # 0 /\ n \in Nat
  <2>1. d \in Nat /\ b \in Nat /\ b # 0 /\ l \in Nat /\ d + b <= l
    BY <1>1, <1>2
  <2>2. QED
    BY <1>n, <2>1
<1>5. r[n] = base[1] /\ \A i \in 1..b : r[d + i] = base[i]
  <2>1. ASSUME NEW i \in 1..b PROVE r[d + i] = base[i]
    <3>1. d + i \in 1..d + b
      BY <1>1
    <3>2. QED
      BY <1>1, <1>2, <3>1
  <2>2. 1 \in 1..b
    BY <1>1
  <2>3. QED
    BY <1>4, <2>1, <2>2
<1>6. FirstNotIn(r, {"["}) = n
  <2>1. \A i \in 1..n - 1 : r[i] \in {"["}
    <3>1. \A i \in 1..d : i \in 1..d + b
      BY <1>1
    <3>2. QED
      BY <1>1, <1>2, <1>4, <3>1
  <2>2. r[n] \notin {"["} /\ n \in 1..Len(r) /\ Len(r) \in Nat
    BY <1>0, <1>2, <1>3, <1>4, <1>5
  <2>3. QED
    BY <2>1, <2>2, FirstNotInIs
<1>7. PICK name : name = SubSeq(r, n, l)
  OBVIOUS
<1>8. name \in Seq(S) /\ b <= Len(name) /\ \A i \in 1..b : name[i] = base[i]
  <2>1. n \in 1..Len(r) + 1 /\ l \in n - 1..Len(r)
    BY <1>0, <1>2, <1>4
  <2>2. /\ name \in Seq(S) /\ Len(name) = l - n + 1
        /\ \A i \in 1..l - n + 1 : name[i] = r[n + i - 1]
    BY <1>7, <2>1, SubSeqPlaces
  <2>3. b <= l - n + 1
    BY <1>1, <1>2, <1>4
  <2>4. ASSUME NEW i \in 1..b PROVE name[i] = base[i]
    <3>1. i \in 1..l - n + 1 /\ n + i - 1 = d + i
      BY <1>1, <1>2, <1>4, <2>3
    <3>2. QED
      BY <1>5, <2>2, <3>1
  <2>5. QED
    BY <2>2, <2>3, <2>4
<1>9. CASE base[1] # "L"
  <2>1. ArgEnd(r) = n
    BY <1>4, <1>5, <1>6, <1>9 DEF ArgEnd
  <2>2. n = d + b /\ d + b \in Nat \ {0}
    <3>1. b = 1 /\ d \in Nat
      BY <1>1, <1>3, <1>9
    <3>2. QED
      BY <1>4, <3>1
  <2>3. QED
    BY <1>0, <1>1, <2>1, <2>2
<1>10. CASE base[1] = "L"
  <2>1. FirstIn(name, {";"}) = b
    BY ZenonT(60), <1>0, <1>8, <1>10, BaseEnds
  <2>2. b # 0
    BY <1>1
  <2>3. ArgEnd(r) = n - 1 + b
    BY <1>0, <1>4, <1>5, <1>6, <1>7, <1>10, <2>1, <2>2 DEF ArgEnd
  <2>4. QED
    BY <1>0, <1>1, <1>4, <2>3
<1>11. QED
  BY <1>9, <1>10

(* What types a method has.                                                *)
AreTypes(types) == types \in Seq(ToSet(types)) /\ \A i \in 1..Len(types) : IsType(types[i])

(* No parenthesis is part of a type.                                       *)
LEMMA NoParentheses ==
    ASSUME NEW types, AreTypes(types)
    PROVE  "(" \notin Characters(types) /\ ")" \notin Characters(types)
<1> SUFFICES ASSUME NEW i \in 1..Len(types), NEW c \in ToSet(TypeText(types[i]))
             PROVE  c \notin {"(", ")"}
  BY DEF Characters
<1>0. PICK type : type = types[i] /\ IsType(type)
  BY DEF AreTypes
<1>1. PICK d, base, text, b : /\ d = type.dimensions /\ base = type.base /\ text = TypeText(type) /\ b = Len(base)
  OBVIOUS
<1>2. /\ d \in Nat /\ b \in Nat \ {0} /\ text \in Seq({"["} \cup ToSet(base)) /\ Len(text) = d + b
      /\ \A j \in 1..d : text[j] = "["
      /\ \A j \in 1..b : text[d + j] = base[j]
  BY <1>0, <1>1, TypeTextIs
<1>3. PICK j : j \in 1..d + b /\ c = text[j]
  <2>1. DOMAIN text = 1..Len(text)
    BY <1>2, LenProperties
  <2>2. QED
    BY <1>0, <1>1, <1>2, <2>1 DEF ToSet
<1>4. CASE j \in 1..d
  BY <1>2, <1>3, <1>4
<1>5. CASE j \notin 1..d
  <2>1. PICK k : k = j - d
    OBVIOUS
  <2>2. k \in 1..b /\ d + k = j
    <3>1. d \in Nat /\ b \in Nat /\ j \in 1..d + b
      BY <1>2, <1>3
    <3>2. QED
      BY <1>5, <2>1, <3>1
  <2>3. c = base[k]
    BY <1>2, <1>3, <2>2
  <2>4. /\ base[1] # "L" => b = 1 /\ base[1] \in Narrow \cup Wide
        /\ base[1] = "L" => /\ base[b] = ";" /\ \A n \in 1..b - 1 : base[n] \notin {";", "(", ")"}
    BY <1>0, <1>1, BaseForm
  <2>5. CASE base[1] # "L"
    <3>1. k = 1
      <4>1. b = 1
        BY <2>4, <2>5
      <4>2. QED
        BY <2>2, <4>1
    <3>2. c \in Narrow \cup Wide
      BY <2>3, <2>4, <2>5, <3>1
    <3>3. QED
      BY <3>2 DEF Narrow, Wide
  <2>6. CASE base[1] = "L"
    <3>1. k = b \/ k \in 1..b - 1
      BY <1>2, <2>2
    <3>2. QED
      BY <2>3, <2>4, <2>6, <3>1
  <2>7. QED
    BY <2>5, <2>6
<1>6. QED
  BY <1>4, <1>5

(* What is between the parentheses is what the types are written as.       *)
LEMMA ArgsTextIs ==
    ASSUME NEW types, AreTypes(types)
    PROVE  ArgsText(MethodText(types)) = TypesText(types)
<1>0. PICK T, C, l : T = TypesText(types) /\ C = Characters(types) /\ l = Len(T)
  OBVIOUS
<1>1. T \in Seq(C) /\ l \in Nat
  <2>1. Len(types) \in Nat
    BY LenProperties DEF AreTypes
  <2>2. PICK f : f \in [0..Len(types) -> Seq(Characters(types))] /\ TypesText(types) = f[Len(types)]
    BY TextSteps DEF AreTypes
  <2>3. T \in Seq(C)
    BY <1>0, <2>1, <2>2
  <2>4. QED
    BY <1>0, <2>3, LenProperties
<1>2. \A i \in 1..l : T[i] \notin {"(", ")"}
  <2>1. \A i \in 1..l : T[i] \in C
    BY <1>0, <1>1, ElementOfSeq
  <2>2. QED
    BY <1>0, <2>1, NoParentheses
<1>3. PICK S : S = C \cup {"(", ")", "V"}
  OBVIOUS
<1>4. T \in Seq(S)
  BY <1>1, <1>3, SeqMonotonic
<1>5. PICK p, e : p = <<"(">> /\ e = <<")", "V">>
  OBVIOUS
<1>6. p \in Seq(S) /\ Len(p) = 1 /\ p[1] = "(" /\ e \in Seq(S) /\ Len(e) = 2 /\ e[1] = ")"
  BY <1>3, <1>5
<1>7. PICK a : a = p \o T
  OBVIOUS
<1>8. a \in Seq(S) /\ Len(a) = 1 + l /\ a[1] = "(" /\ \A i \in 1..l : a[1 + i] = T[i]
  <2>0. PICK m : m = Len(p) /\ m = 1
    BY <1>6
  <2>1. /\ p \o T \in Seq(S) /\ Len(p \o T) = m + l
        /\ \A i \in 1..m : (p \o T)[i] = p[i]
        /\ \A i \in 1..l : (p \o T)[m + i] = T[i]
    <3>1. p \in Seq(S) /\ T \in Seq(S) /\ m = Len(p) /\ l = Len(T)
      BY <1>0, <1>4, <1>6, <2>0
    <3>2. QED
      BY <3>1, ConcatPlaces
  <2>2. 1 \in 1..1
    OBVIOUS
  <2>3. QED
    BY <1>6, <1>7, <2>0, <2>1, <2>2
<1>9. PICK desc : desc = a \o e
  OBVIOUS
<1>10. /\ desc \in Seq(S) /\ Len(desc) = (1 + l) + 2
       /\ \A i \in 1..1 + l : desc[i] = a[i]
       /\ \A i \in 1..2 : desc[(1 + l) + i] = e[i]
  <2>1. PICK m, n : m = Len(a) /\ n = Len(e) /\ m = 1 + l /\ n = 2
    BY <1>6, <1>8
  <2>2. /\ a \o e \in Seq(S) /\ Len(a \o e) = m + n
        /\ \A i \in 1..m : (a \o e)[i] = a[i]
        /\ \A i \in 1..n : (a \o e)[m + i] = e[i]
    <3>1. a \in Seq(S) /\ e \in Seq(S) /\ m = Len(a) /\ n = Len(e)
      BY <1>6, <1>8, <2>1
    <3>2. QED
      BY <3>1, ConcatPlaces
  <2>3. QED
    BY <1>9, <2>1, <2>2
<1>11. desc = MethodText(types)
  BY <1>0, <1>5, <1>7, <1>9 DEF MethodText
<1>12. FirstIn(desc, {"(", ")"}) = 1
  <2>1. 1 \in 1..1 + l /\ 1 \in 1..(1 + l) + 2 /\ (1 + l) + 2 \in Nat /\ \A i \in 1..1 - 1 : FALSE
    BY <1>1
  <2>2. desc[1] \in {"(", ")"}
    BY <1>8, <1>10, <2>1
  <2>3. 1 \in 1..Len(desc) /\ Len(desc) \in Nat
    BY <1>10, <2>1
  <2>4. QED
    BY <2>1, <2>2, <2>3, FirstInIs
<1>13. PICK behind : behind = SubSeq(desc, 2, Len(desc))
  OBVIOUS
<1>14. /\ behind \in Seq(S) /\ Len(behind) = l + 2
       /\ \A i \in 1..l : behind[i] = T[i]
       /\ behind[l + 1] = ")"
  <2>1. PICK n : n = (1 + l) + 2 /\ n \in Nat /\ 2 \in 1..n + 1 /\ n \in 2 - 1..n /\ n - 2 + 1 = l + 2
    BY <1>1
  <2>2. /\ behind \in Seq(S) /\ Len(behind) = n - 2 + 1
        /\ \A i \in 1..n - 2 + 1 : behind[i] = desc[2 + i - 1]
    BY <1>10, <1>13, <2>1, SubSeqPlaces
  <2>3. \A i \in 1..l + 2 : behind[i] = desc[2 + i - 1]
    BY <2>1, <2>2
  <2>4. ASSUME NEW i \in 1..l PROVE behind[i] = T[i]
    <3>1. i \in 1..l + 2 /\ 2 + i - 1 = 1 + i /\ 1 + i \in 1..1 + l
      BY <1>1
    <3>2. behind[i] = desc[1 + i]
      BY <2>3, <3>1
    <3>3. QED
      BY <1>8, <1>10, <3>1, <3>2
  <2>5. behind[l + 1] = ")"
    <3>1. l + 1 \in 1..l + 2 /\ 2 + (l + 1) - 1 = (1 + l) + 1 /\ 1 \in 1..2
      BY <1>1
    <3>2. behind[l + 1] = desc[(1 + l) + 1]
      BY <2>3, <3>1
    <3>3. QED
      BY <1>6, <1>10, <3>1, <3>2
  <2>6. QED
    BY <2>1, <2>2, <2>4, <2>5
<1>15. FirstIn(behind, {"(", ")"}) = l + 1
  <2>1. PICK n : n = l + 1
    OBVIOUS
  <2>2. n \in 1..l + 2 /\ l + 2 \in Nat /\ n - 1 = l
    BY <1>1, <2>1
  <2>3. behind[n] \in {"(", ")"} /\ \A i \in 1..n - 1 : behind[i] \notin {"(", ")"}
    BY <1>2, <1>14, <2>1, <2>2
  <2>4. n \in 1..Len(behind) /\ Len(behind) \in Nat
    BY <1>14, <2>2
  <2>5. QED
    BY <2>1, <2>3, <2>4, FirstInIs
<1>16. SubSeq(behind, 1, l) = T
  <2>1. 0 + l <= l + 2 /\ 0 + l = l /\ 0 + 1 = 1 /\ 0 \in Nat /\ \A i \in 1..l : 0 + i = i
    BY <1>1
  <2>2. SubSeq(behind, 0 + 1, 0 + l) = T
    BY <1>0, <1>1, <1>4, <1>14, <2>1, PartIs
  <2>3. QED
    BY <2>1, <2>2
<1>17. l + 1 # 0 /\ l + 1 - 1 = l /\ 1 # 0 /\ 1 + 1 = 2
  BY <1>1
<1>18. ArgsText(desc) = SubSeq(behind, 1, l)
  <2>0. PICK open, close : open = FirstIn(desc, {"(", ")"}) /\ close = FirstIn(behind, {"(", ")"})
    OBVIOUS
  <2>1. open # 0 /\ close # 0 /\ open + 1 = 2 /\ close - 1 = l
    <3>1. open = 1 /\ close = l + 1
      BY <1>12, <1>15, <2>0
    <3>2. l \in Nat
      BY <1>1
    <3>3. QED
      BY <3>1, <3>2
  <2>2. behind = SubSeq(desc, open + 1, Len(desc))
    BY <1>13, <2>1
  <2>3. ArgsText(desc) = SubSeq(behind, 1, close - 1)
    BY <2>0, <2>1, <2>2 DEF ArgsText
  <2>4. QED
    BY <2>1, <2>3
<1>19. QED
  BY <1>0, <1>11, <1>16, <1>18

(* Sequences that are put together one behind the other: where each is in  *)
(* the whole.                                                              *)
LEMMA PartsInPlace ==
    ASSUME NEW S, NEW n \in Nat, NEW f \in [0..n -> Seq(S)], NEW t,
           \A i \in 1..n : t[i] \in Seq(S) /\ Len(t[i]) # 0 /\ f[i] = f[i - 1] \o t[i]
    PROVE  /\ \A k \in 0..n : Len(f[k]) \in Nat /\ Len(f[k]) <= Len(f[n])
           /\ \A k \in 1..n : Len(t[k]) \in Nat /\ Len(f[k]) = Len(f[k - 1]) + Len(t[k])
           /\ \A k \in 1..n : \A i \in 1..Len(t[k]) : f[n][Len(f[k - 1]) + i] = t[k][i]
           /\ Len(f[0]) + n <= Len(f[n])
<1> DEFINE Within(k, m) == Len(f[k]) <= Len(f[m]) /\ \A i \in 1..Len(f[k]) : f[m][i] = f[k][i]
           I == {m \in 0..n : (\A k \in 0..m : Within(k, m)) /\ Len(f[0]) + m <= Len(f[m])}
<1>1. \A k \in 0..n : f[k] \in Seq(S) /\ Len(f[k]) \in Nat
  BY LenProperties
<1>2. ASSUME NEW k \in 1..n
      PROVE  /\ Len(t[k]) \in Nat /\ Len(t[k]) # 0
             /\ Len(f[k]) = Len(f[k - 1]) + Len(t[k])
             /\ \A i \in 1..Len(f[k - 1]) : f[k][i] = f[k - 1][i]
             /\ \A i \in 1..Len(t[k]) : f[k][Len(f[k - 1]) + i] = t[k][i]
  <2>1. PICK a, b, m, l : a = f[k - 1] /\ b = t[k] /\ m = Len(a) /\ l = Len(b)
    OBVIOUS
  <2>2. a \in Seq(S) /\ b \in Seq(S) /\ f[k] = a \o b /\ l # 0
    <3>1. k - 1 \in 0..n
      OBVIOUS
    <3>2. QED
      BY <1>1, <2>1, <3>1
  <2>3. /\ m \in Nat /\ l \in Nat
        /\ Len(a \o b) = m + l
        /\ \A i \in 1..m : (a \o b)[i] = a[i]
        /\ \A i \in 1..l : (a \o b)[m + i] = b[i]
    <3>1. a \in Seq(S) /\ b \in Seq(S) /\ m = Len(a) /\ l = Len(b)
      BY <2>1, <2>2
    <3>2. QED
      BY <3>1, ConcatPlaces
  <2>4. QED
    BY <2>1, <2>2, <2>3
<1>3. 0 \in I
  <2>1. Len(f[0]) \in Nat /\ 0 \in 0..n
    BY <1>1
  <2>2. Len(f[0]) + 0 <= Len(f[0]) /\ Len(f[0]) <= Len(f[0])
    BY <2>1
  <2>3. \A k \in 0..0 : k = 0
    OBVIOUS
  <2>4. QED
    BY <2>1, <2>2, <2>3
<1>4. ASSUME NEW m \in 1..n, m - 1 \in I PROVE m \in I
  <2>1. PICK x, y, z : x = Len(f[m - 1]) /\ y = Len(t[m]) /\ z = Len(f[m])
    OBVIOUS
  <2>2. x \in Nat /\ y \in Nat /\ y # 0 /\ z = x + y /\ \A i \in 1..x : f[m][i] = f[m - 1][i]
    <3>1. m - 1 \in 0..n
      OBVIOUS
    <3>2. QED
      BY <1>1, <1>2, <2>1, <3>1
  <2>3. ASSUME NEW k \in 0..m PROVE Within(k, m)
    <3>1. CASE k = m
      <4>1. z <= z
        BY <2>2
      <4>2. QED
        BY <2>1, <3>1, <4>1
    <3>2. CASE k # m
      <4>1. k \in 0..m - 1 /\ k \in 0..n
        BY <3>2
      <4>2. PICK w : w = Len(f[k]) /\ w \in Nat
        BY <1>1, <4>1
      <4>3. w <= x /\ \A i \in 1..w : f[m - 1][i] = f[k][i]
        BY <1>4, <2>1, <4>1, <4>2
      <4>4. w <= z /\ \A i \in 1..w : i \in 1..x
        <5>1. w \in Nat /\ x \in Nat /\ y \in Nat /\ w <= x /\ z = x + y
          BY <2>2, <4>2, <4>3
        <5>2. QED
          BY <5>1
      <4>5. QED
        BY <2>1, <2>2, <4>2, <4>3, <4>4
    <3>3. QED
      BY <3>1, <3>2
  <2>4. Len(f[0]) + m <= z
    <3>1. PICK w : w = Len(f[0]) /\ w \in Nat
      BY <1>1
    <3>2. w + (m - 1) <= x
      BY <1>4, <2>1, <3>1
    <3>3. x \in Nat /\ y \in Nat /\ y # 0 /\ z = x + y
      BY <2>2
    <3>4. w + m <= z
      BY <3>1, <3>2, <3>3
    <3>5. QED
      BY <3>1, <3>4
  <2>5. QED
    BY <2>1, <2>3, <2>4
<1>5. n \in I
  <2>1. \A m \in 0..n : m \in I
    <3> HIDE DEF I
    <3> QED BY <1>3, <1>4, Induction
  <2>2. QED
    BY <2>1
<1>6. ASSUME NEW k \in 1..n, NEW i \in 1..Len(t[k]) PROVE f[n][Len(f[k - 1]) + i] = t[k][i]
  <2>1. PICK x, y, z : x = Len(f[k - 1]) /\ y = Len(t[k]) /\ z = Len(f[k])
    OBVIOUS
  <2>2. x \in Nat /\ y \in Nat /\ z = x + y
    <3>1. k - 1 \in 0..n
      OBVIOUS
    <3>2. QED
      BY <1>1, <1>2, <2>1, <3>1
  <2>3. x + i \in 1..z
    <3>1. i \in 1..y
      BY <2>1
    <3>2. QED
      BY <2>2, <3>1
  <2>4. f[n][x + i] = f[k][x + i]
    <3>1. k \in 0..n
      OBVIOUS
    <3>2. QED
      BY <1>5, <2>1, <2>3, <3>1
  <2>5. QED
    BY <1>2, <2>1, <2>4
<1>7. QED
  BY <1>1, <1>2, <1>5, <1>6

(* There is no argument in nothing.                                        *)
LEMMA NoArgument == ArgEnd(<<>>) = 0
<1>1. FirstNotIn(<<>>, {"["}) = 0
  <2>1. {i \in 1..Len(<<>>) : <<>>[i] \notin {"["}} = {}
    OBVIOUS
  <2>2. QED
    BY <2>1 DEF FirstNotIn, SelectInSeq
<1>2. QED
  BY <1>1 DEF ArgEnd

(* The arguments are taken off one after the other: each ends where its    *)
(* type ends, and the slots add up.                                        *)
LEMMA ArgsSizeIs ==
    ASSUME NEW types, AreTypes(types)
    PROVE  ArgsSize(MethodText(types)) = MethodSlots(types)
<1>0. PICK n, T, L, S, C, desc : /\ n = Len(types) /\ T = TypesText(types) /\ L = Len(T)
                                 /\ C = Characters(types) /\ S = C \cup {"["} /\ desc = MethodText(types)
  OBVIOUS
<1>1. n \in Nat /\ types \in Seq(ToSet(types)) /\ \A i \in 1..n : IsType(types[i])
  BY <1>0, LenProperties DEF AreTypes
<1>2. PICK t : t = [i \in 1..n |-> TypeText(types[i])]
  OBVIOUS
<1>3. PICK f : /\ f \in [0..n -> Seq(C)] /\ f[0] = <<>> /\ T = f[n]
               /\ \A i \in 1..n : f[i] = f[i - 1] \o t[i]
  BY <1>0, <1>1, <1>2, TextSteps
<1>4. PICK g : /\ g \in [0..n -> Nat] /\ g[0] = 0 /\ MethodSlots(types) = g[n]
               /\ \A i \in 1..n : g[i] = g[i - 1] + TypeSlots(types[i])
  BY <1>0, <1>1, SlotSteps
<1>5. ASSUME NEW i \in 1..n PROVE t[i] \in Seq(C) /\ Len(t[i]) # 0
  <2>1. PICK type : type = types[i] /\ IsType(type) /\ t[i] = TypeText(type)
    BY <1>1, <1>2
  <2>2. TypeText(type) \in Seq(ToSet(TypeText(type)))
    BY <2>1, TypeTextIs, OwnElements
  <2>3. ToSet(TypeText(type)) \subseteq C
    BY <1>0, <2>1 DEF Characters
  <2>4. t[i] \in Seq(C)
    BY <2>1, <2>2, <2>3, SeqMonotonic
  <2>p. PICK d, b : d = type.dimensions /\ b = Len(type.base)
    OBVIOUS
  <2>5. d \in Nat /\ b \in Nat \ {0} /\ Len(t[i]) = d + b
    BY <2>1, <2>p, TypeTextIs
  <2>6. d + b # 0
    BY <2>5
  <2>7. QED
    BY <2>4, <2>5, <2>6
<1>6. /\ \A k \in 0..n : Len(f[k]) \in Nat /\ Len(f[k]) <= L
      /\ \A k \in 1..n : Len(t[k]) \in Nat /\ Len(f[k]) = Len(f[k - 1]) + Len(t[k])
      /\ \A k \in 1..n : \A i \in 1..Len(t[k]) : T[Len(f[k - 1]) + i] = t[k][i]
      /\ Len(f[0]) + n <= L
  <2>1. \A i \in 1..n : t[i] \in Seq(C) /\ Len(t[i]) # 0 /\ f[i] = f[i - 1] \o t[i]
    BY <1>3, <1>5
  <2>2. f \in [0..n -> Seq(C)] /\ n \in Nat /\ L = Len(f[n])
    BY <1>0, <1>1, <1>3
  <2>3. /\ \A k \in 0..n : Len(f[k]) \in Nat /\ Len(f[k]) <= Len(f[n])
        /\ \A k \in 1..n : Len(t[k]) \in Nat /\ Len(f[k]) = Len(f[k - 1]) + Len(t[k])
        /\ \A k \in 1..n : \A i \in 1..Len(t[k]) : f[n][Len(f[k - 1]) + i] = t[k][i]
        /\ Len(f[0]) + n <= Len(f[n])
    BY <2>1, <2>2, PartsInPlace
  <2>4. QED
    BY <1>3, <2>2, <2>3
<1>7. L \in Nat /\ n <= L /\ T \in Seq(S) /\ "[" \in S /\ C \subseteq S
  <2>1. n \in 0..n
    BY <1>1
  <2>2. L \in Nat /\ T \in Seq(C)
    BY <1>0, <1>3, <1>6, <2>1
  <2>3. T \in Seq(S)
    BY <1>0, <2>2, SeqMonotonic
  <2>4. Len(f[0]) = 0 /\ 0 + n = n
    BY <1>1, <1>3
  <2>5. n <= L
    BY <1>6, <2>4
  <2>6. QED
    BY <1>0, <2>2, <2>3, <2>5
<1> DEFINE Rest(i) == SubSeq(T, i, L)
           Taken(s) == IF ArgEnd(Rest(s.from)) = 0 THEN s
                       ELSE [from |-> s.from + ArgEnd(Rest(s.from)),
                             size |-> s.size + ArgSlots(SubSeq(T, s.from, s.from + ArgEnd(Rest(s.from)) - 1))]
           Down(a) == [m \in 0..L |-> IF m = 0 THEN [from |-> 1, size |-> 0] ELSE Taken(a[m - 1])]
<1>8. ArgsSize(desc) = (CHOOSE a : a = Down(a))[L].size
  <2>1. ArgsText(desc) = T
    BY <1>0, ArgsTextIs
  <2>2. QED
    BY <1>0, <2>1 DEF ArgsSize
<1>9. ASSUME NEW k \in 1..n, NEW s, s.from = Len(f[k - 1]) + 1, s.size = g[k - 1]
      PROVE  Taken(s) = [from |-> Len(f[k]) + 1, size |-> g[k]]
  <2>1. PICK x, y, type : x = Len(f[k - 1]) /\ y = Len(t[k]) /\ type = types[k]
    OBVIOUS
  <2>2. x \in Nat /\ y \in Nat /\ Len(f[k]) = x + y /\ x + y <= L /\ \A i \in 1..y : T[x + i] = t[k][i]
    <3>1. k - 1 \in 0..n /\ k \in 0..n
      BY <1>1
    <3>2. QED
      BY <1>6, <2>1, <3>1
  <2>3. IsType(type) /\ t[k] = TypeText(type) /\ t[k] \in Seq(S)
    <3>1. t[k] \in Seq(C)
      BY <1>5
    <3>2. t[k] \in Seq(S)
      BY <1>7, <3>1, SeqMonotonic
    <3>3. QED
      BY <1>1, <1>2, <2>1, <3>2
  <2>4. PICK r : r = SubSeq(T, x + 1, L)
    OBVIOUS
  <2>5. r \in Seq(S) /\ y <= Len(r) /\ \A i \in 1..y : r[i] = t[k][i]
    <3>1. PICK a : a = x + 1
      OBVIOUS
    <3>2. a \in 1..L + 1 /\ L \in a - 1..L /\ L - a + 1 \in Nat /\ y <= L - a + 1
      BY <1>7, <2>2, <3>1
    <3>3. /\ r \in Seq(S) /\ Len(r) = L - a + 1
          /\ \A i \in 1..L - a + 1 : r[i] = T[a + i - 1]
      BY SMTT(60), <1>0, <1>7, <2>4, <3>1, <3>2, SubSeqPlaces
    <3>4. ASSUME NEW i \in 1..y PROVE r[i] = t[k][i]
      <4>1. i \in 1..L - a + 1 /\ a + i - 1 = x + i
        BY <2>2, <3>1, <3>2
      <4>2. QED
        BY <2>2, <3>3, <4>1
    <3>5. QED
      BY <3>2, <3>3, <3>4
  <2>6. ArgEnd(r) = y /\ y # 0
    <3>1. Len(TypeText(type)) <= Len(r) /\ \A i \in 1..Len(TypeText(type)) : r[i] = TypeText(type)[i]
      BY <2>1, <2>3, <2>5
    <3>2. ArgEnd(r) = Len(TypeText(type)) /\ Len(TypeText(type)) \in Nat \ {0}
      BY <1>7, <2>3, <2>5, <3>1, ArgEndsWithType
    <3>3. QED
      BY <2>1, <2>3, <3>2
  <2>7. SubSeq(T, x + 1, x + y) = t[k]
    <3>1. y = Len(t[k]) /\ x + y <= Len(T)
      BY <1>0, <2>1, <2>2
    <3>2. QED
      BY <1>7, <2>2, <2>3, <3>1, PartIs
  <2>8. ArgSlots(t[k]) = TypeSlots(type)
    BY <2>3, SlotsOfType DEF ArgSlots
  <2>9. g[k] = g[k - 1] + TypeSlots(type)
    BY <1>4, <2>1
  <2>10. x + 1 + y - 1 = x + y /\ x + 1 + y = x + y + 1
    BY <2>2
  <2>11. Taken(s) = [from |-> x + 1 + y, size |-> g[k - 1] + ArgSlots(SubSeq(T, x + 1, x + 1 + y - 1))]
    <3>1. s.from = x + 1 /\ Rest(s.from) = r
      BY <1>9, <2>1, <2>4
    <3>2. ArgEnd(Rest(s.from)) = y
      BY <2>6, <3>1
    <3>3. QED
      BY <1>9, <2>6, <3>1, <3>2
  <2>12. QED
    BY <2>2, <2>7, <2>8, <2>9, <2>10, <2>11
<1>10. ASSUME NEW s, s.from = L + 1 PROVE Taken(s) = s
  <2>1. SubSeq(T, L + 1, L) = <<>>
    BY <1>7, SubSeqEmpty
  <2>2. ArgEnd(Rest(s.from)) = 0
    BY <1>10, <2>1, NoArgument
  <2>3. QED
    BY <2>2
<1> DEFINE State(m) == IF m <= n THEN [from |-> Len(f[m]) + 1, size |-> g[m]] ELSE [from |-> L + 1, size |-> g[n]]
<1> HIDE DEF Taken
<1>11. PICK h : h = [m \in 0..L |-> State(m)]
  OBVIOUS
<1>12. h[0] = [from |-> 1, size |-> 0]
  <2>1. 0 \in 0..L /\ 0 <= n /\ Len(f[0]) = 0 /\ 0 + 1 = 1
    BY <1>1, <1>3, <1>7
  <2>2. QED
    BY <1>4, <1>11, <2>1
<1>13. ASSUME NEW m \in 1..L PROVE h[m] = Taken(h[m - 1])
  <2>1. m \in 0..L /\ m - 1 \in 0..L
    BY <1>7
  <2>2. h[m] = State(m) /\ h[m - 1] = State(m - 1)
    BY <1>11, <2>1
  <2>3. CASE m <= n
    <3>1. m \in 1..n /\ m - 1 <= n
      BY <1>1, <2>3
    <3>2. h[m - 1] = [from |-> Len(f[m - 1]) + 1, size |-> g[m - 1]]
      BY <2>2, <3>1
    <3>3. Taken(h[m - 1]) = [from |-> Len(f[m]) + 1, size |-> g[m]]
      BY <1>9, <3>1, <3>2
    <3>4. QED
      BY <2>2, <2>3, <3>3
  <2>4. CASE ~(m <= n)
    <3>1. m - 1 = n \/ ~(m - 1 <= n)
      BY <1>1, <2>4
    <3>2. n <= n /\ Len(f[n]) = L
      BY <1>0, <1>1, <1>3
    <3>3. h[m - 1] = [from |-> L + 1, size |-> g[n]]
      BY <2>2, <3>1, <3>2
    <3>4. Taken(h[m - 1]) = h[m - 1]
      BY <1>10, <3>3
    <3>5. QED
      BY <2>2, <2>4, <3>3, <3>4
  <2>5. QED
    BY <2>3, <2>4
<1>14. h = Down(h)
  <2>1. ASSUME NEW m \in 0..L PROVE h[m] = IF m = 0 THEN [from |-> 1, size |-> 0] ELSE Taken(h[m - 1])
    <3>1. m = 0 \/ m \in 1..L
      OBVIOUS
    <3>2. QED
      BY <1>7, <1>12, <1>13, <3>1
  <2>2. QED
    BY <1>11, <2>1
<1>15. PICK a : a = CHOOSE b : b = Down(b)
  OBVIOUS
<1>16. a = Down(a)
  <2> HIDE DEF Down
  <2> QED BY <1>14, <1>15
<1>17. a[0] = [from |-> 1, size |-> 0] /\ \A m \in 1..L : a[m] = Taken(a[m - 1])
  <2>1. 0 \in 0..L
    BY <1>7
  <2>2. ASSUME NEW m \in 1..L PROVE a[m] = Taken(a[m - 1])
    <3>1. m \in 0..L /\ m # 0
      OBVIOUS
    <3>2. QED
      BY <1>16, <3>1
  <2>3. QED
    BY <1>16, <2>1, <2>2
<1>18. Alike(L, h, a)
  <2>1. h[0] = a[0]
    BY <1>12, <1>17
  <2>2. ASSUME NEW m \in 1..L, h[m - 1] = a[m - 1] PROVE h[m] = a[m]
    BY <1>13, <1>17, <2>2
  <2>3. QED
    BY <1>7, <2>1, <2>2 DEF Alike
<1>19. h[L] = a[L] /\ L \in 0..L
  <2>1. L \in 0..L
    BY <1>7
  <2>2. QED
    BY <1>18, <2>1, SameSteps
<1>20. h[L].size = g[n]
  <2>1. h[L] = State(L)
    BY <1>11, <1>19
  <2>2. CASE L <= n
    <3>1. L = n
      BY <1>1, <1>7, <2>2
    <3>2. QED
      BY <2>1, <2>2, <3>1
  <2>3. CASE ~(L <= n)
    BY <2>1, <2>3
  <2>4. QED
    BY <2>2, <2>3
<1>21. QED
  BY <1>0, <1>4, <1>8, <1>15, <1>19, <1>20

(* What a method takes off the stack and what a field has, by the types    *)
(* that are written in the class file.                                     *)
LEMMA ParsedSlots ==
    ASSUME ParsedExact, file \in Files
    PROVE  SlotsAsDeclared
<1>1. AreTypes(file.types) /\ DOMAIN file.types = 1..Len(file.types)
  <2>1. /\ file.types \in Seq(ToSet(file.types))
        /\ \A n \in DOMAIN file.types : IsType(file.types[n])
    BY BodyAssumption
  <2>2. DOMAIN file.types = 1..Len(file.types)
    BY <2>1, LenProperties
  <2>3. QED
    BY <2>1, <2>2 DEF AreTypes
<1>2. ASSUME NEW i \in DOMAIN methods, methods[i].descriptor = MethodText(file.types)
      PROVE  methods[i].argsSize = MethodSlots(file.types)
  <2>1. i \in 1..Len(methods)
    BY LenProperties DEF ParsedExact
  <2>2. methods[i].argsSize = ArgsSize(methods[i].descriptor)
    BY <2>1 DEF ParsedExact
  <2>3. QED
    BY <1>1, <1>2, <2>2, ArgsSizeIs
<1>3. ASSUME NEW i \in DOMAIN fields, NEW n \in DOMAIN file.types,
             fields[i].descriptor = TypeText(file.types[n])
      PROVE  fields[i].slotCount = TypeSlots(file.types[n])
  <2>1. i \in 1..Len(fields)
    BY LenProperties DEF ParsedExact
  <2>2. fields[i].slotCount = SlotCount(FirstField(fields[i].descriptor))
    BY <2>1 DEF ParsedExact
  <2>3. IsType(file.types[n])
    BY <1>1 DEF AreTypes
  <2>4. QED
    BY <1>3, <2>2, <2>3, SlotsOfType
<1>4. QED
  BY <1>2, <1>3 DEF SlotsAsDeclared

(* However many names, dimensions and types a descriptor strings together, *)
(* and whatever its class names are made of: a method takes as many slots  *)
(* off its caller's stack as its arguments have, and a field has as many   *)
(* as its type.                                                            *)
THEOREM DeclaredSlots == Spec => []SlotsAsDeclared
<1>1. ParsedExact /\ PoolInv => SlotsAsDeclared
  BY ParsedSlots DEF PoolInv, TableExact
<1>2. QED
  BY <1>1, ParsedInvariance, PoolInvariance, PTL

-----------------------------------------------------------------------------
(* The operands of any instruction, in any code. *)

Words == 0..Base * Base - 1

\* Two bytes make a word.
LEMMA TwoBytesAreAWord ==
    ASSUME NEW x \in 0..Base - 1, NEW y \in 0..Base - 1
    PROVE  x * Base + y \in Words /\ x \in Words
<1>1. PICK b : b = Base /\ b \in Nat /\ b > 15
  BY BaseAssumption
<1>2. PICK z : z = b - 1 - x /\ z \in Nat /\ x = b - 1 - z
  BY <1>1
<1>3. z * b \in Nat /\ x * b \in Nat /\ b * b \in Nat
  BY <1>1, <1>2
<1>4. x * b = b * b - b - z * b
  <2>1. b \in Int /\ z \in Int /\ x = b - 1 - z
    BY <1>1, <1>2
  <2>2. QED
    BY <2>1
<1>5. x * b + y <= b * b - 1 /\ x * b + y >= 0
  <2>1. y \in Nat /\ y <= b - 1
    BY <1>1
  <2>2. PICK p, q, r : p = x * b /\ q = b * b /\ r = z * b /\ p \in Nat /\ q \in Nat /\ r \in Nat /\ p = q - b - r
    BY <1>3, <1>4
  <2>3. p + y <= q - 1 /\ p + y >= 0
    BY <1>1, <2>1, <2>2
  <2>4. QED
    BY <2>2, <2>3
<1>6. x <= b * b - 1
  <2>1. b <= b * b
    BY <1>1
  <2>2. QED
    BY <1>1, <2>1
<1>7. QED
  BY <1>1, <1>3, <1>5, <1>6 DEF Words

(* An operand is a word.                                                   *)
LEMMA ReadTyped ==
    ASSUME NEW bytes \in Seq(0..Base - 1), NEW i, i.next \in Nat, i.operands \in Seq(Words), NEW w \in {1, 2}
    PROVE  /\ Read(bytes, i, w).next \in Nat
           /\ Read(bytes, i, w).operands \in Seq(Words)
           /\ Read(bytes, i, w).op \in {i.op, "invalid"}
           /\ Read(bytes, i, w).op # "invalid" => Len(Read(bytes, i, w).operands) = Len(i.operands) + 1
<1>0. PICK r, p, l : r = Read(bytes, i, w) /\ p = i.next /\ l = Len(bytes)
  OBVIOUS
<1>1. l \in Nat /\ p \in Nat
  BY <1>0, LenProperties
<1>2. CASE i.op = "invalid" \/ p + w > l
  <2>1. r.op = "invalid" /\ r.next = p /\ r.operands = <<>>
    BY <1>0, <1>2 DEF Read, Instruction
  <2>2. <<>> \in Seq(Words)
    OBVIOUS
  <2>3. QED
    BY <1>0, <1>1, <2>1, <2>2
<1>3. CASE ~(i.op = "invalid" \/ p + w > l)
  <2>1. PICK u : u = Unsigned(SubSeq(bytes, p + 1, p + w))
    OBVIOUS
  <2>2. r.op = i.op /\ r.next = p + w /\ r.operands = Append(i.operands, u)
    BY <1>0, <1>3, <2>1 DEF Read, Instruction
  <2>3. PICK a, b : a = p + 1 /\ b = p + w
    OBVIOUS
  <2>4. a \in 1..l + 1 /\ b \in a - 1..l /\ b - a + 1 = w /\ 1 \in 1..w
    BY <1>1, <1>3, <2>3
  <2>5. PICK s : s = SubSeq(bytes, a, b)
    OBVIOUS
  <2>6. s \in Seq(0..Base - 1) /\ Len(s) = b - a + 1
    BY ZenonT(60), <1>0, <2>4, <2>5, SubSeqPlaces
  <2>7. Len(s) = w /\ \A k \in 1..w : s[k] \in 0..Base - 1
    <3>1. Len(s) = w
      BY <2>4, <2>6
    <3>2. QED
      BY <2>6, <3>1, ElementOfSeq
  <2>8. u \in Words
    <3>1. CASE w = 1
      <4>1. u = s[1] /\ s[1] \in 0..Base - 1
        BY <2>1, <2>3, <2>4, <2>5, <2>7, <3>1 DEF Unsigned
      <4>2. QED
        BY <4>1, TwoBytesAreAWord
    <3>2. CASE w = 2
      <4>1. u = s[1] * Base + s[2] /\ s[1] \in 0..Base - 1 /\ s[2] \in 0..Base - 1
        BY SMTT(60), <2>1, <2>3, <2>5, <2>7, <3>2 DEF Unsigned
      <4>2. QED
        BY <4>1, TwoBytesAreAWord
    <3>3. QED
      BY <3>1, <3>2
  <2>9. r.operands \in Seq(Words) /\ Len(r.operands) = Len(i.operands) + 1
    BY <2>2, <2>8, AppendProperties
  <2>10. p + w \in Nat
    BY <1>1
  <2>11. QED
    BY <1>0, <2>2, <2>9, <2>10
<1>4. QED
  BY <1>0, <1>2, <1>3

(* The widths of the operands of the opcodes, in bytes.                    *)
OperandWidths == {<<>>, <<1>>, <<2>>, <<1, 1>>, <<2, 1>>, <<2, 2>>}

(* All of them are.                                                        *)
LEMMA ReadsTyped ==
    ASSUME NEW bytes \in Seq(0..Base - 1), NEW op, NEW p \in Nat,
           NEW widths \in OperandWidths
    PROVE  /\ Reads(bytes, op, widths, p).next \in Nat
           /\ Reads(bytes, op, widths, p).operands \in Seq(Words)
           /\ Reads(bytes, op, widths, p).op \in {op, "invalid"}
           /\ Reads(bytes, op, widths, p).op # "invalid" => Len(Reads(bytes, op, widths, p).operands) = Len(widths)
<1>1. PICK r, a : r = Reads(bytes, op, widths, p) /\ a = Instruction(op, <<>>, p)
  OBVIOUS
<1>2. a.op = op /\ a.next \in Nat /\ a.operands \in Seq(Words) /\ Len(a.operands) = 0
  BY <1>1 DEF Instruction
<1>3. CASE widths = <<>>
  <2>1. r = a
    BY <1>1, <1>3 DEF Reads
  <2>2. Len(widths) = 0
    BY <1>3
  <2>3. QED
    BY <1>1, <1>2, <2>1, <2>2
<1>4. CASE widths \in {<<1>>, <<2>>}
  <2>1. PICK w : w \in {1, 2} /\ widths = <<w>>
    BY <1>4
  <2>2. widths # <<>> /\ Len(widths) = 1 /\ widths[1] = w
    BY <2>1
  <2>3. r = Read(bytes, a, w)
    BY <1>1, <2>2 DEF Reads
  <2>4. /\ r.next \in Nat /\ r.operands \in Seq(Words) /\ r.op \in {a.op, "invalid"}
        /\ r.op # "invalid" => Len(r.operands) = Len(a.operands) + 1
    BY <1>2, <2>1, <2>3, ReadTyped
  <2>5. 0 + 1 = 1
    OBVIOUS
  <2>6. QED
    BY <1>1, <1>2, <2>2, <2>4, <2>5
<1>5. CASE widths \in {<<1, 1>>, <<2, 1>>, <<2, 2>>}
  <2>1. PICK v, w : v \in {1, 2} /\ w \in {1, 2} /\ widths = <<v, w>>
    BY <1>5
  <2>2. widths # <<>> /\ Len(widths) = 2 /\ widths[1] = v /\ widths[2] = w
    BY <2>1
  <2>3. PICK b : b = Read(bytes, a, v)
    OBVIOUS
  <2>4. r = Read(bytes, b, w)
    BY <1>1, <2>2, <2>3 DEF Reads
  <2>5. /\ b.next \in Nat /\ b.operands \in Seq(Words) /\ b.op \in {a.op, "invalid"}
        /\ b.op # "invalid" => Len(b.operands) = Len(a.operands) + 1
    BY <1>2, <2>1, <2>3, ReadTyped
  <2>6. /\ r.next \in Nat /\ r.operands \in Seq(Words) /\ r.op \in {b.op, "invalid"}
        /\ r.op # "invalid" => Len(r.operands) = Len(b.operands) + 1
    BY <2>1, <2>4, <2>5, ReadTyped
  <2>7. r.op # "invalid" => Len(r.operands) = 2
    <3>1. 0 + 1 + 1 = 2
      OBVIOUS
    <3>2. QED
      BY <1>2, <2>5, <2>6, <3>1
  <2>8. QED
    BY <1>1, <1>2, <2>2, <2>5, <2>6, <2>7
<1>6. QED
  BY <1>3, <1>4, <1>5 DEF OperandWidths

(* The opcodes with an operand that the run looks at.                      *)
Asking == {"ldc", "ldc2_w", "new", "anewarray", "multianewarray", "invoke", "field"}

LEMMA NextOpTyped ==
    ASSUME NEW c \in Seq(0..Base - 1), NEW p \in Nat
    PROVE  /\ NextOp(c, p).op # "none" => NextOp(c, p).next \in Nat
           /\ NextOp(c, p).op \in {"if", "goto"} \cup Asking => NextOp(c, p).operands[1] \in Words
<1>0. PICK i, opcode, l : i = NextOp(c, p) /\ opcode = Opcode(c[p + 1]) /\ l = Len(c)
  OBVIOUS
<1>1. PICK q : q = p + 1 /\ q \in Nat
  OBVIOUS
<1>2. l \in Nat
  BY <1>0, LenProperties
<1>3. CASE p >= l
  BY <1>0, <1>3 DEF NextOp, None, Asking
<1>4. CASE ~(p >= l) /\ opcode = "bipush"
  <2>1. i = ReadsBipush(c, q)
    BY <1>0, <1>1, <1>4 DEF NextOp
  <2>2. CASE q + 1 > l
    BY <1>0, <2>1, <2>2 DEF ReadsBipush, None, Asking
  <2>3. CASE ~(q + 1 > l)
    <3>1. i.op = "bipush" /\ i.next = q + 1
      BY <1>0, <2>1, <2>3 DEF ReadsBipush, Instruction
    <3>2. q + 1 \in Nat
      BY <1>1
    <3>3. QED
      BY <1>0, <3>1, <3>2 DEF Asking
  <2>4. QED
    BY <2>2, <2>3
<1>5. CASE ~(p >= l) /\ opcode = "wide"
  <2>1. i = ReadsWide(c, q)
    BY <1>0, <1>1, <1>5 DEF NextOp
  <2>2. PICK widened, r : widened = Opcode(c[q + 1]) /\ r = q + 1 /\ r \in Nat
    BY <1>1
  <2>3. CASE r > l
    <3>1. i.op = "invalid" /\ i.next = q
      BY <1>0, <2>1, <2>2, <2>3 DEF ReadsWide, Instruction
    <3>2. QED
      BY <1>0, <1>1, <3>1 DEF Asking
  <2>4. CASE ~(r > l) /\ widened \notin HasWide
    <3>1. i.op = "invalid" /\ i.next = r
      BY <1>0, <2>1, <2>2, <2>4 DEF ReadsWide, Instruction
    <3>2. QED
      BY <1>0, <2>2, <3>1 DEF Asking
  <2>5. CASE ~(r > l) /\ widened \in HasWide
    <3>1. i = Reads(c, widened, WideOperands(widened), r)
      BY <1>0, <2>1, <2>2, <2>5 DEF ReadsWide
    <3>2. WideOperands(widened) \in {<<2>>, <<2, 2>>}
      BY DEF WideOperands
    <3>3. i.next \in Nat /\ i.op \in {widened, "invalid"}
      BY <2>2, <3>1, <3>2, ReadsTyped DEF OperandWidths
    <3>4. i.op \notin {"if", "goto"} \cup Asking
      BY <2>5, <3>3 DEF HasWide, Asking
    <3>5. QED
      BY <1>0, <3>3, <3>4
  <2>6. QED
    BY <2>3, <2>4, <2>5
<1>6. CASE ~(p >= l) /\ opcode = "unimplemented"
  <2>1. i.op = "invalid" /\ i.next = q
    BY <1>0, <1>1, <1>6 DEF NextOp, Instruction
  <2>2. QED
    BY <1>0, <1>1, <2>1 DEF Asking
<1>7. CASE ~(p >= l) /\ opcode \notin {"bipush", "wide", "unimplemented"}
  <2>1. i = Reads(c, opcode, Operands(opcode), q)
    BY <1>0, <1>1, <1>7 DEF NextOp
  <2>2. PICK widths : widths = Operands(opcode) /\ widths \in OperandWidths
    BY DEF Operands, OperandWidths
  <2>3. /\ i.next \in Nat /\ i.operands \in Seq(Words) /\ i.op \in {opcode, "invalid"}
        /\ i.op # "invalid" => Len(i.operands) = Len(widths)
    <3>1. i = Reads(c, opcode, widths, q)
      BY <2>1, <2>2
    <3>2. widths \in OperandWidths /\ q \in Nat
      BY <1>1, <2>2
    <3>3. /\ Reads(c, opcode, widths, q).next \in Nat
          /\ Reads(c, opcode, widths, q).operands \in Seq(Words)
          /\ Reads(c, opcode, widths, q).op \in {opcode, "invalid"}
          /\ Reads(c, opcode, widths, q).op # "invalid"
                => Len(Reads(c, opcode, widths, q).operands) = Len(widths)
      BY <3>2, ReadsTyped
    <3>4. QED
      BY <3>1, <3>3
  <2>4. ASSUME i.op \in {"if", "goto"} \cup Asking PROVE i.operands[1] \in Words
    <3>1. i.op = opcode /\ i.op # "invalid"
      BY <2>3, <2>4 DEF Asking
    <3>2. widths \in {<<1>>, <<2>>, <<2, 1>>}
      BY <2>2, <2>4, <3>1 DEF Operands, OperandWidths, Asking
    <3>3. Len(widths) \in {1, 2}
      BY <3>2
    <3>4. 1 \in 1..Len(i.operands)
      <4>1. PICK n : n = Len(i.operands)
        OBVIOUS
      <4>2. n = 1 \/ n = 2
        BY <2>3, <3>1, <3>3, <4>1
      <4>3. 1 \in 1..n
        BY <4>2
      <4>4. QED
        BY <4>1, <4>3
    <3>5. QED
      BY <2>3, <3>4, ElementOfSeq
  <2>5. QED
    BY <1>0, <2>3, <2>4
<1>8. QED
  BY <1>3, <1>4, <1>5, <1>6, <1>7

(* The lookups depend on the class as it was linked alone.                 *)
LEMMA SameLookUps ==
    ASSUME UNCHANGED <<entries, classVars>>
    PROVE  \A op, i : LookUp(op, i)' = LookUp(op, i)
<1>1. \A i : GetEntry(i)' = GetEntry(i)
  BY DEF GetEntry
<1>2. \A i : GetClass(i)' = GetClass(i)
  BY <1>1 DEF GetClass
<1>3. \A i : GetClassOrArray(i)' = GetClassOrArray(i)
  BY <1>1, <1>2 DEF GetClassOrArray
<1>4. \A i, tag : GetMember(i, tag)' = GetMember(i, tag)
  BY <1>1, <1>2 DEF GetMember
<1>5. \A member : Own(member)' = Own(member)
  BY DEF Own, classVars
<1>6. \A i : GetMethod(i)' = GetMethod(i)
  BY <1>1, <1>4, <1>5 DEF GetMethod, OwnMethods, classVars
<1>7. \A i : GetField(i)' = GetField(i)
  BY <1>1, <1>4, <1>5 DEF GetField, classVars
<1>8. \A i, tags : GetConstant(i, tags)' = GetConstant(i, tags)
  BY <1>1 DEF GetConstant
<1>9. QED
  BY <1>2, <1>3, <1>6, <1>7, <1>8 DEF LookUp

(* A run goes on at an address.                                            *)
LEMMA PlusTyped ==
    ASSUME NEW p \in Nat, NEW n \in Words
    PROVE  Plus(p, Signed(n)) \in Nat
<1>1. PICK b : b = Base * Base /\ b \in Nat /\ b > 0
  BY BaseAssumption
<1>2. Signed(n) \in Int
  <2>1. n \in Int /\ n - b \in Int
    BY <1>1 DEF Words
  <2>2. QED
    BY <1>1, <2>1 DEF Signed
<1>3. PICK to : to = p + Signed(n) /\ to \in Int
  BY <1>2
<1>4. QED
  BY <1>1, <1>3 DEF Plus

(* Every lookup is one with a word, and nothing it depends on changes.     *)
LEMMA NextUsed ==
    ASSUME IInv, RunExact, UsedExact, PoolInv, [Next]_vars
    PROVE  UsedExact'
<1>1. CASE UNCHANGED <<pc, used>> /\ run = "none"
  <2>1. used' = NoUse
    BY <1>1 DEF RunExact
  <2>2. QED
    BY <1>1, <2>1 DEF UsedExact
<1>2. CASE UNCHANGED vars
  <2>1. \A op, i : LookUp(op, i)' = LookUp(op, i)
    BY <1>2, SameLookUps DEF vars, loadVars
  <2>2. pc' = pc /\ used' = used
    BY <1>2 DEF vars, runVars
  <2>3. QED
    BY <2>1, <2>2 DEF UsedExact
<1>3. CASE RunNext
  <2>1. run = "running" /\ UNCHANGED <<code, loadVars>> /\ code \in Seq(0..Base - 1) /\ lastPc = pc /\ pc \in Nat
    <3>1. run = "running" /\ UNCHANGED <<code, loadVars>>
      BY <1>3 DEF RunNext, Plain, Branch, Return, OutOfCode, UseConstant, Runs
    <3>2. QED
      BY <3>1 DEF RunExact, UsedExact
  <2>2. \A op, i : LookUp(op, i)' = LookUp(op, i)
    BY <2>1, SameLookUps DEF loadVars
  <2>3. /\ Fetched.op # "none" => Fetched.next \in Nat
        /\ Fetched.op \in {"if", "goto"} \cup Asking => Fetched.operands[1] \in Words
    BY <2>1, NextOpTyped DEF Fetched
  <2>4. ASSUME used' = used, pc' \in Nat PROVE UsedExact'
    BY <2>2, <2>4 DEF UsedExact
  <2>5. CASE Plain
    <3>1. used' = used /\ pc' = Fetched.next /\ Fetched.op # "none"
      BY <2>5 DEF Plain, GoOn, Runs
    <3>2. QED
      BY <2>3, <2>4, <3>1
  <2>6. CASE Branch
    <3>1. /\ used' = used /\ Fetched.op \in {"if", "goto"}
          /\ pc' = Plus(lastPc, Signed(Fetched.operands[1])) \/ pc' = Fetched.next
      BY <2>6 DEF Branch, GoOn, Runs
    <3>2. Plus(lastPc, Signed(Fetched.operands[1])) \in Nat
      BY <2>1, <2>3, <3>1, PlusTyped
    <3>3. QED
      BY <2>3, <2>4, <3>1, <3>2
  <2>7. CASE Return \/ OutOfCode
    BY <2>1, <2>4, <2>7 DEF Return, OutOfCode, Stop
  <2>8. CASE UseConstant
    <3>1. Fetched.op \in Asking /\ Fetched.op # "none" /\ Fetched.operands[1] \in Words
      BY <2>3, <2>8 DEF UseConstant, Runs, Asking
    <3>2. pc' \in Nat
      BY <2>1, <2>3, <2>8, <3>1 DEF UseConstant, GoOn, Stop
    <3>3. \/ used' = used
          \/ /\ used'.op = Fetched.op /\ used'.index = Fetched.operands[1]
             /\ used'.answer = LookUp(Fetched.op, Fetched.operands[1])
      BY <2>8 DEF UseConstant
    <3>4. CASE used' = used
      BY <2>4, <3>2, <3>4
    <3>5. CASE used' # used
      BY <2>2, <3>1, <3>2, <3>3, <3>5 DEF UsedExact, Asking, Words
    <3>6. QED
      BY <3>4, <3>5
  <2>9. QED
    BY <1>3, <2>5, <2>6, <2>7, <2>8 DEF RunNext
<1>4. CASE ~RunNext /\ ~UNCHANGED vars
  <2>1. run = "none"
    <3>1. status # "linked" \/ RunCode
      BY <1>4 DEF Next, PoolNext, ReadFails, ReadEntry, Reading, PoolRead, WriteAndReread, ClassNext, ReadBody,
                  ParseNames, ParseAttribute, AttributesParsed, ParseMethod, MethodsParsed, ParseField, Parsed,
                  LinkNext, LinkEntry, Linking
    <3>2. QED
      BY <3>1 DEF RunCode, IInv, StagesExact
  <2>2. UNCHANGED <<pc, used>>
    BY <1>4 DEF Next, RunCode, runVars
  <2>3. QED
    BY <1>1, <2>1, <2>2
<1>5. QED
  BY <1>2, <1>3, <1>4

-----------------------------------------------------------------------------
(* What the class file says. *)

(* The build panics on overflow, or else an index of the table has the two *)
(* bytes that an index in the code has.                                    *)
IndicesAreWords == OverflowChecks \/ Base * Base <= IndexMod

(* What the table has at an index is what the file has there.              *)
LEMMA FiledIs ==
    ASSUME PoolInv, original = NoFile, IndicesAreWords, NEW i \in Words, At(i).tag # "unusable"
    PROVE  Filed(i) = At(i)
<1>0. PICK s, k, l : s = file.stream /\ k = Entries /\ l = Len(file.stream)
  OBVIOUS
<1>1. /\ file \in Files /\ s \in Seq(Constants) /\ l \in Nat /\ k \in 0..l /\ Unusable \in Constants
      /\ DOMAIN s = 1..l /\ pool = TableOf(s, k) /\ DOMAIN pool = 1..Len(pool)
  BY <1>0, FileFacts, PoolLen DEF PoolInv, TableExact
<1>2. i + 1 \in DOMAIN pool /\ At(i) = pool[i + 1] /\ pool[i + 1] # Unusable
  BY DEF At, Unusable, Entry
<1>3. PICK n \in 1..k : i + 1 = IndexOf(s, n) + 1 /\ At(i) = s[n]
  BY <1>0, <1>1, <1>2, TablePlaces
<1>4. n \in 1..l /\ n \in 1..l + 1
  BY <1>1
<1>5. i = IndexOf(s, n) /\ i \in Nat
  <2>1. PICK x : x = IndexOf(s, n) /\ x \in Nat
    BY <1>0, <1>1, <1>4, IndexNext
  <2>2. i \in Nat /\ i + 1 = x + 1
    BY <1>3, <2>1 DEF Words
  <2>3. QED
    BY <2>1, <2>2
<1>6. i < file.count
  <2>1. OverflowChecks \/ i < IndexMod
    <3>1. ASSUME Base * Base <= IndexMod PROVE i < IndexMod
      <4>1. PICK b : b = Base * Base /\ b \in Nat
        BY BaseAssumption
      <4>2. i \in 0..b - 1 /\ b <= IndexMod /\ IndexMod \in Nat
        BY <3>1, <4>1, IndexAssumption DEF Words
      <4>3. QED
        BY <4>1, <4>2
    <3>2. QED
      BY <3>1 DEF IndicesAreWords
  <2>2. QED
    BY <1>0, <1>3, <1>5, <2>1 DEF PoolInv, CountExact
<1> DEFINE there == {m \in DOMAIN file.stream : IndexOf(file.stream, m) = i}
<1>7. ASSUME NEW m \in there PROVE m = n
  <2>1. m \in 1..l /\ IndexOf(s, m) = i /\ m \in 1..l + 1
    BY <1>0, <1>1
  <2>2. ASSUME NEW a \in 1..l + 1, NEW b \in 1..l + 1, a < b PROVE IndexOf(s, a) # IndexOf(s, b)
    <3>1. b \in a..l + 1
      BY <2>2
    <3>2. /\ IndexOf(s, a) + (b - a) <= IndexOf(s, b)
          /\ IndexOf(s, a) \in Nat \ {0} /\ IndexOf(s, b) \in Nat \ {0}
      BY <1>0, <1>1, <3>1, IndexGrows
    <3>3. PICK x, y : x = IndexOf(s, a) /\ y = IndexOf(s, b) /\ x \in Nat /\ y \in Nat /\ x + (b - a) <= y
      BY <3>2
    <3>4. x # y
      BY <1>1, <2>2, <3>3
    <3>5. QED
      BY <3>3, <3>4
  <2>3. ~(m < n) /\ ~(n < m)
    BY <1>4, <1>5, <2>1, <2>2
  <2>4. QED
    BY <1>4, <2>1, <2>3
<1>8. n \in there
  BY <1>0, <1>1, <1>4, <1>5
<1>9. (CHOOSE m \in there : TRUE) = n
  <2> HIDE DEF there
  <2> QED BY <1>7, <1>8
<1>10. Filed(i) = file.stream[n]
  BY <1>6, <1>8, <1>9 DEF Filed
<1>11. QED
  BY <1>0, <1>3, <1>10

(* Where the translation of an entry comes from.                           *)
LEMMA ConstantTags ==
    ASSUME NEW e, Linked(e).tag \in {"Integer", "Float", "Long", "Double"}
    PROVE  Linked(e) = e
BY DEF Linked, Kept, LinkedArray, LinkedMember, Entry, Unusable

LEMMA PrimitiveArrayTags ==
    ASSUME NEW e, Linked(e).tag = "PrimitiveArray"
    PROVE  e.tag = "Class"
BY DEF Linked, Kept, LinkedArray, LinkedMember, Entry, Unusable

LEMMA MemberTags ==
    ASSUME NEW e
    PROVE  /\ Linked(e).tag = "ResolvedMethod" => e.tag = "Methodref"
           /\ Linked(e).tag = "ResolvedField" => e.tag = "Fieldref"
BY DEF Linked, Kept, LinkedArray, LinkedMember, Entry, Unusable

(* Only an entry of the right kind gives an answer.                        *)
LEMMA AnswerTags ==
    ASSUME TableTyped, EntriesExact, StagesExact, status = "linked",
           NEW op \in Asking, NEW i, LookUp(op, i).is = "answer"
    PROVE  At(i).tag \in Kinds(op)
<1>0. PICK e : e = At(i) /\ GetEntry(i) = Linked(e)
  BY EntryIsLinked
<1>1. ASSUME NEW j, GetClass(j).is = "answer" PROVE At(j).tag = "Class"
  <2>1. GetEntry(j).tag = "Class"
    BY <1>1 DEF GetClass, InvalidConstantPoolEntry
  <2>2. QED
    BY <2>1, EntryIsLinked, ReferringTags
<1>2. ASSUME NEW tag \in {"Methodref", "Fieldref"}, GetMember(i, tag).is = "answer" PROVE e.tag = tag
  <2>1. GetEntry(i).tag = tag
    BY <1>2 DEF GetMember, InvalidConstantPoolEntry
  <2>2. QED
    BY <1>0, <2>1, ReferringTags
<1>3. ASSUME NEW tags \in {{"Integer", "Float"}, {"Long", "Double"}}, GetConstant(i, tags).is = "answer"
      PROVE  e.tag \in tags
  <2>1. GetEntry(i).tag \in tags
    BY <1>3 DEF GetConstant, InvalidConstantPoolEntry
  <2>2. QED
    BY <1>0, <2>1, ConstantTags
<1>4. CASE op = "ldc"
  BY <1>0, <1>3, <1>4 DEF LookUp, Kinds
<1>5. CASE op = "ldc2_w"
  BY <1>0, <1>3, <1>5 DEF LookUp, Kinds
<1>6. CASE op = "new"
  BY <1>1, <1>6 DEF LookUp, Kinds
<1>7. CASE op \in {"anewarray", "multianewarray"}
  <2>1. GetClassOrArray(i).is = "answer"
    BY <1>7 DEF LookUp
  <2>2. CASE GetEntry(i).tag = "PrimitiveArray"
    BY <1>0, <1>7, <2>2, PrimitiveArrayTags DEF Kinds
  <2>3. CASE GetEntry(i).tag = "ClassArray"
    BY <1>0, <1>7, <2>3, ClassArrayTags DEF Kinds
  <2>4. CASE GetEntry(i).tag \notin {"PrimitiveArray", "ClassArray"}
    <3>1. GetClass(i).is = "answer"
      BY <2>1, <2>4 DEF GetClassOrArray
    <3>2. QED
      BY <1>1, <1>7, <3>1 DEF Kinds
  <2>5. QED
    BY <2>2, <2>3, <2>4
<1>8. CASE op = "invoke"
  <2>1. GetMethod(i).is = "answer"
    BY <1>8 DEF LookUp
  <2>2. GetEntry(i).tag = "ResolvedMethod" \/ GetMember(i, "Methodref").is = "answer"
    BY <2>1 DEF GetMethod
  <2>3. e.tag = "Methodref"
    BY <1>0, <1>2, <2>2, MemberTags
  <2>4. QED
    BY <1>0, <1>8, <2>3 DEF Kinds
<1>9. CASE op = "field"
  <2>1. GetField(i).is = "answer"
    BY <1>9 DEF LookUp
  <2>2. GetEntry(i).tag = "ResolvedField" \/ GetMember(i, "Fieldref").is = "answer"
    BY <2>1 DEF GetField
  <2>3. e.tag = "Fieldref"
    BY <1>0, <1>2, <2>2, MemberTags
  <2>4. QED
    BY <1>0, <1>9, <2>3 DEF Kinds
<1>10. QED
  BY <1>4, <1>5, <1>6, <1>7, <1>8, <1>9 DEF Asking

(* A class that is in use, of a well formed file.                          *)
InUse == PoolInv /\ IInv /\ ParsedExact /\ status = "linked" /\ WellFormedFile

(* What a well formed file refers to is in the table, and translated.      *)
LEMMA ReferredEntry ==
    ASSUME InUse, NEW i, NEW tag, tag # "blank", Refers(tag, i)
    PROVE  /\ At(i) = Filed(i) /\ At(i).tag = tag
           /\ GetEntry(i) = Linked(At(i))
           /\ tag = "Class" => Refers("Utf8", At(i).at[1])
           /\ tag = "Class" /\ IsArrayName(FiledText(At(i).at[1]))
                  => \E type \in ToSet(file.types) : TypeText(type) = FiledText(At(i).at[1])
           /\ tag = "NameAndType" => Refers("Utf8", At(i).at[1]) /\ Refers("Utf8", At(i).at[2])
           /\ tag \in {"Methodref", "Fieldref"} =>
                  Refers("Class", At(i).at[1]) /\ Refers("NameAndType", At(i).at[2])
<1>1. original = NoFile
  BY DEF InUse, IInv, StagesExact
<1>2. TableExact /\ Entries = Len(file.stream) /\ file \in Files
  BY <1>1, WellFormedRead DEF InUse
<1>3. PICK n \in 1..Len(file.stream) : At(i) = file.stream[n] /\ At(i) = Filed(i) /\ At(i).tag = tag
  BY <1>2, RefersAt
<1>4. WellFormedEntry(At(i))
  BY <1>2, <1>3, FileFacts DEF InUse, WellFormedFile
<1>5. GetEntry(i) = Linked(At(i))
  BY EntryIsLinked DEF InUse, IInv
<1>6. /\ tag = "Class" => At(i).at[1] \in ToSet(At(i).at)
      /\ tag = "NameAndType" => At(i).at[1] \in ToSet(At(i).at) /\ At(i).at[2] \in ToSet(At(i).at)
  <2>1. PICK e : e = file.stream[n] /\ e = At(i) /\ e.tag = tag
    BY <1>3
  <2>2. file \in Files
    BY <1>2
  <2>3. ASSUME tag = "Class" PROVE e.at[1] \in ToSet(e.at)
    BY <2>1, <2>2, <2>3, EntryAt
  <2>4. ASSUME tag = "NameAndType" PROVE \A j \in 1..2 : e.at[j] \in ToSet(e.at)
    BY <2>1, <2>2, <2>4, EntryAt
  <2>5. 1 \in 1..2 /\ 2 \in 1..2
    OBVIOUS
  <2>6. QED
    BY <2>1, <2>3, <2>4, <2>5
<1>7. QED
  BY <1>3, <1>4, <1>5, <1>6 DEF WellFormedEntry

(* A text.                                                                 *)
LEMMA ReferredText ==
    ASSUME InUse, NEW i, Refers("Utf8", i)
    PROVE  GetEntry(i).tag = "Utf8" /\ GetEntry(i).text = FiledText(i) /\ Text(i) = FiledText(i)
<1>1. At(i) = Filed(i) /\ At(i).tag = "Utf8" /\ GetEntry(i) = Linked(At(i))
  BY ReferredEntry
<1>2. GetEntry(i) = At(i)
  BY <1>1, KeptTags
<1>3. QED
  BY <1>1, <1>2 DEF FiledText, Text

(* The array type that a class file names.                                 *)
LEMMA FiledArrayIs ==
    ASSUME InUse, NEW a, \E type \in ToSet(file.types) : TypeText(type) = FiledText(a)
    PROVE  IsType(FiledArray(a)) /\ TypeText(FiledArray(a)) = FiledText(a)
<1>1. PICK type : type = FiledArray(a)
  OBVIOUS
<1>2. type \in ToSet(file.types) /\ TypeText(type) = FiledText(a)
  BY <1>1 DEF FiledArray
<1>3. IsType(type)
  <2>1. \A n \in DOMAIN file.types : IsType(file.types[n])
    BY BodyAssumption DEF InUse, PoolInv, TableExact
  <2>2. QED
    BY <1>2, <2>1 DEF ToSet
<1>4. QED
  BY <1>1, <1>2, <1>3

(* A class is found under its name, and an array class by what it is an    *)
(* array of.                                                               *)
LEMMA ClassFound ==
    ASSUME InUse, NEW i, Refers("Class", i), NEW a, a = Filed(i).at[1], NEW name, name = FiledText(a)
    PROVE  /\ ~IsArrayName(name) => GetClass(i) = Answer(name) /\ GetClassOrArray(i) = Answer(name)
           /\ IsArrayName(name) =>
                 /\ GetClass(i).is = "error"
                 /\ GetClassOrArray(i) =
                       IF Head(FiledArray(a).base) = "L" /\ BaseMeaning(FiledArray(a).base) = [class |-> thisName]
                       THEN InvalidConstantPoolEntry
                       ELSE Answer([dimensions |-> FiledArray(a).dimensions,
                                    base |-> BaseMeaning(FiledArray(a).base)])
<1>1. PICK e, g : e = At(i) /\ g = GetEntry(i)
  OBVIOUS
<1>2. e = Filed(i) /\ e.tag = "Class" /\ g = Linked(e) /\ Refers("Utf8", a) /\ e.at[1] = a
      /\ (IsArrayName(name) => \E type \in ToSet(file.types) : TypeText(type) = FiledText(a))
  BY <1>1, ReferredEntry
<1>3. GetEntry(a).tag = "Utf8" /\ GetEntry(a).text = name /\ Text(a) = name
  BY <1>2, ReferredText
<1>4. CASE ~IsArrayName(name)
  <2>1. g = e
    BY <1>2, <1>3, <1>4 DEF Linked, Kept
  <2>2. GetClass(i) = Answer(name)
    BY <1>1, <1>2, <1>3, <2>1 DEF GetClass
  <2>3. GetClassOrArray(i) = GetClass(i)
    BY <1>1, <1>2, <2>1 DEF GetClassOrArray
  <2>4. QED
    BY <1>4, <2>2, <2>3
<1>5. CASE IsArrayName(name)
  <2>1. PICK T, base, array : /\ T = FiledArray(a) /\ base = T.base /\ array = ArrayClass(name)
    OBVIOUS
  <2>2. IsType(T) /\ TypeText(T) = name
    BY <1>2, <1>5, <2>1, FiledArrayIs
  <2>3. /\ array.dimensions = T.dimensions
        /\ base[1] = "L" => array.element = [kind |-> "object", class |-> SubSeq(base, 2, Len(base) - 1)]
        /\ base[1] # "L" => array.element.kind \in {"narrow", "wide"} /\ base = <<array.element.char>>
        /\ Head(base) = base[1]
    <3>1. IsType(T) /\ base = T.base
      BY <2>1, <2>2
    <3>2. array = ArrayClass(TypeText(T))
      BY <2>1, <2>2
    <3>3. Head(base) = base[1]
      BY <3>1, BaseForm
    <3>4. /\ ArrayClass(TypeText(T)).dimensions = T.dimensions
          /\ base[1] = "L" => ArrayClass(TypeText(T)).element =
                                  [kind |-> "object", class |-> SubSeq(base, 2, Len(base) - 1)]
          /\ base[1] # "L" => /\ ArrayClass(TypeText(T)).element.kind \in {"narrow", "wide"}
                             /\ base = <<ArrayClass(TypeText(T)).element.char>>
      BY <3>1, ArrayOfType
    <3>5. QED
      BY <3>2, <3>3, <3>4
  <2>4. g = LinkedArray(e)
    BY <1>2, <1>3, <1>5 DEF Linked, Kept
  <2>5. array = ArrayClass(Text(e.at[1]))
    BY <1>2, <1>3, <2>1
  <2>6. g.tag \in {"PrimitiveArray", "ResolvedClassArray", "ClassArray"}
    BY <2>4 DEF LinkedArray, Entry
  <2>7. GetClass(i).is = "error"
    BY <1>1, <2>6 DEF GetClass, InvalidConstantPoolEntry
  <2>8. CASE base[1] # "L"
    <3>1. g = [tag |-> "PrimitiveArray", at |-> <<array.dimensions>>, text |-> <<array.element.char>>]
      BY <2>3, <2>4, <2>5, <2>8 DEF LinkedArray
    <3>2. g.tag = "PrimitiveArray" /\ g.at[1] = T.dimensions /\ g.text = base
      BY <2>3, <2>8, <3>1
    <3>3. BaseMeaning(base) = [primitive |-> base]
      BY <2>3, <2>8 DEF BaseMeaning
    <3>4. GetClassOrArray(i) = Answer([dimensions |-> T.dimensions, base |-> [primitive |-> base]])
      BY <1>1, <3>2 DEF GetClassOrArray
    <3>5. QED
      BY <1>5, <2>1, <2>3, <2>7, <2>8, <3>3, <3>4
  <2>9. CASE base[1] = "L"
    <3>1. PICK class : class = SubSeq(base, 2, Len(base) - 1)
      OBVIOUS
    <3>2. /\ array.element.kind = "object" /\ array.element.class = class
          /\ BaseMeaning(base) = [class |-> class]
      BY <2>3, <2>9, <3>1 DEF BaseMeaning
    <3>3. CASE class = thisName
      <4>1. g = Entry("ResolvedClassArray", <<array.dimensions>>)
        BY <2>4, <2>5, <3>2, <3>3 DEF LinkedArray
      <4>2. g.tag = "ResolvedClassArray"
        BY <4>1 DEF Entry
      <4>3. GetClassOrArray(i) = InvalidConstantPoolEntry
        BY <1>1, <4>2 DEF GetClassOrArray, GetClass
      <4>4. QED
        BY <1>5, <2>1, <2>3, <2>7, <2>9, <3>2, <3>3, <4>3
    <3>4. CASE class # thisName
      <4>1. g = Entry("ClassArray", <<a, array.dimensions>>)
        BY <1>2, <2>4, <2>5, <3>2, <3>4 DEF LinkedArray
      <4>2. g.tag = "ClassArray" /\ g.at[1] = a /\ g.at[2] = T.dimensions
        BY <2>3, <4>1 DEF Entry
      <4>3. GetClassOrArray(i) = Answer([dimensions |-> T.dimensions, base |-> [class |-> class]])
        BY <1>1, <1>3, <2>1, <3>2, <4>2 DEF GetClassOrArray
      <4>4. BaseMeaning(base) # [class |-> thisName]
        <5>1. PICK x, y : x = [class |-> class] /\ y = [class |-> thisName]
          OBVIOUS
        <5>2. x.class = class /\ y.class = thisName
          BY <5>1
        <5>3. QED
          BY <3>2, <3>4, <5>1, <5>2
      <4>5. QED
        BY <1>5, <2>1, <2>3, <2>7, <2>9, <3>2, <4>3, <4>4
    <3>5. QED
      BY <3>3, <3>4
  <2>10. QED
    BY <2>8, <2>9
<1>6. QED
  BY <1>4, <1>5

(* The member found has the name and the descriptor.                       *)
LEMMA MemberIs ==
    ASSUME NEW members, Len(members) \in Nat, NEW nameAndType, NEW place,
           place = Member(members, nameAndType), place # 0
    PROVE  /\ members[place].name = Text(nameAndType.at[1])
           /\ members[place].descriptor = Text(nameAndType.at[2])
<1> DEFINE There == {i \in 1..Len(members) : /\ members[i].name = Text(nameAndType.at[1])
                                            /\ members[i].descriptor = Text(nameAndType.at[2])}
<1>1. place = IF There # {} THEN Min(There) ELSE 0
  BY DEF Member, SelectInSeq
<1>2. There \in SUBSET Nat /\ There # {}
  BY <1>1
<1>3. place \in There
  BY <1>1, <1>2, LeastElement
<1>4. QED
  BY <1>3

(* A member is found, by the place it has or by what it is called, unless  *)
(* it is one of an array class.                                            *)
LEMMA MemberFound ==
    ASSUME InUse, NEW i, NEW tag, NEW members, NEW resolved,
           \/ tag = "Methodref" /\ members = OwnMethods /\ resolved = "ResolvedMethod"
           \/ tag = "Fieldref" /\ members = fields /\ resolved = "ResolvedField",
           Refers(tag, i),
           NEW m, m = FiledMember(Filed(i)),
           NEW found, found = IF GetEntry(i).tag = resolved THEN Own(members[GetEntry(i).at[1]])
                              ELSE GetMember(i, tag)
    PROVE  /\ ~IsArrayName(m.class) => found = Answer(m)
           /\ IsArrayName(m.class) => found.is = "error"
<1>0. PICK e, c, nt, place : /\ e = Filed(i) /\ c = e.at[1] /\ nt = At(e.at[2])
                             /\ place = Member(members, nt)
  OBVIOUS
<1>1. /\ e = At(i) /\ e.tag = tag /\ GetEntry(i) = Linked(e)
      /\ Refers("Class", c) /\ Refers("NameAndType", e.at[2])
  <2>1. tag # "blank" /\ tag \in {"Methodref", "Fieldref"}
    OBVIOUS
  <2>2. QED
    BY <1>0, <2>1, ReferredEntry
<1>2. At(c) = Filed(c) /\ Refers("Utf8", At(c).at[1]) /\ Text(At(c).at[1]) = m.class
  <2>1. At(c) = Filed(c) /\ Refers("Utf8", At(c).at[1])
    BY <1>1, ReferredEntry
  <2>2. Text(At(c).at[1]) = FiledText(At(c).at[1])
    BY <2>1, ReferredText
  <2>3. m.class = FiledText(Filed(c).at[1])
    BY <1>0 DEF FiledMember
  <2>4. QED
    BY <2>1, <2>2, <2>3
<1>3. /\ nt.tag = "NameAndType" /\ GetEntry(e.at[2]) = nt
      /\ \A n \in 1..2 : GetEntry(nt.at[n]).tag = "Utf8" /\ GetEntry(nt.at[n]).text = Text(nt.at[n])
      /\ Text(nt.at[1]) = m.name /\ Text(nt.at[2]) = m.descriptor
  <2>1. /\ nt = Filed(e.at[2]) /\ nt.tag = "NameAndType" /\ GetEntry(e.at[2]) = Linked(nt)
        /\ Refers("Utf8", nt.at[1]) /\ Refers("Utf8", nt.at[2])
    BY <1>0, <1>1, ReferredEntry
  <2>2. GetEntry(e.at[2]) = nt
    BY <2>1, KeptTags
  <2>3. \A j : Refers("Utf8", j) =>
            GetEntry(j).tag = "Utf8" /\ GetEntry(j).text = FiledText(j) /\ Text(j) = FiledText(j)
    BY ReferredText
  <2>4. m.name = FiledText(nt.at[1]) /\ m.descriptor = FiledText(nt.at[2])
    BY <1>0, <2>1 DEF FiledMember
  <2>5. \A n \in 1..2 : Refers("Utf8", nt.at[n])
    <3>1. \A n \in 1..2 : n = 1 \/ n = 2
      OBVIOUS
    <3>2. QED
      BY <2>1, <3>1
  <2>6. QED
    BY <2>1, <2>2, <2>3, <2>4, <2>5
<1>4. ~IsArrayName(thisName)
  <2>1. PICK t : t = file.body.this
    OBVIOUS
  <2>2. Refers("Class", t) /\ ~IsArrayName(FiledText(Filed(t).at[1]))
    BY <2>1 DEF InUse, WellFormedFile
  <2>3. At(t) = Filed(t) /\ Refers("Utf8", At(t).at[1])
    BY <2>2, ReferredEntry
  <2>4. Text(At(t).at[1]) = FiledText(Filed(t).at[1])
    BY <2>3, ReferredText
  <2>5. thisName = Text(At(t).at[1])
    BY <2>1 DEF InUse, ParsedExact
  <2>6. QED
    BY <2>2, <2>4, <2>5
<1>5. Linked(e) = LinkedMember(e, members, resolved)
  BY <1>1 DEF Linked, Kept
<1>6. LinkedMember(e, members, resolved) =
          IF m.class = thisName /\ place # 0 THEN Entry(resolved, <<place>>) ELSE e
  BY <1>0, <1>2 DEF LinkedMember
<1>7. m = [class |-> m.class, name |-> m.name, descriptor |-> m.descriptor]
  BY DEF FiledMember
<1>8. CASE m.class = thisName /\ place # 0
  <2>1. GetEntry(i).tag = resolved /\ GetEntry(i).at[1] = place
    BY <1>1, <1>5, <1>6, <1>8 DEF Entry
  <2>2. Len(members) \in Nat
    <3>1. methods \in Seq(ToSet(methods)) /\ fields \in Seq(ToSet(fields))
      BY DEF InUse, ParsedExact
    <3>2. PICK S : S = ToSet(methods) \cup {ObjectInit}
      OBVIOUS
    <3>3. methods \in Seq(S) /\ ObjectInit \in S
      BY <3>1, <3>2
    <3>4. OwnMethods \in Seq(S)
      BY <3>3 DEF OwnMethods
    <3>5. QED
      BY <3>1, <3>4, LenProperties
  <2>3. members[place].name = m.name /\ members[place].descriptor = m.descriptor
    BY <1>0, <1>3, <1>8, <2>2, MemberIs
  <2>4. found = Answer(m)
    BY <1>7, <1>8, <2>1, <2>3 DEF Own
  <2>5. QED
    BY <1>4, <1>8, <2>4
<1>9. CASE ~(m.class = thisName /\ place # 0)
  <2>1. GetEntry(i) = e /\ e.tag # resolved
    BY <1>1, <1>5, <1>6, <1>9
  <2>2. found = GetMember(i, tag)
    BY <2>1
  <2>3. GetMember(i, tag) = IF GetClass(c).is # "answer" THEN GetClass(c)
                            ELSE Answer([class |-> GetClass(c).meaning,
                                         name |-> m.name, descriptor |-> m.descriptor])
    <3>1. GetEntry(i) = e /\ e.tag = tag /\ e.at[1] = c /\ GetEntry(e.at[2]) = nt
      BY <1>0, <1>1, <1>3, <2>1
    <3>2. nt.tag = "NameAndType" /\ \A n \in 1..2 : GetEntry(nt.at[n]).tag = "Utf8"
      BY <1>3
    <3>3. GetEntry(nt.at[1]).text = m.name /\ GetEntry(nt.at[2]).text = m.descriptor
      <4>1. 1 \in 1..2 /\ 2 \in 1..2
        OBVIOUS
      <4>2. QED
        BY <1>3, <4>1
    <3>4. GetMember(i, tag) = IF GetClass(c).is # "answer" THEN GetClass(c)
                              ELSE Answer([class |-> GetClass(c).meaning,
                                           name |-> GetEntry(nt.at[1]).text,
                                           descriptor |-> GetEntry(nt.at[2]).text])
      BY <3>1, <3>2 DEF GetMember
    <3>5. QED
      BY <3>3, <3>4
  <2>4. m.class = FiledText(Filed(c).at[1])
    BY <1>0 DEF FiledMember
  <2>5. /\ ~IsArrayName(m.class) => GetClass(c) = Answer(m.class)
        /\ IsArrayName(m.class) => GetClass(c).is = "error"
    BY <1>1, <2>4, ClassFound
  <2>6. CASE ~IsArrayName(m.class)
    <3>1. GetClass(c).is = "answer" /\ GetClass(c).meaning = m.class
      BY <2>5, <2>6 DEF Answer
    <3>2. QED
      BY <1>7, <2>2, <2>3, <2>6, <3>1
  <2>7. CASE IsArrayName(m.class)
    BY <2>2, <2>3, <2>5, <2>7
  <2>8. QED
    BY <2>6, <2>7
<1>10. QED
  BY <1>8, <1>9

(* What is answered, whatever the file holds, is of the right kind; and of *)
(* a well formed file it is what the file has.                             *)
LEMMA RightAnswers ==
    ASSUME InUse, NEW op \in Asking, NEW i, Filed(i).tag \in Kinds(op),
           NEW answer, answer = LookUp(op, i)
    PROVE  IF Unsupported(op, i) THEN answer.is = "error"
           ELSE answer = Answer(FiledMeaning(MeaningOf(op), i))
<1>0. PICK e, a, name : e = Filed(i) /\ a = e.at[1] /\ name = FiledText(a)
  OBVIOUS
<1>1. CASE op \in {"ldc", "ldc2_w"}
  <2>1. PICK tags : /\ tags \in {{"Integer", "Float"}, {"Long", "Double"}}
                    /\ tags = Kinds(op) /\ answer = GetConstant(i, tags)
    BY <1>1 DEF LookUp, Kinds
  <2>2. e.tag \in {"Integer", "Float", "Long", "Double"} /\ e.tag \in tags
    BY <1>0, <2>1
  <2>3. Refers(e.tag, i) /\ e.tag # "blank"
    BY <1>0, <2>2 DEF Refers
  <2>4. At(i) = e /\ GetEntry(i) = Linked(e)
    BY <1>0, <2>3, ReferredEntry
  <2>5. GetEntry(i) = e
    BY <2>2, <2>4 DEF Linked, Kept
  <2>6. answer = Answer(e)
    BY <2>1, <2>2, <2>5 DEF GetConstant
  <2>7. FiledMeaning(MeaningOf(op), i) = e /\ ~Unsupported(op, i)
    BY <1>0, <1>1 DEF FiledMeaning, MeaningOf, Unsupported
  <2>8. QED
    BY <2>6, <2>7
<1>2. CASE op \in {"new", "anewarray", "multianewarray"}
  <2>1. Refers("Class", i) /\ MeaningOf(op) = "class"
    BY <1>2 DEF Refers, Kinds, MeaningOf
  <2>2. /\ ~IsArrayName(name) => GetClass(i) = Answer(name) /\ GetClassOrArray(i) = Answer(name)
        /\ IsArrayName(name) =>
              /\ GetClass(i).is = "error"
              /\ GetClassOrArray(i) =
                    IF Head(FiledArray(a).base) = "L" /\ BaseMeaning(FiledArray(a).base) = [class |-> thisName]
                    THEN InvalidConstantPoolEntry
                    ELSE Answer([dimensions |-> FiledArray(a).dimensions,
                                 base |-> BaseMeaning(FiledArray(a).base)])
    BY <1>0, <2>1, ClassFound
  <2>3. answer = IF op = "new" THEN GetClass(i) ELSE GetClassOrArray(i)
    BY <1>2 DEF LookUp
  <2>4. Unsupported(op, i) <=>
            /\ IsArrayName(name)
            /\ \/ op = "new"
               \/ Head(FiledArray(a).base) = "L" /\ BaseMeaning(FiledArray(a).base) = [class |-> thisName]
    BY <1>0, <1>2, <2>1 DEF Unsupported
  <2>5. CASE ~IsArrayName(name)
    <3>1. FiledMeaning(MeaningOf(op), i) = name
      BY <1>0, <2>1, <2>5 DEF FiledMeaning
    <3>2. QED
      BY <2>2, <2>3, <2>4, <2>5, <3>1
  <2>6. CASE IsArrayName(name)
    <3>1. FiledMeaning(MeaningOf(op), i) =
              [dimensions |-> FiledArray(a).dimensions, base |-> BaseMeaning(FiledArray(a).base)]
      BY <1>0, <2>1, <2>6 DEF FiledMeaning
    <3>2. InvalidConstantPoolEntry.is = "error"
      BY DEF InvalidConstantPoolEntry
    <3>3. QED
      BY <2>2, <2>3, <2>4, <2>6, <3>1, <3>2
  <2>7. QED
    BY <2>5, <2>6
<1>3. ASSUME op \in {"invoke", "field"}
      PROVE  Unsupported(op, i) <=> IsArrayName(FiledMember(e).class)
  <2>1. FiledMember(e).class = FiledText(Filed(a).at[1])
    BY <1>0 DEF FiledMember
  <2>2. MeaningOf(op) \in {"method", "field"}
    BY <1>3 DEF MeaningOf
  <2>3. Unsupported(op, i) <=> IsArrayName(FiledText(Filed(a).at[1]))
    BY <1>0, <1>3, <2>2 DEF Unsupported
  <2>4. QED
    BY <2>1, <2>3
<1>4. CASE op = "invoke"
  <2>1. PICK m : m = FiledMember(Filed(i))
    OBVIOUS
  <2>2. Refers("Methodref", i)
    BY <1>4 DEF Refers, Kinds
  <2>3. answer = IF GetEntry(i).tag = "ResolvedMethod" THEN Own(OwnMethods[GetEntry(i).at[1]])
                 ELSE GetMember(i, "Methodref")
    BY <1>4 DEF LookUp, GetMethod
  <2>4. /\ ~IsArrayName(m.class) => answer = Answer(m)
        /\ IsArrayName(m.class) => answer.is = "error"
    BY <2>1, <2>2, <2>3, MemberFound
  <2>5. FiledMeaning(MeaningOf(op), i) = m
    BY <1>4, <2>1 DEF FiledMeaning, MeaningOf
  <2>6. QED
    BY <1>0, <1>3, <1>4, <2>1, <2>4, <2>5
<1>5. CASE op = "field"
  <2>1. PICK m : m = FiledMember(Filed(i))
    OBVIOUS
  <2>2. PICK found : found = IF GetEntry(i).tag = "ResolvedField" THEN Own(fields[GetEntry(i).at[1]])
                             ELSE GetMember(i, "Fieldref")
    OBVIOUS
  <2>3. Refers("Fieldref", i)
    BY <1>5 DEF Refers, Kinds
  <2>4. answer = IF found.is = "answer" THEN Answer(Undescribed(found.meaning)) ELSE found
    BY <1>5, <2>2 DEF LookUp, GetField
  <2>5. /\ ~IsArrayName(m.class) => found = Answer(m)
        /\ IsArrayName(m.class) => found.is = "error"
    BY <2>1, <2>2, <2>3, MemberFound
  <2>6. FiledMeaning(MeaningOf(op), i) = Undescribed(m)
    BY <1>5, <2>1 DEF FiledMeaning, MeaningOf
  <2>7. /\ ~IsArrayName(m.class) => answer = Answer(Undescribed(m))
        /\ IsArrayName(m.class) => answer.is = "error"
    BY <2>4, <2>5 DEF Answer
  <2>8. QED
    BY <1>0, <1>3, <1>5, <2>1, <2>6, <2>7
<1>6. QED
  BY <1>1, <1>2, <1>4, <1>5 DEF Asking

LEMMA SameMeaning ==
    ASSUME PoolInv, IInv, ParsedExact, RunExact, UsedExact, IndicesAreWords
    PROVE  ConstantsMeanTheSame
<1> SUFFICES ASSUME used # NoUse PROVE ConstantsMeanTheSame
  BY DEF ConstantsMeanTheSame
<1>1. status = "linked" /\ original = NoFile
  BY DEF RunExact, IInv, StagesExact
<1>2. PICK op, i, answer : op = used.op /\ i = used.index /\ answer = used.answer
  OBVIOUS
<1>3. op \in Asking /\ i \in Words /\ answer = LookUp(op, i)
  BY <1>2 DEF UsedExact, Asking, Words
<1>4. ASSUME answer.is = "answer" PROVE Filed(i).tag \in Kinds(op)
  <2>1. At(i).tag \in Kinds(op)
    BY <1>1, <1>3, <1>4, AnswerTags DEF IInv
  <2>2. At(i).tag # "unusable"
    BY <1>3, <2>1 DEF Kinds, Asking
  <2>3. QED
    BY <1>1, <1>3, <2>1, <2>2, FiledIs
<1>5. ASSUME Filed(i).tag \in Kinds(op), WellFormedFile
      PROVE  IF Unsupported(op, i) THEN answer.is = "error"
             ELSE answer = Answer(FiledMeaning(MeaningOf(op), i))
  <2>1. InUse
    BY <1>1, <1>5 DEF InUse
  <2>2. QED
    BY <1>3, <1>5, <2>1, RightAnswers
<1>6. ASSUME Filed(i).tag \in Kinds(op), WellFormedFile
      PROVE  /\ answer.is = "answer" <=> ~Unsupported(op, i)
             /\ answer.is = "answer" => answer.meaning = FiledMeaning(MeaningOf(op), i)
  <2>1. CASE Unsupported(op, i)
    BY <1>5, <1>6, <2>1
  <2>2. CASE ~Unsupported(op, i)
    BY <1>5, <1>6, <2>2 DEF Answer
  <2>3. QED
    BY <2>1, <2>2
<1>7. QED
  BY <1>2, <1>4, <1>6 DEF ConstantsMeanTheSame

(* The last lookup would have the same answer now: what it depends on is   *)
(* not changed once a class is linked.                                     *)
THEOREM UsedInvariance == Spec => []UsedExact
<1>1. Init => UsedExact
  BY DEF Init, UsedExact, NoUse
<1>2. IInv /\ RunExact /\ UsedExact /\ PoolInv /\ [Next]_vars => UsedExact'
  BY NextUsed
<1>3. QED
  BY <1>1, <1>2, Invariance, RunInvariance, PoolInvariance, PTL DEF Spec

(* An instruction gets the constant, class, array type or member that the  *)
(* class file has at its index, and an error for anything else; for every  *)
(* table and every code, where an index of the table has two bytes like    *)
(* one in the code (the program's is a u16), or where the build panics on  *)
(* overflow.                                                               *)
THEOREM ConstantsKeepTheirMeaning ==
    ASSUME IndicesAreWords
    PROVE  Spec => []ConstantsMeanTheSame
<1>1. PoolInv /\ IInv /\ ParsedExact /\ RunExact /\ UsedExact => ConstantsMeanTheSame
  BY SameMeaning
<1>2. QED
  BY <1>1, PoolInvariance, Invariance, ParsedInvariance, RunInvariance, UsedInvariance, PTL
=============================================================================
