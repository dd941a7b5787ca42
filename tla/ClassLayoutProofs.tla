------------------------- MODULE ClassLayoutProofs -------------------------
(* Proofs about ClassLayout, for all names, any number of classes and any  *)
(* number of members.                                                      *)
EXTENDS ClassLayout, SequenceTheorems, WellFoundedInduction, TLAPS

-----------------------------------------------------------------------------
(* Numbers. *)

(* A set of numbers has a least one.                                       *)
LEMMA LeastElement ==
    ASSUME NEW S \in SUBSET Nat, S # {}
    PROVE  /\ \E x \in S : \A y \in S : x <= y
           /\ Min(S) \in S /\ \A y \in S : Min(S) <= y
<1>1. PICK x \in S : \A y \in S : ~(<<y, x>> \in OpToRel(<, Nat))
  BY NatLessThanWellFounded, WFMin
<1>2. ASSUME NEW y \in S, ~(x <= y) PROVE FALSE
  <2>1. y \in Nat /\ x \in Nat /\ y < x
    BY <1>2
  <2>2. <<y, x>> \in OpToRel(<, Nat)
    BY <2>1 DEF OpToRel
  <2>3. QED
    BY <1>1, <2>2
<1>3. QED
  BY <1>2 DEF Min

(* Numbers with a bound have a greatest one.                               *)
LEMMA GreatestElement ==
    ASSUME NEW n \in Nat, NEW S \in SUBSET (1..n), S # {}
    PROVE  Max(S) \in S /\ \A y \in S : y <= Max(S)
<1> DEFINE T == {n - x : x \in S}
<1>0. PICK z \in S : TRUE
  OBVIOUS
<1>1. T \in SUBSET Nat /\ T # {}
  <2>1. n - z \in T /\ \A x \in S : n - x \in Nat
    OBVIOUS
  <2>2. QED
    BY <2>1
<1>2. PICK t \in T : \A u \in T : t <= u
  BY <1>1, LeastElement
<1>3. PICK x \in S : t = n - x
  OBVIOUS
<1>4. \A y \in S : n - y \in T
  OBVIOUS
<1>5. ASSUME NEW y \in S PROVE y <= x
  <2>1. n - x <= n - y
    BY <1>2, <1>3, <1>4
  <2>2. QED
    BY <2>1
<1>6. \A y \in S : x >= y
  BY <1>5
<1>7. QED
  BY <1>6 DEF Max

(* What holds at 0 and goes on holding, holds up to n.                     *)
LEMMA Induction ==
    ASSUME NEW n \in Nat, NEW S, 0 \in S, \A i \in 1..n : i - 1 \in S => i \in S
    PROVE  \A i \in 0..n : i \in S
<1> DEFINE Wrong == {i \in 0..n : i \notin S}
<1> SUFFICES ASSUME Wrong # {} PROVE FALSE
  OBVIOUS
<1>1. Wrong \in SUBSET Nat
  OBVIOUS
<1>2. PICK i \in Wrong : \A j \in Wrong : i <= j
  BY <1>1, LeastElement
<1>3. i \in 1..n /\ i - 1 \in 0..n /\ i \notin S
  OBVIOUS
<1>4. i - 1 \in Wrong
  BY <1>3
<1>5. QED
  BY <1>2, <1>3, <1>4

(* A value that is built in n steps.                                       *)
BuiltIn(f, n, V, base, step) ==
    f \in [0..n -> V] /\ f[0] = base /\ \A i \in 1..n : f[i] = step[<<i, f[i - 1]>>]

LEMMA Recursion ==
    ASSUME NEW n \in Nat, NEW V, NEW base \in V, NEW step \in [(1..n) \X V -> V]
    PROVE  \E f : BuiltIn(f, n, V, base, step)
<1> DEFINE Built(k, f) == f[0] = base /\ \A i \in 1..k : f[i] = step[<<i, f[i - 1]>>]
           S == {k \in 0..n : \E f \in [0..k -> V] : Built(k, f)}
<1>1. 0 \in S
  <2>1. PICK f : f = [i \in 0..0 |-> base]
    OBVIOUS
  <2>2. f \in [0..0 -> V] /\ Built(0, f)
    BY <2>1
  <2>3. \E h \in [0..0 -> V] : Built(0, h)
    BY <2>2
  <2>4. 0 \in 0..n
    OBVIOUS
  <2> HIDE DEF Built
  <2>5. QED
    BY <2>3, <2>4
<1>2. ASSUME NEW k \in 1..n, k - 1 \in S PROVE k \in S
  <2>1. PICK f \in [0..k - 1 -> V] : Built(k - 1, f)
    BY <1>2
  <2>2. <<k, f[k - 1]>> \in (1..n) \X V
    BY <2>1
  <2>3. PICK v \in V : v = step[<<k, f[k - 1]>>]
    BY <2>2
  <2>4. PICK g : g = [i \in 0..k |-> IF i = k THEN v ELSE f[i]]
    OBVIOUS
  <2>5. g \in [0..k -> V] /\ \A i \in 0..k : g[i] = IF i = k THEN v ELSE f[i]
    BY <2>4
  <2>6. Built(k, g)
    <3>1. g[0] = base
      BY <2>1, <2>5
    <3>2. ASSUME NEW i \in 1..k PROVE g[i] = step[<<i, g[i - 1]>>]
      <4>1. g[i - 1] = f[i - 1]
        BY <2>5
      <4>2. CASE i = k
        <5>1. k \in 0..k
          OBVIOUS
        <5>2. g[k] = v
          BY <2>5, <5>1
        <5>3. g[i - 1] = f[k - 1]
          BY <4>1, <4>2
        <5>4. QED
          BY <2>3, <4>2, <5>2, <5>3
      <4>3. CASE i # k
        BY <2>1, <2>5, <4>1, <4>3
      <4>4. QED
        BY <4>2, <4>3
    <3>3. QED
      BY <3>1, <3>2
  <2>7. QED
    BY <2>5, <2>6
<1>3. n \in S
  <2> HIDE DEF S
  <2>1. \A i \in 0..n : i \in S
    BY <1>1, <1>2, Induction
  <2>2. QED
    BY <2>1
<1>4. QED
  BY <1>3 DEF BuiltIn

(* What is built in the same steps is the same.                            *)
Alike(n, f, g) ==
    n \in Nat /\ f[0] = g[0] /\ \A i \in 1..n : f[i - 1] = g[i - 1] => f[i] = g[i]

LEMMA SameSteps ==
    ASSUME NEW n, NEW f, NEW g, Alike(n, f, g)
    PROVE  \A i \in 0..n : f[i] = g[i]
<1> DEFINE S == {i \in 0..n : f[i] = g[i]}
<1>1. n \in Nat /\ 0 \in S /\ \A i \in 1..n : i - 1 \in S => i \in S
  BY DEF Alike
<1>2. \A i \in 0..n : i \in S
  <2> HIDE DEF S
  <2> QED BY <1>1, Induction
<1>3. QED
  BY <1>2

-----------------------------------------------------------------------------
(* Searches in tables. *)

LEMMA MethodPlace ==
    ASSUME NEW T, NEW table \in Seq(T), NEW name
    PROVE  /\ MethodAt(table, name) \in 0..Len(table)
           /\ MethodAt(table, name) = 0 <=> name \notin Names(table)
           /\ MethodAt(table, name) # 0 => table[MethodAt(table, name)].name = name
<1> DEFINE I == {i \in 1..Len(table) : table[i].name = name}
<1>1. MethodAt(table, name) = IF I # {} THEN Min(I) ELSE 0
  BY DEF MethodAt, SelectInSeq
<1>2. I \in SUBSET Nat /\ DOMAIN table = 1..Len(table) /\ Len(table) \in Nat
  BY LenProperties
<1>3. I = {} <=> name \notin Names(table)
  BY <1>2 DEF Names
<1>4. CASE I = {}
  BY <1>1, <1>2, <1>3, <1>4
<1>5. CASE I # {}
  <2>1. Min(I) \in I
    <3> HIDE DEF I
    <3> QED BY <1>2, <1>5, LeastElement
  <2>2. QED
    BY <1>1, <1>2, <1>3, <1>5, <2>1
<1>6. QED
  BY <1>4, <1>5

LEMMA FieldPlace ==
    ASSUME NEW T, NEW class, class.fields \in Seq(T), NEW name
    PROVE  /\ FieldByName(class, name) \in 0..Len(class.fields)
           /\ FieldByName(class, name) = 0 <=> name \notin Names(class.fields)
           /\ FieldByName(class, name) # 0 => class.fields[FieldByName(class, name)].name = name
<1> PICK table \in Seq(T) : table = class.fields
  OBVIOUS
<1>1. FieldByName(class, name) = MethodAt(table, name)
  BY DEF FieldByName, MethodAt
<1>2. QED
  BY <1>1, MethodPlace

LEMMA TypedFieldPlace ==
    ASSUME NEW T, NEW class, class.fields \in Seq(T), NEW name, NEW width,
           FieldByNameAndType(class, name, width) # 0
    PROVE  /\ FieldByNameAndType(class, name, width) \in 1..Len(class.fields)
           /\ class.fields[FieldByNameAndType(class, name, width)].name = name
<1> PICK table \in Seq(T) : table = class.fields
  OBVIOUS
<1> DEFINE I == {i \in 1..Len(table) : table[i].name = name /\ table[i].width = width}
<1>1. FieldByNameAndType(class, name, width) = IF I # {} THEN Min(I) ELSE 0
  BY DEF FieldByNameAndType, SelectInSeq
<1>2. I \in SUBSET Nat /\ I # {}
  BY <1>1
<1>3. Min(I) \in I
  <2> HIDE DEF I
  <2> QED BY <1>2, LeastElement
<1>4. QED
  BY <1>1, <1>2, <1>3

-----------------------------------------------------------------------------
(* Instance fields. *)

LEMMA InstanceSteps ==
    ASSUME NEW fields \in Seq(VMField)
    PROVE  \E f : /\ f \in [0..Len(fields) -> Seq(VMField)]
                  /\ f[0] = <<>>
                  /\ \A i \in 1..Len(fields) :
                        f[i] = IF fields[i].static THEN f[i - 1] ELSE Append(f[i - 1], fields[i])
                  /\ Instance(fields) = f[Len(fields)]
<1>0. PICK n, V, e : n \in Nat /\ n = Len(fields) /\ V = Seq(VMField) /\ e = <<>>
  BY LenProperties
<1> n \in Nat
  BY <1>0
<1> DEFINE OneMore(i, s) == IF fields[i].static THEN s ELSE Append(s, fields[i])
           Down(g) == [i \in 0..n |-> IF i = 0 THEN e ELSE OneMore(i, g[i - 1])]
<1>1. ASSUME NEW i \in 1..n, NEW s \in V PROVE OneMore(i, s) \in V
  <2>1. fields[i] \in VMField
    BY <1>0, ElementOfSeq
  <2>2. Append(s, fields[i]) \in V
    BY <1>0, <2>1, AppendProperties
  <2>3. QED
    BY <2>2
<1>2. Instance(fields) = (CHOOSE g : g = Down(g))[n]
  BY <1>0 DEF Instance
<1>3. e \in V
  BY <1>0
<1> HIDE DEF OneMore
<1>4. PICK step : step = [p \in (1..n) \X V |-> OneMore(p[1], p[2])]
  OBVIOUS
<1>5. step \in [(1..n) \X V -> V]
  BY <1>1, <1>4
<1>6. \A i \in 1..n, s \in V : step[<<i, s>>] = OneMore(i, s)
  BY <1>4
<1>7. PICK f : f \in [0..n -> V] /\ f[0] = e /\ \A i \in 1..n : f[i] = step[<<i, f[i - 1]>>]
  <2>1. \E f : BuiltIn(f, n, V, e, step)
    BY <1>3, <1>5, Recursion
  <2>2. QED
    BY <2>1 DEF BuiltIn
<1>8. \A i \in 1..n : f[i] = OneMore(i, f[i - 1])
  <2>1. \A i \in 1..n : f[i - 1] \in V
    BY <1>7
  <2>2. QED
    BY <1>6, <1>7, <2>1
<1>9. f = Down(f)
  BY <1>7, <1>8
<1>10. PICK g : g = CHOOSE h : h = Down(h)
  OBVIOUS
<1>11. g = Down(g)
  <2> HIDE DEF Down
  <2> QED BY <1>9, <1>10
<1>12. g[0] = e /\ \A i \in 1..n : g[i] = OneMore(i, g[i - 1])
  BY <1>11
<1>13. Alike(n, f, g)
  BY <1>7, <1>8, <1>12 DEF Alike
<1>14. \A i \in 0..n : f[i] = g[i]
  BY <1>13, SameSteps
<1>15. Instance(fields) = f[n]
  BY <1>2, <1>10, <1>14
<1>16. QED
  BY <1>0, <1>7, <1>8, <1>15 DEF OneMore

(* What the empty sequence has, and keeps when it grows, all sequences have. *)
LEMMA Growing ==
    ASSUME NEW V, NEW S, <<>> \in S, \A s \in Seq(V), e \in V : s \in S => Append(s, e) \in S
    PROVE  \A s \in Seq(V) : s \in S
<1> SUFFICES ASSUME NEW s \in Seq(V) PROVE s \in S
  OBVIOUS
<1>1. PICK n : n = Len(s) /\ n \in Nat
  BY LenProperties
<1> DEFINE I == {i \in 0..n : SubSeq(s, 1, i) \in S}
<1>2. 0 \in I
  <2>1. SubSeq(s, 1, 0) = <<>>
    BY SubSeqEmpty
  <2>2. 0 \in 0..n
    BY <1>1
  <2>3. QED
    BY <2>1, <2>2
<1>3. ASSUME NEW i \in 1..n, i - 1 \in I PROVE i \in I
  <2>1. s[i] \in V
    BY <1>1, ElementOfSeq
  <2>2. \A k \in 1..i - 1 : s[k] \in V
    BY <1>1, ElementOfSeq
  <2>3. SubSeq(s, 1, i - 1) \in Seq(V)
    BY <1>1, <2>2, SubSeqProperties
  <2>4. 1 \in 1..Len(s) /\ i \in 1..Len(s)
    BY <1>1
  <2>5. SubSeq(s, 1, i) = SubSeq(s, 1, i - 1) \o <<s[i]>>
    BY <2>4, SubSeqRecursiveSecond
  <2>6. SubSeq(s, 1, i) = Append(SubSeq(s, 1, i - 1), s[i])
    BY <2>1, <2>3, <2>5, AppendIsConcat
  <2>7. SubSeq(s, 1, i - 1) \in S
    BY <1>3
  <2>8. Append(SubSeq(s, 1, i - 1), s[i]) \in S
    BY <2>1, <2>3, <2>7
  <2>9. i \in 0..n
    BY <1>1
  <2>10. QED
    BY <2>6, <2>8, <2>9
<1>4. \A i \in 0..n : i \in I
  <2> HIDE DEF I
  <2> QED BY <1>1, <1>2, <1>3, Induction
<1>5. SubSeq(s, 1, n) \in S
  BY <1>1, <1>4
<1>6. QED
  BY <1>1, <1>5, SubSeqFull

(* t is s, of length n, with e behind it.                                  *)
Longer(V, s, e, n, t) ==
    /\ n \in Nat /\ n = Len(s) /\ t = Append(s, e) /\ Len(t) = n + 1
    /\ t \in Seq(V) /\ t[n + 1] = e /\ \A i \in 1..n : t[i] = s[i]
    /\ DOMAIN s = 1..n /\ DOMAIN t = 1..n + 1

LEMMA Appended ==
    ASSUME NEW V, NEW s \in Seq(V), NEW e \in V
    PROVE  \E n, t : Longer(V, s, e, n, t)
<1>1. PICK n : n = Len(s)
  OBVIOUS
<1>2. PICK t : t = Append(s, e)
  OBVIOUS
<1>3. n \in Nat /\ DOMAIN s = 1..n
  BY <1>1, LenProperties
<1>4. t \in Seq(V) /\ Len(t) = n + 1 /\ t[n + 1] = e /\ \A i \in 1..n : t[i] = s[i]
  BY <1>1, <1>2, AppendProperties
<1>5. DOMAIN t = 1..n + 1
  BY <1>4, LenProperties
<1>6. QED
  BY <1>1, <1>2, <1>3, <1>4, <1>5 DEF Longer

(* An empty table has none, and one more field adds itself or nothing.     *)
LEMMA InstanceEmpty == Instance(<<>>) = <<>>
<1>1. <<>> \in Seq(VMField) /\ Len(<<>>) = 0
  OBVIOUS
<1>2. QED
  BY <1>1, InstanceSteps

LEMMA InstanceAppend ==
    ASSUME NEW fields \in Seq(VMField), NEW e \in VMField
    PROVE  Instance(Append(fields, e)) = IF e.static THEN Instance(fields) ELSE Append(Instance(fields), e)
<1>1. PICK n, more : /\ n \in Nat /\ n = Len(fields) /\ more = Append(fields, e) /\ Len(more) = n + 1
                     /\ more \in Seq(VMField) /\ more[n + 1] = e /\ \A i \in 1..n : more[i] = fields[i]
  <2>1. PICK n, more : Longer(VMField, fields, e, n, more)
    BY Appended
  <2>2. QED
    BY <2>1 DEF Longer
<1>2. PICK f : /\ f[0] = <<>> /\ Instance(fields) = f[n]
               /\ \A i \in 1..n : f[i] = IF fields[i].static THEN f[i - 1] ELSE Append(f[i - 1], fields[i])
  BY <1>1, InstanceSteps
<1>3. PICK g : /\ g[0] = <<>> /\ Instance(more) = g[Len(more)]
               /\ \A i \in 1..Len(more) : g[i] = IF more[i].static THEN g[i - 1] ELSE Append(g[i - 1], more[i])
  <2>1. more \in Seq(VMField)
    BY <1>1
  <2>2. QED
    BY <2>1, InstanceSteps
<1>4. Alike(n, f, g)
  BY <1>1, <1>2, <1>3 DEF Alike
<1>5. \A i \in 0..n : f[i] = g[i]
  BY <1>4, SameSteps
<1>6. f[n] = g[n] /\ n + 1 \in 1..n + 1 /\ n + 1 - 1 = n
  BY <1>1, <1>5
<1>7. g[n + 1] = IF more[n + 1].static THEN g[n] ELSE Append(g[n], more[n + 1])
  BY <1>1, <1>3, <1>6
<1>8. QED
  BY <1>1, <1>2, <1>3, <1>6, <1>7

(* They are fields of the table, and not static.                           *)
LEMMA InstanceFields ==
    \A fields \in Seq(VMField) :
        /\ Instance(fields) \in Seq(VMField)
        /\ \A k \in 1..Len(Instance(fields)) :
              /\ ~Instance(fields)[k].static
              /\ \E i \in 1..Len(fields) : Instance(fields)[k] = fields[i]
<1> DEFINE Good(s) == /\ Instance(s) \in Seq(VMField)
                      /\ \A k \in 1..Len(Instance(s)) :
                            /\ ~Instance(s)[k].static
                            /\ \E i \in 1..Len(s) : Instance(s)[k] = s[i]
           S == {s \in Seq(VMField) : Good(s)}
<1>1. <<>> \in S
  <2>1. <<>> \in Seq(VMField) /\ Len(<<>>) = 0
    OBVIOUS
  <2>2. \A k \in 1..Len(<<>>) : FALSE
    BY <2>1
  <2>3. Instance(<<>>) \in Seq(VMField) /\ \A k \in 1..Len(Instance(<<>>)) : FALSE
    BY <2>1, <2>2, InstanceEmpty
  <2>4. Good(<<>>)
    BY <2>3
  <2>5. QED
    BY <2>1, <2>4
<1>2. ASSUME NEW s \in Seq(VMField), NEW e \in VMField, s \in S PROVE Append(s, e) \in S
  <2>0. Good(s)
    BY <1>2
  <2>1. PICK n, t : /\ n \in Nat /\ n = Len(s) /\ t = Append(s, e) /\ Len(t) = n + 1
                    /\ t \in Seq(VMField) /\ t[n + 1] = e /\ \A i \in 1..n : t[i] = s[i]
    <3>1. PICK n, t : Longer(VMField, s, e, n, t)
      BY Appended
    <3>2. QED
      BY <3>1 DEF Longer
  <2>2. CASE e.static
    <3>1. Instance(t) = Instance(s)
      BY <2>1, <2>2, InstanceAppend
    <3>2. Good(t)
      BY <2>0, <2>1, <3>1
    <3>3. QED
      BY <2>1, <3>2
  <2>3. CASE ~e.static
    <3>1. Instance(t) = Append(Instance(s), e)
      BY <2>1, <2>3, InstanceAppend
    <3>2. PICK m : /\ m \in Nat /\ m = Len(Instance(s)) /\ Len(Instance(t)) = m + 1
                   /\ Instance(t) \in Seq(VMField)
                   /\ Instance(t)[m + 1] = e /\ \A k \in 1..m : Instance(t)[k] = Instance(s)[k]
      <4>1. Instance(s) \in Seq(VMField)
        BY <2>0
      <4>2. PICK m, u : Longer(VMField, Instance(s), e, m, u)
        BY <4>1, Appended
      <4>3. QED
        BY <3>1, <4>2 DEF Longer
    <3>3. ASSUME NEW k \in 1..m + 1
          PROVE  ~Instance(t)[k].static /\ \E i \in 1..n + 1 : Instance(t)[k] = t[i]
      <4>1. CASE k \in 1..m
        <5>1. ~Instance(s)[k].static
          BY <2>0, <3>2, <4>1
        <5>2. PICK i \in 1..n : Instance(s)[k] = s[i]
          BY <2>0, <2>1, <3>2, <4>1
        <5>3. QED
          BY <2>1, <3>2, <4>1, <5>1, <5>2
      <4>2. CASE k = m + 1
        BY <2>1, <2>3, <3>2, <4>2
      <4>3. QED
        BY <3>2, <4>1, <4>2
    <3>4. Good(t)
      BY <2>1, <3>2, <3>3
    <3>5. QED
      BY <2>1, <3>4
  <2>4. QED
    BY <2>2, <2>3
<1>3. \A s \in Seq(VMField) : s \in S
  <2> HIDE DEF S
  <2> QED BY <1>1, <1>2, Growing
<1>4. QED
  BY <1>3

(* A table without static fields has no others.                            *)
LEMMA InstanceAll ==
    \A fields \in Seq(VMField) : (\A i \in 1..Len(fields) : ~fields[i].static) => Instance(fields) = fields
<1> DEFINE S == {s \in Seq(VMField) : (\A i \in 1..Len(s) : ~s[i].static) => Instance(s) = s}
<1>1. <<>> \in S
  <2>1. <<>> \in Seq(VMField) /\ Len(<<>>) = 0
    OBVIOUS
  <2>2. QED
    BY <2>1, InstanceEmpty
<1>2. ASSUME NEW s \in Seq(VMField), NEW e \in VMField, s \in S PROVE Append(s, e) \in S
  <2>1. PICK n, t : /\ n \in Nat /\ n = Len(s) /\ t = Append(s, e) /\ Len(t) = n + 1
                    /\ t \in Seq(VMField) /\ t[n + 1] = e /\ \A i \in 1..n : t[i] = s[i]
    <3>1. PICK n, t : Longer(VMField, s, e, n, t)
      BY Appended
    <3>2. QED
      BY <3>1 DEF Longer
  <2>2. ASSUME \A i \in 1..Len(t) : ~t[i].static PROVE Instance(t) = t
    <3>1. ~e.static /\ \A i \in 1..n : ~s[i].static
      <4>1. \A i \in 1..n + 1 : ~t[i].static
        BY <2>1, <2>2
      <4>2. n + 1 \in 1..n + 1 /\ 1..n \subseteq 1..n + 1
        BY <2>1
      <4>3. QED
        BY <2>1, <4>1, <4>2
    <3>2. Instance(s) = s
      BY <1>2, <2>1, <3>1
    <3>3. QED
      BY <2>1, <3>1, <3>2, InstanceAppend
  <2>3. QED
    BY <2>1, <2>2
<1>3. \A s \in Seq(VMField) : s \in S
  <2> HIDE DEF S
  <2> QED BY <1>1, <1>2, Growing
<1>4. QED
  BY <1>3

(* What a subclass takes over keeps all of its fields.                     *)
LEMMA InstanceTwice ==
    ASSUME NEW fields \in Seq(VMField)
    PROVE  Instance(Instance(fields)) = Instance(fields)
BY InstanceFields, InstanceAll

(* fields_slots.                                                            *)
LEMMA SlotsSteps ==
    ASSUME NEW fields \in Seq(VMField)
    PROVE  \E f : /\ f \in [0..Len(fields) -> Nat]
                  /\ f[0] = 0
                  /\ \A i \in 1..Len(fields) : f[i] = f[i - 1] + fields[i].width
                  /\ FieldsSlots(fields) = f[Len(fields)]
<1>0. PICK n, V, e : n \in Nat /\ n = Len(fields) /\ V = Nat /\ e = 0
  BY LenProperties
<1> n \in Nat
  BY <1>0
<1> DEFINE OneMore(i, s) == s + fields[i].width
           Down(g) == [i \in 0..n |-> IF i = 0 THEN e ELSE OneMore(i, g[i - 1])]
<1>1. ASSUME NEW i \in 1..n, NEW s \in V PROVE OneMore(i, s) \in V
  <2>1. fields[i] \in VMField
    BY <1>0, ElementOfSeq
  <2>2. QED
    BY SMTT(60), <1>0, <2>1 DEF VMField, Width
<1>2. FieldsSlots(fields) = (CHOOSE g : g = Down(g))[n]
  BY <1>0 DEF FieldsSlots
<1>3. e \in V
  BY <1>0
<1> HIDE DEF OneMore
<1>4. PICK step : step = [p \in (1..n) \X V |-> OneMore(p[1], p[2])]
  OBVIOUS
<1>5. step \in [(1..n) \X V -> V]
  BY <1>1, <1>4
<1>6. \A i \in 1..n, s \in V : step[<<i, s>>] = OneMore(i, s)
  BY <1>4
<1>7. PICK f : f \in [0..n -> V] /\ f[0] = e /\ \A i \in 1..n : f[i] = step[<<i, f[i - 1]>>]
  <2>1. \E f : BuiltIn(f, n, V, e, step)
    BY <1>3, <1>5, Recursion
  <2>2. QED
    BY <2>1 DEF BuiltIn
<1>8. \A i \in 1..n : f[i] = OneMore(i, f[i - 1])
  <2>1. \A i \in 1..n : f[i - 1] \in V
    BY <1>7
  <2>2. QED
    BY <1>6, <1>7, <2>1
<1>9. f = Down(f)
  BY <1>7, <1>8
<1>10. PICK g : g = CHOOSE h : h = Down(h)
  OBVIOUS
<1>11. g = Down(g)
  <2> HIDE DEF Down
  <2> QED BY <1>9, <1>10
<1>12. g[0] = e /\ \A i \in 1..n : g[i] = OneMore(i, g[i - 1])
  BY <1>11
<1>13. Alike(n, f, g)
  BY <1>7, <1>8, <1>12 DEF Alike
<1>14. \A i \in 0..n : f[i] = g[i]
  BY <1>13, SameSteps
<1>15. FieldsSlots(fields) = f[n]
  BY <1>2, <1>10, <1>14
<1>16. QED
  BY <1>0, <1>7, <1>8, <1>15 DEF OneMore

LEMMA SlotsAppend ==
    ASSUME NEW fields \in Seq(VMField), NEW e \in VMField
    PROVE  FieldsSlots(fields) \in Nat /\ FieldsSlots(Append(fields, e)) = FieldsSlots(fields) + e.width
<1>1. PICK n, more : /\ n \in Nat /\ n = Len(fields) /\ more = Append(fields, e) /\ Len(more) = n + 1
                     /\ more \in Seq(VMField) /\ more[n + 1] = e /\ \A i \in 1..n : more[i] = fields[i]
  <2>1. PICK n, more : Longer(VMField, fields, e, n, more)
    BY Appended
  <2>2. QED
    BY <2>1 DEF Longer
<1>2. PICK f : /\ f \in [0..n -> Nat] /\ f[0] = 0 /\ FieldsSlots(fields) = f[n]
               /\ \A i \in 1..n : f[i] = f[i - 1] + fields[i].width
  BY SMTT(60), <1>1, SlotsSteps
<1>3. PICK g : /\ g[0] = 0 /\ FieldsSlots(more) = g[Len(more)]
               /\ \A i \in 1..Len(more) : g[i] = g[i - 1] + more[i].width
  <2>1. more \in Seq(VMField)
    BY <1>1
  <2>2. QED
    BY <2>1, SlotsSteps
<1>4. Alike(n, f, g)
  BY <1>1, <1>2, <1>3 DEF Alike
<1>5. \A i \in 0..n : f[i] = g[i]
  BY <1>4, SameSteps
<1>6. f[n] = g[n] /\ n + 1 \in 1..n + 1 /\ n + 1 - 1 = n
  BY <1>1, <1>5
<1>7. g[n + 1] = g[n] + more[n + 1].width
  BY <1>1, <1>3, <1>6
<1>8. QED
  BY <1>1, <1>2, <1>3, <1>6, <1>7

LEMMA SlotsEmpty == FieldsSlots(<<>>) = 0
<1>1. <<>> \in Seq(VMField) /\ Len(<<>>) = 0
  OBVIOUS
<1>2. QED
  BY <1>1, SlotsSteps

-----------------------------------------------------------------------------
(* VMClass::create adds the methods and then the fields.                   *)

LEMMA AddMethodClass ==
    ASSUME NEW owner \in Nat, NEW class \in VMClass, NEW meth \in MethodInfo
    PROVE  AddMethod(owner, class, meth) \in VMClass
<1> DEFINE place == MethodAt(class.vtable, meth.name)
           entry(i) == [idx |-> i, name |-> meth.name, owner |-> owner]
<1>1. class.vtable \in Seq(VMMethod) /\ class.statics \in Seq(VMMethod)
  BY DEF VMClass
<1>2. place \in 0..Len(class.vtable) /\ Len(class.vtable) \in Nat /\ Len(class.statics) \in Nat
  BY <1>1, MethodPlace, LenProperties
<1>3. \A i \in Nat : entry(i) \in VMMethod
  BY DEF VMMethod, MethodInfo
<1> HIDE DEF entry, place
<1>4. Append(class.statics, entry(Len(class.statics))) \in Seq(VMMethod)
  BY <1>1, <1>2, <1>3, AppendProperties
<1>5. Append(class.vtable, entry(Len(class.vtable))) \in Seq(VMMethod)
  BY <1>1, <1>2, <1>3, AppendProperties
<1>6. place # 0 => [class.vtable EXCEPT ![place] = entry(place - 1)] \in Seq(VMMethod)
  BY <1>1, <1>2, <1>3
<1>7. AddMethod(owner, class, meth) =
        IF meth.static THEN [class EXCEPT !.statics = Append(@, entry(Len(@)))]
        ELSE IF place = 0 THEN [class EXCEPT !.vtable = Append(@, entry(Len(@)))]
        ELSE [class EXCEPT !.vtable[place] = entry(place - 1)]
  BY DEF AddMethod, place, entry
<1>8. QED
  BY <1>4, <1>5, <1>6, <1>7 DEF VMClass

LEMMA NextOffsetNat ==
    ASSUME NEW fields \in Seq(VMField)
    PROVE  NextOffset(fields) \in Nat
<1>1. PICK fs : fs = Instance(fields) /\ fs \in Seq(VMField)
  BY InstanceFields
<1>2. CASE fs = <<>>
  BY <1>1, <1>2 DEF NextOffset
<1>3. CASE fs # <<>>
  <2>1. Len(fs) \in 1..Len(fs)
    BY <1>1, <1>3, LenProperties, EmptySeq
  <2>2. fs[Len(fs)] \in VMField
    BY <1>1, <2>1, ElementOfSeq
  <2>3. Last(fs) = fs[Len(fs)]
    BY DEF Last
  <2>4. QED
    BY <1>1, <1>3, <2>2, <2>3 DEF NextOffset, VMField, Width
<1>4. QED
  BY <1>2, <1>3

AddsField(owner, class, f, i, e) ==
    /\ AddField(owner, class, f, i) = [class EXCEPT !.fields = Append(@, e)]
    /\ AddField(owner, class, f, i) \in VMClass
    /\ e.idx = i - 1 /\ e.name = f.name /\ e.owner = owner
    /\ ~e.static => e.off = NextOffset(class.fields)

LEMMA AddFieldClass ==
    ASSUME NEW owner \in Nat, NEW class \in VMClass, NEW f \in FieldInfo, NEW i \in Nat \ {0}
    PROVE  \E e \in VMField : AddsField(owner, class, f, i, e)
<1>1. class.fields \in Seq(VMField)
  BY DEF VMClass
<1>2. PICK off \in Nat : off = NextOffset(class.fields)
  BY <1>1, NextOffsetNat
<1>3. PICK e : e = [idx |-> i - 1, name |-> f.name, width |-> f.width, static |-> f.static,
                    off |-> IF f.static THEN 0 ELSE off, owner |-> owner]
  OBVIOUS
<1>4. e \in VMField
  BY <1>2, <1>3 DEF VMField, FieldInfo
<1>5. AddField(owner, class, f, i) = [class EXCEPT !.fields = Append(@, e)]
  BY <1>2, <1>3 DEF AddField
<1>6. Append(class.fields, e) \in Seq(VMField)
  BY <1>1, <1>4, AppendProperties
<1>7. [class EXCEPT !.fields = Append(@, e)] \in VMClass
  BY <1>6 DEF VMClass
<1>8. e.idx = i - 1 /\ e.name = f.name /\ e.owner = owner /\ (~e.static => e.off = off)
  BY <1>3
<1>9. QED
  BY <1>2, <1>4, <1>5, <1>7, <1>8 DEF AddsField

LEMMA InheritClass ==
    ASSUME NEW super \in VMClass
    PROVE  Inherit(super) \in VMClass
<1>1. Instance(super.fields) \in Seq(VMField)
  BY InstanceFields DEF VMClass
<1>2. <<>> \in Seq(VMMethod)
  OBVIOUS
<1>3. [super EXCEPT !.statics = <<>>, !.fields = Instance(super.fields)] \in VMClass
  BY <1>1, <1>2 DEF VMClass
<1>4. QED
  BY <1>3 DEF Inherit

(* The methods.                                                            *)
LEMMA MethodsSteps ==
    ASSUME NEW owner \in Nat, NEW super \in VMClass, NEW methods \in Seq(MethodInfo)
    PROVE  \E f : /\ f \in [0..Len(methods) -> VMClass]
                  /\ f[0] = Inherit(super)
                  /\ \A i \in 1..Len(methods) : f[i] = AddMethod(owner, f[i - 1], methods[i])
                  /\ WithMethods(owner, super, methods) = f[Len(methods)]
<1>0. PICK n, V, e : n \in Nat /\ n = Len(methods) /\ V = VMClass /\ e = Inherit(super)
  BY LenProperties
<1> n \in Nat
  BY <1>0
<1> DEFINE OneMore(i, s) == AddMethod(owner, s, methods[i])
           Down(g) == [i \in 0..n |-> IF i = 0 THEN e ELSE OneMore(i, g[i - 1])]
<1>1. ASSUME NEW i \in 1..n, NEW s \in V PROVE OneMore(i, s) \in V
  <2>1. methods[i] \in MethodInfo
    BY <1>0, ElementOfSeq
  <2>2. i \in Nat \ {0}
    BY <1>0
  <2>3. QED
    BY <1>0, <2>1, <2>2, AddMethodClass
<1>2. WithMethods(owner, super, methods) = (CHOOSE g : g = Down(g))[n]
  BY <1>0 DEF WithMethods
<1>3. e \in V
  BY <1>0, InheritClass
<1> HIDE DEF OneMore
<1>4. PICK step : step = [p \in (1..n) \X V |-> OneMore(p[1], p[2])]
  OBVIOUS
<1>5. step \in [(1..n) \X V -> V]
  BY <1>1, <1>4
<1>6. \A i \in 1..n, s \in V : step[<<i, s>>] = OneMore(i, s)
  BY <1>4
<1>7. PICK f : f \in [0..n -> V] /\ f[0] = e /\ \A i \in 1..n : f[i] = step[<<i, f[i - 1]>>]
  <2>1. \E f : BuiltIn(f, n, V, e, step)
    BY <1>3, <1>5, Recursion
  <2>2. QED
    BY <2>1 DEF BuiltIn
<1>8. \A i \in 1..n : f[i] = OneMore(i, f[i - 1])
  <2>1. \A i \in 1..n : f[i - 1] \in V
    BY <1>7
  <2>2. QED
    BY <1>6, <1>7, <2>1
<1>9. f = Down(f)
  BY <1>7, <1>8
<1>10. PICK g : g = CHOOSE h : h = Down(h)
  OBVIOUS
<1>11. g = Down(g)
  <2> HIDE DEF Down
  <2> QED BY <1>9, <1>10
<1>12. g[0] = e /\ \A i \in 1..n : g[i] = OneMore(i, g[i - 1])
  BY <1>11
<1>13. Alike(n, f, g)
  BY <1>7, <1>8, <1>12 DEF Alike
<1>14. \A i \in 0..n : f[i] = g[i]
  BY <1>13, SameSteps
<1>15. WithMethods(owner, super, methods) = f[n]
  BY <1>2, <1>10, <1>14
<1>16. QED
  BY <1>0, <1>7, <1>8, <1>15 DEF OneMore

(* The fields.                                                             *)
LEMMA FieldsSteps ==
    ASSUME NEW owner \in Nat, NEW start \in VMClass, NEW fields \in Seq(FieldInfo)
    PROVE  \E f : /\ f \in [0..Len(fields) -> VMClass]
                  /\ f[0] = start
                  /\ \A i \in 1..Len(fields) : f[i] = AddField(owner, f[i - 1], fields[i], i)
                  /\ WithFields(owner, start, fields) = f[Len(fields)]
<1>0. PICK n, V, e : n \in Nat /\ n = Len(fields) /\ V = VMClass /\ e = start
  BY LenProperties
<1> n \in Nat
  BY <1>0
<1> DEFINE OneMore(i, s) == AddField(owner, s, fields[i], i)
           Down(g) == [i \in 0..n |-> IF i = 0 THEN e ELSE OneMore(i, g[i - 1])]
<1>1. ASSUME NEW i \in 1..n, NEW s \in V PROVE OneMore(i, s) \in V
  <2>1. fields[i] \in FieldInfo
    BY <1>0, ElementOfSeq
  <2>2. i \in Nat \ {0}
    BY <1>0
  <2>3. QED
    BY <1>0, <2>1, <2>2, AddFieldClass DEF AddsField
<1>2. WithFields(owner, start, fields) = (CHOOSE g : g = Down(g))[n]
  BY <1>0 DEF WithFields
<1>3. e \in V
  BY <1>0
<1> HIDE DEF OneMore
<1>4. PICK step : step = [p \in (1..n) \X V |-> OneMore(p[1], p[2])]
  OBVIOUS
<1>5. step \in [(1..n) \X V -> V]
  BY <1>1, <1>4
<1>6. \A i \in 1..n, s \in V : step[<<i, s>>] = OneMore(i, s)
  BY <1>4
<1>7. PICK f : f \in [0..n -> V] /\ f[0] = e /\ \A i \in 1..n : f[i] = step[<<i, f[i - 1]>>]
  <2>1. \E f : BuiltIn(f, n, V, e, step)
    BY <1>3, <1>5, Recursion
  <2>2. QED
    BY <2>1 DEF BuiltIn
<1>8. \A i \in 1..n : f[i] = OneMore(i, f[i - 1])
  <2>1. \A i \in 1..n : f[i - 1] \in V
    BY <1>7
  <2>2. QED
    BY <1>6, <1>7, <2>1
<1>9. f = Down(f)
  BY <1>7, <1>8
<1>10. PICK g : g = CHOOSE h : h = Down(h)
  OBVIOUS
<1>11. g = Down(g)
  <2> HIDE DEF Down
  <2> QED BY <1>9, <1>10
<1>12. g[0] = e /\ \A i \in 1..n : g[i] = OneMore(i, g[i - 1])
  BY <1>11
<1>13. Alike(n, f, g)
  BY <1>7, <1>8, <1>12 DEF Alike
<1>14. \A i \in 0..n : f[i] = g[i]
  BY <1>13, SameSteps
<1>15. WithFields(owner, start, fields) = f[n]
  BY <1>2, <1>10, <1>14
<1>16. QED
  BY <1>0, <1>7, <1>8, <1>15 DEF OneMore

(* What the first i methods of the file have done to the superclass's table. *)
MethodsAdded(owner, super, methods, i, class) ==
    /\ class \in VMClass
    /\ class.fields = Instance(super.fields)
    /\ Placed(class)
    /\ \A name : name \in Names(class.vtable) <=>
          name \in Names(super.vtable) \/ \E j \in 1..i : methods[j].name = name /\ ~methods[j].static
    /\ \A name : name \in Names(class.statics) <=>
          \E j \in 1..i : methods[j].name = name /\ methods[j].static
    /\ \A p \in DOMAIN class.statics : class.statics[p].owner = owner
    /\ \A p \in DOMAIN class.vtable :
          \/ class.vtable[p].owner = owner
          \/ \E q \in DOMAIN super.vtable :
                super.vtable[q].name = class.vtable[p].name /\ super.vtable[q].owner = class.vtable[p].owner

LEMMA NoMethodsAdded ==
    ASSUME NEW owner \in Nat, NEW super \in VMClass, NEW methods \in Seq(MethodInfo), Placed(super)
    PROVE  MethodsAdded(owner, super, methods, 0, Inherit(super))
<1>1. PICK class : class = Inherit(super)
  OBVIOUS
<1>2. class \in VMClass
  BY <1>1, InheritClass
<1>3. class.vtable = super.vtable /\ class.statics = <<>> /\ class.fields = Instance(super.fields)
  BY <1>1 DEF Inherit, VMClass
<1>4. DOMAIN class.statics = {}
  BY <1>3
<1>5. Placed(class)
  BY <1>3, <1>4 DEF Placed
<1>6. Names(class.vtable) = Names(super.vtable) /\ Names(class.statics) = {}
  BY <1>3, <1>4 DEF Names
<1>7. QED
  BY <1>1, <1>2, <1>3, <1>4, <1>5, <1>6 DEF MethodsAdded

LEMMA MethodAdded ==
    ASSUME NEW owner \in Nat, NEW super \in VMClass, NEW methods \in Seq(MethodInfo),
           NEW i \in 1..Len(methods), NEW class, MethodsAdded(owner, super, methods, i - 1, class)
    PROVE  MethodsAdded(owner, super, methods, i, AddMethod(owner, class, methods[i]))
<1>0. PICK meth \in MethodInfo : meth = methods[i]
  BY ElementOfSeq
<1>1. PICK place : place = MethodAt(class.vtable, meth.name)
  OBVIOUS
<1>2. PICK new : new = AddMethod(owner, class, meth)
  OBVIOUS
<1> DEFINE entry(k) == [idx |-> k, name |-> meth.name, owner |-> owner]
<1>3. class \in VMClass /\ class.vtable \in Seq(VMMethod) /\ class.statics \in Seq(VMMethod)
  BY DEF MethodsAdded, VMClass
<1>4. new \in VMClass
  BY <1>2, <1>3, AddMethodClass
<1>5. new = IF meth.static THEN [class EXCEPT !.statics = Append(@, entry(Len(@)))]
            ELSE IF place = 0 THEN [class EXCEPT !.vtable = Append(@, entry(Len(@)))]
            ELSE [class EXCEPT !.vtable[place] = entry(place - 1)]
  BY <1>1, <1>2 DEF AddMethod
<1>6. i \in Nat /\ i \in 1..i /\ \A j \in 1..i : j \in 1..i - 1 \/ j = i
  BY LenProperties
<1>6a. 1..i - 1 \subseteq 1..i
  BY <1>6
<1>7. \A k \in Nat : entry(k) \in VMMethod
  BY DEF VMMethod, MethodInfo
<1>8. \A k : entry(k).idx = k /\ entry(k).name = meth.name /\ entry(k).owner = owner
  OBVIOUS
<1> HIDE DEF entry
<1>9. CASE meth.static
  <2>1. PICK n, t : Longer(VMMethod, class.statics, entry(Len(class.statics)), n, t)
    BY <1>3, <1>7, Appended, LenProperties
  <2>2. new.vtable = class.vtable /\ new.fields = class.fields /\ new.statics = t
    BY <1>3, <1>5, <1>9, <2>1 DEF Longer, VMClass
  <2>3. /\ n \in Nat /\ DOMAIN class.statics = 1..n /\ DOMAIN t = 1..n + 1
        /\ t[n + 1] = entry(n) /\ \A p \in 1..n : t[p] = class.statics[p]
    BY <2>1 DEF Longer
  <2>4. Placed(new)
    <3>1. \A p \in 1..n + 1 : t[p].idx = p - 1
      <4>1. \A p \in 1..n : t[p].idx = p - 1
        BY <2>3 DEF MethodsAdded, Placed
      <4>2. t[n + 1].idx = n + 1 - 1
        BY <1>8, <2>3
      <4>3. SUFFICES ASSUME NEW p \in 1..n + 1 PROVE t[p].idx = p - 1
        OBVIOUS
      <4>4. CASE p \in 1..n
        BY <4>1, <4>4
      <4>5. CASE p = n + 1
        BY <2>3, <4>2, <4>5
      <4>6. QED
        BY <2>3, <4>4, <4>5
    <3>2. QED
      BY <2>2, <2>3, <3>1 DEF MethodsAdded, Placed
  <2>5. \A name : name \in Names(new.statics) <=> name \in Names(class.statics) \/ name = meth.name
    <3>1. n + 1 \in 1..n + 1 /\ 1..n \subseteq 1..n + 1 /\ \A p \in 1..n + 1 : p \in 1..n \/ p = n + 1
      BY <2>3
    <3>2. Names(t) = {t[p].name : p \in 1..n + 1} /\ Names(class.statics) = {class.statics[p].name : p \in 1..n}
      BY <2>3 DEF Names
    <3>3. t[n + 1].name = meth.name
      BY <1>8, <2>3
    <3>4. QED
      BY <2>2, <2>3, <3>1, <3>2, <3>3
  <2>6. \A name : name \in Names(new.statics) <=> \E j \in 1..i : methods[j].name = name /\ methods[j].static
    BY <1>0, <1>6, <1>6a, <1>9, <2>5 DEF MethodsAdded
  <2>7. \A name : name \in Names(new.vtable) <=>
          name \in Names(super.vtable) \/ \E j \in 1..i : methods[j].name = name /\ ~methods[j].static
    BY <1>0, <1>6, <1>6a, <1>9, <2>2 DEF MethodsAdded
  <2>8. \A p \in DOMAIN new.statics : new.statics[p].owner = owner
    <3>1. \A p \in 1..n : t[p].owner = owner
      BY <2>3 DEF MethodsAdded
    <3>2. t[n + 1].owner = owner
      BY <1>8, <2>3
    <3>3. QED
      BY <2>2, <2>3, <3>1, <3>2
  <2>9. new.fields = Instance(super.fields)
    BY <2>2 DEF MethodsAdded
  <2>10. QED
    BY <1>0, <1>2, <1>4, <2>2, <2>4, <2>6, <2>7, <2>8, <2>9 DEF MethodsAdded
<1>10. CASE ~meth.static
  <2>0. place \in 0..Len(class.vtable) /\ Len(class.vtable) \in Nat /\ DOMAIN class.vtable = 1..Len(class.vtable)
    BY <1>1, <1>3, MethodPlace, LenProperties
  <2>1. PICK at : at = (IF place = 0 THEN Len(class.vtable) + 1 ELSE place)
    OBVIOUS
  <2>2. /\ at \in DOMAIN new.vtable /\ new.vtable[at] = entry(at - 1) /\ at \in Nat
        /\ DOMAIN new.vtable = DOMAIN class.vtable \cup {at}
        /\ \A p \in DOMAIN class.vtable : p # at => new.vtable[p] = class.vtable[p]
    <3>1. CASE place = 0
      <4>1. PICK n, t : Longer(VMMethod, class.vtable, entry(Len(class.vtable)), n, t)
        BY <1>3, <1>7, Appended, LenProperties
      <4>2. new.vtable = t
        BY <1>3, <1>5, <1>10, <3>1, <4>1 DEF Longer, VMClass
      <4>3. QED
        BY <2>1, <3>1, <4>1, <4>2 DEF Longer
    <3>2. CASE place # 0
      <4>1. new.vtable = [class.vtable EXCEPT ![place] = entry(place - 1)]
        BY <1>3, <1>5, <1>10, <3>2 DEF VMClass
      <4>2. QED
        BY <1>3, <2>0, <2>1, <3>2, <4>1
    <3>3. QED
      BY <3>1, <3>2
  <2>3. new.statics = class.statics /\ new.fields = class.fields
    BY <1>3, <1>5, <1>10 DEF VMClass
  <2>4. new.vtable[at].idx = at - 1 /\ new.vtable[at].name = meth.name /\ new.vtable[at].owner = owner
    BY <1>8, <2>2
  <2>5. \A p \in DOMAIN class.vtable : class.vtable[p].name = meth.name => p = at
    <3>1. SUFFICES ASSUME NEW p \in DOMAIN class.vtable, class.vtable[p].name = meth.name PROVE p = at
      OBVIOUS
    <3>2. meth.name \in Names(class.vtable)
      BY <3>1 DEF Names
    <3>3. place # 0 /\ class.vtable[place].name = meth.name
      BY <1>1, <1>3, <3>2, MethodPlace
    <3>4. QED
      BY <2>0, <2>1, <3>1, <3>3 DEF MethodsAdded, Placed
  <2>6. Placed(new)
    BY <2>2, <2>3, <2>4, <2>5 DEF MethodsAdded, Placed
  <2>7. \A name : name \in Names(new.vtable) <=> name \in Names(class.vtable) \/ name = meth.name
    <3>1. place # 0 => class.vtable[at].name = meth.name
      BY <1>1, <1>3, <2>1, MethodPlace
    <3>2. at \in DOMAIN class.vtable => place # 0
      BY <2>0, <2>1
    <3>3. Names(new.vtable) = {new.vtable[p].name : p \in DOMAIN new.vtable}
      BY DEF Names
    <3>4. Names(class.vtable) = {class.vtable[p].name : p \in DOMAIN class.vtable}
      BY DEF Names
    <3>5. ASSUME NEW name PROVE name \in Names(new.vtable) => name \in Names(class.vtable) \/ name = meth.name
      BY <2>2, <2>4, <3>3, <3>4
    <3>6. ASSUME NEW name PROVE name \in Names(class.vtable) \/ name = meth.name => name \in Names(new.vtable)
      <4>1. ASSUME NEW p \in DOMAIN class.vtable PROVE class.vtable[p].name \in Names(new.vtable)
        BY <2>2, <2>4, <3>1, <3>2, <3>3
      <4>2. meth.name \in Names(new.vtable)
        BY <2>2, <2>4, <3>3
      <4>3. QED
        BY <3>4, <4>1, <4>2
    <3>7. QED
      BY <3>5, <3>6
  <2>8. \A name : name \in Names(new.vtable) <=>
          name \in Names(super.vtable) \/ \E j \in 1..i : methods[j].name = name /\ ~methods[j].static
    BY <1>0, <1>6, <1>6a, <1>10, <2>7 DEF MethodsAdded
  <2>9. \A name : name \in Names(new.statics) <=> \E j \in 1..i : methods[j].name = name /\ methods[j].static
    BY <1>0, <1>6, <1>6a, <1>10, <2>3 DEF MethodsAdded
  <2>10. ASSUME NEW p \in DOMAIN new.vtable
         PROVE  \/ new.vtable[p].owner = owner
                \/ \E q \in DOMAIN super.vtable :
                      super.vtable[q].name = new.vtable[p].name /\ super.vtable[q].owner = new.vtable[p].owner
    <3>1. CASE p = at
      BY <2>4, <3>1
    <3>2. CASE p # at
      BY <2>2, <3>2 DEF MethodsAdded
    <3>3. QED
      BY <3>1, <3>2
  <2>11. new.fields = Instance(super.fields) /\ \A p \in DOMAIN new.statics : new.statics[p].owner = owner
    BY <2>3 DEF MethodsAdded
  <2>12. QED
    BY <1>0, <1>2, <1>4, <2>6, <2>8, <2>9, <2>10, <2>11 DEF MethodsAdded
<1>11. QED
  BY <1>9, <1>10

LEMMA AllMethodsAdded ==
    ASSUME NEW owner \in Nat, NEW super \in VMClass, NEW methods \in Seq(MethodInfo), Placed(super)
    PROVE  MethodsAdded(owner, super, methods, Len(methods), WithMethods(owner, super, methods))
<1>1. PICK n : n = Len(methods) /\ n \in Nat
  BY LenProperties
<1>2. PICK f : /\ f[0] = Inherit(super)
               /\ \A i \in 1..n : f[i] = AddMethod(owner, f[i - 1], methods[i])
               /\ WithMethods(owner, super, methods) = f[n]
  <2>1. PICK f : /\ f \in [0..Len(methods) -> VMClass]
                 /\ f[0] = Inherit(super)
                 /\ \A i \in 1..Len(methods) : f[i] = AddMethod(owner, f[i - 1], methods[i])
                 /\ WithMethods(owner, super, methods) = f[Len(methods)]
    BY MethodsSteps
  <2>2. QED
    BY <1>1, <2>1
<1> DEFINE S == {i \in 0..n : MethodsAdded(owner, super, methods, i, f[i])}
<1>3. 0 \in S
  BY <1>1, <1>2, NoMethodsAdded
<1>4. ASSUME NEW i \in 1..n, i - 1 \in S PROVE i \in S
  <2>1. MethodsAdded(owner, super, methods, i - 1, f[i - 1])
    BY <1>4
  <2>2. i \in 1..Len(methods) /\ i \in 0..n
    BY <1>1
  <2>3. MethodsAdded(owner, super, methods, i, AddMethod(owner, f[i - 1], methods[i]))
    BY <2>1, <2>2, MethodAdded
  <2>4. QED
    BY <1>2, <2>2, <2>3
<1>5. \A i \in 0..n : i \in S
  <2> HIDE DEF S
  <2> QED BY <1>1, <1>3, <1>4, Induction
<1>6. QED
  BY <1>1, <1>2, <1>5

-----------------------------------------------------------------------------
(* Fields stay packed.                                                     *)

LEMMA PackedEmpty == Packed(<<>>)
<1>1. Instance(<<>>) = <<>> /\ DOMAIN <<>> = {} /\ FieldsSlots(<<>>) = 0
  BY InstanceEmpty, SlotsEmpty
<1>2. NextOffset(<<>>) = 0
  BY <1>1 DEF NextOffset
<1>3. QED
  BY <1>1, <1>2 DEF Packed

LEMMA NextOffsetAppend ==
    ASSUME NEW fields \in Seq(VMField), NEW e \in VMField
    PROVE  NextOffset(Append(fields, e)) = IF e.static THEN NextOffset(fields) ELSE e.off + e.width
<1>1. PICK fs : fs = Instance(fields) /\ fs \in Seq(VMField)
  BY InstanceFields
<1>2. CASE e.static
  BY <1>2, InstanceAppend DEF NextOffset
<1>3. CASE ~e.static
  <2>1. PICK n, t : Longer(VMField, fs, e, n, t)
    BY <1>1, Appended
  <2>2. t # <<>> /\ Last(t) = e
    BY <2>1 DEF Longer, Last
  <2>3. Instance(Append(fields, e)) = t
    BY <1>1, <1>3, <2>1, InstanceAppend DEF Longer
  <2>4. QED
    BY <1>3, <2>2, <2>3 DEF NextOffset
<1>4. QED
  BY <1>2, <1>3

LEMMA PackedAppend ==
    ASSUME NEW fields \in Seq(VMField), NEW e \in VMField, Packed(fields),
           ~e.static => e.off = NextOffset(fields)
    PROVE  Packed(Append(fields, e))
<1>1. PICK more : more = Append(fields, e) /\ more \in Seq(VMField)
  BY AppendProperties
<1>2. PICK fs : fs = Instance(fields) /\ fs \in Seq(VMField)
  BY InstanceFields
<1>3. PICK end : end = NextOffset(fields) /\ end \in Nat
  BY NextOffsetNat
<1>4. e.width \in Nat /\ e.off \in Nat
  BY DEF VMField, Width
<1>5. PICK all, own : /\ all \in Nat /\ own \in Nat /\ all = FieldsSlots(fields) /\ own = FieldsSlots(fs)
                      /\ FieldsSlots(more) = all + e.width /\ FieldsSlots(Append(fs, e)) = own + e.width
  BY <1>1, <1>2, SlotsAppend
<1>6. end <= all /\ end <= own
  BY <1>2, <1>3, <1>5 DEF Packed
<1>7. CASE e.static
  <2>1. Instance(more) = fs /\ NextOffset(more) = end
    BY <1>1, <1>2, <1>3, <1>7, InstanceAppend, NextOffsetAppend
  <2>2. end <= all + e.width
    BY <1>3, <1>4, <1>5, <1>6
  <2>3. Packed(more)
    BY <1>2, <1>3, <1>5, <1>6, <2>1, <2>2 DEF Packed
  <2>4. QED
    BY <1>1, <2>3
<1>8. CASE ~e.static
  <2>1. PICK n, t : Longer(VMField, fs, e, n, t)
    BY <1>2, Appended
  <2>2. Instance(more) = t /\ NextOffset(more) = end + e.width /\ e.off = end
    BY <1>1, <1>2, <1>3, <1>8, <2>1, InstanceAppend, NextOffsetAppend DEF Longer
  <2>3. /\ n \in Nat /\ DOMAIN fs = 1..n /\ DOMAIN t = 1..n + 1
        /\ t[n + 1] = e /\ \A k \in 1..n : t[k] = fs[k]
    BY <2>1 DEF Longer
  <2>4. \A k \in 1..n : fs[k].off \in Nat /\ fs[k].width \in Nat
    <3>1. \A k \in 1..n : fs[k] \in VMField
      BY <1>2, <2>1, ElementOfSeq DEF Longer
    <3>2. SUFFICES ASSUME NEW k \in 1..n PROVE fs[k].off \in Nat /\ fs[k].width \in Nat
      OBVIOUS
    <3>3. PICK g \in VMField : g = fs[k]
      BY <3>1
    <3>4. QED
      BY <3>3 DEF VMField, Width
  <2>5. \A k \in 1..n : fs[k].off + fs[k].width <= end
    BY <1>2, <1>3, <2>3 DEF Packed
  <2>6. \A k, l \in 1..n : k < l => fs[k].off + fs[k].width <= fs[l].off
    BY <1>2, <2>3 DEF Packed
  <2>7. \A k \in 1..n + 1 : k \in 1..n \/ k = n + 1
    BY <2>3
  <2>8. \A k \in 1..n + 1 : t[k].off + t[k].width <= end + e.width
    <3>1. \A k \in 1..n : t[k].off + t[k].width <= end + e.width
      <4>1. SUFFICES ASSUME NEW k \in 1..n PROVE fs[k].off + fs[k].width <= end + e.width
        BY <2>3
      <4>2. QED
        BY SMTT(60), <1>3, <1>4, <2>4, <2>5
    <3>2. t[n + 1].off + t[n + 1].width <= end + e.width
      BY <1>3, <1>4, <2>2, <2>3
    <3>3. QED
      BY <2>7, <3>1, <3>2
  <2>9. ASSUME NEW k \in 1..n + 1, NEW l \in 1..n + 1, k < l PROVE t[k].off + t[k].width <= t[l].off
    <3>1. k \in 1..n
      BY <2>3, <2>9
    <3>2. CASE l = n + 1
      BY <2>2, <2>3, <2>5, <3>1, <3>2
    <3>3. CASE l \in 1..n
      BY <2>3, <2>6, <2>9, <3>1, <3>3
    <3>4. QED
      BY <2>7, <3>2, <3>3
  <2>10. t = Append(fs, e)
    BY <2>1 DEF Longer
  <2>11. end + e.width <= all + e.width /\ end + e.width <= own + e.width
    BY <1>3, <1>4, <1>5, <1>6
  <2>12. Packed(more)
    BY <1>5, <2>2, <2>3, <2>8, <2>9, <2>10, <2>11 DEF Packed
  <2>13. QED
    BY <1>1, <2>12
<1>9. QED
  BY <1>7, <1>8

(* The instance fields that a subclass takes over are packed themselves.   *)
LEMMA PackedInherited ==
    ASSUME NEW fields \in Seq(VMField), Packed(fields)
    PROVE  Packed(Instance(fields))
<1>1. Instance(Instance(fields)) = Instance(fields)
  BY InstanceTwice
<1>2. NextOffset(Instance(fields)) = NextOffset(fields)
  BY <1>1 DEF NextOffset
<1>3. QED
  BY <1>1, <1>2 DEF Packed

LEMMA InstanceKept ==
    ASSUME NEW fields \in Seq(VMField), NEW e \in VMField
    PROVE  ToSet(Instance(fields)) \subseteq ToSet(Instance(Append(fields, e)))
<1>1. PICK fs : fs = Instance(fields) /\ fs \in Seq(VMField)
  BY InstanceFields
<1>2. PICK n, t : Longer(VMField, fs, e, n, t)
  BY <1>1, Appended
<1>3. Instance(Append(fields, e)) \in {fs, t}
  BY <1>1, <1>2, InstanceAppend DEF Longer
<1>4. ToSet(fs) \subseteq ToSet(t)
  BY <1>2 DEF Longer, ToSet
<1>5. QED
  BY <1>1, <1>3, <1>4

(* What the first i fields of the file have done to the table.             *)
FieldsAdded(owner, start, files, i, class) ==
    /\ class \in VMClass
    /\ class.vtable = start.vtable /\ class.statics = start.statics
    /\ Len(class.fields) = Len(start.fields) + i
    /\ \A j \in 1..i :
          LET f == class.fields[Len(start.fields) + j] IN
          f.idx = j - 1 /\ f.owner = owner /\ f.name = files[j].name
    /\ Packed(class.fields)
    /\ ToSet(Instance(start.fields)) \subseteq ToSet(Instance(class.fields))

LEMMA FieldAdded ==
    ASSUME NEW owner \in Nat, NEW start \in VMClass, NEW files \in Seq(FieldInfo),
           NEW i \in 1..Len(files), NEW class, FieldsAdded(owner, start, files, i - 1, class)
    PROVE  FieldsAdded(owner, start, files, i, AddField(owner, class, files[i], i))
<1>1. PICK f \in FieldInfo : f = files[i]
  BY ElementOfSeq
<1>2. i \in Nat \ {0} /\ \A j \in 1..i : j \in 1..i - 1 \/ j = i
  BY LenProperties
<1>3. class \in VMClass /\ class.fields \in Seq(VMField)
  BY DEF FieldsAdded, VMClass
<1>4. PICK e \in VMField : /\ AddField(owner, class, f, i) = [class EXCEPT !.fields = Append(@, e)]
                           /\ AddField(owner, class, f, i) \in VMClass
                           /\ e.idx = i - 1 /\ e.name = f.name /\ e.owner = owner
                           /\ ~e.static => e.off = NextOffset(class.fields)
  <2>1. PICK e \in VMField : AddsField(owner, class, f, i, e)
    BY <1>2, <1>3, AddFieldClass
  <2>2. QED
    BY <2>1 DEF AddsField
<1>5. PICK new : new = AddField(owner, class, f, i)
  OBVIOUS
<1>6. PICK n, t : Longer(VMField, class.fields, e, n, t)
  BY <1>3, Appended
<1>7. new \in VMClass /\ new.vtable = class.vtable /\ new.statics = class.statics /\ new.fields = t
  BY <1>3, <1>4, <1>5, <1>6 DEF Longer, VMClass
<1>8. PICK k : k = Len(start.fields) /\ k \in Nat
  BY LenProperties DEF VMClass
<1>9. n = k + (i - 1) /\ Len(t) = k + i
  BY <1>2, <1>6, <1>8 DEF Longer, FieldsAdded
<1>10. ASSUME NEW j \in 1..i PROVE t[k + j].idx = j - 1 /\ t[k + j].owner = owner /\ t[k + j].name = files[j].name
  <2>1. CASE j = i
    <3>1. t[k + j] = e
      BY <1>2, <1>6, <1>8, <1>9, <2>1 DEF Longer
    <3>2. QED
      BY <1>1, <1>4, <2>1, <3>1
  <2>2. CASE j \in 1..i - 1
    <3>1. k + j \in 1..n
      BY <1>2, <1>8, <1>9, <2>2
    <3>2. t[k + j] = class.fields[k + j]
      BY <1>6, <3>1 DEF Longer
    <3>3. QED
      BY <1>8, <2>2, <3>2 DEF FieldsAdded
  <2>3. QED
    BY <1>2, <2>1, <2>2
<1>11. Packed(t)
  <2>1. Packed(class.fields) /\ t = Append(class.fields, e)
    BY <1>6 DEF FieldsAdded, Longer
  <2>2. QED
    BY <1>3, <1>4, <2>1, PackedAppend
<1>12. ToSet(Instance(class.fields)) \subseteq ToSet(Instance(t))
  <2>1. t = Append(class.fields, e)
    BY <1>6 DEF Longer
  <2>2. QED
    BY <1>3, <2>1, InstanceKept
<1>13. FieldsAdded(owner, start, files, i, new)
  BY <1>7, <1>8, <1>9, <1>10, <1>11, <1>12 DEF FieldsAdded
<1>14. QED
  BY <1>1, <1>5, <1>13

LEMMA AllFieldsAdded ==
    ASSUME NEW owner \in Nat, NEW start \in VMClass, NEW files \in Seq(FieldInfo), Packed(start.fields)
    PROVE  FieldsAdded(owner, start, files, Len(files), WithFields(owner, start, files))
<1>1. PICK n : n = Len(files) /\ n \in Nat
  BY LenProperties
<1>2. PICK f : /\ f[0] = start
               /\ \A i \in 1..n : f[i] = AddField(owner, f[i - 1], files[i], i)
               /\ WithFields(owner, start, files) = f[n]
  <2>1. PICK f : /\ f \in [0..Len(files) -> VMClass]
                 /\ f[0] = start
                 /\ \A i \in 1..Len(files) : f[i] = AddField(owner, f[i - 1], files[i], i)
                 /\ WithFields(owner, start, files) = f[Len(files)]
    BY FieldsSteps
  <2>2. QED
    BY <1>1, <2>1
<1> DEFINE S == {i \in 0..n : FieldsAdded(owner, start, files, i, f[i])}
<1>3. 0 \in S
  <2>1. Len(start.fields) \in Nat
    BY LenProperties DEF VMClass
  <2>2. FieldsAdded(owner, start, files, 0, start)
    BY <2>1 DEF FieldsAdded
  <2>3. QED
    BY <1>1, <1>2, <2>2
<1>4. ASSUME NEW i \in 1..n, i - 1 \in S PROVE i \in S
  <2>1. FieldsAdded(owner, start, files, i - 1, f[i - 1])
    BY <1>4
  <2>2. i \in 1..Len(files) /\ i \in 0..n
    BY <1>1
  <2>3. FieldsAdded(owner, start, files, i, AddField(owner, f[i - 1], files[i], i))
    BY <2>1, <2>2, FieldAdded
  <2>4. QED
    BY <1>2, <2>2, <2>3
<1>5. \A i \in 0..n : i \in S
  <2> HIDE DEF S
  <2> QED BY <1>1, <1>3, <1>4, Induction
<1>6. QED
  BY <1>1, <1>2, <1>5

-----------------------------------------------------------------------------
(* Resolution.                                                             *)

(* A class has a method by name if one of its tables has it; the vtable    *)
(* comes first.                                                            *)
LEMMA ByName ==
    ASSUME NEW class \in VMClass, Placed(class), NEW name
    PROVE  /\ MethodByName(class, name) = Nothing <=>
                 name \notin Names(class.vtable) /\ name \notin Names(class.statics)
           /\ name \in Names(class.vtable) =>
                 /\ MethodByName(class, name).kind = "vtable"
                 /\ \E i \in DOMAIN class.vtable :
                       /\ MethodByName(class, name).idx = i - 1
                       /\ MethodById(class, MethodByName(class, name)) = class.vtable[i]
                       /\ class.vtable[i].name = name
           /\ name \notin Names(class.vtable) /\ name \in Names(class.statics) =>
                 /\ MethodByName(class, name).kind = "static"
                 /\ \E i \in DOMAIN class.statics :
                       /\ MethodByName(class, name).idx = i - 1
                       /\ MethodById(class, MethodByName(class, name)) = class.statics[i]
                       /\ class.statics[i].name = name
<1>1. PICK vtable, statics, all : /\ vtable = class.vtable /\ statics = class.statics /\ all = vtable \o statics
                                  /\ vtable \in Seq(VMMethod) /\ statics \in Seq(VMMethod)
  BY DEF VMClass
<1>2. PICK n, k : /\ n \in Nat /\ n = Len(vtable) /\ DOMAIN vtable = 1..n
                  /\ k \in Nat /\ k = Len(statics) /\ DOMAIN statics = 1..k
  BY <1>1, LenProperties
<1>3. /\ all \in Seq(VMMethod) /\ Len(all) = n + k /\ DOMAIN all = 1..n + k
      /\ \A i \in 1..n + k : all[i] = IF i <= n THEN vtable[i] ELSE statics[i - n]
  <2>1. /\ vtable \o statics \in Seq(VMMethod) /\ Len(vtable \o statics) = Len(vtable) + Len(statics)
        /\ \A i \in 1..Len(vtable) + Len(statics) :
              (vtable \o statics)[i] = IF i <= Len(vtable) THEN vtable[i] ELSE statics[i - Len(vtable)]
    <3>1. vtable \in Seq(VMMethod) /\ statics \in Seq(VMMethod)
      BY <1>1
    <3>2. QED
      BY SMTT(60), <3>1, ConcatProperties
  <2>2. /\ all \in Seq(VMMethod) /\ Len(all) = n + k
        /\ \A i \in 1..n + k : all[i] = IF i <= n THEN vtable[i] ELSE statics[i - n]
    BY <1>1, <1>2, <2>1
  <2>3. QED
    BY <2>2, LenProperties
<1>4. PICK place : place = MethodAt(all, name)
  OBVIOUS
<1>5. /\ place \in 0..n + k
      /\ place = 0 <=> name \notin Names(all)
      /\ place # 0 => all[place].name = name
  BY <1>3, <1>4, MethodPlace
<1>6. name \in Names(all) <=> name \in Names(vtable) \/ name \in Names(statics)
  <2>1. ASSUME name \in Names(all) PROVE name \in Names(vtable) \/ name \in Names(statics)
    <3>1. PICK i \in 1..n + k : all[i].name = name
      BY <1>3, <2>1 DEF Names
    <3>2. CASE i <= n
      BY <1>2, <1>3, <3>1, <3>2 DEF Names
    <3>3. CASE ~(i <= n)
      <4>1. i - n \in 1..k /\ all[i] = statics[i - n]
        BY <1>2, <1>3, <3>3
      <4>2. QED
        BY <1>2, <3>1, <4>1 DEF Names
    <3>4. QED
      BY <3>2, <3>3
  <2>2. ASSUME name \in Names(vtable) PROVE name \in Names(all)
    <3>1. PICK i \in 1..n : vtable[i].name = name
      BY <1>2, <2>2 DEF Names
    <3>2. i \in 1..n + k /\ all[i] = vtable[i]
      BY <1>2, <1>3
    <3>3. QED
      BY <1>3, <3>1, <3>2 DEF Names
  <2>3. ASSUME name \in Names(statics) PROVE name \in Names(all)
    <3>1. PICK i \in 1..k : statics[i].name = name
      BY <1>2, <2>3 DEF Names
    <3>2. n + i \in 1..n + k /\ ~(n + i <= n) /\ n + i - n = i
      BY <1>2
    <3>3. all[n + i] = statics[i]
      <4>1. PICK p : p = n + i
        OBVIOUS
      <4>2. all[p] = statics[p - n] /\ p - n = i
        BY SMTT(60), <1>2, <1>3, <3>2, <4>1
      <4>3. QED
        BY <4>1, <4>2
    <3>4. QED
      BY <1>3, <3>1, <3>2, <3>3 DEF Names
  <2>4. QED
    BY <2>1, <2>2, <2>3
<1>7. MethodByName(class, name) =
        IF place = 0 THEN Nothing
        ELSE [kind |-> IF place <= n THEN "vtable" ELSE "static", idx |-> all[place].idx]
  BY <1>1, <1>2, <1>4 DEF MethodByName
<1>8. place # 0 => MethodByName(class, name) # Nothing
  <2>1. SUFFICES ASSUME place # 0 PROVE MethodByName(class, name).kind # Nothing.kind
    OBVIOUS
  <2>2. MethodByName(class, name).kind \in {"vtable", "static"}
    BY <1>7, <2>1
  <2>3. QED
    BY <2>2 DEF Nothing
<1>9. name \in Names(vtable) => place # 0 /\ place <= n
  <2>1. SUFFICES ASSUME name \in Names(vtable) PROVE place # 0 /\ place <= n
    OBVIOUS
  <2>2. PICK i \in 1..n : vtable[i].name = name
    BY <1>2, <2>1 DEF Names
  <2>3. all[i].name = name /\ i \in 1..Len(all)
    BY <1>2, <1>3, <2>2
  <2>4. place <= i
    <3> DEFINE I == {j \in 1..Len(all) : all[j].name = name}
    <3>1. MethodAt(all, name) = IF I # {} THEN Min(I) ELSE 0
      BY DEF MethodAt, SelectInSeq
    <3>2. I \in SUBSET Nat /\ I # {} /\ i \in I
      BY <1>2, <1>3, <2>3
    <3>3. Min(I) <= i
      <4> HIDE DEF I
      <4> QED BY <3>2, LeastElement
    <3>4. QED
      BY <1>4, <3>1, <3>2, <3>3
  <2>5. QED
    BY <1>2, <1>5, <1>6, <2>1, <2>4
<1>10. ASSUME name \in Names(vtable)
       PROVE  /\ MethodByName(class, name).kind = "vtable"
              /\ MethodByName(class, name).idx = place - 1
              /\ MethodById(class, MethodByName(class, name)) = vtable[place]
              /\ vtable[place].name = name /\ place \in DOMAIN vtable
  <2>1. place # 0 /\ place <= n /\ all[place] = vtable[place] /\ place \in 1..n
    BY <1>2, <1>3, <1>5, <1>9, <1>10
  <2>2. vtable[place].idx = place - 1
    BY <1>1, <1>2, <2>1 DEF Placed
  <2>3. MethodByName(class, name) = [kind |-> "vtable", idx |-> place - 1]
    BY <1>7, <2>1, <2>2
  <2>4. place - 1 + 1 = place
    BY <1>2, <2>1
  <2>5. QED
    BY <1>1, <1>2, <1>5, <2>1, <2>3, <2>4 DEF MethodById
<1>11. ASSUME name \notin Names(vtable), name \in Names(statics)
       PROVE  /\ MethodByName(class, name).kind = "static"
              /\ MethodByName(class, name).idx = (place - n) - 1
              /\ MethodById(class, MethodByName(class, name)) = statics[place - n]
              /\ statics[place - n].name = name /\ place - n \in DOMAIN statics
  <2>1. place # 0 /\ all[place].name = name /\ place \in 1..n + k
    BY <1>2, <1>5, <1>6, <1>11
  <2>2. ~(place <= n)
    <3>1. SUFFICES ASSUME place <= n PROVE FALSE
      OBVIOUS
    <3>2. place \in 1..n /\ vtable[place].name = name
      BY <1>2, <1>3, <2>1, <3>1
    <3>3. QED
      BY <1>2, <1>11, <3>2 DEF Names
  <2>3. place - n \in 1..k /\ all[place] = statics[place - n]
    BY <1>2, <1>3, <2>1, <2>2
  <2>4. statics[place - n].idx = (place - n) - 1
    BY <1>1, <1>2, <2>3 DEF Placed
  <2>5. MethodByName(class, name) = [kind |-> "static", idx |-> (place - n) - 1]
    BY <1>7, <2>1, <2>2, <2>3, <2>4
  <2>6. (place - n) - 1 + 1 = place - n
    BY <1>2, <2>1
  <2>7. QED
    BY <1>1, <1>2, <2>1, <2>3, <2>5, <2>6 DEF MethodById
<1>12. MethodByName(class, name) = Nothing <=> name \notin Names(vtable) /\ name \notin Names(statics)
  BY <1>5, <1>6, <1>7, <1>8
<1>13. QED
  BY <1>1, <1>10, <1>11, <1>12

(* What a class declares is in one of its tables.                          *)
LEMMA Declared ==
    ASSUME NEW class \in VMClass, NEW c, NEW name
    PROVE  (\E m \in ToSet(class.vtable \o class.statics) : m.name = name /\ m.owner = c) <=>
              \/ \E i \in DOMAIN class.vtable : class.vtable[i].name = name /\ class.vtable[i].owner = c
              \/ \E i \in DOMAIN class.statics : class.statics[i].name = name /\ class.statics[i].owner = c
<1>1. PICK vtable, statics, all : /\ vtable = class.vtable /\ statics = class.statics /\ all = vtable \o statics
                                  /\ vtable \in Seq(VMMethod) /\ statics \in Seq(VMMethod)
  BY DEF VMClass
<1>2. PICK n, k : /\ n \in Nat /\ n = Len(vtable) /\ DOMAIN vtable = 1..n
                  /\ k \in Nat /\ k = Len(statics) /\ DOMAIN statics = 1..k
  BY <1>1, LenProperties
<1>3. /\ DOMAIN all = 1..n + k
      /\ \A i \in 1..n + k : all[i] = IF i <= n THEN vtable[i] ELSE statics[i - n]
  <2>1. /\ vtable \o statics \in Seq(VMMethod) /\ Len(vtable \o statics) = Len(vtable) + Len(statics)
        /\ \A i \in 1..Len(vtable) + Len(statics) :
              (vtable \o statics)[i] = IF i <= Len(vtable) THEN vtable[i] ELSE statics[i - Len(vtable)]
    BY ZenonT(60), <1>1, ConcatProperties
  <2>2. /\ all \in Seq(VMMethod) /\ Len(all) = n + k
        /\ \A i \in 1..n + k : all[i] = IF i <= n THEN vtable[i] ELSE statics[i - n]
    BY <1>1, <1>2, <2>1
  <2>3. QED
    BY <2>2, LenProperties
<1>4. ToSet(all) = {all[i] : i \in 1..n + k}
  BY <1>3 DEF ToSet
<1>5. \A i \in 1..n : i \in 1..n + k /\ all[i] = vtable[i]
  BY <1>2, <1>3
<1>6. ASSUME NEW i \in 1..k PROVE n + i \in 1..n + k /\ all[n + i] = statics[i]
  <2>1. n + i \in 1..n + k /\ ~(n + i <= n) /\ n + i - n = i
    BY <1>2
  <2>2. PICK p : p = n + i
    OBVIOUS
  <2>3. all[p] = statics[p - n] /\ p - n = i
    BY <1>2, <1>3, <2>1, <2>2
  <2>4. QED
    BY <2>1, <2>2, <2>3
<1>7. ASSUME NEW i \in 1..n + k PROVE \/ i \in 1..n /\ all[i] = vtable[i]
                                      \/ i - n \in 1..k /\ all[i] = statics[i - n]
  BY <1>2, <1>3
<1>8. ASSUME NEW m \in ToSet(all)
      PROVE  (\E i \in 1..n : m = vtable[i]) \/ \E i \in 1..k : m = statics[i]
  BY <1>4, <1>7
<1>9. (\A i \in 1..n : vtable[i] \in ToSet(all)) /\ \A i \in 1..k : statics[i] \in ToSet(all)
  BY <1>4, <1>5, <1>6
<1>10. QED
  BY SMTT(60), <1>1, <1>2, <1>8, <1>9

DeclaredBy(classes, c, name) ==
    \E m \in ToSet(classes[c].vtable \o classes[c].statics) : m.name = name /\ m.owner = c

LEMMA DeclaredWhere ==
    ASSUME NEW classes, NEW c, classes[c] \in VMClass, NEW name
    PROVE  DeclaredBy(classes, c, name) <=>
              \/ \E i \in DOMAIN classes[c].vtable : classes[c].vtable[i].name = name /\ classes[c].vtable[i].owner = c
              \/ \E i \in DOMAIN classes[c].statics : classes[c].statics[i].name = name /\ classes[c].statics[i].owner = c
<1>1. PICK class \in VMClass : class = classes[c]
  OBVIOUS
<1>2. DeclaredBy(classes, c, name) <=> \E m \in ToSet(class.vtable \o class.statics) : m.name = name /\ m.owner = c
  BY <1>1 DEF DeclaredBy
<1>3. (\E m \in ToSet(class.vtable \o class.statics) : m.name = name /\ m.owner = c) <=>
              \/ \E i \in DOMAIN class.vtable : class.vtable[i].name = name /\ class.vtable[i].owner = c
              \/ \E i \in DOMAIN class.statics : class.statics[i].name = name /\ class.statics[i].owner = c
  BY Declared
<1>4. QED
  BY <1>1, <1>2, <1>3

-----------------------------------------------------------------------------
(* A class is created.                                                     *)

(* A new class of the chain: what Create appends, and to what.             *)
Creates(methods, fields, n, new) ==
    /\ n \in Nat \ {0} /\ n = Len(chain) /\ DOMAIN chain = 1..n
    /\ methods \in Seq(MethodInfo) /\ fields \in Seq(FieldInfo)
    /\ \A i, j \in DOMAIN methods : methods[i].name = methods[j].name => i = j
    /\ \A i, j \in DOMAIN fields : fields[i].name = fields[j].name => i = j
    /\ new \in VMClass /\ chain[n] \in VMClass /\ Last(chain) = chain[n]
    /\ \A c \in 1..n : chain[c] \in VMClass
    /\ chain' \in Seq(VMClass) /\ Len(chain') = n + 1 /\ DOMAIN chain' = 1..n + 1
    /\ chain'[n + 1] = new /\ \A c \in 1..n : chain'[c] = chain[c]
    /\ \A c \in 1..n + 1 : c \in 1..n \/ c = n + 1
    /\ \E start : /\ MethodsAdded(n + 1, chain[n], methods, Len(methods), start)
                  /\ FieldsAdded(n + 1, start, fields, Len(fields), new)

LEMMA Creation ==
    ASSUME IInv, NEW methods \in MethodFiles, NEW fields \in FieldFiles, Create(methods, fields)
    PROVE  \E n, new : Creates(methods, fields, n, new)
<1>1. PICK n : n = Len(chain) /\ n \in Nat \ {0} /\ DOMAIN chain = 1..n
  BY LenProperties, EmptySeq DEF IInv, TypeOK
<1>2. /\ methods \in Seq(MethodInfo) /\ fields \in Seq(FieldInfo)
      /\ \A i, j \in DOMAIN methods : methods[i].name = methods[j].name => i = j
      /\ \A i, j \in DOMAIN fields : fields[i].name = fields[j].name => i = j
  <2>1. \A S : BoundedSeq(S, MaxMembers) \subseteq Seq(S)
    BY BoundAssumption DEF BoundedSeq, SeqOf
  <2>2. QED
    BY <2>1 DEF MethodFiles, FieldFiles
<1>3. \A c \in 1..n : chain[c] \in VMClass
  BY <1>1, ElementOfSeq DEF IInv, TypeOK
<1>4. n \in 1..n /\ Last(chain) = chain[n] /\ chain[n] \in VMClass
  BY <1>1, <1>3 DEF Last
<1>5. PICK start : start = WithMethods(n + 1, chain[n], methods)
  OBVIOUS
<1>6. MethodsAdded(n + 1, chain[n], methods, Len(methods), start)
  <2>1. Placed(chain[n])
    BY <1>1, <1>4 DEF IInv, MethodsPlaced
  <2>2. n + 1 \in Nat
    BY <1>1
  <2>3. QED
    BY <1>2, <1>4, <1>5, <2>1, <2>2, AllMethodsAdded
<1>7. PICK new : new = WithFields(n + 1, start, fields)
  OBVIOUS
<1>8. FieldsAdded(n + 1, start, fields, Len(fields), new)
  <2>1. Packed(start.fields)
    <3>1. Packed(chain[n].fields) /\ chain[n].fields \in Seq(VMField)
      BY <1>1, <1>4 DEF IInv, FieldsPacked, VMClass
    <3>2. start.fields = Instance(chain[n].fields)
      BY <1>6 DEF MethodsAdded
    <3>3. QED
      BY <3>1, <3>2, PackedInherited
  <2>2. n + 1 \in Nat /\ start \in VMClass
    BY <1>1, <1>6 DEF MethodsAdded
  <2>3. QED
    BY <1>2, <1>7, <2>1, <2>2, AllFieldsAdded
<1>9. new \in VMClass
  BY <1>8 DEF FieldsAdded
<1>10. chain' = Append(chain, new)
  BY <1>1, <1>4, <1>5, <1>7 DEF Create, NewClass
<1>11. /\ chain' \in Seq(VMClass) /\ Len(chain') = n + 1 /\ DOMAIN chain' = 1..n + 1
       /\ chain'[n + 1] = new /\ \A c \in 1..n : chain'[c] = chain[c]
  <2>1. chain \in Seq(VMClass)
    BY DEF IInv, TypeOK
  <2>2. /\ chain' \in Seq(VMClass) /\ Len(chain') = n + 1
        /\ chain'[n + 1] = new /\ \A c \in 1..n : chain'[c] = chain[c]
    BY <1>1, <1>9, <1>10, <2>1, AppendProperties
  <2>3. QED
    BY <2>2, LenProperties
<1>12. \A c \in 1..n + 1 : c \in 1..n \/ c = n + 1
  BY <1>1
<1>13. QED
  BY <1>1, <1>2, <1>3, <1>4, <1>6, <1>8, <1>9, <1>11, <1>12 DEF Creates

(* VTablesExact, for the chain before and after.                           *)
Nearest(classes, c, m) ==
    /\ m.owner \in 1..c
    /\ DeclaredBy(classes, m.owner, m.name)
    /\ \A d \in m.owner + 1..c : ~DeclaredBy(classes, d, m.name)

Exact(classes, c) ==
    /\ \A b \in 1..c : Names(classes[b].vtable) \subseteq Names(classes[c].vtable)
    /\ \A i \in DOMAIN classes[c].vtable : Nearest(classes, c, classes[c].vtable[i])

LEMMA ExactEverywhere == VTablesExact <=> \A c \in DOMAIN chain : Exact(chain, c)
BY DEF VTablesExact, Exact, Nearest, DeclaredBy, Declares

LEMMA ExactEverywhereNext == VTablesExact' <=> \A c \in DOMAIN chain' : Exact(chain', c)
BY DEF VTablesExact, Exact, Nearest, DeclaredBy, Declares

LEMMA CreateMethods ==
    ASSUME IInv, NEW methods \in MethodFiles, NEW fields \in FieldFiles, Create(methods, fields)
    PROVE  TypeOK' /\ MethodsPlaced' /\ StaticsApart' /\ VTablesExact'
<1>1. PICK n, new : Creates(methods, fields, n, new)
  BY Creation
<1>2. PICK start : /\ MethodsAdded(n + 1, chain[n], methods, Len(methods), start)
                   /\ FieldsAdded(n + 1, start, fields, Len(fields), new)
  BY <1>1 DEF Creates
<1>3. /\ n \in Nat \ {0} /\ n + 1 \in Nat /\ DOMAIN chain = 1..n /\ DOMAIN chain' = 1..n + 1 /\ n \in 1..n /\ n + 1 \in 1..n + 1
      /\ chain'[n + 1] = new /\ \A c \in 1..n : chain'[c] = chain[c]
      /\ \A c \in 1..n + 1 : c \in 1..n \/ c = n + 1
  BY <1>1 DEF Creates
<1>4. DOMAIN methods = 1..Len(methods)
  BY <1>1, LenProperties DEF Creates
<1>5. /\ Placed(new)
      /\ \A name : name \in Names(new.vtable) <=>
            name \in Names(chain[n].vtable) \/ \E j \in DOMAIN methods : methods[j].name = name /\ ~methods[j].static
      /\ \A name : name \in Names(new.statics) <=> \E j \in DOMAIN methods : methods[j].name = name /\ methods[j].static
      /\ \A p \in DOMAIN new.statics : new.statics[p].owner = n + 1
      /\ \A p \in DOMAIN new.vtable :
          \/ new.vtable[p].owner = n + 1
          \/ \E q \in DOMAIN chain[n].vtable :
                chain[n].vtable[q].name = new.vtable[p].name /\ chain[n].vtable[q].owner = new.vtable[p].owner
  BY <1>2, <1>4 DEF MethodsAdded, FieldsAdded, Placed
<1>6. TypeOK'
  <2>1. Len(chain') # 0
    BY <1>1 DEF Creates
  <2>2. chain' # <<>>
    BY <2>1
  <2>3. QED
    BY <1>1, <2>2 DEF Creates, TypeOK
<1>7. MethodsPlaced'
  BY <1>3, <1>5 DEF IInv, MethodsPlaced
<1>8. \A d \in 1..n : Names(chain[d].vtable) \subseteq Names(chain[n].vtable)
  <2>1. \A b \in 1..n : Names(chain[b].vtable) \subseteq Names(chain[n].vtable)
    BY <1>3 DEF IInv, VTablesExact
  <2>2. QED
    BY <2>1
<1>9. \A c \in 1..n : chain[c].vtable \in Seq(VMMethod) /\ chain[c].statics \in Seq(VMMethod)
  BY <1>1 DEF Creates, VMClass
<1>10. \A j \in DOMAIN methods : methods[j].static => methods[j].name \notin Names(chain[n].vtable)
  <2>1. SUFFICES ASSUME NEW j \in DOMAIN methods, methods[j].static PROVE methods[j].name \notin Names(chain[n].vtable)
    OBVIOUS
  <2>2. MethodAt(chain[n].vtable, methods[j].name) = 0
    BY <1>1, <2>1 DEF Creates, Create, Compiles
  <2>3. QED
    BY <1>3, <1>9, <2>2, MethodPlace
<1>11. \A j \in DOMAIN methods : ~methods[j].static => \A c \in 1..n : methods[j].name \notin Names(chain[c].statics)
  <2>1. SUFFICES ASSUME NEW j \in DOMAIN methods, ~methods[j].static, NEW c \in 1..n
                 PROVE  methods[j].name \notin Names(chain[c].statics)
    OBVIOUS
  <2>2. MethodAt(chain[c].statics, methods[j].name) = 0
    BY <1>3, <2>1 DEF Create, Compiles
  <2>3. QED
    BY <1>9, <2>2, MethodPlace
<1>12. Names(new.statics) \cap Names(new.vtable) = {}
  <2>1. SUFFICES ASSUME NEW name, name \in Names(new.statics), name \in Names(new.vtable) PROVE FALSE
    OBVIOUS
  <2>2. PICK j \in DOMAIN methods : methods[j].name = name /\ methods[j].static
    BY <1>5, <2>1
  <2>3. PICK k \in DOMAIN methods : methods[k].name = name /\ ~methods[k].static
    BY <1>5, <1>10, <2>1, <2>2
  <2>4. j = k
    BY <1>1, <2>2, <2>3 DEF Creates
  <2>5. QED
    BY <2>2, <2>3, <2>4
<1>13. StaticsApart'
  <2>1. ASSUME NEW d \in 1..n PROVE Names(new.statics) \cap Names(chain[d].vtable) = {}
    BY <1>5, <1>8, <1>10, <2>1
  <2>2. ASSUME NEW c \in 1..n, NEW d \in 1..n PROVE Names(chain[c].statics) \cap Names(chain[d].vtable) = {}
    BY <1>3, <2>2 DEF IInv, StaticsApart
  <2>3. ASSUME NEW c \in 1..n PROVE Names(chain[c].statics) \cap Names(new.vtable) = {}
    BY <1>3, <1>5, <1>11, <2>2, <2>3
  <2>4. ASSUME NEW c \in 1..n + 1, NEW d \in 1..n + 1 PROVE Names(chain'[c].statics) \cap Names(chain'[d].vtable) = {}
    BY <1>3, <1>12, <2>1, <2>2, <2>3, <2>4
  <2>5. ASSUME NEW c \in 1..n + 1 PROVE \A i \in DOMAIN chain'[c].statics : chain'[c].statics[i].owner = c
    <3>1. CASE c \in 1..n
      BY <1>3, <3>1 DEF IInv, StaticsApart
    <3>2. CASE c = n + 1
      BY <1>3, <1>5, <3>2
    <3>3. QED
      BY <1>3, <3>1, <3>2
  <2>6. QED
    BY <1>3, <2>4, <2>5 DEF StaticsApart
<1>14. PICK after : after = chain'
  OBVIOUS
<1>15. \A name : \A d \in 1..n : DeclaredBy(after, d, name) <=> DeclaredBy(chain, d, name)
  BY <1>3, <1>14 DEF DeclaredBy
<1>16. \A name : DeclaredBy(after, n + 1, name) <=>
         \/ \E i \in DOMAIN new.vtable : new.vtable[i].name = name /\ new.vtable[i].owner = n + 1
         \/ \E i \in DOMAIN new.statics : new.statics[i].name = name /\ new.statics[i].owner = n + 1
  <2>1. new \in VMClass
    BY <1>1 DEF Creates
  <2>2. \A name : DeclaredBy(after, n + 1, name) <=>
            \E m \in ToSet(new.vtable \o new.statics) : m.name = name /\ m.owner = n + 1
    BY <1>3, <1>14 DEF DeclaredBy
  <2>3. SUFFICES ASSUME NEW name
        PROVE  DeclaredBy(after, n + 1, name) <=>
                 \/ \E i \in DOMAIN new.vtable : new.vtable[i].name = name /\ new.vtable[i].owner = n + 1
                 \/ \E i \in DOMAIN new.statics : new.statics[i].name = name /\ new.statics[i].owner = n + 1
    OBVIOUS
  <2>4. (\E m \in ToSet(new.vtable \o new.statics) : m.name = name /\ m.owner = n + 1) <=>
                 \/ \E i \in DOMAIN new.vtable : new.vtable[i].name = name /\ new.vtable[i].owner = n + 1
                 \/ \E i \in DOMAIN new.statics : new.statics[i].name = name /\ new.statics[i].owner = n + 1
    BY <2>1, Declared
  <2>5. QED
    BY <2>2, <2>4
<1>17. \A i \in DOMAIN new.vtable : new.vtable[i].owner \in Nat
  <2>1. new.vtable \in Seq(VMMethod)
    BY <1>1 DEF Creates, VMClass
  <2>2. SUFFICES ASSUME NEW i \in DOMAIN new.vtable PROVE new.vtable[i].owner \in Nat
    OBVIOUS
  <2>3. PICK m \in VMMethod : m = new.vtable[i]
    BY <2>1, LenProperties, ElementOfSeq
  <2>4. QED
    BY <2>3 DEF VMMethod
<1>18. \A b \in 1..n + 1 : Names(after[b].vtable) \subseteq Names(new.vtable)
  <2>1. Names(chain[n].vtable) \subseteq Names(new.vtable)
    BY <1>5
  <2>2. SUFFICES ASSUME NEW b \in 1..n + 1 PROVE Names(after[b].vtable) \subseteq Names(new.vtable)
    OBVIOUS
  <2>3. CASE b \in 1..n
    BY <1>3, <1>8, <1>14, <2>1, <2>3
  <2>4. CASE b = n + 1
    BY <1>3, <1>14, <2>4
  <2>5. QED
    BY <1>3, <2>3, <2>4
<1>19. ASSUME NEW i \in DOMAIN new.vtable PROVE Nearest(after, n + 1, new.vtable[i])
  <2>1. PICK m : m = new.vtable[i] /\ m.owner \in Nat
    BY <1>17
  <2>2. CASE m.owner = n + 1
    <3>1. DeclaredBy(after, n + 1, m.name)
      BY <1>16, <2>1, <2>2
    <3>2. \A d \in n + 1 + 1..n + 1 : FALSE
      BY <1>3
    <3>3. QED
      BY <1>3, <2>1, <2>2, <3>1, <3>2 DEF Nearest
  <2>3. CASE m.owner # n + 1
    <3>1. PICK q \in DOMAIN chain[n].vtable : chain[n].vtable[q].name = m.name /\ chain[n].vtable[q].owner = m.owner
      BY <1>5, <2>1, <2>3
    <3>2. /\ m.owner \in 1..n
          /\ DeclaredBy(chain, m.owner, m.name)
          /\ \A d \in m.owner + 1..n : ~DeclaredBy(chain, d, m.name)
      <4>1. Exact(chain, n)
        BY <1>3, ExactEverywhere DEF IInv
      <4>2. QED
        BY <3>1, <4>1 DEF Exact, Nearest
    <3>3. DeclaredBy(after, m.owner, m.name)
      BY <1>15, <3>2
    <3>4. ~DeclaredBy(after, n + 1, m.name)
      <4>1. SUFFICES ASSUME DeclaredBy(after, n + 1, m.name) PROVE FALSE
        OBVIOUS
      <4>2. CASE \E j \in DOMAIN new.vtable : new.vtable[j].name = m.name /\ new.vtable[j].owner = n + 1
        <5>1. PICK j \in DOMAIN new.vtable : new.vtable[j].name = m.name /\ new.vtable[j].owner = n + 1
          BY <4>2
        <5>2. j = i
          BY <1>5, <2>1, <5>1 DEF Placed
        <5>3. QED
          BY <2>1, <2>3, <5>1, <5>2
      <4>3. CASE \E j \in DOMAIN new.statics : new.statics[j].name = m.name /\ new.statics[j].owner = n + 1
        BY <1>12, <2>1, <4>3 DEF Names
      <4>4. QED
        BY <1>16, <4>1, <4>2, <4>3
    <3>5. ASSUME NEW d \in m.owner + 1..n + 1 PROVE ~DeclaredBy(after, d, m.name)
      <4>1. CASE d = n + 1
        BY <3>4, <4>1
      <4>2. CASE d # n + 1
        <5>1. d \in 1..n /\ d \in m.owner + 1..n
          BY <1>3, <2>1, <4>2
        <5>2. QED
          BY <1>15, <3>2, <5>1
      <4>3. QED
        BY <4>1, <4>2
    <3>6. m.owner \in 1..n + 1
      BY <1>3, <3>2
    <3>7. QED
      BY <2>1, <3>3, <3>5, <3>6 DEF Nearest
  <2>4. QED
    BY <2>2, <2>3
<1>20. \A c \in 1..n + 1 : Exact(after, c)
  <2>1. ASSUME NEW c \in 1..n PROVE Exact(after, c)
    <3>1. after[c] = chain[c] /\ \A b \in 1..c : b \in 1..n /\ after[b] = chain[b]
      BY <1>3, <1>14
    <3>2. Exact(chain, c)
      BY <1>3, ExactEverywhere DEF IInv
    <3>3. \A b \in 1..c : Names(after[b].vtable) \subseteq Names(after[c].vtable)
      BY <3>1, <3>2 DEF Exact
    <3>4. ASSUME NEW i \in DOMAIN after[c].vtable PROVE Nearest(after, c, after[c].vtable[i])
      <4>1. PICK m : m = chain[c].vtable[i] /\ m = after[c].vtable[i] /\ i \in DOMAIN chain[c].vtable
        BY <3>1
      <4>2. Nearest(chain, c, m)
        BY <3>2, <4>1 DEF Exact
      <4>3. m.owner \in 1..n /\ \A d \in m.owner + 1..c : d \in 1..n
        BY <1>3, <4>2 DEF Nearest
      <4>4. QED
        BY <1>15, <4>1, <4>2, <4>3 DEF Nearest
    <3>5. QED
      BY <3>3, <3>4 DEF Exact
  <2>2. after[n + 1] = new
    BY <1>3, <1>14
  <2>3. Exact(after, n + 1)
    BY <1>18, <1>19, <2>2 DEF Exact
  <2>4. QED
    BY <1>3, <2>1, <2>3
<1>21. VTablesExact'
  <2>1. \A c \in DOMAIN chain' : Exact(chain', c)
    BY <1>3, <1>14, <1>20
  <2>2. QED
    BY <2>1, ExactEverywhereNext
<1>22. QED
  BY <1>6, <1>7, <1>13, <1>21

LEMMA CreateFields ==
    ASSUME IInv, NEW methods \in MethodFiles, NEW fields \in FieldFiles, Create(methods, fields)
    PROVE  FieldsPacked' /\ FieldsInherited' /\ OwnFieldsPlaced'
<1>1. PICK n, new : Creates(methods, fields, n, new)
  BY Creation
<1>2. PICK start : /\ MethodsAdded(n + 1, chain[n], methods, Len(methods), start)
                   /\ FieldsAdded(n + 1, start, fields, Len(fields), new)
  BY <1>1 DEF Creates
<1>3. /\ n \in Nat \ {0} /\ n + 1 \in Nat /\ DOMAIN chain = 1..n /\ DOMAIN chain' = 1..n + 1 /\ n \in 1..n /\ n + 1 \in 1..n + 1
      /\ chain'[n + 1] = new /\ \A c \in 1..n : chain'[c] = chain[c]
      /\ \A c \in 1..n + 1 : c \in 1..n \/ c = n + 1
  BY <1>1 DEF Creates
<1>4. start.fields = Instance(chain[n].fields)
  BY <1>2 DEF MethodsAdded
<1>5. PICK old : old = chain[n].fields /\ old \in Seq(VMField)
  BY <1>1 DEF Creates, VMClass
<1>6. FieldsPacked'
  <2>1. Packed(new.fields)
    BY <1>2 DEF FieldsAdded
  <2>2. \A c \in 1..n : Packed(chain[c].fields)
    BY <1>3 DEF IInv, FieldsPacked
  <2>3. \A c \in 1..n + 1 : Packed(chain'[c].fields)
    BY <1>3, <2>1, <2>2
  <2>4. QED
    BY <1>3, <2>3 DEF FieldsPacked
<1>7. FieldsInherited'
  <2>1. ToSet(Instance(old)) \subseteq ToSet(Instance(new.fields))
    BY <1>2, <1>4, <1>5, InstanceTwice DEF FieldsAdded
  <2>2. \A b \in 1..n : ToSet(Instance(chain[b].fields)) \subseteq ToSet(Instance(old))
    BY <1>3, <1>5 DEF IInv, FieldsInherited
  <2>3. \A b \in 1..n : ToSet(Instance(chain[b].fields)) \subseteq ToSet(Instance(new.fields))
    BY <2>1, <2>2
  <2>4. \A b \in 1..n + 1 : ToSet(Instance(chain'[b].fields)) \subseteq ToSet(Instance(new.fields))
    BY <1>3, <2>3
  <2>5. ASSUME NEW c \in 1..n + 1, NEW b \in 1..c
        PROVE  ToSet(Instance(chain'[b].fields)) \subseteq ToSet(Instance(chain'[c].fields))
    <3>1. CASE c = n + 1
      BY <1>3, <2>4, <3>1
    <3>2. CASE c \in 1..n
      <4>1. b \in 1..n
        BY <1>3, <3>2
      <4>2. ToSet(Instance(chain[b].fields)) \subseteq ToSet(Instance(chain[c].fields))
        BY <1>3, <3>2 DEF IInv, FieldsInherited
      <4>3. QED
        BY <1>3, <3>2, <4>1, <4>2
    <3>3. QED
      BY <1>3, <3>1, <3>2
  <2>6. QED
    BY <1>3, <2>5 DEF FieldsInherited
<1>8. OwnFieldsPlaced'
  <2>1. ASSUME NEW c \in 1..n, c > 1 => Instance(chain'[c - 1].fields) = <<>>
        PROVE  /\ \A i \in DOMAIN chain'[c].fields :
                     chain'[c].fields[i].idx = i - 1 /\ chain'[c].fields[i].owner = c
               /\ \A i, j \in DOMAIN chain'[c].fields :
                     chain'[c].fields[i].name = chain'[c].fields[j].name => i = j
    <3>1. chain'[c] = chain[c] /\ (c > 1 => c - 1 \in 1..n /\ chain'[c - 1] = chain[c - 1])
      BY <1>3
    <3>2. c > 1 => Instance(chain[c - 1].fields) = <<>>
      BY <2>1, <3>1
    <3>3. QED
      BY <1>3, <3>1, <3>2 DEF IInv, OwnFieldsPlaced
  <2>2. ASSUME Instance(old) = <<>>
        PROVE  /\ \A i \in DOMAIN new.fields : new.fields[i].idx = i - 1 /\ new.fields[i].owner = n + 1
               /\ \A i, j \in DOMAIN new.fields : new.fields[i].name = new.fields[j].name => i = j
    <3>1. Len(start.fields) = 0
      BY <1>4, <1>5, <2>2, EmptySeq
    <3>2. PICK k : k = Len(fields) /\ k \in Nat /\ DOMAIN fields = 1..k
      BY <1>1, LenProperties DEF Creates
    <3>3. Len(new.fields) = k /\ DOMAIN new.fields = 1..k
      <4>1. Len(new.fields) = 0 + k
        BY <1>2, <3>1, <3>2 DEF FieldsAdded
      <4>2. new.fields \in Seq(VMField)
        BY <1>1 DEF Creates, VMClass
      <4>3. QED
        BY <3>2, <4>1, <4>2, LenProperties
    <3>4. ASSUME NEW i \in 1..k
          PROVE  new.fields[i].idx = i - 1 /\ new.fields[i].owner = n + 1 /\ new.fields[i].name = fields[i].name
      <4>1. 0 + i = i
        OBVIOUS
      <4>2. QED
        BY <1>2, <3>1, <3>2, <4>1 DEF FieldsAdded
    <3>5. \A i, j \in 1..k : fields[i].name = fields[j].name => i = j
      BY <1>1, <3>2 DEF Creates
    <3>6. QED
      BY <3>3, <3>4, <3>5
  <2>3. n + 1 - 1 = n /\ n + 1 > 1 /\ chain'[n] = chain[n]
    BY <1>3
  <2>4. ASSUME NEW c \in 1..n + 1, c > 1 => Instance(chain'[c - 1].fields) = <<>>
        PROVE  /\ \A i \in DOMAIN chain'[c].fields :
                     chain'[c].fields[i].idx = i - 1 /\ chain'[c].fields[i].owner = c
               /\ \A i, j \in DOMAIN chain'[c].fields :
                     chain'[c].fields[i].name = chain'[c].fields[j].name => i = j
    <3>1. CASE c \in 1..n
      BY <2>1, <2>4, <3>1
    <3>2. CASE c = n + 1
      <4>0. c > 1 /\ c - 1 = n
        BY <1>3, <3>2
      <4>1. Instance(old) = <<>>
        BY <1>5, <2>3, <2>4, <4>0
      <4>2. QED
        BY <1>3, <2>2, <3>2, <4>1
    <3>3. QED
      BY <1>3, <3>1, <3>2
  <2>5. QED
    BY <1>3, <2>4 DEF OwnFieldsPlaced
<1>9. QED
  BY <1>6, <1>7, <1>8

LEMMA CreateStep ==
    ASSUME IInv, NEW methods \in MethodFiles, NEW fields \in FieldFiles, Create(methods, fields)
    PROVE  IInv'
<1>1. last'.kind = "none"
  BY DEF Create, Nothing
<1>2. SelectsNearest' /\ RightFieldAtRoot'
  BY <1>1 DEF SelectsNearest, RightFieldAtRoot
<1>3. QED
  BY <1>2, CreateMethods, CreateFields DEF IInv

-----------------------------------------------------------------------------
(* A method is invoked.                                                    *)

LEMMA Classes ==
    ASSUME IInv
    PROVE  /\ Len(chain) \in Nat /\ DOMAIN chain = 1..Len(chain)
           /\ \A c \in DOMAIN chain : /\ chain[c] \in VMClass /\ Placed(chain[c])
                                      /\ chain[c].fields \in Seq(VMField)
                                      /\ chain[c].vtable \in Seq(VMMethod)
                                      /\ chain[c].statics \in Seq(VMMethod)
<1>1. Len(chain) \in Nat /\ DOMAIN chain = 1..Len(chain)
  BY LenProperties DEF IInv, TypeOK
<1>2. \A c \in DOMAIN chain : chain[c] \in VMClass
  BY <1>1, ElementOfSeq DEF IInv, TypeOK
<1>3. QED
  BY <1>1, <1>2 DEF IInv, MethodsPlaced, VMClass

(* The search from root ends in the nearest class that has the method, and *)
(* that is root itself unless the method is static.                        *)
LEMMA Resolved ==
    ASSUME IInv, NEW root \in DOMAIN chain, NEW name, MethodHolder(root, name) # {}
    PROVE  \E class \in 1..root :
              /\ class = ResolveMethod(root, name)
              /\ class \in DOMAIN chain
              /\ name \in Names(chain[class].vtable) \/ name \in Names(chain[class].statics)
              /\ name \in Names(chain[class].vtable) => class = root
              /\ \A d \in class + 1..root : name \notin Names(chain[d].vtable) /\ name \notin Names(chain[d].statics)
<1>1. PICK n : n = Len(chain) /\ n \in Nat /\ DOMAIN chain = 1..n
  BY Classes
<1>2. root \in Nat /\ \A c \in 1..root : c \in DOMAIN chain
  BY <1>1
<1>3. PICK class : class = ResolveMethod(root, name)
  OBVIOUS
<1>4. class \in MethodHolder(root, name) /\ \A c \in MethodHolder(root, name) : c <= class
  <2>1. MethodHolder(root, name) \in SUBSET (1..root)
    BY DEF MethodHolder
  <2>2. QED
    BY <1>2, <1>3, <2>1, GreatestElement DEF ResolveMethod
<1>5. \A c \in 1..root : c \in MethodHolder(root, name) <=>
          name \in Names(chain[c].vtable) \/ name \in Names(chain[c].statics)
  <2>1. \A c \in 1..root : chain[c] \in VMClass /\ Placed(chain[c])
    BY <1>2, Classes
  <2>2. QED
    BY <2>1, ByName DEF MethodHolder
<1>6. class \in 1..root
  BY <1>4 DEF MethodHolder
<1>7. ASSUME name \in Names(chain[class].vtable) PROVE class = root
  <2>1. Names(chain[class].vtable) \subseteq Names(chain[root].vtable)
    BY <1>6 DEF IInv, VTablesExact
  <2>2. root \in 1..root
    BY <1>1
  <2>3. root \in MethodHolder(root, name)
    BY <1>5, <1>7, <2>1, <2>2
  <2>4. QED
    BY <1>2, <1>4, <1>6, <2>3
<1>8. ASSUME NEW d \in class + 1..root PROVE name \notin Names(chain[d].vtable) /\ name \notin Names(chain[d].statics)
  <2>1. d \in 1..root /\ ~(d <= class)
    BY <1>2, <1>6
  <2>2. QED
    BY <1>4, <1>5, <2>1
<1>9. QED
  BY <1>2, <1>3, <1>4, <1>5, <1>6, <1>7, <1>8

(* Only chain and last matter, and an instruction changes only last.       *)
LEMMA SameChain ==
    ASSUME IInv, UNCHANGED chain, SelectsNearest', RightFieldAtRoot'
    PROVE  IInv'
<1>1. VTablesExact'
  BY ExactEverywhere, ExactEverywhereNext DEF IInv
<1>2. TypeOK' /\ MethodsPlaced'
  BY DEF IInv, TypeOK, MethodsPlaced
<1>3. StaticsApart'
  BY DEF IInv, StaticsApart
<1>4. FieldsPacked' /\ FieldsInherited'
  BY DEF IInv, FieldsPacked, FieldsInherited
<1>5. OwnFieldsPlaced'
  BY DEF IInv, OwnFieldsPlaced
<1>6. QED
  BY <1>1, <1>2, <1>3, <1>4, <1>5 DEF IInv

(* The nearest declaration is the one at m.owner.                          *)
LEMMA NearestIsMax ==
    ASSUME NEW classes, NEW c \in Nat, NEW m, Nearest(classes, c, m)
    PROVE  m.owner = Max({d \in 1..c : DeclaredBy(classes, d, m.name)})
<1> DEFINE S == {d \in 1..c : DeclaredBy(classes, d, m.name)}
<1>1. m.owner \in S
  BY DEF Nearest
<1>2. S # {} /\ S \in SUBSET (1..c)
  BY <1>1
<1>3. Max(S) \in S /\ \A y \in S : y <= Max(S)
  <2> HIDE DEF S
  <2> QED BY <1>2, GreatestElement
<1>4. ~(Max(S) \in m.owner + 1..c)
  BY <1>3 DEF Nearest
<1>5. Max(S) \in 1..c /\ m.owner \in 1..c /\ m.owner <= Max(S)
  BY <1>1, <1>3
<1>6. QED
  BY <1>4, <1>5

LEMMA SelectsNearestNext ==
    SelectsNearest' <=>
        (last'.kind = "method" =>
            /\ last'.found = last'.name
            /\ last'.owner = Max({c \in 1..last'.receiver : DeclaredBy(chain', c, last'.name)})
            /\ last'.owner = last'.receiver => last'.pool = last'.owner)
BY DEF SelectsNearest, DeclaredBy, Declares

(* What was run is what the nearest class at or above c declares.          *)
LEMMA RanNearest ==
    ASSUME IInv, UNCHANGED chain, NEW root, NEW name, NEW c \in Nat, NEW pool, NEW method,
           last' = Ran(root, name, c, pool, method),
           Nearest(chain, c, method), method.name = name, method.owner = c => pool = c
    PROVE  IInv'
<1>1. /\ last'.kind = "method" /\ last'.found = method.name /\ last'.name = name
      /\ last'.receiver = c /\ last'.pool = pool /\ last'.owner = method.owner
  BY DEF Ran
<1>2. method.owner = Max({d \in 1..c : DeclaredBy(chain, d, name)})
  BY NearestIsMax
<1>3. SelectsNearest'
  BY <1>1, <1>2, SelectsNearestNext
<1>4. RightFieldAtRoot'
  BY <1>1 DEF RightFieldAtRoot
<1>5. QED
  BY <1>3, <1>4, SameChain

LEMMA InvokeStaticStep ==
    ASSUME IInv, NEW root \in DOMAIN chain, NEW name, InvokeStatic(root, name)
    PROVE  IInv'
<1>1. PICK class \in 1..root :
          /\ class = ResolveMethod(root, name)
          /\ class \in DOMAIN chain
          /\ name \in Names(chain[class].vtable) \/ name \in Names(chain[class].statics)
          /\ name \in Names(chain[class].vtable) => class = root
          /\ \A d \in class + 1..root : name \notin Names(chain[d].vtable) /\ name \notin Names(chain[d].statics)
  <2>1. MethodHolder(root, name) # {}
    BY DEF InvokeStatic
  <2>2. QED
    BY <2>1, Resolved
<1>2. PICK method : method = MethodById(chain[class], MethodByName(chain[class], name))
  OBVIOUS
<1>3. last' = Ran(root, name, root, class, method) /\ UNCHANGED chain
  BY <1>1, <1>2 DEF InvokeStatic
<1>4. chain[class] \in VMClass /\ Placed(chain[class])
  BY <1>1, Classes
<1>5. root \in Nat /\ \A d \in 1..root : d \in DOMAIN chain
  BY Classes
<1>6. CASE name \in Names(chain[class].vtable)
  <2>1. PICK i \in DOMAIN chain[class].vtable : method = chain[class].vtable[i] /\ method.name = name
    BY <1>2, <1>4, <1>6, ByName
  <2>2. class = root
    BY <1>1, <1>6
  <2>3. Nearest(chain, root, method)
    BY <1>1, <2>1, <2>2, ExactEverywhere DEF IInv, Exact
  <2>4. QED
    BY <1>3, <1>5, <2>1, <2>2, <2>3, RanNearest
<1>7. CASE name \notin Names(chain[class].vtable)
  <2>1. PICK i \in DOMAIN chain[class].statics : method = chain[class].statics[i] /\ method.name = name
    BY <1>1, <1>2, <1>4, <1>7, ByName
  <2>2. method.owner = class
    BY <1>1, <2>1 DEF IInv, StaticsApart
  <2>3. DeclaredBy(chain, class, name)
    <3>1. DeclaredBy(chain, class, name) <=>
              \/ \E j \in DOMAIN chain[class].vtable : chain[class].vtable[j].name = name /\ chain[class].vtable[j].owner = class
              \/ \E j \in DOMAIN chain[class].statics : chain[class].statics[j].name = name /\ chain[class].statics[j].owner = class
      BY <1>4, DeclaredWhere
    <3>2. QED
      BY <2>1, <2>2, <3>1
  <2>4. ASSUME NEW d \in class + 1..root PROVE ~DeclaredBy(chain, d, name)
    <3>1. d \in 1..root
      BY <1>1, <1>5
    <3>2. chain[d] \in VMClass
      BY <1>5, <3>1, Classes
    <3>3. name \notin Names(chain[d].vtable) /\ name \notin Names(chain[d].statics)
      BY <1>1, <2>4
    <3>4. ~(\E j \in DOMAIN chain[d].vtable : chain[d].vtable[j].name = name)
      BY <3>3 DEF Names
    <3>5. ~(\E j \in DOMAIN chain[d].statics : chain[d].statics[j].name = name)
      BY <3>3 DEF Names
    <3>6. DeclaredBy(chain, d, name) <=>
              \/ \E j \in DOMAIN chain[d].vtable : chain[d].vtable[j].name = name /\ chain[d].vtable[j].owner = d
              \/ \E j \in DOMAIN chain[d].statics : chain[d].statics[j].name = name /\ chain[d].statics[j].owner = d
      BY <3>2, DeclaredWhere
    <3>7. QED
      BY <3>4, <3>5, <3>6
  <2>5. Nearest(chain, root, method)
    BY <1>1, <2>1, <2>2, <2>3, <2>4 DEF Nearest
  <2>6. QED
    BY <1>3, <1>5, <2>1, <2>2, <2>5, RanNearest
<1>8. QED
  BY <1>6, <1>7

LEMMA InvokeVirtualStep ==
    ASSUME IInv, NEW root \in DOMAIN chain, NEW name, NEW receiver \in root..Len(chain),
           InvokeVirtual(root, name, receiver)
    PROVE  IInv'
<1>1. PICK class \in 1..root :
          /\ class = ResolveMethod(root, name)
          /\ class \in DOMAIN chain
          /\ name \in Names(chain[class].vtable) \/ name \in Names(chain[class].statics)
          /\ name \in Names(chain[class].vtable) => class = root
  <2>1. MethodHolder(root, name) # {}
    BY DEF InvokeVirtual
  <2>2. QED
    BY <2>1, Resolved
<1>2. PICK method : method = MethodById(chain[class], MethodByName(chain[class], name))
  OBVIOUS
<1>3. PICK again : again = MethodAt(chain[receiver].vtable, method.name)
  OBVIOUS
<1>4. /\ MethodByName(chain[class], name).kind = "vtable"
      /\ last' = Ran(root, name, receiver, receiver, chain[receiver].vtable[again])
      /\ UNCHANGED chain
  BY <1>1, <1>2, <1>3 DEF InvokeVirtual
<1>5. chain[class] \in VMClass /\ Placed(chain[class])
  BY <1>1, Classes
<1>6. name \in Names(chain[class].vtable)
  <2>1. SUFFICES ASSUME name \notin Names(chain[class].vtable) PROVE FALSE
    OBVIOUS
  <2>2. MethodByName(chain[class], name).kind = "static"
    BY <1>1, <1>5, <2>1, ByName
  <2>3. QED
    BY <1>4, <2>2
<1>7. method.name = name
  BY <1>2, <1>5, <1>6, ByName
<1>8. root \in 1..receiver /\ receiver \in DOMAIN chain /\ receiver \in Nat
  BY Classes
<1>9. name \in Names(chain[receiver].vtable)
  <2>1. class = root
    BY <1>1, <1>6
  <2>2. Names(chain[root].vtable) \subseteq Names(chain[receiver].vtable)
    BY <1>8 DEF IInv, VTablesExact
  <2>3. QED
    BY <1>6, <2>1, <2>2
<1>10. /\ chain[receiver].vtable \in Seq(VMMethod)
       /\ DOMAIN chain[receiver].vtable = 1..Len(chain[receiver].vtable)
       /\ Len(chain[receiver].vtable) \in Nat
  BY <1>8, Classes, LenProperties
<1>11. again \in DOMAIN chain[receiver].vtable /\ chain[receiver].vtable[again].name = name
  <2>1. /\ again \in 0..Len(chain[receiver].vtable)
        /\ again # 0 /\ chain[receiver].vtable[again].name = name
    BY <1>3, <1>7, <1>9, <1>10, MethodPlace
  <2>2. QED
    BY <1>10, <2>1
<1>12. Nearest(chain, receiver, chain[receiver].vtable[again])
  BY <1>8, <1>11, ExactEverywhere DEF IInv, Exact
<1>13. QED
  BY <1>4, <1>8, <1>11, <1>12, RanNearest

-----------------------------------------------------------------------------
(* A field is accessed.                                                    *)

LEMMA AccessFieldStep ==
    ASSUME IInv, NEW here, NEW root \in DOMAIN chain, NEW name, NEW width,
           Declaring(root, name) # {}, AccessField(here, root, name, width)
    PROVE  IInv'
<1>1. UNCHANGED chain
  BY DEF AccessField
<1>2. root \in Nat /\ \A c \in 1..root : c \in DOMAIN chain
  BY Classes
<1>3. \A c \in 1..root : /\ chain[c].fields \in Seq(VMField)
                         /\ DOMAIN chain[c].fields = 1..Len(chain[c].fields) /\ Len(chain[c].fields) \in Nat
  BY <1>2, Classes, LenProperties
<1>4. last'.kind = "field" /\ last'.root = root /\ last'.name = name
  BY DEF AccessField, Accessed
<1>5. SelectsNearest'
  BY <1>4, SelectsNearestNext
<1>6. ASSUME \A c \in 1..root - 1 : Instance(chain[c].fields) = <<>>
      PROVE  last'.got = Meant(root, name)
  <2>1. ASSUME NEW c \in 1..root
        PROVE  /\ \A i \in DOMAIN chain[c].fields :
                     chain[c].fields[i].idx = i - 1 /\ chain[c].fields[i].owner = c
               /\ \A i, j \in DOMAIN chain[c].fields :
                     chain[c].fields[i].name = chain[c].fields[j].name => i = j
    <3>1. c > 1 => c - 1 \in 1..root - 1
      BY <1>2
    <3>2. c > 1 => Instance(chain[c - 1].fields) = <<>>
      BY <1>6, <3>1
    <3>3. QED
      BY <1>2, <3>2 DEF IInv, OwnFieldsPlaced
  <2>2. \A c \in 1..root : FieldByName(chain[c], name) # 0 <=> name \in Names(chain[c].fields)
    BY <1>3, FieldPlace
  <2>3. \A c \in 1..root :
          (\E f \in ToSet(chain[c].fields) : f.name = name /\ f.owner = c) <=> name \in Names(chain[c].fields)
    BY <2>1 DEF ToSet, Names
  <2>4. FieldHolder(root, name) = Declaring(root, name)
    BY <2>2, <2>3 DEF FieldHolder, Declaring
  <2>5. PICK class : class = Max(Declaring(root, name))
    OBVIOUS
  <2>6. class \in Declaring(root, name) /\ \A c \in Declaring(root, name) : c <= class
    <3>1. Declaring(root, name) \in SUBSET (1..root)
      BY DEF Declaring
    <3>2. QED
      BY <1>2, <2>5, <3>1, GreatestElement
  <2>7. class \in 1..root
    BY <2>6 DEF Declaring
  <2>8. ASSUME NEW place \in DOMAIN chain[class].fields, chain[class].fields[place].name = name
        PROVE  Meant(root, name) = chain[class].fields[place]
    <3>1. PICK f : f = chain[class].fields[place]
      OBVIOUS
    <3>2. f \in ToSet(chain[class].fields) /\ f.name = name /\ f.owner = class
      BY <2>1, <2>7, <2>8, <3>1 DEF ToSet
    <3>3. \A g \in ToSet(chain[class].fields) : g.name = name => g = f
      BY <2>1, <2>7, <2>8, <3>1 DEF ToSet
    <3>4. PICK m : m = CHOOSE g \in ToSet(chain[class].fields) : g.name = name /\ g.owner = class
      OBVIOUS
    <3>5. m \in ToSet(chain[class].fields) /\ m.name = name
      BY <3>2, <3>4
    <3>6. QED
      BY <2>5, <3>1, <3>3, <3>4, <3>5 DEF Meant
  <2>9. \A place \in DOMAIN chain[class].fields :
            /\ chain[class].fields[place].name = name
            /\ last' = Accessed(root, name, width, class, chain[class].fields[place].idx)
            => last'.got = Meant(root, name)
    <3> SUFFICES ASSUME NEW place \in DOMAIN chain[class].fields, chain[class].fields[place].name = name,
                        last' = Accessed(root, name, width, class, chain[class].fields[place].idx)
                 PROVE  last'.got = Meant(root, name)
      OBVIOUS
    <3>1. chain[class].fields[place].idx = place - 1
      BY <2>1, <2>7
    <3>2. place \in Nat /\ place - 1 < Len(chain[class].fields) /\ place - 1 + 1 = place
      BY <1>3, <2>7
    <3>3. last'.got = chain[class].fields[place]
      BY <3>1, <3>2 DEF Accessed
    <3>4. QED
      BY <2>8, <3>3
  <2>10. PICK own : own = FieldByNameAndType(chain[root], name, width)
    OBVIOUS
  <2>11. CASE here = root /\ own # 0
    <3>1. root \in 1..root
      BY <1>2, Classes
    <3>2. own \in DOMAIN chain[root].fields /\ chain[root].fields[own].name = name
      <4>1. own \in 1..Len(chain[root].fields) /\ chain[root].fields[own].name = name
        BY SMTT(60), <1>3, <2>10, <2>11, <3>1, TypedFieldPlace
      <4>2. QED
        BY <1>3, <3>1, <4>1
    <3>3. name \in Names(chain[root].fields)
      BY <3>2 DEF Names
    <3>4. root \in Declaring(root, name)
      BY <2>3, <3>1, <3>3 DEF Declaring
    <3>5. class = root
      BY <1>2, <2>6, <2>7, <3>4
    <3>6. last' = Accessed(root, name, width, root, chain[root].fields[own].idx)
      BY <2>10, <2>11 DEF AccessField
    <3>7. /\ own \in DOMAIN chain[class].fields /\ chain[class].fields[own].name = name
          /\ last' = Accessed(root, name, width, class, chain[class].fields[own].idx)
      BY <3>2, <3>5, <3>6
    <3>8. QED
      BY <2>9, <3>7
  <2>12. CASE ~(here = root /\ own # 0)
    <3>1. PICK place : place = FieldByName(chain[class], name)
      OBVIOUS
    <3>2. last' = Accessed(root, name, width, class, chain[class].fields[place].idx)
      BY <2>4, <2>5, <2>10, <2>12, <3>1 DEF AccessField
    <3>3. place # 0
      BY <2>4, <2>6, <3>1 DEF FieldHolder
    <3>4. place \in DOMAIN chain[class].fields /\ chain[class].fields[place].name = name
      <4>1. place \in 0..Len(chain[class].fields) /\ chain[class].fields[place].name = name
        BY <1>3, <2>7, <3>1, <3>3, FieldPlace
      <4>2. QED
        BY <1>3, <2>7, <3>3, <4>1
    <3>5. QED
      BY <2>9, <3>2, <3>4
  <2>13. QED
    BY <2>11, <2>12
<1>7. RightFieldAtRoot'
  <2>1. Meant(root, name)' = Meant(root, name)
    BY <1>1 DEF Meant, Declaring
  <2>2. QED
    BY <1>1, <1>4, <1>6, <2>1 DEF RightFieldAtRoot
<1>8. QED
  BY <1>1, <1>5, <1>7, SameChain

-----------------------------------------------------------------------------
(* The invariant.                                                          *)

LEMMA InitInv == Init => IInv
<1> SUFFICES ASSUME Init PROVE IInv
  OBVIOUS
<1>1. PICK entry : entry = [idx |-> 0, name |-> Ctor, owner |-> 1]
  OBVIOUS
<1>2. entry \in VMMethod
  BY <1>1, MethodAssumption DEF VMMethod
<1>3. PICK class : class = [vtable |-> <<entry>>, statics |-> <<>>, fields |-> <<>>]
  OBVIOUS
<1>4. class \in VMClass
  <2>1. <<entry>> \in Seq(VMMethod)
    BY <1>2
  <2>2. <<>> \in Seq(VMMethod) /\ <<>> \in Seq(VMField)
    OBVIOUS
  <2>3. QED
    BY <1>3, <2>1, <2>2 DEF VMClass
<1>5. chain = <<class>> /\ last = Nothing
  BY <1>1, <1>3 DEF Init, JavaLangObject
<1>6. /\ chain \in Seq(VMClass) /\ chain # <<>> /\ Len(chain) = 1 /\ DOMAIN chain = {1} /\ chain[1] = class
      /\ 1..1 = {1}
  BY <1>4, <1>5
<1>7. /\ DOMAIN class.vtable = {1} /\ class.vtable[1] = entry /\ DOMAIN class.statics = {}
      /\ class.fields = <<>> /\ DOMAIN class.fields = {}
  BY <1>3
<1>8. TypeOK
  BY <1>6 DEF TypeOK
<1>9. MethodsPlaced
  BY <1>1, <1>6, <1>7 DEF MethodsPlaced, Placed
<1>10. StaticsApart
  <2>1. Names(class.statics) = {}
    BY <1>7 DEF Names
  <2>2. QED
    BY <1>6, <1>7, <2>1 DEF StaticsApart
<1>11. VTablesExact
  <2>1. DeclaredBy(chain, 1, Ctor)
    <3>1. DeclaredBy(chain, 1, Ctor) <=>
              \/ \E i \in DOMAIN chain[1].vtable : chain[1].vtable[i].name = Ctor /\ chain[1].vtable[i].owner = 1
              \/ \E i \in DOMAIN chain[1].statics : chain[1].statics[i].name = Ctor /\ chain[1].statics[i].owner = 1
      BY <1>4, <1>6, DeclaredWhere
    <3>2. QED
      BY <1>1, <1>6, <1>7, <3>1
  <2>2. Nearest(chain, 1, entry)
    <3>1. 1 + 1..1 = {}
      OBVIOUS
    <3>2. QED
      BY <1>1, <1>6, <2>1, <3>1 DEF Nearest
  <2>3. Exact(chain, 1)
    BY <1>6, <1>7, <2>2 DEF Exact
  <2>4. QED
    BY <1>6, <2>3, ExactEverywhere
<1>12. FieldsPacked
  BY <1>6, <1>7, PackedEmpty DEF FieldsPacked
<1>13. FieldsInherited
  BY <1>6 DEF FieldsInherited
<1>14. OwnFieldsPlaced
  BY <1>6, <1>7 DEF OwnFieldsPlaced
<1>15. SelectsNearest /\ RightFieldAtRoot
  BY <1>5 DEF Nothing, SelectsNearest, RightFieldAtRoot
<1>16. QED
  BY <1>8, <1>9, <1>10, <1>11, <1>12, <1>13, <1>14, <1>15 DEF IInv

LEMMA NextInv == IInv /\ [Next]_vars => IInv'
<1> SUFFICES ASSUME IInv, [Next]_vars PROVE IInv'
  OBVIOUS
<1>1. CASE \E methods \in MethodFiles, fields \in FieldFiles : Create(methods, fields)
  BY <1>1, CreateStep
<1>2. CASE \E root \in DOMAIN chain, name \in Method : InvokeStatic(root, name)
  BY <1>2, InvokeStaticStep
<1>3. CASE \E root \in DOMAIN chain, name \in Method : \E receiver \in root..Len(chain) : InvokeVirtual(root, name, receiver)
  BY <1>3, InvokeVirtualStep
<1>4. CASE \E here, root \in DOMAIN chain, name \in Field :
              Declaring(root, name) # {} /\ AccessField(here, root, name, Meant(root, name).width)
  BY <1>4, AccessFieldStep
<1>5. CASE UNCHANGED vars
  <2>1. UNCHANGED chain /\ UNCHANGED last
    BY <1>5 DEF vars
  <2>2. SelectsNearest'
    <3>1. SelectsNearest
      BY DEF IInv
    <3>2. QED
      BY <2>1, <3>1 DEF SelectsNearest, Declares
  <2>3. RightFieldAtRoot'
    <3>1. RightFieldAtRoot
      BY DEF IInv
    <3>2. QED
      BY <2>1, <3>1 DEF RightFieldAtRoot, Meant, Declaring
  <2>4. QED
    BY <2>1, <2>2, <2>3, SameChain
<1>6. QED
  BY <1>1, <1>2, <1>3, <1>4, <1>5 DEF Next

(* All that is claimed of the tables of every class, and of the last       *)
(* instruction, holds in every state: VMClass::create and the four         *)
(* instructions keep it.                                                   *)
THEOREM Invariance == Spec => []IInv
BY InitInv, NextInv, PTL DEF Spec

(* The id of a method, its place in one of the two tables, leads back to   *)
(* it in every class that can be built.                                    *)
THEOREM IdsLeadBack == Spec => []IdsFindMethods
<1>1. IInv => IdsFindMethods
  <2> SUFFICES ASSUME IInv, NEW c \in DOMAIN chain, NEW name \in Method, MethodByName(chain[c], name) # Nothing
               PROVE  LET id == MethodByName(chain[c], name) IN
                      /\ id.idx < Len(IF id.kind = "vtable" THEN chain[c].vtable ELSE chain[c].statics)
                      /\ MethodById(chain[c], id).name = name
    BY DEF IdsFindMethods
  <2>1. /\ chain[c] \in VMClass /\ Placed(chain[c])
        /\ chain[c].vtable \in Seq(VMMethod) /\ chain[c].statics \in Seq(VMMethod)
    BY Classes
  <2>2. name \in Names(chain[c].vtable) \/ name \in Names(chain[c].statics)
    BY <2>1, ByName
  <2>3. /\ Len(chain[c].vtable) \in Nat /\ DOMAIN chain[c].vtable = 1..Len(chain[c].vtable)
        /\ Len(chain[c].statics) \in Nat /\ DOMAIN chain[c].statics = 1..Len(chain[c].statics)
    BY <2>1, LenProperties
  <2>4. PICK id : id = MethodByName(chain[c], name)
    OBVIOUS
  <2>5. CASE name \in Names(chain[c].vtable)
    <3>1. PICK i \in DOMAIN chain[c].vtable :
              id.kind = "vtable" /\ id.idx = i - 1 /\ MethodById(chain[c], id) = chain[c].vtable[i] /\ chain[c].vtable[i].name = name
      BY <2>1, <2>4, <2>5, ByName
    <3>2. id.idx < Len(chain[c].vtable)
      BY <2>3, <3>1
    <3>3. QED
      BY <2>4, <3>1, <3>2
  <2>6. CASE name \notin Names(chain[c].vtable)
    <3>1. PICK i \in DOMAIN chain[c].statics :
              id.kind = "static" /\ id.idx = i - 1 /\ MethodById(chain[c], id) = chain[c].statics[i] /\ chain[c].statics[i].name = name
      BY <2>1, <2>2, <2>4, <2>6, ByName
    <3>2. id.idx < Len(chain[c].statics) /\ id.kind # "vtable"
      BY <2>3, <3>1
    <3>3. QED
      BY <2>4, <3>1, <3>2
  <2>7. QED
    BY <2>5, <2>6
<1>2. QED
  BY <1>1, Invariance, PTL

(* Every invocation runs the method of the nearest class that declares it, *)
(* with the right constant pool when that is the receiver's own class.     *)
THEOREM Dispatch == Spec => []SelectsNearest
<1>1. IInv => SelectsNearest
  BY DEF IInv
<1>2. QED
  BY <1>1, Invariance, PTL

(* The instance fields of an object have their slots to themselves, within *)
(* the object, and a subclass keeps them where they are.                   *)
THEOREM Layout == Spec => []ObjectLayout
<1>1. IInv => ObjectLayout
  <2> SUFFICES ASSUME IInv PROVE ObjectLayout
    OBVIOUS
  <2>1. ASSUME NEW c \in DOMAIN chain,
               NEW i \in DOMAIN Instance(chain[c].fields), NEW j \in DOMAIN Instance(chain[c].fields)
        PROVE  LET fs == Instance(chain[c].fields) IN
               /\ Slots(fs[i]) \subseteq 0..FieldsSlots(chain[c].fields) - 1
               /\ i # j => Slots(fs[i]) \cap Slots(fs[j]) = {}
    <3>1. PICK fields : fields = chain[c].fields /\ fields \in Seq(VMField)
      BY Classes
    <3>2. PICK fs : fs = Instance(fields) /\ fs \in Seq(VMField)
      BY <3>1, InstanceFields
    <3>3. PICK end, size : end = NextOffset(fields) /\ end \in Nat /\ size = FieldsSlots(fields) /\ size \in Nat
      BY <3>1, NextOffsetNat, SlotsSteps, LenProperties
    <3>4. \A k \in DOMAIN fs : fs[k].off \in Nat /\ fs[k].width \in Nat
      <4>1. SUFFICES ASSUME NEW k \in DOMAIN fs PROVE fs[k].off \in Nat /\ fs[k].width \in Nat
        OBVIOUS
      <4>2. PICK f \in VMField : f = fs[k]
        BY <3>2, LenProperties, ElementOfSeq
      <4>3. QED
        BY <4>2 DEF VMField, Width
    <3>5. /\ \A k \in DOMAIN fs : fs[k].off + fs[k].width <= end
          /\ \A k, l \in DOMAIN fs : k < l => fs[k].off + fs[k].width <= fs[l].off
          /\ end <= size
      BY <3>1, <3>2, <3>3 DEF IInv, FieldsPacked, Packed
    <3>6. i \in DOMAIN fs /\ j \in DOMAIN fs /\ i \in Nat /\ j \in Nat
      BY <3>1, <3>2, LenProperties
    <3>7. Slots(fs[i]) \subseteq 0..size - 1
      BY <3>3, <3>4, <3>5, <3>6 DEF Slots
    <3>8. ASSUME i # j PROVE Slots(fs[i]) \cap Slots(fs[j]) = {}
      <4>1. fs[i].off + fs[i].width <= fs[j].off \/ fs[j].off + fs[j].width <= fs[i].off
        BY <3>5, <3>6, <3>8
      <4>2. QED
        BY <3>4, <3>6, <4>1 DEF Slots
    <3>9. QED
      BY <3>1, <3>2, <3>3, <3>7, <3>8
  <2>2. ASSUME NEW c \in DOMAIN chain, NEW d \in c..Len(chain), NEW f \in ToSet(Instance(chain[c].fields))
        PROVE  \E g \in ToSet(chain[d].fields) :
                  <<g.name, g.owner, g.off, g.width>> = <<f.name, f.owner, f.off, f.width>>
    <3>1. d \in DOMAIN chain /\ c \in 1..d
      BY Classes
    <3>2. f \in ToSet(Instance(chain[d].fields))
      BY <3>1 DEF IInv, FieldsInherited
    <3>3. PICK fields : fields = chain[d].fields /\ fields \in Seq(VMField)
      BY <3>1, Classes
    <3>4. PICK fs : fs = Instance(fields) /\ fs \in Seq(VMField) /\ DOMAIN fs = 1..Len(fs)
      BY <3>3, InstanceFields, LenProperties
    <3>5. PICK k \in 1..Len(fs) : f = fs[k]
      BY <3>2, <3>3, <3>4 DEF ToSet
    <3>6. \E i \in 1..Len(fields) : fs[k] = fields[i]
      BY <3>3, <3>4, InstanceFields
    <3>7. f \in ToSet(fields)
      BY <3>3, <3>5, <3>6, LenProperties DEF ToSet
    <3>8. QED
      BY <3>3, <3>7
  <2>3. QED
    BY <2>1, <2>2 DEF ObjectLayout
<1>2. QED
  BY <1>1, Invariance, PTL

(* A field instruction gets the field it means as long as no superclass of *)
(* the class it names has instance fields.                                 *)
THEOREM FieldAtRoot == Spec => []RightFieldAtRoot
<1>1. IInv => RightFieldAtRoot
  BY DEF IInv
<1>2. QED
  BY <1>1, Invariance, PTL
=============================================================================
