-------------------------- MODULE ThreadContextProofs --------------------------
(* Proofs about ThreadContext, for every set of values and any limits of   *)
(* operand stacks, local variables and invocations.                        *)
EXTENDS ThreadContext, SequenceTheorems, TLAPS

-----------------------------------------------------------------------------
(* Parts of the two vectors. *)

(* Part of a vector: its length and its slots.                             *)
LEMMA Part ==
    ASSUME NEW s \in Seq(Slot), NEW m \in Nat \ {0}, NEW n \in Nat, m <= n + 1, n <= Len(s)
    PROVE  /\ SubSeq(s, m, n) \in Seq(Slot) /\ Len(SubSeq(s, m, n)) = n - m + 1
           /\ \A i \in 1..n - m + 1 : SubSeq(s, m, n)[i] = s[m + i - 1]
<1>1. Len(s) \in Nat /\ \A i \in 1..Len(s) : s[i] \in Slot
  BY LenProperties, ElementOfSeq
<1>2. \A i \in m..n : s[i] \in Slot
  BY <1>1
<1>3. m \in Int /\ n \in Int /\ (m <= n \/ m = n + 1)
  OBVIOUS
<1>4. /\ SubSeq(s, m, n) \in Seq(Slot)
      /\ Len(SubSeq(s, m, n)) = IF m <= n THEN n - m + 1 ELSE 0
      /\ \A i \in 1..n - m + 1 : SubSeq(s, m, n)[i] = s[m + i - 1]
  BY <1>2, <1>3, SubSeqProperties
<1>5. QED
  BY <1>3, <1>4

(* A vector behind another one.                                            *)
LEMMA Joined ==
    ASSUME NEW s \in Seq(Slot), NEW r \in Seq(Slot)
    PROVE  /\ s \o r \in Seq(Slot) /\ Len(s \o r) = Len(s) + Len(r)
           /\ Len(s) \in Nat /\ Len(r) \in Nat
           /\ \A i \in 1..Len(s) : (s \o r)[i] = s[i]
           /\ \A i \in 1..Len(r) : (s \o r)[Len(s) + i] = r[i]
<1>1. Len(s) \in Nat /\ Len(r) \in Nat
  BY LenProperties
<1>2. /\ s \o r \in Seq(Slot)
      /\ Len(s \o r) = Len(s) + Len(r)
      /\ \A i \in 1..Len(s) + Len(r) :
            (s \o r)[i] = IF i <= Len(s) THEN s[i] ELSE r[i - Len(s)]
  BY ConcatProperties
<1>3. \A i \in 1..Len(s) : i \in 1..Len(s) + Len(r) /\ i <= Len(s)
  BY <1>1
<1>4. ASSUME NEW i \in 1..Len(r)
      PROVE  (s \o r)[Len(s) + i] = r[i]
  <2>1. Len(s) + i \in 1..Len(s) + Len(r) /\ ~(Len(s) + i <= Len(s)) /\ (Len(s) + i) - Len(s) = i
    BY <1>1
  <2>2. QED
    BY <2>1, <1>2
<1>5. QED
  BY <1>1, <1>2, <1>3, <1>4

(* Two vectors of the same slots are the same.                             *)
LEMMA Same ==
    ASSUME NEW s \in Seq(Slot), NEW r \in Seq(Slot), Len(s) = Len(r),
           \A i \in 1..Len(s) : s[i] = r[i]
    PROVE  s = r
BY SeqEqual

(* The same part of two vectors that begin alike.                          *)
LEMMA SamePart ==
    ASSUME NEW s \in Seq(Slot), NEW r \in Seq(Slot), NEW m \in Nat \ {0}, NEW n \in Nat,
           m <= n + 1, n <= Len(s), n <= Len(r), \A i \in 1..n : s[i] = r[i]
    PROVE  SubSeq(s, m, n) = SubSeq(r, m, n)
<1>1. /\ SubSeq(s, m, n) \in Seq(Slot) /\ Len(SubSeq(s, m, n)) = n - m + 1
      /\ \A i \in 1..n - m + 1 : SubSeq(s, m, n)[i] = s[m + i - 1]
  BY Part
<1>2. /\ SubSeq(r, m, n) \in Seq(Slot) /\ Len(SubSeq(r, m, n)) = n - m + 1
      /\ \A i \in 1..n - m + 1 : SubSeq(r, m, n)[i] = r[m + i - 1]
  BY Part
<1>3. \A i \in 1..n - m + 1 : m + i - 1 \in 1..n
  OBVIOUS
<1>4. QED
  BY <1>1, <1>2, <1>3, Same

(* The same part, that begins behind slot p, where n slots agree.          *)
LEMMA KeptPart ==
    ASSUME NEW s \in Seq(Slot), NEW r \in Seq(Slot), NEW p \in Nat, NEW q \in Nat, NEW n \in Nat,
           p <= q, q <= n, n <= Len(s), n <= Len(r), \A i \in 1..n : s[i] = r[i]
    PROVE  SubSeq(s, p + 1, q) = SubSeq(r, p + 1, q)
<1>1. PICK x \in Nat, y \in Nat : x = Len(s) /\ y = Len(r) /\ n <= x /\ n <= y
  BY LenProperties
<1>2. n <= x /\ n <= y
  BY <1>1
<1>3. p + 1 \in Nat \ {0} /\ p + 1 <= q + 1 /\ q <= x /\ q <= y /\ \A i \in 1..q : i \in 1..n
  BY <1>2
<1>4. QED
  BY <1>1, <1>3, SamePart

(* A part that begins behind slot p.                                       *)
LEMMA PartBehind ==
    ASSUME NEW s \in Seq(Slot), NEW p \in Nat, NEW q \in Nat, p <= q, q <= Len(s)
    PROVE  /\ SubSeq(s, p + 1, q) \in Seq(Slot) /\ Len(SubSeq(s, p + 1, q)) = q - p
           /\ \A i \in 1..q - p : SubSeq(s, p + 1, q)[i] = s[p + i]
<1>1. /\ p + 1 \in Nat \ {0} /\ p + 1 <= q + 1 /\ q - (p + 1) + 1 = q - p
      /\ \A i \in 1..q - p : p + 1 + i - 1 = p + i
  OBVIOUS
<1>2. /\ SubSeq(s, p + 1, q) \in Seq(Slot) /\ Len(SubSeq(s, p + 1, q)) = q - (p + 1) + 1
      /\ \A i \in 1..q - (p + 1) + 1 : SubSeq(s, p + 1, q)[i] = s[p + 1 + i - 1]
  BY <1>1, Part
<1>3. QED
  BY <1>1, <1>2

(* Three vectors behind one another.                                       *)
LEMMA Associative ==
    ASSUME NEW s \in Seq(Slot), NEW r \in Seq(Slot), NEW u \in Seq(Slot)
    PROVE  (s \o r) \o u = s \o (r \o u)
BY SMTT(60), ConcatAssociative

(* What is behind slot a of two joined vectors.                            *)
LEMMA Behind ==
    ASSUME NEW s \in Seq(Slot), NEW r \in Seq(Slot), NEW a \in Nat, a <= Len(s)
    PROVE  SubSeq(s \o r, a + 1, Len(s \o r)) = SubSeq(s, a + 1, Len(s)) \o r
<1> DEFINE x == SubSeq(s, a + 1, Len(s))
           y == SubSeq(s \o r, a + 1, Len(s \o r))
           m == a + 1
<1>1. /\ s \o r \in Seq(Slot) /\ Len(s \o r) = Len(s) + Len(r)
      /\ Len(s) \in Nat /\ Len(r) \in Nat
      /\ \A i \in 1..Len(s) : (s \o r)[i] = s[i]
      /\ \A i \in 1..Len(r) : (s \o r)[Len(s) + i] = r[i]
  BY Joined
<1>2. m \in Nat \ {0} /\ m <= Len(s) + 1 /\ m <= Len(s \o r) + 1 /\ Len(s \o r) \in Nat
  BY <1>1
<1> HIDE DEF m
<1>3. /\ x \in Seq(Slot) /\ Len(x) = Len(s) - m + 1
      /\ \A i \in 1..Len(s) - m + 1 : x[i] = s[m + i - 1]
  BY <1>1, <1>2, Part DEF m
<1>4. /\ y \in Seq(Slot) /\ Len(y) = Len(s \o r) - m + 1
      /\ \A i \in 1..Len(s \o r) - m + 1 : y[i] = (s \o r)[m + i - 1]
  BY <1>1, <1>2, Part DEF m
<1> HIDE DEF x, y
<1>5. /\ x \o r \in Seq(Slot) /\ Len(x \o r) = Len(x) + Len(r)
      /\ \A i \in 1..Len(x) : (x \o r)[i] = x[i]
      /\ \A i \in 1..Len(r) : (x \o r)[Len(x) + i] = r[i]
  BY <1>3, Joined
<1>6. ASSUME NEW i \in 1..Len(y)
      PROVE  y[i] = (x \o r)[i]
  <2>1. y[i] = (s \o r)[m + i - 1] /\ i \in Nat
    BY <1>1, <1>2, <1>4
  <2>2. CASE i <= Len(x)
    <3>1. i \in 1..Len(x) /\ m + i - 1 \in 1..Len(s) /\ i \in 1..Len(s) - m + 1
      BY <2>1, <2>2, <1>1, <1>2, <1>3
    <3>2. QED
      BY <2>1, <3>1, <1>1, <1>3, <1>5
  <2>3. CASE i > Len(x)
    <3>1. PICK j \in 1..Len(r) : i = Len(x) + j /\ m + i - 1 = Len(s) + j
      <4>1. i - Len(x) \in 1..Len(r) /\ i = Len(x) + (i - Len(x)) /\ m + i - 1 = Len(s) + (i - Len(x))
        BY <2>1, <2>3, <1>1, <1>2, <1>3, <1>4
      <4>2. QED
        BY <4>1
    <3>2. QED
      BY <2>1, <3>1, <1>1, <1>5
  <2>4. PICK n \in Nat : n = Len(x)
    BY <1>3, LenProperties
  <2>5. PICK k \in Nat : k = i
    BY <2>1
  <2>6. k <= n \/ k > n
    OBVIOUS
  <2>7. QED
    BY <2>2, <2>3, <2>4, <2>5, <2>6
<1>7. Len(y) = Len(x \o r)
  BY SMTT(60), <1>1, <1>2, <1>3, <1>4, <1>5
<1>8. y = x \o r
  BY <1>4, <1>5, <1>6, <1>7, Same
<1>9. QED
  BY <1>8 DEF x, y

(* A part of a part.                                                       *)
LEMMA PartOfPart ==
    ASSUME NEW s \in Seq(Slot), NEW a \in Nat \ {0}, NEW b \in Nat, a <= b + 1, b <= Len(s),
           NEW c \in Nat \ {0}, NEW d \in Nat, c <= d + 1, d <= b - a + 1
    PROVE  SubSeq(SubSeq(s, a, b), c, d) = SubSeq(s, a + c - 1, a + d - 1)
<1> DEFINE x == SubSeq(s, a, b)
           m == a + c - 1
           n == a + d - 1
<1>1. /\ x \in Seq(Slot) /\ Len(x) = b - a + 1
      /\ \A i \in 1..b - a + 1 : x[i] = s[a + i - 1]
  BY Part
<1>2. m \in Nat \ {0} /\ n \in Nat /\ m <= n + 1 /\ n <= Len(s) /\ n - m + 1 = d - c + 1
  BY LenProperties
<1> HIDE DEF x
<1>3. /\ SubSeq(x, c, d) \in Seq(Slot) /\ Len(SubSeq(x, c, d)) = d - c + 1
      /\ \A i \in 1..d - c + 1 : SubSeq(x, c, d)[i] = x[c + i - 1]
  BY <1>1, Part
<1> HIDE DEF m, n
<1>4. /\ SubSeq(s, m, n) \in Seq(Slot) /\ Len(SubSeq(s, m, n)) = n - m + 1
      /\ \A i \in 1..n - m + 1 : SubSeq(s, m, n)[i] = s[m + i - 1]
  BY <1>2, Part
<1>5. ASSUME NEW i \in 1..d - c + 1
      PROVE  SubSeq(x, c, d)[i] = SubSeq(s, m, n)[i]
  <2>1. c + i - 1 \in 1..b - a + 1 /\ a + (c + i - 1) - 1 = m + i - 1
    BY DEF m
  <2>2. x[c + i - 1] = s[m + i - 1]
    BY <2>1, <1>1
  <2>3. QED
    BY <2>2, <1>2, <1>3, <1>4
<1>6. SubSeq(x, c, d) = SubSeq(s, m, n)
  BY <1>2, <1>3, <1>4, <1>5, Same
<1>7. QED
  BY <1>6 DEF x, m, n

-----------------------------------------------------------------------------
(* The frames that the two vectors stand for. *)

Operands == TopSlots(Depth)
Variables == SubSeq(locals, currentFrame.localsStart + 1, Len(locals))
Callers == [i \in DOMAIN prevFrames |-> Caller(i)]

(* The current frame lies at the end of the vectors.                       *)
LEMMA CurrentFrame ==
    ASSUME TypeOK
    PROVE  /\ currentFrame.stackStart \in Nat /\ currentFrame.stackStart <= Len(stack)
           /\ currentFrame.localsStart \in Nat /\ currentFrame.localsStart <= Len(locals)
           /\ stack \in Seq(Slot) /\ Len(stack) \in Nat /\ locals \in Seq(Slot) /\ Len(locals) \in Nat
           /\ Depth \in Nat /\ Depth = Len(stack) - currentFrame.stackStart /\ Depth <= Len(stack)
           /\ Operands \in Seq(Slot) /\ Len(Operands) = Depth
           /\ Operands = SubSeq(stack, currentFrame.stackStart + 1, Len(stack))
           /\ Variables \in Seq(Slot) /\ Len(Variables) = Len(locals) - currentFrame.localsStart
<1>1. PICK a \in Nat : a = currentFrame.stackStart /\ a <= Len(stack)
  BY LenProperties DEF TypeOK
<1>2. PICK b \in Nat : b = currentFrame.localsStart /\ b <= Len(locals)
  BY LenProperties DEF TypeOK
<1>3. stack \in Seq(Slot) /\ Len(stack) \in Nat /\ locals \in Seq(Slot) /\ Len(locals) \in Nat
  BY LenProperties DEF TypeOK
<1>4. Depth \in Nat /\ Depth = Len(stack) - a /\ Len(stack) - Depth + 1 = a + 1 /\ Depth <= Len(stack)
  BY <1>1, <1>3 DEF Depth
<1>5. Operands = SubSeq(stack, a + 1, Len(stack))
  BY <1>4 DEF Operands, TopSlots
<1>6. Operands \in Seq(Slot) /\ Len(Operands) = Len(stack) - (a + 1) + 1
  BY SMTT(60), <1>1, <1>3, <1>5, Part
<1>7. Variables \in Seq(Slot) /\ Len(Variables) = Len(locals) - (b + 1) + 1
  BY <1>2, <1>3, Part DEF Variables
<1>8. \A m, k \in Nat : m - (k + 1) + 1 = m - k
  OBVIOUS
<1>9. QED
  BY <1>1, <1>2, <1>3, <1>4, <1>5, <1>6, <1>7, <1>8

(* Its topmost slots, and what is below them.                              *)
LEMMA TopAndRest ==
    ASSUME TypeOK, NEW n \in Nat, n <= Depth
    PROVE  /\ SubSeq(Operands, Len(Operands) - n + 1, Len(Operands)) = TopSlots(n)
           /\ SubSeq(Operands, 1, Len(Operands) - n)
                = SubSeq(stack, currentFrame.stackStart + 1, Len(stack) - n)
           /\ TopSlots(n) \in Seq(Slot) /\ Len(TopSlots(n)) = n
           /\ Popped(n) \in Seq(Slot) /\ Len(Popped(n)) = Len(stack) - n
           /\ \A i \in 1..Len(stack) - n : Popped(n)[i] = stack[i]
<1>1. PICK a \in Nat : a = currentFrame.stackStart /\ a <= Len(stack)
  BY CurrentFrame
<1>2. PICK l \in Nat : l = Len(stack) /\ stack \in Seq(Slot) /\ n <= l - a /\ a <= l
  BY <1>1, CurrentFrame
<1>3. /\ Operands \in Seq(Slot) /\ Len(Operands) = l - a
      /\ Operands = SubSeq(stack, a + 1, l)
  BY <1>1, <1>2, CurrentFrame
<1>4. SubSeq(Operands, l - a - n + 1, l - a) = TopSlots(n)
  <2>1. SubSeq(SubSeq(stack, a + 1, l), l - a - n + 1, l - a)
          = SubSeq(stack, (a + 1) + (l - a - n + 1) - 1, (a + 1) + (l - a) - 1)
    <3>1. l - a - n + 1 \in Nat \ {0} /\ l - a \in Nat /\ a + 1 \in Nat \ {0}
      BY <1>2
    <3>2. l - a - n + 1 <= (l - a) + 1 /\ l - a <= l - (a + 1) + 1 /\ a + 1 <= l + 1 /\ l <= Len(stack)
      BY <1>2
    <3>3. QED
      BY SMTT(60), <1>2, <3>1, <3>2, PartOfPart
  <2>2. (a + 1) + (l - a - n + 1) - 1 = l - n + 1 /\ (a + 1) + (l - a) - 1 = l
    OBVIOUS
  <2>3. QED
    BY <2>1, <2>2, <1>2, <1>3 DEF TopSlots
<1>5. SubSeq(Operands, 1, l - a - n) = SubSeq(stack, a + 1, l - n)
  <2>1. SubSeq(SubSeq(stack, a + 1, l), 1, l - a - n)
          = SubSeq(stack, (a + 1) + 1 - 1, (a + 1) + (l - a - n) - 1)
    <3>1. 1 \in Nat \ {0} /\ l - a - n \in Nat /\ a + 1 \in Nat \ {0}
      BY <1>2
    <3>2. 1 <= (l - a - n) + 1 /\ l - a - n <= l - (a + 1) + 1 /\ a + 1 <= l + 1 /\ l <= Len(stack)
      BY <1>2
    <3>3. QED
      BY <1>2, <3>1, <3>2, PartOfPart
  <2>2. (a + 1) + 1 - 1 = a + 1 /\ (a + 1) + (l - a - n) - 1 = l - n
    OBVIOUS
  <2>3. QED
    BY <2>1, <2>2, <1>3
<1>6. TopSlots(n) \in Seq(Slot) /\ Len(TopSlots(n)) = l - (l - n + 1) + 1
  <2>1. l - n + 1 \in Nat \ {0} /\ l - n + 1 <= l + 1
    BY <1>2
  <2>2. QED
    BY <1>2, <2>1, Part DEF TopSlots
<1>7. /\ Popped(n) \in Seq(Slot) /\ Len(Popped(n)) = (l - n) - 1 + 1
      /\ \A i \in 1..(l - n) - 1 + 1 : Popped(n)[i] = stack[1 + i - 1]
  <2>1. l - n \in Nat /\ 1 \in Nat \ {0} /\ 1 <= (l - n) + 1 /\ l - n <= Len(stack)
    BY <1>2
  <2>2. QED
    BY <1>2, <2>1, Part DEF Popped
<1>8. /\ l - (l - n + 1) + 1 = n /\ (l - n) - 1 + 1 = l - n
      /\ \A i \in 1..l - n : 1 + i - 1 = i
  BY <1>2
<1>9. QED
  BY <1>1, <1>2, <1>3, <1>4, <1>5, <1>6, <1>7, <1>8

(* The frames one by one.                                                  *)
LEMMA FrameList ==
    ASSUME TypeOK
    PROVE  /\ Len(prevFrames) \in Nat /\ DOMAIN prevFrames = 1..Len(prevFrames)
           /\ Frames \in Seq(StackFrame) /\ Len(Frames) = Len(prevFrames) + 1
           /\ \A i \in 1..Len(prevFrames) : Frames[i] = prevFrames[i]
           /\ Frames[Len(prevFrames) + 1] = currentFrame
           /\ \A i \in 1..Len(prevFrames) + 1 :
                 /\ Frames[i] \in StackFrame
                 /\ Frames[i].stackStart \in Nat /\ Frames[i].localsStart \in Nat
                 /\ Frames[i].stackStart <= currentFrame.stackStart
                 /\ Frames[i].localsStart <= currentFrame.localsStart
           /\ \A i \in 1..Len(prevFrames) :
                 /\ i + 1 \in 1..Len(prevFrames) + 1
                 /\ Frames[i].stackStart <= Frames[i+1].stackStart
                 /\ Frames[i].localsStart <= Frames[i+1].localsStart
<1>1. /\ Len(prevFrames) \in Nat /\ DOMAIN prevFrames = 1..Len(prevFrames)
      /\ Frames \in Seq(StackFrame) /\ Len(Frames) = Len(prevFrames) + 1
      /\ \A i \in 1..Len(prevFrames) : Frames[i] = prevFrames[i]
      /\ Frames[Len(prevFrames) + 1] = currentFrame
  BY AppendProperties, LenProperties DEF TypeOK, Frames
<1>2. \A i \in 1..Len(prevFrames) + 1 : Frames[i] \in StackFrame
  BY <1>1, ElementOfSeq
<1>3. \A i, j \in 1..Len(prevFrames) + 1 : i <= j =>
          /\ Frames[i].stackStart <= Frames[j].stackStart
          /\ Frames[i].localsStart <= Frames[j].localsStart
  BY <1>1 DEF TypeOK
<1>4. \A i \in 1..Len(prevFrames) + 1 : Len(prevFrames) + 1 \in 1..Len(prevFrames) + 1 /\ i <= Len(prevFrames) + 1
  BY <1>1
<1>5. \A i \in 1..Len(prevFrames) : i + 1 \in 1..Len(prevFrames) + 1 /\ i \in 1..Len(prevFrames) + 1 /\ i <= i + 1
  BY <1>1
<1>6. \A i \in 1..Len(prevFrames) + 1 : Frames[i].stackStart \in Nat /\ Frames[i].localsStart \in Nat
  BY <1>2 DEF StackFrame
<1>7. QED
  BY <1>1, <1>2, <1>3, <1>4, <1>5, <1>6

(* While no frame comes or goes, and what is in front of the current one   *)
(* stays as it is, so do the callers.                                      *)
LEMMA CallersStay ==
    ASSUME TypeOK, prevFrames' = prevFrames, currentFrame' = currentFrame,
           stack' \in Seq(Slot), locals' \in Seq(Slot), status' \in {"running", "failed", "ended"},
           currentFrame.stackStart <= Len(stack'), currentFrame.localsStart <= Len(locals'),
           \A i \in 1..currentFrame.stackStart : stack'[i] = stack[i],
           \A i \in 1..currentFrame.localsStart : locals'[i] = locals[i]
    PROVE  TypeOK' /\ Callers' = Callers
<1>1. PICK stk \in Seq(Slot), loc \in Seq(Slot) : stk = stack' /\ loc = locals'
  OBVIOUS
<1>2. PICK a \in Nat, b \in Nat : /\ a = currentFrame.stackStart /\ b = currentFrame.localsStart
                                  /\ a <= Len(stack) /\ b <= Len(locals)
  BY CurrentFrame
<1>3. Frames' = Frames
  BY DEF Frames
<1>4. TypeOK'
  <2>1. currentFrame'.stackStart \in 0..Len(stack') /\ currentFrame'.localsStart \in 0..Len(locals')
    BY <1>1, <1>2, LenProperties
  <2>2. QED
    BY <1>3, <2>1 DEF TypeOK
<1>5. ASSUME NEW i \in 1..Len(prevFrames)
      PROVE  Caller(i)' = Caller(i)
  <2>1. PICK p \in Nat, q \in Nat : p = Frames[i].stackStart /\ q = Frames[i+1].stackStart /\ p <= q /\ q <= a
    BY SMTT(60), <1>2, FrameList
  <2>2. PICK u \in Nat, v \in Nat : u = Frames[i].localsStart /\ v = Frames[i+1].localsStart /\ u <= v /\ v <= b
    BY SMTT(60), <1>2, FrameList
  <2>3. SubSeq(stk, p + 1, q) = SubSeq(stack, p + 1, q)
    <3>1. p + 1 \in Nat \ {0} /\ p + 1 <= q + 1 /\ q <= Len(stk) /\ q <= Len(stack)
      <4>1. PICK m \in Nat, n \in Nat : m = Len(stk) /\ n = Len(stack) /\ a <= m /\ a <= n
        BY <1>1, <1>2, LenProperties, CurrentFrame
      <4>2. p <= q /\ q <= a /\ a <= m /\ a <= n
        BY <4>1, <2>1
      <4>3. q <= m /\ q <= n /\ p + 1 \in Nat \ {0} /\ p + 1 <= q + 1
        BY <4>2
      <4>4. QED
        BY <4>1, <4>3
    <3>2. \A k \in 1..q : stk[k] = stack[k]
      BY SMTT(60), <1>1, <1>2, <2>1
    <3>3. stack \in Seq(Slot)
      BY CurrentFrame
    <3>4. QED
      BY <3>1, <3>2, <3>3, SamePart
  <2>4. SubSeq(loc, u + 1, v) = SubSeq(locals, u + 1, v)
    <3>1. u + 1 \in Nat \ {0} /\ u + 1 <= v + 1 /\ v <= Len(loc) /\ v <= Len(locals)
      <4>1. PICK m \in Nat, n \in Nat : m = Len(loc) /\ n = Len(locals) /\ b <= m /\ b <= n
        BY <1>1, <1>2, LenProperties, CurrentFrame
      <4>2. u <= v /\ v <= b /\ b <= m /\ b <= n
        BY <4>1, <2>2
      <4>3. v <= m /\ v <= n /\ u + 1 \in Nat \ {0} /\ u + 1 <= v + 1
        BY <4>2
      <4>4. QED
        BY <4>1, <4>3
    <3>2. \A k \in 1..v : loc[k] = locals[k]
      BY SMTT(60), <1>1, <1>2, <2>2
    <3>3. locals \in Seq(Slot)
      BY CurrentFrame
    <3>4. QED
      BY <3>1, <3>2, <3>3, SamePart
  <2>5. QED
    BY <1>1, <1>3, <2>1, <2>2, <2>3, <2>4 DEF Caller
<1>6. Callers' = Callers
  <2>1. DOMAIN prevFrames = 1..Len(prevFrames)
    BY FrameList
  <2>2. QED
    BY <1>5, <2>1 DEF Callers
<1>7. QED
  BY <1>4, <1>6

(* An instruction that pops slots of the frame and pushes others, and      *)
(* changes no variables but the frame's own.                               *)
LEMMA StackStep ==
    ASSUME TypeOK, NEW n \in Nat, n <= Depth, NEW r \in Seq(Slot), stack' = Popped(n) \o r,
           prevFrames' = prevFrames, currentFrame' = currentFrame, status' = status,
           locals' \in Seq(Slot), Len(locals') = Len(locals),
           \A i \in 1..currentFrame.localsStart : locals'[i] = locals[i]
    PROVE  /\ TypeOK' /\ Callers' = Callers
           /\ Operands' = SubSeq(Operands, 1, Len(Operands) - n) \o r
<1>1. PICK a \in Nat, l \in Nat : a = currentFrame.stackStart /\ l = Len(stack) /\ a <= l /\ Depth = l - a
  BY CurrentFrame
<1>2. a <= l /\ n <= l - a
  BY <1>1
<1>3. PICK q \in Nat : q = l - n /\ a <= q /\ q <= l
  <2>1. l - n \in Nat /\ a <= l - n /\ l - n <= l
    BY <1>2
  <2>2. QED
    BY <2>1
<1>4. a <= q /\ q <= l
  BY <1>3
<1>5. PICK P \in Seq(Slot) : /\ P = Popped(n) /\ Len(P) = q /\ \A i \in 1..q : P[i] = stack[i]
                             /\ SubSeq(Operands, 1, Len(Operands) - n) = SubSeq(stack, a + 1, q)
  BY <1>1, <1>3, TopAndRest
<1>6. PICK k \in Nat : k = Len(r)
  BY LenProperties
<1>7. PICK stk \in Seq(Slot) : stk = P \o r /\ Len(stk) = q + k /\ \A i \in 1..q : stk[i] = P[i]
  BY ZenonT(60), <1>5, <1>6, Joined
<1>8. stk = stack'
  BY <1>5, <1>7
<1>9. PICK m \in Nat : m = q + k /\ a <= m /\ q <= m
  BY <1>4
<1>10. Len(stk) = m /\ a <= m /\ m - (m - a) + 1 = a + 1
  BY <1>7, <1>9
<1>11. \A i \in 1..a : i \in 1..q
  BY <1>4
<1>12. TypeOK' /\ Callers' = Callers
  <2>1. \A i \in 1..a : stk[i] = stack[i]
    BY <1>5, <1>7, <1>11
  <2>2. currentFrame.localsStart <= Len(locals')
    BY CurrentFrame
  <2>3. status' \in {"running", "failed", "ended"}
    BY DEF TypeOK
  <2>4. QED
    BY <1>1, <1>8, <1>10, <2>1, <2>2, <2>3, CallersStay
<1>13. Operands' = SubSeq(stk, a + 1, Len(stk))
  <2>1. Depth' = m - a
    BY <1>1, <1>8, <1>10 DEF Depth
  <2>2. Operands' = SubSeq(stk, m - (m - a) + 1, m)
    BY <1>8, <1>10, <2>1 DEF Operands, TopSlots
  <2>3. QED
    BY <2>2, <1>10
<1>14. SubSeq(P \o r, a + 1, Len(P \o r)) = SubSeq(P, a + 1, Len(P)) \o r
  BY <1>4, <1>5, Behind
<1>15. SubSeq(P, a + 1, q) = SubSeq(stack, a + 1, q)
  <2>1. a + 1 \in Nat \ {0} /\ a + 1 <= q + 1 /\ q <= l
    BY <1>4
  <2>2. q <= Len(P) /\ q <= Len(stack) /\ stack \in Seq(Slot)
    BY <1>1, <1>4, <1>5, CurrentFrame
  <2>3. QED
    BY <1>5, <2>1, <2>2, SamePart
<1>16. QED
  BY <1>5, <1>7, <1>12, <1>13, <1>14, <1>15

(* A vector as a whole is what is left when nothing is popped.             *)
LEMMA Whole ==
    ASSUME NEW s \in Seq(Slot)
    PROVE  SubSeq(s, 1, Len(s) - 0) = s
<1>1. PICK n \in Nat : n = Len(s)
  BY LenProperties
<1>2. 1 \in Nat \ {0} /\ 1 <= n + 1 /\ n <= Len(s) /\ n - 1 + 1 = n /\ n - 0 = n
  BY <1>1
<1>3. /\ SubSeq(s, 1, n) \in Seq(Slot) /\ Len(SubSeq(s, 1, n)) = n
      /\ \A i \in 1..n : SubSeq(s, 1, n)[i] = s[1 + i - 1]
  BY <1>2, Part
<1>4. \A i \in 1..n : 1 + i - 1 = i
  OBVIOUS
<1>5. QED
  BY <1>1, <1>2, <1>3, <1>4, Same

(* An instruction that only pushes.                                        *)
LEMMA PushStep ==
    ASSUME TypeOK, NEW r \in Seq(Slot), stack' = stack \o r,
           UNCHANGED <<locals, prevFrames, currentFrame, status>>
    PROVE  TypeOK' /\ Callers' = Callers /\ Variables' = Variables /\ Operands' = Operands \o r
<1>1. stack' = Popped(0) \o r
  BY CurrentFrame, Whole DEF Popped
<1>2. /\ TypeOK' /\ Callers' = Callers
      /\ Operands' = SubSeq(Operands, 1, Len(Operands) - 0) \o r
  <2>1. 0 \in Nat /\ 0 <= Depth
    BY CurrentFrame
  <2>2. QED
    BY <1>1, <2>1, CurrentFrame, StackStep
<1>3. SubSeq(Operands, 1, Len(Operands) - 0) = Operands
  BY CurrentFrame, Whole
<1>4. QED
  BY <1>2, <1>3 DEF Variables

(* A function on the first numbers is a vector.                            *)
LEMMA Vector ==
    ASSUME NEW n \in Nat, NEW f \in [1..n -> Slot]
    PROVE  f \in Seq(Slot) /\ Len(f) = n
<1>1. f \in Seq(Slot)
  BY SeqDef
<1>2. Len(f) \in Nat /\ DOMAIN f = 1..Len(f)
  BY <1>1, LenProperties
<1>3. 1..Len(f) = 1..n
  BY <1>2
<1>4. PICK m \in Nat : m = Len(f)
  BY <1>2
<1>5. m = n
  BY <1>3, <1>4
<1>6. QED
  BY <1>1, <1>4, <1>5

-----------------------------------------------------------------------------
(* The instructions of a frame. *)

(* Arithmetic, comparisons, constants and what else works on the operands. *)
LEMMA OperateStep ==
    ASSUME TypeOK, NEW n \in Nat, NEW r \in Seq(Value), Operate(n, r), n <= Depth
    PROVE  TypeOK' /\ Isolated!Operate(n, r)
<1>1. r \in Seq(Slot)
  BY SeqMonotonic DEF Slot
<1>2. Depth \in Nat /\ ~(Depth < n) /\ Len(Operands) = Depth
  BY CurrentFrame
<1>3. stack' = Popped(n) \o r /\ UNCHANGED <<locals, prevFrames, currentFrame, status>>
  BY <1>2 DEF Operate
<1>4. /\ TypeOK' /\ Callers' = Callers
      /\ Operands' = SubSeq(Operands, 1, Len(Operands) - n) \o r
  BY <1>1, <1>3, CurrentFrame, StackStep
<1>5. Variables' = Variables
  BY <1>3 DEF Variables
<1>6. QED
  BY <1>2, <1>3, <1>4, <1>5 DEF Isolated!Operate, Isolated!Rest, Operands, Variables, Callers

(* dup and dup2.                                                           *)
LEMMA DuplicateStep ==
    ASSUME TypeOK, NEW n \in Nat, n <= Depth, stack' = stack \o TopSlots(n),
           UNCHANGED <<locals, prevFrames, currentFrame, status>>
    PROVE  TypeOK' /\ Isolated!Duplicate(n)
<1>1. TopSlots(n) \in Seq(Slot) /\ SubSeq(Operands, Len(Operands) - n + 1, Len(Operands)) = TopSlots(n)
  BY TopAndRest
<1>2. TypeOK' /\ Callers' = Callers /\ Variables' = Variables /\ Operands' = Operands \o TopSlots(n)
  BY <1>1, PushStep
<1>3. n <= Len(Operands)
  BY CurrentFrame
<1>4. QED
  BY <1>1, <1>2, <1>3 DEF Isolated!Duplicate, Isolated!Top, Operands, Variables, Callers

(* Variables of the frame are pushed.                                      *)
LEMMA LoadStep ==
    ASSUME TypeOK, NEW at \in Nat, NEW n \in Nat, LoadLocal(at, n), Place(at) + n <= Len(locals)
    PROVE  TypeOK' /\ Isolated!Load(at, n)
<1>1. PICK b \in Nat, l \in Nat : /\ b = currentFrame.localsStart /\ l = Len(locals) /\ locals \in Seq(Slot)
                                  /\ Len(Variables) = l - b /\ b <= l
  BY CurrentFrame
<1>2. Place(at) = b + at /\ b + at + n <= l /\ ~(b + at + n > l)
  <2>1. Place(at) = b + at
    BY <1>1 DEF Place
  <2>2. b + at + n <= l
    BY <1>1, <2>1
  <2>3. QED
    BY <2>1, <2>2
<1>3. /\ stack' = stack \o SubSeq(locals, b + at + 1, b + at + n)
      /\ UNCHANGED <<locals, prevFrames, currentFrame, status>>
  BY <1>1, <1>2 DEF LoadLocal
<1>4. SubSeq(locals, b + at + 1, b + at + n) \in Seq(Slot)
  <2>1. b + at + 1 \in Nat \ {0} /\ b + at + n \in Nat /\ b + at + 1 <= b + at + n + 1
    BY SMTT(60), <1>1
  <2>2. QED
    BY <1>1, <1>2, <2>1, Part
<1>5. SubSeq(SubSeq(locals, b + 1, l), at + 1, at + n) = SubSeq(locals, b + at + 1, b + at + n)
  <2>1. /\ b + 1 \in Nat \ {0} /\ b + 1 <= l + 1
        /\ at + 1 \in Nat \ {0} /\ at + n \in Nat /\ at + 1 <= at + n + 1 /\ at + n <= l - (b + 1) + 1
    <3>1. b <= l /\ b + at + n <= l
      BY <1>1, <1>2
    <3>2. QED
      BY <3>1
  <2>2. SubSeq(SubSeq(locals, b + 1, l), at + 1, at + n)
          = SubSeq(locals, (b + 1) + (at + 1) - 1, (b + 1) + (at + n) - 1)
    <3>1. locals \in Seq(Slot) /\ l <= Len(locals)
      BY <1>1
    <3>2. QED
      BY <2>1, <3>1, PartOfPart
  <2>3. (b + 1) + (at + 1) - 1 = b + at + 1 /\ (b + 1) + (at + n) - 1 = b + at + n
    OBVIOUS
  <2>4. QED
    BY <2>2, <2>3
<1>6. Variables = SubSeq(locals, b + 1, l)
  BY <1>1 DEF Variables
<1>7. /\ TypeOK' /\ Callers' = Callers /\ Variables' = Variables
      /\ Operands' = Operands \o SubSeq(Variables, at + 1, at + n)
  BY <1>3, <1>4, <1>5, <1>6, PushStep
<1>8. at + n <= Len(Variables)
  BY <1>1, <1>2
<1>9. QED
  BY <1>3, <1>7, <1>8 DEF Isolated!Load, Operands, Variables, Callers

(* Slots of a frame are popped into its own variables.                     *)
LEMMA StoreStep ==
    ASSUME TypeOK, NEW at \in Nat, NEW n \in Nat, StoreLocal(at, n),
           n <= Depth, Place(at) + n <= Len(locals)
    PROVE  TypeOK' /\ Isolated!Store(at, n)
<1>1. PICK b \in Nat, l \in Nat : b = currentFrame.localsStart /\ l = Len(locals) /\ b <= l
  BY CurrentFrame
<1>2. locals \in Seq(Slot) /\ DOMAIN locals = 1..l /\ \A i \in 1..l : locals[i] \in Slot
  BY <1>1, CurrentFrame, LenProperties, ElementOfSeq
<1>3. PICK c \in Nat : c = Place(at) /\ c = b + at
  BY <1>1 DEF Place
<1>4. c = b + at /\ b <= l /\ c + n <= l
  BY <1>1, <1>3
<1>5. ~(Depth < n) /\ ~(Place(at) + n > Len(locals))
  <2>1. Depth \in Nat
    BY CurrentFrame
  <2>2. ~(Depth < n)
    BY <2>1
  <2>3. ~(c + n > l)
    BY <1>4
  <2>4. QED
    BY <1>1, <1>3, <2>2, <2>3
<1>6. PICK T \in Seq(Slot) : /\ T = TopSlots(n) /\ Len(T) = n
                             /\ SubSeq(Operands, Len(Operands) - n + 1, Len(Operands)) = T
  BY TopAndRest
<1>7. \A i \in 1..n : T[i] \in Slot
  BY <1>6, ElementOfSeq
<1>8. PICK loc : loc = [i \in 1..l |-> IF i \in c + 1..c + n THEN T[i - c] ELSE locals[i]]
  OBVIOUS
<1>9. stack' = Popped(n) /\ locals' = loc /\ UNCHANGED <<prevFrames, currentFrame, status>>
  BY <1>2, <1>3, <1>5, <1>6, <1>8 DEF StoreLocal
<1>10. loc \in [1..l -> Slot]
  <2>1. ASSUME NEW i \in 1..l
        PROVE  (IF i \in c + 1..c + n THEN T[i - c] ELSE locals[i]) \in Slot
    <3>1. i \in c + 1..c + n => i - c \in 1..n
      OBVIOUS
    <3>2. QED
      BY <3>1, <1>2, <1>7
  <2>2. QED
    BY <2>1, <1>8
<1>11. loc \in Seq(Slot) /\ Len(loc) = l
  BY <1>10, Vector
<1>12. \A i \in 1..b : loc[i] = locals[i]
  <2>1. \A i \in 1..b : i \in 1..l /\ i \notin c + 1..c + n
    BY <1>4
  <2>2. QED
    BY <2>1, <1>8
<1>13. /\ TypeOK' /\ Callers' = Callers
       /\ Operands' = SubSeq(Operands, 1, Len(Operands) - n)
  <2>1. Popped(n) \in Seq(Slot) /\ SubSeq(Operands, 1, Len(Operands) - n) \in Seq(Slot)
    <3>1. Popped(n) \in Seq(Slot)
      BY TopAndRest
    <3>2. PICK d \in Nat : d = Depth /\ d = Len(Operands) /\ Operands \in Seq(Slot)
      BY CurrentFrame
    <3>3. n <= d
      BY <3>2
    <3>4. d - n \in Nat /\ 1 \in Nat \ {0} /\ 1 <= d - n + 1 /\ d - n <= d
      BY <3>3
    <3>5. SubSeq(Operands, 1, d - n) \in Seq(Slot)
      BY <3>2, <3>4, Part
    <3>6. QED
      BY <3>1, <3>2, <3>5
  <2>2. <<>> \in Seq(Slot) /\ \A s \in Seq(Slot) : s \o <<>> = s
    BY EmptySeq, ConcatEmptySeq
  <2>3. stack' = Popped(n) \o <<>>
    BY <1>9, <2>1, <2>2
  <2>4. /\ locals' \in Seq(Slot) /\ Len(locals') = Len(locals)
        /\ \A i \in 1..currentFrame.localsStart : locals'[i] = locals[i]
    BY <1>1, <1>9, <1>11, <1>12
  <2>5. /\ TypeOK' /\ Callers' = Callers
        /\ Operands' = SubSeq(Operands, 1, Len(Operands) - n) \o <<>>
    BY <1>9, <2>2, <2>3, <2>4, StackStep
  <2>6. QED
    BY <2>1, <2>2, <2>5
<1>14. /\ Variables \in Seq(Slot) /\ Len(Variables) = l - b
       /\ DOMAIN Variables = 1..l - b
       /\ \A i \in 1..l - b : Variables[i] = locals[b + i]
  <2>1. b + 1 \in Nat \ {0} /\ b + 1 <= l + 1 /\ l - (b + 1) + 1 = l - b
        /\ \A i \in 1..l - b : b + 1 + i - 1 = b + i
    BY <1>4
  <2>2. Variables = SubSeq(locals, b + 1, l)
    BY <1>1 DEF Variables
  <2>3. /\ SubSeq(locals, b + 1, l) \in Seq(Slot)
        /\ Len(SubSeq(locals, b + 1, l)) = l - (b + 1) + 1
        /\ \A i \in 1..l - (b + 1) + 1 : SubSeq(locals, b + 1, l)[i] = locals[b + 1 + i - 1]
    <3>1. locals \in Seq(Slot) /\ l <= Len(locals)
      BY <1>1, <1>2
    <3>2. b + 1 \in Nat \ {0} /\ b + 1 <= l + 1
      BY <2>1
    <3>3. QED
      BY <3>1, <3>2, Part
  <2>4. QED
    BY <2>1, <2>2, <2>3, LenProperties
<1>15. Variables' = SubSeq(loc, b + 1, l)
  BY <1>1, <1>9, <1>11 DEF Variables
<1>16. /\ SubSeq(loc, b + 1, l) \in Seq(Slot)
       /\ Len(SubSeq(loc, b + 1, l)) = l - b
       /\ \A i \in 1..l - b : SubSeq(loc, b + 1, l)[i] = loc[b + i]
  <2>1. b + 1 \in Nat \ {0} /\ b + 1 <= l + 1 /\ l - (b + 1) + 1 = l - b
        /\ \A i \in 1..l - b : b + 1 + i - 1 = b + i
    BY <1>4
  <2>2. /\ SubSeq(loc, b + 1, l) \in Seq(Slot)
        /\ Len(SubSeq(loc, b + 1, l)) = l - (b + 1) + 1
        /\ \A i \in 1..l - (b + 1) + 1 : SubSeq(loc, b + 1, l)[i] = loc[b + 1 + i - 1]
    BY <1>11, <2>1, Part
  <2>3. QED
    BY <2>1, <2>2
<1>17. PICK k \in Nat : k = l - b
  BY <1>4
<1>18. PICK g : g = [i \in 1..k |-> IF i \in at + 1..at + n THEN T[i - at] ELSE Variables[i]]
  OBVIOUS
<1>19. g \in [1..k -> Slot]
  <2>1. ASSUME NEW i \in 1..k
        PROVE  (IF i \in at + 1..at + n THEN T[i - at] ELSE Variables[i]) \in Slot
    <3>1. i \in at + 1..at + n => i - at \in 1..n
      OBVIOUS
    <3>2. Variables[i] \in Slot
      BY <1>14, <1>17, ElementOfSeq
    <3>3. QED
      BY <3>1, <3>2, <1>7
  <2>2. QED
    BY <2>1, <1>18
<1>20. ASSUME NEW i \in 1..k
       PROVE  SubSeq(loc, b + 1, l)[i] = g[i]
  <2>1. /\ b + i \in 1..l /\ (b + i \in c + 1..c + n <=> i \in at + 1..at + n) /\ b + i - c = i - at
    BY <1>4, <1>17
  <2>2. SubSeq(loc, b + 1, l)[i] = loc[b + i]
    BY <1>16, <1>17
  <2>3. loc[b + i] = IF b + i \in c + 1..c + n THEN T[b + i - c] ELSE locals[b + i]
    BY SMTT(60), <2>1, <1>8
  <2>4. g[i] = IF i \in at + 1..at + n THEN T[i - at] ELSE Variables[i]
    BY <1>18
  <2>5. Variables[i] = locals[b + i]
    BY <1>14, <1>17
  <2>6. QED
    BY <2>1, <2>2, <2>3, <2>4, <2>5
<1>21. g \in Seq(Slot) /\ Len(g) = k
  BY <1>19, Vector
<1>22. Variables' = g
  BY <1>15, <1>16, <1>17, <1>20, <1>21, Same
<1>23. at + n <= Len(Variables) /\ n <= Len(Operands)
  <2>1. at + n <= l - b
    BY <1>4
  <2>2. QED
    BY <2>1, <1>14, CurrentFrame
<1>24. Variables' = [i \in DOMAIN Variables |->
           IF i \in at + 1..at + n
           THEN SubSeq(Operands, Len(Operands) - n + 1, Len(Operands))[i - at] ELSE Variables[i]]
  BY <1>6, <1>14, <1>17, <1>18, <1>22
<1>25. QED
  BY <1>9, <1>13, <1>23, <1>24 DEF Isolated!Store, Isolated!Top, Isolated!Rest, Operands, Variables, Callers

(* Iinc.                                                                   *)
LEMMA IncrementStep ==
    ASSUME TypeOK, NEW at \in Nat, NEW value \in Value, Iinc(at, value), Place(at) < Len(locals)
    PROVE  TypeOK' /\ Isolated!Increment(at, value)
<1>1. PICK b \in Nat, l \in Nat : b = currentFrame.localsStart /\ l = Len(locals) /\ b <= l
  BY CurrentFrame
<1>2. locals \in Seq(Slot) /\ DOMAIN locals = 1..l /\ \A i \in 1..l : locals[i] \in Slot
  BY <1>1, CurrentFrame, LenProperties, ElementOfSeq
<1>3. PICK c \in Nat : c = Place(at) /\ c = b + at
  BY <1>1 DEF Place
<1>4. c = b + at /\ b <= l /\ c < l
  BY <1>1, <1>3
<1>5. PICK loc : loc = [i \in 1..l |-> IF i = c + 1 THEN value ELSE locals[i]]
  OBVIOUS
<1>6. ~(Place(at) >= Len(locals))
  <2>1. ~(c >= l)
    BY <1>4
  <2>2. QED
    BY <2>1, <1>1, <1>3
<1>7. locals' = loc /\ UNCHANGED <<stack, prevFrames, currentFrame, status>>
  BY <1>2, <1>3, <1>5, <1>6 DEF Iinc
<1>8. loc \in Seq(Slot) /\ Len(loc) = l
  <2>1. loc \in [1..l -> Slot]
    BY <1>2, <1>5 DEF Slot
  <2>2. QED
    BY <2>1, Vector
<1>9. \A i \in 1..b : loc[i] = locals[i]
  <2>1. \A i \in 1..b : i \in 1..l /\ i # c + 1
    BY <1>4
  <2>2. QED
    BY <2>1, <1>5
<1>10. TypeOK' /\ Callers' = Callers
  <2>1. stack' \in Seq(Slot) /\ status' \in {"running", "failed", "ended"} /\ currentFrame.stackStart <= Len(stack')
    BY <1>7, CurrentFrame DEF TypeOK
  <2>2. locals' \in Seq(Slot) /\ currentFrame.localsStart <= Len(locals')
    BY <1>1, <1>7, <1>8
  <2>3. \A i \in 1..currentFrame.localsStart : locals'[i] = locals[i]
    BY <1>1, <1>7, <1>9
  <2>4. QED
    BY <1>7, <2>1, <2>2, <2>3, CallersStay
<1>11. Operands' = Operands
  BY <1>7 DEF Operands, TopSlots, Depth
<1>12. PICK k \in Nat : k = l - b
  BY <1>4
<1>13. b + 1 \in Nat \ {0} /\ b + 1 <= l + 1 /\ l - (b + 1) + 1 = k /\ at + 1 \in 1..k /\ at < k
       /\ \A i \in 1..k : b + 1 + i - 1 = b + i /\ b + i \in 1..l /\ (b + i = c + 1 <=> i = at + 1)
  BY <1>4, <1>12
<1>14. PICK V \in Seq(Slot) : V = SubSeq(locals, b + 1, l) /\ Len(V) = k /\ \A i \in 1..k : V[i] = locals[b + i]
  <2>1. /\ SubSeq(locals, b + 1, l) \in Seq(Slot)
        /\ Len(SubSeq(locals, b + 1, l)) = l - (b + 1) + 1
        /\ \A i \in 1..l - (b + 1) + 1 : SubSeq(locals, b + 1, l)[i] = locals[b + 1 + i - 1]
    <3>1. locals \in Seq(Slot) /\ l <= Len(locals)
      BY <1>1, <1>2
    <3>2. b + 1 \in Nat \ {0} /\ b + 1 <= l + 1
      BY <1>13
    <3>3. QED
      BY <3>1, <3>2, Part
  <2>2. QED
    BY ZenonT(60), <2>1, <1>13
<1>15. PICK W \in Seq(Slot) : W = SubSeq(loc, b + 1, l) /\ Len(W) = k /\ \A i \in 1..k : W[i] = loc[b + i]
  <2>1. /\ SubSeq(loc, b + 1, l) \in Seq(Slot)
        /\ Len(SubSeq(loc, b + 1, l)) = l - (b + 1) + 1
        /\ \A i \in 1..l - (b + 1) + 1 : SubSeq(loc, b + 1, l)[i] = loc[b + 1 + i - 1]
    BY <1>8, <1>13, Part
  <2>2. QED
    BY ZenonT(60), <2>1, <1>13
<1>16. DOMAIN V = 1..k /\ \A i \in 1..k : V[i] \in Slot
  BY <1>14, LenProperties, ElementOfSeq
<1>17. W = [V EXCEPT ![at + 1] = value]
  <2>1. [V EXCEPT ![at + 1] = value] \in [1..k -> Slot]
    BY <1>16, <1>14 DEF Slot
  <2>2. [V EXCEPT ![at + 1] = value] \in Seq(Slot) /\ Len([V EXCEPT ![at + 1] = value]) = k
    BY <2>1, Vector
  <2>3. ASSUME NEW i \in 1..k
        PROVE  W[i] = [V EXCEPT ![at + 1] = value][i]
    <3>1. W[i] = IF i = at + 1 THEN value ELSE V[i]
      BY <1>5, <1>13, <1>14, <1>15
    <3>2. QED
      BY <3>1, <1>16
  <2>4. QED
    BY <1>15, <2>2, <2>3, Same
<1>18. Variables = V /\ Variables' = W
  BY <1>1, <1>7, <1>8, <1>14, <1>15 DEF Variables
<1>19. at < Len(Variables)
  BY <1>13, <1>14, <1>18
<1>20. QED
  BY <1>7, <1>10, <1>11, <1>17, <1>18, <1>19 DEF Isolated!Increment, Operands, Variables, Callers

-----------------------------------------------------------------------------
(* Invocations and returns. *)

Waiting == [operands : Seq(Slot), variables : Seq(Slot)]

(* The callers as a vector.                                                *)
LEMMA WaitingVector ==
    ASSUME NEW n \in Nat, NEW f \in [1..n -> Waiting]
    PROVE  f \in Seq(Waiting) /\ Len(f) = n
<1>1. f \in Seq(Waiting)
  BY SeqDef
<1>2. Len(f) \in Nat /\ DOMAIN f = 1..Len(f)
  BY <1>1, LenProperties
<1>3. 1..Len(f) = 1..n
  BY <1>2
<1>4. PICK m \in Nat : m = Len(f)
  BY <1>2
<1>5. m = n
  BY <1>3, <1>4
<1>6. QED
  BY <1>1, <1>4, <1>5

(* Two lists of callers that agree everywhere are the same.                *)
LEMMA SameWaiting ==
    ASSUME NEW s \in Seq(Waiting), NEW r \in Seq(Waiting), Len(s) = Len(r),
           \A i \in 1..Len(s) : s[i] = r[i]
    PROVE  s = r
BY SeqEqual

(* What belongs to the i-th caller is a part of each vector.               *)
LEMMA CallerType ==
    ASSUME TypeOK, NEW i \in 1..Len(prevFrames)
    PROVE  Caller(i) \in Waiting
<1>1. PICK p \in Nat, q \in Nat, a \in Nat, l \in Nat :
          /\ p = Frames[i].stackStart /\ q = Frames[i+1].stackStart /\ a = currentFrame.stackStart
          /\ l = Len(stack) /\ p <= q /\ q <= a /\ a <= l /\ stack \in Seq(Slot)
  <2>1. PICK a \in Nat, l \in Nat : a = currentFrame.stackStart /\ l = Len(stack) /\ a <= l /\ stack \in Seq(Slot)
    BY CurrentFrame
  <2>2. PICK p \in Nat, q \in Nat : p = Frames[i].stackStart /\ q = Frames[i+1].stackStart /\ p <= q /\ q <= a
    BY SMTT(60), <2>1, FrameList
  <2>3. QED
    BY <2>1, <2>2
<1>2. PICK u \in Nat, v \in Nat, b \in Nat, m \in Nat :
          /\ u = Frames[i].localsStart /\ v = Frames[i+1].localsStart /\ b = currentFrame.localsStart
          /\ m = Len(locals) /\ u <= v /\ v <= b /\ b <= m /\ locals \in Seq(Slot)
  <2>1. PICK b \in Nat, m \in Nat : b = currentFrame.localsStart /\ m = Len(locals) /\ b <= m /\ locals \in Seq(Slot)
    BY CurrentFrame
  <2>2. PICK u \in Nat, v \in Nat : u = Frames[i].localsStart /\ v = Frames[i+1].localsStart /\ u <= v /\ v <= b
    BY SMTT(60), <2>1, FrameList
  <2>3. QED
    BY <2>1, <2>2
<1>3. SubSeq(stack, p + 1, q) \in Seq(Slot)
  <2>1. p <= q /\ q <= a /\ a <= l
    BY <1>1
  <2>2. p + 1 \in Nat \ {0} /\ p + 1 <= q + 1 /\ q <= l
    BY <2>1
  <2>3. QED
    BY <2>2, <1>1, Part
<1>4. SubSeq(locals, u + 1, v) \in Seq(Slot)
  <2>1. u <= v /\ v <= b /\ b <= m
    BY <1>2
  <2>2. u + 1 \in Nat \ {0} /\ u + 1 <= v + 1 /\ v <= m
    BY <2>1
  <2>3. QED
    BY <2>2, <1>2, Part
<1>5. QED
  BY <1>1, <1>2, <1>3, <1>4 DEF Caller, Waiting

(* The callers, one for each frame that waits.                             *)
LEMMA CallerList ==
    ASSUME TypeOK
    PROVE  /\ Callers \in Seq(Waiting) /\ Len(Callers) = Len(prevFrames)
           /\ \A i \in 1..Len(prevFrames) : Callers[i] = Caller(i) /\ Caller(i) \in Waiting
<1>1. Len(prevFrames) \in Nat /\ DOMAIN prevFrames = 1..Len(prevFrames)
  BY FrameList
<1>2. \A i \in 1..Len(prevFrames) : Caller(i) \in Waiting
  BY CallerType
<1>3. Callers \in [1..Len(prevFrames) -> Waiting]
  BY <1>1, <1>2 DEF Callers
<1>4. Callers \in Seq(Waiting) /\ Len(Callers) = Len(prevFrames)
  BY <1>1, <1>3, WaitingVector
<1>5. QED
  BY <1>1, <1>2, <1>4 DEF Callers

(* One caller more.                                                        *)
LEMMA OneMoreCaller ==
    ASSUME NEW C \in Seq(Waiting), NEW c \in Waiting
    PROVE  /\ Append(C, c) \in Seq(Waiting) /\ Len(Append(C, c)) = Len(C) + 1
           /\ \A i \in 1..Len(C) : Append(C, c)[i] = C[i]
           /\ Append(C, c)[Len(C) + 1] = c
BY AppendProperties

(* Where what belongs to a caller lies.                                    *)
LEMMA CallerPlace ==
    ASSUME TypeOK, NEW i \in 1..Len(prevFrames), NEW N, N = Nat
    PROVE  /\ \E p \in N, q \in N : /\ p = Frames[i].stackStart /\ q = Frames[i+1].stackStart
                                    /\ p <= q /\ q <= currentFrame.stackStart
           /\ \E p \in N, q \in N : /\ p = Frames[i].localsStart /\ q = Frames[i+1].localsStart
                                    /\ p <= q /\ q <= currentFrame.localsStart
BY SMTT(60), FrameList

(* A frame that starts behind the current one keeps the frames in order.   *)
LEMMA OneMoreFrame ==
    ASSUME TypeOK, NEW f \in StackFrame,
           currentFrame.stackStart <= f.stackStart, currentFrame.localsStart <= f.localsStart
    PROVE  /\ Len(Append(Frames, f)) = Len(prevFrames) + 2
           /\ \A i \in 1..Len(prevFrames) + 1 : Append(Frames, f)[i] = Frames[i]
           /\ Append(Frames, f)[Len(prevFrames) + 2] = f
           /\ Append(Frames, f)[1] = [stackStart |-> 0, localsStart |-> 0]
           /\ \A i, j \in 1..Len(prevFrames) + 2 : i <= j =>
                 /\ Append(Frames, f)[i].stackStart <= Append(Frames, f)[j].stackStart
                 /\ Append(Frames, f)[i].localsStart <= Append(Frames, f)[j].localsStart
<1>0. PICK G : G = Append(Frames, f)
  OBVIOUS
<1>1. PICK k \in Nat : k = Len(prevFrames)
  BY FrameList
<1>2. /\ Frames \in Seq(StackFrame) /\ Len(Frames) = k + 1
      /\ \A i \in 1..k + 1 :
            /\ Frames[i].stackStart \in Nat /\ Frames[i].localsStart \in Nat
            /\ Frames[i].stackStart <= currentFrame.stackStart
            /\ Frames[i].localsStart <= currentFrame.localsStart
  BY <1>1, FrameList
<1>3. /\ Len(G) = k + 2 /\ \A i \in 1..k + 1 : G[i] = Frames[i]
      /\ G[k + 2] = f
  <2>1. /\ Len(G) = Len(Frames) + 1 /\ \A i \in 1..Len(Frames) : G[i] = Frames[i]
        /\ G[Len(Frames) + 1] = f
    BY <1>0, <1>2, AppendProperties
  <2>2. (k + 1) + 1 = k + 2
    OBVIOUS
  <2>3. QED
    BY <1>2, <2>1, <2>2
<1>4. PICK d \in Nat, e \in Nat, a \in Nat, b \in Nat :
          /\ d = f.stackStart /\ e = f.localsStart
          /\ a = currentFrame.stackStart /\ b = currentFrame.localsStart /\ a <= d /\ b <= e
  BY CurrentFrame DEF StackFrame
<1>5. G[1] = [stackStart |-> 0, localsStart |-> 0]
  <2>1. 1 \in 1..k + 1
    OBVIOUS
  <2>2. QED
    BY <1>3, <2>1 DEF TypeOK
<1>6. ASSUME NEW i \in 1..k + 2, NEW j \in 1..k + 2, i <= j
      PROVE  G[i].stackStart <= G[j].stackStart /\ G[i].localsStart <= G[j].localsStart
  <2>1. CASE j <= k + 1
    <3>1. i \in 1..k + 1 /\ j \in 1..k + 1
      BY <1>6, <2>1
    <3>2. Frames[i].stackStart <= Frames[j].stackStart /\ Frames[i].localsStart <= Frames[j].localsStart
      BY <1>2, <1>6, <3>1 DEF TypeOK
    <3>3. QED
      BY <3>1, <3>2, <1>3
  <2>2. CASE j = k + 2 /\ i <= k + 1
    <3>1. i \in 1..k + 1 /\ G[j] = f /\ G[i] = Frames[i]
      BY <2>2, <1>3
    <3>2. PICK x \in Nat, y \in Nat : x = Frames[i].stackStart /\ y = Frames[i].localsStart /\ x <= a /\ y <= b
      BY <3>1, <1>2, <1>4
    <3>3. x <= a /\ y <= b /\ a <= d /\ b <= e
      BY <1>4, <3>2
    <3>4. x <= d /\ y <= e
      BY <3>3
    <3>5. QED
      BY <3>1, <3>2, <3>4, <1>4
  <2>3. CASE i = k + 2 /\ j = k + 2
    BY <2>3, <1>3, <1>4
  <2>4. j <= k + 1 \/ (j = k + 2 /\ i <= k + 1) \/ (i = k + 2 /\ j = k + 2)
    BY <1>6
  <2>5. QED
    BY <2>1, <2>2, <2>3, <2>4
<1>7. QED
  BY <1>0, <1>1, <1>3, <1>5, <1>6

(* The variables of the callee: its arguments, then null.                  *)
LEMMA Arguments ==
    ASSUME NEW T \in Seq(Slot), NEW m \in Nat
    PROVE  /\ T \o Nulls(m) \in Seq(Slot) /\ Nulls(m) \in Seq(Slot)
           /\ Len(T \o Nulls(m)) = Len(T) + m
           /\ T \o Nulls(m) = [i \in 1..Len(T) + m |-> IF i <= Len(T) THEN T[i] ELSE Null]
<1>1. PICK n \in Nat, size \in Nat : n = Len(T) /\ size = n + m
  BY LenProperties
<1>2. PICK N : N = Nulls(m) /\ N \in Seq(Slot) /\ Len(N) = m /\ \A i \in 1..m : N[i] = Null
  <2>1. Nulls(m) \in [1..m -> Slot] /\ \A i \in 1..m : Nulls(m)[i] = Null
    BY DEF Nulls, Slot
  <2>2. QED
    BY <2>1, Vector
<1>3. PICK F : /\ F = T \o N /\ F \in Seq(Slot) /\ Len(F) = n + m
               /\ \A i \in 1..n : F[i] = T[i]
               /\ \A i \in 1..m : F[n + i] = N[i]
  <2>1. N \in Seq(Slot)
    BY <1>2
  <2>2. /\ T \o N \in Seq(Slot) /\ Len(T \o N) = Len(T) + Len(N)
        /\ \A i \in 1..Len(T) : (T \o N)[i] = T[i]
        /\ \A i \in 1..Len(N) : (T \o N)[Len(T) + i] = N[i]
    BY <2>1, Joined
  <2>3. QED
    BY ZenonT(60), <1>1, <1>2, <2>2
<1>4. n + m = size
  BY <1>1
<1>5. PICK g : g = [i \in 1..size |-> IF i <= n THEN T[i] ELSE Null]
  OBVIOUS
<1>6. \A i \in 1..n : T[i] \in Slot
  BY <1>1, ElementOfSeq
<1>7. g \in [1..size -> Slot]
  <2>1. ASSUME NEW i \in 1..size
        PROVE  (IF i <= n THEN T[i] ELSE Null) \in Slot
    <3>1. i <= n => i \in 1..n
      OBVIOUS
    <3>2. QED
      BY <3>1, <1>6 DEF Slot
  <2>2. QED
    BY <2>1, <1>5
<1>8. g \in Seq(Slot) /\ Len(g) = size
  BY <1>7, Vector
<1>9. ASSUME NEW i \in 1..size
      PROVE  F[i] = g[i]
  <2>1. CASE i <= n
    <3>1. i \in 1..n
      BY <2>1
    <3>2. QED
      BY <2>1, <3>1, <1>3, <1>5
  <2>2. CASE ~(i <= n)
    <3>1. PICK j \in 1..m : i = n + j
      <4>1. i - n \in 1..m /\ i = n + (i - n)
        BY <2>2, <1>4
      <4>2. QED
        BY <4>1
    <3>2. QED
      BY <2>2, <3>1, <1>2, <1>3, <1>5
  <2>3. QED
    BY <2>1, <2>2
<1>10. F = g
  BY <1>3, <1>4, <1>8, <1>9, Same
<1>11. QED
  BY <1>1, <1>2, <1>3, <1>4, <1>5, <1>10

(* The caller that waits is where it was, and the callee starts with its   *)
(* arguments alone.                                                        *)
LEMMA InvokeStep ==
    ASSUME TypeOK, NEW n \in Nat, NEW size \in Nat, Invoke(n, size)
    PROVE  TypeOK' /\ Isolated!Invoke(n, size)
<1>1. /\ n <= Depth /\ n <= size /\ stack' = Popped(n)
      /\ locals' = locals \o TopSlots(n) \o Nulls(size - n)
      /\ prevFrames' = Append(prevFrames, currentFrame)
      /\ currentFrame' = [stackStart |-> Len(stack'), localsStart |-> Len(locals)]
      /\ status' = status
  BY DEF Invoke
<1>2. PICK a \in Nat, l \in Nat : /\ a = currentFrame.stackStart /\ l = Len(stack) /\ a <= l
                                  /\ Depth = l - a /\ stack \in Seq(Slot)
  BY CurrentFrame
<1>3. PICK b \in Nat, m \in Nat : /\ b = currentFrame.localsStart /\ m = Len(locals) /\ b <= m
                                  /\ locals \in Seq(Slot)
  BY CurrentFrame
<1>4. a <= l /\ n <= l - a /\ n <= size
  BY <1>1, <1>2
<1>5. PICK q \in Nat : q = l - n
  BY <1>4
<1>6. q = l - n /\ a <= q /\ q <= l
  BY <1>4, <1>5
<1>7. PICK P \in Seq(Slot) : /\ P = Popped(n) /\ Len(P) = q /\ \A i \in 1..q : P[i] = stack[i]
                             /\ SubSeq(Operands, 1, Len(Operands) - n) = SubSeq(stack, a + 1, q)
  BY <1>1, <1>2, <1>5, TopAndRest
<1>8. PICK T \in Seq(Slot) : /\ T = TopSlots(n) /\ Len(T) = n
                             /\ SubSeq(Operands, Len(Operands) - n + 1, Len(Operands)) = T
  BY <1>1, TopAndRest
<1>9. PICK F \in Seq(Slot) : /\ F = T \o Nulls(size - n) /\ Len(F) = size
                             /\ F = [i \in 1..size |-> IF i <= Len(T) THEN T[i] ELSE Null]
                             /\ Nulls(size - n) \in Seq(Slot)
  <2>1. PICK r \in Nat : r = size - n
    BY <1>4
  <2>2. n + r = size
    BY <1>4, <2>1
  <2>3. /\ T \o Nulls(r) \in Seq(Slot) /\ Nulls(r) \in Seq(Slot)
        /\ Len(T \o Nulls(r)) = Len(T) + r
        /\ T \o Nulls(r) = [i \in 1..Len(T) + r |-> IF i <= Len(T) THEN T[i] ELSE Null]
    BY Arguments
  <2>4. QED
    BY <1>8, <2>1, <2>2, <2>3
<1>10. PICK loc \in Seq(Slot) : /\ loc = locals \o F /\ Len(loc) = m + size
                                /\ \A i \in 1..m : loc[i] = locals[i]
                                /\ \A i \in 1..size : loc[m + i] = F[i]
  <2>1. /\ locals \o F \in Seq(Slot) /\ Len(locals \o F) = Len(locals) + Len(F)
        /\ \A i \in 1..Len(locals) : (locals \o F)[i] = locals[i]
        /\ \A i \in 1..Len(F) : (locals \o F)[Len(locals) + i] = F[i]
    BY <1>3, Joined
  <2>2. QED
    BY <2>1, <1>3, <1>9
<1>11. stack' = P /\ locals' = loc
  <2>1. (locals \o T) \o Nulls(size - n) = locals \o (T \o Nulls(size - n))
    <3>1. locals \in Seq(Slot) /\ Nulls(size - n) \in Seq(Slot)
      BY <1>3, <1>9
    <3>2. QED
      BY SMTT(60), <3>1, Associative
  <2>2. QED
    BY <2>1, <1>1, <1>7, <1>8, <1>9, <1>10
<1>12. PICK f \in StackFrame : f = currentFrame' /\ f.stackStart = q /\ f.localsStart = m
  <2>1. [stackStart |-> q, localsStart |-> m] \in StackFrame
    BY DEF StackFrame
  <2>2. currentFrame' = [stackStart |-> q, localsStart |-> m]
    BY <1>1, <1>3, <1>7, <1>11
  <2>3. QED
    BY <2>1, <2>2
<1>13. PICK k \in Nat : k = Len(prevFrames)
  BY FrameList
<1>14. prevFrames' \in Seq(StackFrame) /\ Len(prevFrames') = k + 1 /\ prevFrames' = Frames
  BY <1>1, <1>13, FrameList DEF Frames
<1>15. PICK G : G = Frames' /\ G = Append(Frames, f)
  BY <1>12, <1>14 DEF Frames
<1>16. /\ Len(G) = k + 2 /\ \A i \in 1..k + 1 : G[i] = Frames[i]
       /\ G[k + 2] = f
       /\ G[1] = [stackStart |-> 0, localsStart |-> 0]
       /\ \A i, j \in 1..Len(G) : i <= j =>
             /\ G[i].stackStart <= G[j].stackStart
             /\ G[i].localsStart <= G[j].localsStart
  <2>1. currentFrame.stackStart <= f.stackStart /\ currentFrame.localsStart <= f.localsStart
    BY <1>2, <1>3, <1>6, <1>12
  <2>2. G = Append(Frames, f)
    BY <1>15
  <2>3. /\ Len(Append(Frames, f)) = Len(prevFrames) + 2
        /\ \A i \in 1..Len(prevFrames) + 1 : Append(Frames, f)[i] = Frames[i]
        /\ Append(Frames, f)[Len(prevFrames) + 2] = f
        /\ Append(Frames, f)[1] = [stackStart |-> 0, localsStart |-> 0]
        /\ \A i, j \in 1..Len(prevFrames) + 2 : i <= j =>
              /\ Append(Frames, f)[i].stackStart <= Append(Frames, f)[j].stackStart
              /\ Append(Frames, f)[i].localsStart <= Append(Frames, f)[j].localsStart
    BY <2>1, OneMoreFrame
  <2>4. QED
    BY <2>2, <2>3, <1>13
<1>17. TypeOK'
  <2>1. m <= m + size /\ q <= q
    OBVIOUS
  <2>2. f.stackStart \in 0..Len(P) /\ f.localsStart \in 0..Len(loc)
    BY <1>7, <1>10, <1>12, <2>1
  <2>3. currentFrame'.stackStart \in 0..Len(stack') /\ currentFrame'.localsStart \in 0..Len(locals')
    BY <1>11, <1>12, <2>2
  <2>4. stack' \in Seq(Slot) /\ locals' \in Seq(Slot) /\ currentFrame' \in StackFrame
    BY <1>11, <1>12
  <2>5. status' \in {"running", "failed", "ended"}
    BY <1>1 DEF TypeOK
  <2>6. QED
    BY <1>14, <1>15, <1>16, <2>3, <2>4, <2>5 DEF TypeOK
<1>18. Operands' = <<>>
  <2>1. Depth' = q - q
    BY <1>7, <1>11, <1>12 DEF Depth
  <2>2. Operands' = SubSeq(P, q - (q - q) + 1, q)
    BY <1>7, <1>11, <2>1 DEF Operands, TopSlots
  <2>3. q - (q - q) + 1 = q + 1 /\ q + 1 \in Nat \ {0} /\ q + 1 <= q + 1 /\ q - (q + 1) + 1 = 0
    OBVIOUS
  <2>4. SubSeq(P, q + 1, q) \in Seq(Slot) /\ Len(SubSeq(P, q + 1, q)) = q - (q + 1) + 1
    BY <1>7, <2>3, Part
  <2>5. QED
    BY <2>2, <2>3, <2>4, EmptySeq
<1>19. Variables' = F
  <2>1. PICK z \in Nat : z = m + size
    OBVIOUS
  <2>2. m <= z /\ z - m = size
    BY <2>1
  <2>3. Len(loc) = z /\ z <= Len(loc)
    BY <1>10, <2>1
  <2>4. Variables' = SubSeq(loc, m + 1, z)
    BY <1>11, <1>12, <2>3 DEF Variables
  <2>5. /\ SubSeq(loc, m + 1, z) \in Seq(Slot) /\ Len(SubSeq(loc, m + 1, z)) = z - m
        /\ \A i \in 1..z - m : SubSeq(loc, m + 1, z)[i] = loc[m + i]
    BY SMTT(60), <2>2, <2>3, PartBehind
  <2>6. Len(SubSeq(loc, m + 1, z)) = size /\ \A i \in 1..size : SubSeq(loc, m + 1, z)[i] = F[i]
    BY <1>10, <2>2, <2>5
  <2>7. SubSeq(loc, m + 1, z) = F
    BY <1>9, <2>5, <2>6, Same
  <2>8. QED
    BY <2>4, <2>7
<1>20. SubSeq(P, a + 1, q) = SubSeq(stack, a + 1, q)
  <2>1. a <= q /\ q <= q /\ q <= l
    BY <1>6
  <2>2. q <= Len(P) /\ q <= Len(stack) /\ \A i \in 1..q : P[i] = stack[i]
    BY <1>2, <1>7, <2>1
  <2>3. P \in Seq(Slot) /\ stack \in Seq(Slot) /\ a \in Nat /\ q \in Nat
    BY <1>2, <1>7
  <2>4. QED
    BY SMTT(60), <2>1, <2>2, <2>3, KeptPart
<1>21. SubSeq(loc, b + 1, m) = SubSeq(locals, b + 1, m)
  <2>1. b <= m /\ m <= m /\ m <= m + size
    BY <1>3
  <2>2. m <= Len(loc) /\ m <= Len(locals) /\ \A i \in 1..m : loc[i] = locals[i]
    BY <1>3, <1>10, <2>1
  <2>3. locals \in Seq(Slot)
    BY <1>3
  <2>4. QED
    BY <2>1, <2>2, <2>3, KeptPart
<1>22. Caller(k + 1)' = [operands |-> SubSeq(Operands, 1, Len(Operands) - n), variables |-> Variables]
  <2>1. k + 1 \in 1..k + 1 /\ (k + 1) + 1 = k + 2
    OBVIOUS
  <2>2. G[k + 1] = currentFrame /\ G[(k + 1) + 1] = f
    BY <2>1, <1>13, <1>16, FrameList
  <2>3. Caller(k + 1)' = [operands |-> SubSeq(P, a + 1, q), variables |-> SubSeq(loc, b + 1, m)]
    BY <1>2, <1>3, <1>11, <1>12, <1>15, <2>2 DEF Caller
  <2>4. QED
    BY <2>3, <1>3, <1>7, <1>20, <1>21 DEF Variables
<1>23. ASSUME NEW i \in 1..k
       PROVE  Caller(i)' = Caller(i)
  <2>0. i \in 1..Len(prevFrames)
    BY <1>13
  <2>1. PICK s \in Nat, u \in Nat : s = Frames[i].stackStart /\ u = Frames[i+1].stackStart /\ s <= u /\ u <= a
    BY <2>0, <1>2, CallerPlace
  <2>2. PICK v \in Nat, w \in Nat : v = Frames[i].localsStart /\ w = Frames[i+1].localsStart /\ v <= w /\ w <= b
    BY <2>0, <1>3, CallerPlace
  <2>3. SubSeq(P, s + 1, u) = SubSeq(stack, s + 1, u)
    <3>1. s <= u /\ u <= a
      BY <2>1
    <3>2. s <= u /\ u <= q /\ q <= l
      BY <3>1, <1>6
    <3>3. q <= Len(P) /\ q <= Len(stack) /\ stack \in Seq(Slot) /\ \A j \in 1..q : P[j] = stack[j]
      BY SMTT(60), <1>2, <1>7, <3>2
    <3>4. QED
      BY <3>2, <3>3, KeptPart
  <2>4. SubSeq(loc, v + 1, w) = SubSeq(locals, v + 1, w)
    <3>1. v <= w /\ w <= b /\ b <= m
      BY <2>2, <1>3
    <3>2. v <= w /\ w <= m /\ m <= m + size
      BY <3>1
    <3>3. m <= Len(loc) /\ m <= Len(locals) /\ locals \in Seq(Slot) /\ \A j \in 1..m : loc[j] = locals[j]
      BY <1>3, <1>10, <3>2
    <3>4. QED
      BY <3>2, <3>3, KeptPart
  <2>5. i \in 1..k + 1 /\ i + 1 \in 1..k + 1
    OBVIOUS
  <2>6. G[i] = Frames[i] /\ G[i+1] = Frames[i+1]
    BY <2>5, <1>16
  <2>7. QED
    BY <1>11, <1>15, <2>1, <2>2, <2>3, <2>4, <2>6 DEF Caller
<1>24. Callers' = Append(Callers, [operands |-> SubSeq(Operands, 1, Len(Operands) - n), variables |-> Variables])
  <2>1. PICK C \in Seq(Waiting) : C = Callers /\ Len(C) = k /\ \A i \in 1..k : C[i] = Caller(i)
    BY <1>13, CallerList
  <2>2. PICK c : c = [operands |-> SubSeq(Operands, 1, Len(Operands) - n), variables |-> Variables]
    OBVIOUS
  <2>3. c \in Waiting
    <3>1. SubSeq(stack, a + 1, q) \in Seq(Slot)
      <4>1. a + 1 \in Nat \ {0} /\ a + 1 <= q + 1 /\ q <= l
        BY <1>6
      <4>2. QED
        BY <4>1, <1>2, Part
    <3>2. QED
      BY <2>2, <3>1, <1>7, CurrentFrame DEF Waiting
  <2>4. PICK D \in Seq(Waiting) : D = Append(C, c) /\ Len(D) = k + 1 /\ D[k + 1] = c
                                  /\ \A i \in 1..k : D[i] = C[i]
    BY <2>1, <2>3, OneMoreCaller
  <2>5. DOMAIN prevFrames' = 1..k + 1
    BY <1>14, LenProperties
  <2>6. ASSUME NEW i \in 1..k + 1
        PROVE  Caller(i)' = D[i]
    <3>1. i \in 1..k \/ i = k + 1
      OBVIOUS
    <3>2. CASE i \in 1..k
      BY <3>2, <1>23, <2>1, <2>4
    <3>3. CASE i = k + 1
      BY <3>3, <1>22, <2>2, <2>4
    <3>4. QED
      BY <3>1, <3>2, <3>3
  <2>7. Callers' = [i \in 1..k + 1 |-> D[i]]
    BY <2>5, <2>6 DEF Callers
  <2>8. DOMAIN D = 1..k + 1 /\ D = [i \in DOMAIN D |-> D[i]]
    BY <2>4, LenProperties
  <2>9. QED
    BY <2>1, <2>2, <2>4, <2>7, <2>8
<1>25. n <= Len(Operands)
  BY <1>1, CurrentFrame
<1>26. Variables' = [i \in 1..size |->
           IF i <= Len(SubSeq(Operands, Len(Operands) - n + 1, Len(Operands)))
           THEN SubSeq(Operands, Len(Operands) - n + 1, Len(Operands))[i] ELSE Null]
  BY <1>8, <1>9, <1>19
<1>27. QED
  BY <1>1, <1>17, <1>18, <1>24, <1>25, <1>26
     DEF Isolated!Invoke, Isolated!Fresh, Isolated!Top, Isolated!Rest, Operands, Variables, Callers

(* The callers without the last one.                                       *)
LEMMA OneCallerLess ==
    ASSUME NEW C \in Seq(Waiting), NEW k \in Nat, Len(C) = k + 1
    PROVE  /\ SubSeq(C, 1, k) \in Seq(Waiting) /\ Len(SubSeq(C, 1, k)) = k
           /\ \A i \in 1..k : SubSeq(C, 1, k)[i] = C[i]
<1>1. \A i \in 1..k : C[i] \in Waiting
  <2>1. \A i \in 1..k : i \in 1..Len(C)
    OBVIOUS
  <2>2. QED
    BY <2>1, ElementOfSeq
<1>2. k - 1 + 1 = k /\ (1 <= k \/ k = 0) /\ \A i \in 1..k : 1 + i - 1 = i
  OBVIOUS
<1>3. /\ SubSeq(C, 1, k) \in Seq(Waiting) /\ Len(SubSeq(C, 1, k)) = (IF 1 <= k THEN k - 1 + 1 ELSE 0)
      /\ \A i \in 1..k - 1 + 1 : SubSeq(C, 1, k)[i] = C[1 + i - 1]
  BY <1>1, SubSeqProperties
<1>4. QED
  BY <1>2, <1>3

(* The frames without the last one.                                        *)
LEMMA OneFrameLess ==
    ASSUME NEW F \in Seq(StackFrame), NEW k \in Nat, Len(F) = k + 1
    PROVE  /\ SubSeq(F, 1, k) \in Seq(StackFrame) /\ Len(SubSeq(F, 1, k)) = k
           /\ \A i \in 1..k : SubSeq(F, 1, k)[i] = F[i]
           /\ Append(SubSeq(F, 1, k), F[k + 1]) = F
<1>1. \A i \in 1..k + 1 : F[i] \in StackFrame
  BY ElementOfSeq
<1>2. k - 1 + 1 = k /\ (1 <= k \/ k = 0) /\ \A i \in 1..k : 1 + i - 1 = i /\ i \in 1..k + 1
  OBVIOUS
<1>3. /\ SubSeq(F, 1, k) \in Seq(StackFrame) /\ Len(SubSeq(F, 1, k)) = (IF 1 <= k THEN k - 1 + 1 ELSE 0)
      /\ \A i \in 1..k - 1 + 1 : SubSeq(F, 1, k)[i] = F[1 + i - 1]
  BY <1>1, <1>2, SubSeqProperties
<1>4. PICK H \in Seq(StackFrame) : H = SubSeq(F, 1, k) /\ Len(H) = k /\ \A i \in 1..k : H[i] = F[i]
  <2>1. /\ SubSeq(F, 1, k) \in Seq(StackFrame) /\ Len(SubSeq(F, 1, k)) = k
        /\ \A i \in 1..k : SubSeq(F, 1, k)[i] = F[1 + i - 1]
    BY <1>2, <1>3
  <2>2. QED
    BY <1>2, <2>1
<1>5. F[k + 1] \in StackFrame
  BY <1>1
<1>6. PICK D \in Seq(StackFrame) : D = Append(H, F[k + 1]) /\ Len(D) = k + 1 /\ D[k + 1] = F[k + 1]
                                   /\ \A i \in 1..k : D[i] = H[i]
  BY <1>4, <1>5, AppendProperties
<1>7. \A i \in 1..k + 1 : i \in 1..k \/ i = k + 1
  OBVIOUS
<1>8. \A i \in 1..k + 1 : D[i] = F[i]
  BY <1>4, <1>6, <1>7
<1>9. D = F
  BY <1>6, <1>8, SeqEqual
<1>10. QED
  BY <1>4, <1>6, <1>9

(* The caller gets its frame back as it left it, with the result on top.   *)
LEMMA ReturnStep ==
    ASSUME TypeOK, NEW n \in Nat, Return(n), n <= Depth, prevFrames # <<>>
    PROVE  TypeOK' /\ Isolated!Return(n)
<1>1. /\ stack' = SubSeq(stack, 1, currentFrame.stackStart) \o TopSlots(n)
      /\ locals' = SubSeq(locals, 1, currentFrame.localsStart)
      /\ currentFrame' = prevFrames[Len(prevFrames)]
      /\ prevFrames' = SubSeq(prevFrames, 1, Len(prevFrames) - 1)
      /\ status' = status
  <2>1. ~(Depth < n)
    <3>1. Depth \in Nat
      BY CurrentFrame
    <3>2. QED
      BY <3>1
  <2>2. QED
    BY <2>1 DEF Return, Last, Front
<1>2. PICK a \in Nat, l \in Nat : /\ a = currentFrame.stackStart /\ l = Len(stack) /\ a <= l
                                  /\ stack \in Seq(Slot)
  BY CurrentFrame
<1>3. PICK b \in Nat, m \in Nat : /\ b = currentFrame.localsStart /\ m = Len(locals) /\ b <= m
                                  /\ locals \in Seq(Slot)
  BY CurrentFrame
<1>4. PICK k \in Nat : k + 1 = Len(prevFrames)
  <2>1. Len(prevFrames) \in Nat /\ Len(prevFrames) # 0
    BY FrameList, EmptySeq DEF TypeOK
  <2>2. PICK d \in Nat : d = Len(prevFrames) /\ d # 0
    BY <2>1
  <2>3. d - 1 \in Nat /\ (d - 1) + 1 = d
    BY <2>2
  <2>4. QED
    BY <2>2, <2>3
<1>5. PICK c \in StackFrame : /\ c = prevFrames[k + 1] /\ c = Frames[k + 1] /\ c = currentFrame'
                              /\ Frames[(k + 1) + 1] = currentFrame
  <2>1. k + 1 \in 1..Len(prevFrames) /\ k + 1 \in 1..Len(prevFrames) + 1
    BY <1>4
  <2>2. QED
    BY <1>1, <1>4, <2>1, FrameList
<1>6. PICK p \in Nat, u \in Nat : p = c.stackStart /\ u = c.localsStart /\ p <= a /\ u <= b
  <2>1. k + 1 \in 1..Len(prevFrames) + 1
    BY <1>4
  <2>2. QED
    BY <1>2, <1>3, <1>5, <2>1, FrameList DEF StackFrame
<1>7. PICK T \in Seq(Slot) : /\ T = TopSlots(n) /\ Len(T) = n
                             /\ SubSeq(Operands, Len(Operands) - n + 1, Len(Operands)) = T
  BY TopAndRest
<1>8. PICK B \in Seq(Slot) : B = SubSeq(stack, 1, a) /\ Len(B) = a /\ \A i \in 1..a : B[i] = stack[i]
  <2>1. 1 \in Nat \ {0} /\ 1 <= a + 1 /\ a - 1 + 1 = a /\ \A i \in 1..a : 1 + i - 1 = i
    OBVIOUS
  <2>2. a <= Len(stack) /\ stack \in Seq(Slot)
    BY <1>2
  <2>3. /\ SubSeq(stack, 1, a) \in Seq(Slot) /\ Len(SubSeq(stack, 1, a)) = a - 1 + 1
        /\ \A i \in 1..a - 1 + 1 : SubSeq(stack, 1, a)[i] = stack[1 + i - 1]
    BY <2>1, <2>2, Part
  <2>4. QED
    BY <2>1, <2>3
<1>9. PICK loc \in Seq(Slot) : loc = locals' /\ Len(loc) = b /\ \A i \in 1..b : loc[i] = locals[i]
  <2>1. 1 \in Nat \ {0} /\ 1 <= b + 1 /\ b - 1 + 1 = b /\ \A i \in 1..b : 1 + i - 1 = i
    OBVIOUS
  <2>2. b <= Len(locals) /\ locals \in Seq(Slot)
    BY <1>3
  <2>3. /\ SubSeq(locals, 1, b) \in Seq(Slot) /\ Len(SubSeq(locals, 1, b)) = b - 1 + 1
        /\ \A i \in 1..b - 1 + 1 : SubSeq(locals, 1, b)[i] = locals[1 + i - 1]
    BY <2>1, <2>2, Part
  <2>4. locals' = SubSeq(locals, 1, b)
    BY <1>1, <1>3
  <2>5. QED
    BY <2>1, <2>3, <2>4
<1>10. PICK stk \in Seq(Slot) : stk = B \o T /\ stk = stack' /\ Len(stk) = a + n /\ \A i \in 1..a : stk[i] = B[i]
  <2>1. /\ B \o T \in Seq(Slot) /\ Len(B \o T) = Len(B) + Len(T)
        /\ \A i \in 1..Len(B) : (B \o T)[i] = B[i]
    BY Joined
  <2>2. stack' = B \o T
    BY <1>1, <1>2, <1>7, <1>8
  <2>3. QED
    BY <1>7, <1>8, <2>1, <2>2
<1>11. /\ prevFrames' \in Seq(StackFrame) /\ Len(prevFrames') = k
       /\ \A i \in 1..k : prevFrames'[i] = prevFrames[i]
       /\ Frames' = prevFrames
  <2>1. prevFrames \in Seq(StackFrame)
    BY DEF TypeOK
  <2>2. /\ SubSeq(prevFrames, 1, k) \in Seq(StackFrame) /\ Len(SubSeq(prevFrames, 1, k)) = k
        /\ \A i \in 1..k : SubSeq(prevFrames, 1, k)[i] = prevFrames[i]
        /\ Append(SubSeq(prevFrames, 1, k), prevFrames[k + 1]) = prevFrames
    BY <1>4, <2>1, OneFrameLess
  <2>3. (k + 1) - 1 = k
    OBVIOUS
  <2>4. prevFrames' = SubSeq(prevFrames, 1, k)
    BY <1>1, <1>4, <2>3
  <2>5. QED
    BY <1>5, <2>2, <2>4 DEF Frames
<1>12. TypeOK'
  <2>1. /\ prevFrames[1] = [stackStart |-> 0, localsStart |-> 0]
        /\ \A i, j \in 1..k + 1 : i <= j =>
              /\ prevFrames[i].stackStart <= prevFrames[j].stackStart
              /\ prevFrames[i].localsStart <= prevFrames[j].localsStart
    <3>1. \A i \in 1..k + 1 : prevFrames[i] = Frames[i] /\ i \in 1..Len(Frames)
      <4>1. \A i \in 1..k + 1 : i \in 1..(k + 1) + 1
        OBVIOUS
      <4>2. QED
        BY <1>4, <4>1, FrameList
    <3>2. 1 \in 1..k + 1
      OBVIOUS
    <3>3. QED
      BY <3>1, <3>2 DEF TypeOK
  <2>2. p <= a + n
    BY <1>6
  <2>3. currentFrame'.stackStart \in 0..Len(stack') /\ currentFrame'.localsStart \in 0..Len(locals')
    BY <1>5, <1>6, <1>9, <1>10, <2>2
  <2>4. stack' \in Seq(Slot) /\ locals' \in Seq(Slot) /\ currentFrame' \in StackFrame
    BY <1>5, <1>9, <1>10
  <2>5. status' \in {"running", "failed", "ended"}
    BY <1>1 DEF TypeOK
  <2>6. QED
    BY <1>4, <1>11, <2>1, <2>3, <2>4, <2>5 DEF TypeOK
<1>13. Caller(k + 1) = [operands |-> SubSeq(stack, p + 1, a), variables |-> SubSeq(locals, u + 1, b)]
  BY <1>2, <1>3, <1>5, <1>6 DEF Caller
<1>14. Operands' = Caller(k + 1).operands \o T
  <2>1. PICK d \in Nat : d = a + n
    OBVIOUS
  <2>2. p <= a /\ d = a + n
    BY <1>6, <2>1
  <2>3. d - (d - p) + 1 = p + 1
    BY <2>2
  <2>4. Depth' = d - p
    BY <1>5, <1>6, <1>10, <2>1 DEF Depth
  <2>5. Operands' = SubSeq(stk, d - (d - p) + 1, d)
    BY <1>10, <2>1, <2>4 DEF Operands, TopSlots
  <2>6. Operands' = SubSeq(B \o T, p + 1, Len(B \o T))
    BY <1>10, <2>1, <2>3, <2>5
  <2>7. p <= Len(B)
    BY <1>8, <2>2
  <2>8. SubSeq(B \o T, p + 1, Len(B \o T)) = SubSeq(B, p + 1, Len(B)) \o T
    BY <2>7, Behind
  <2>9. SubSeq(B, p + 1, a) = SubSeq(stack, p + 1, a)
    <3>1. p <= a /\ a <= a
      BY <2>2
    <3>2. a <= Len(B) /\ a <= Len(stack) /\ stack \in Seq(Slot) /\ \A i \in 1..a : B[i] = stack[i]
      BY <1>2, <1>8
    <3>3. QED
      BY SMTT(60), <3>1, <3>2, KeptPart
  <2>10. Caller(k + 1).operands = SubSeq(B, p + 1, Len(B))
    BY <1>8, <1>13, <2>9
  <2>11. QED
    BY <2>6, <2>8, <2>10
<1>15. Variables' = Caller(k + 1).variables
  <2>1. Variables' = SubSeq(loc, u + 1, b)
    BY <1>5, <1>6, <1>9 DEF Variables
  <2>2. u <= b /\ b <= b
    BY <1>6
  <2>3. b <= Len(loc) /\ b <= Len(locals) /\ locals \in Seq(Slot) /\ \A i \in 1..b : loc[i] = locals[i]
    BY <1>3, <1>9
  <2>4. SubSeq(loc, u + 1, b) = SubSeq(locals, u + 1, b)
    BY <2>2, <2>3, KeptPart
  <2>5. QED
    BY <1>13, <2>1, <2>4
<1>16. ASSUME NEW i \in 1..k
       PROVE  Caller(i)' = Caller(i)
  <2>1. i \in 1..Len(prevFrames) /\ i + 1 \in 1..Len(prevFrames)
    BY <1>4
  <2>2. Frames[i] = prevFrames[i] /\ Frames[i+1] = prevFrames[i+1]
    BY <2>1, FrameList
  <2>3. PICK s \in Nat, v \in Nat : s = Frames[i].stackStart /\ v = Frames[i+1].stackStart /\ s <= v /\ v <= a
    BY <2>1, <1>2, CallerPlace
  <2>4. PICK w \in Nat, x \in Nat : w = Frames[i].localsStart /\ x = Frames[i+1].localsStart /\ w <= x /\ x <= b
    BY <2>1, <1>3, CallerPlace
  <2>5. SubSeq(stk, s + 1, v) = SubSeq(stack, s + 1, v)
    <3>1. s <= v /\ v <= a /\ a <= a + n
      BY <2>3
    <3>2. a <= Len(stk) /\ a <= Len(stack) /\ stack \in Seq(Slot) /\ \A j \in 1..a : stk[j] = stack[j]
      BY <1>2, <1>8, <1>10, <3>1
    <3>3. QED
      BY SMTT(60), <3>1, <3>2, KeptPart
  <2>6. SubSeq(loc, w + 1, x) = SubSeq(locals, w + 1, x)
    <3>1. w <= x /\ x <= b
      BY <2>4
    <3>2. b <= Len(loc) /\ b <= Len(locals) /\ locals \in Seq(Slot) /\ \A j \in 1..b : loc[j] = locals[j]
      BY <1>3, <1>9
    <3>3. QED
      BY <3>1, <3>2, KeptPart
  <2>7. QED
    BY <1>9, <1>10, <1>11, <2>2, <2>3, <2>4, <2>5, <2>6 DEF Caller
<1>17. PICK C \in Seq(Waiting) : C = Callers /\ Len(C) = k + 1 /\ \A i \in 1..k + 1 : C[i] = Caller(i)
  BY <1>4, CallerList
<1>18. Callers' = SubSeq(C, 1, k)
  <2>1. /\ SubSeq(C, 1, k) \in Seq(Waiting) /\ Len(SubSeq(C, 1, k)) = k
        /\ \A i \in 1..k : SubSeq(C, 1, k)[i] = C[i]
    BY <1>17, OneCallerLess
  <2>2. DOMAIN prevFrames' = 1..k
    BY <1>11, LenProperties
  <2>3. \A i \in 1..k : i \in 1..k + 1
    OBVIOUS
  <2>4. \A i \in 1..k : Caller(i)' = SubSeq(C, 1, k)[i]
    BY <1>16, <1>17, <2>1, <2>3
  <2>5. Callers' = [i \in 1..k |-> SubSeq(C, 1, k)[i]]
    BY <2>2, <2>4 DEF Callers
  <2>6. DOMAIN SubSeq(C, 1, k) = 1..k
    BY <2>1, LenProperties
  <2>7. SubSeq(C, 1, k) = [i \in 1..k |-> SubSeq(C, 1, k)[i]]
    BY <2>1, <2>6
  <2>8. QED
    BY <2>5, <2>7
<1>19. n <= Len(Operands) /\ Callers # <<>>
  BY <1>17, CurrentFrame, EmptySeq
<1>20. Callers[Len(Callers)] = Caller(k + 1) /\ Callers' = SubSeq(Callers, 1, Len(Callers) - 1)
  <2>1. k + 1 \in 1..k + 1 /\ (k + 1) - 1 = k
    OBVIOUS
  <2>2. QED
    BY <1>17, <1>18, <2>1
<1>21. /\ Operands' = Callers[Len(Callers)].operands \o SubSeq(Operands, Len(Operands) - n + 1, Len(Operands))
       /\ Variables' = Callers[Len(Callers)].variables
  BY <1>7, <1>14, <1>15, <1>20
<1>22. QED
  BY <1>1, <1>12, <1>19, <1>20, <1>21
     DEF Isolated!Return, Isolated!Top, Isolated!Last, Isolated!Front, Operands, Variables, Callers

(* While the two vectors and the frames stay, every frame stays.           *)
LEMMA NothingMoves ==
    ASSUME TypeOK, UNCHANGED <<stack, locals, prevFrames, currentFrame>>,
           status' \in {"running", "failed", "ended"}
    PROVE  TypeOK' /\ Operands' = Operands /\ Variables' = Variables /\ Callers' = Callers
<1>1. TypeOK'
  BY DEF TypeOK, Frames
<1>2. Operands' = Operands /\ Variables' = Variables
  BY DEF Operands, Variables, TopSlots, Depth
<1>3. Callers' = Callers
  BY DEF Callers, Caller, Frames
<1>4. QED
  BY <1>1, <1>2, <1>3

(* An instruction that fails: the frames stay, and nothing runs any more.  *)
LEMMA FailStep ==
    ASSUME TypeOK, status = "running", Fail
    PROVE  TypeOK' /\ Isolated!Next
<1>1. TypeOK' /\ Operands' = Operands /\ Variables' = Variables /\ Callers' = Callers
  BY NothingMoves DEF Fail
<1>2. Isolated!Fail
  BY <1>1 DEF Fail, Isolated!Fail, Operands, Variables, Callers
<1>3. QED
  BY <1>1, <1>2 DEF Isolated!Next

-----------------------------------------------------------------------------
(* The two vectors implement frames of their own. *)

(* The first frame.                                                        *)
LEMMA FirstFrame ==
    ASSUME Init
    PROVE  TypeOK /\ Isolated!Init
<1>1. PICK m \in 0..MaxLocals : locals = Nulls(m)
  BY DEF Init
<1>2. m \in Nat
  BY BoundAssumption
<1>3. /\ stack = <<>> /\ prevFrames = <<>> /\ status = "running"
      /\ currentFrame = [stackStart |-> 0, localsStart |-> 0]
  BY DEF Init
<1>4. /\ Nulls(m) \in Seq(Slot) /\ Len(Nulls(m)) = m
      /\ Nulls(m) \in [1..m -> Slot]
  <2>1. Nulls(m) \in [1..m -> Slot]
    BY DEF Nulls, Slot
  <2>2. QED
    BY <1>2, <2>1, Vector
<1>5. <<>> \in Seq(Slot) /\ Len(<<>>) = 0 /\ <<>> \in Seq(StackFrame)
  BY EmptySeq
<1>6. currentFrame \in StackFrame
  BY <1>3 DEF StackFrame
<1>7. Len(Frames) = 1 /\ Frames[1] = currentFrame
  <2>1. /\ Len(Append(prevFrames, currentFrame)) = Len(prevFrames) + 1
        /\ Append(prevFrames, currentFrame)[Len(prevFrames) + 1] = currentFrame
    BY <1>3, <1>5, <1>6, AppendProperties
  <2>2. QED
    BY <1>3, <1>5, <2>1 DEF Frames
<1>8. TypeOK
  <2>1. \A i, j \in 1..Len(Frames) : i = 1 /\ j = 1
    BY <1>7
  <2>2. currentFrame.stackStart \in 0..Len(stack) /\ currentFrame.localsStart \in 0..Len(locals)
    BY <1>1, <1>2, <1>3, <1>4, <1>5
  <2>3. stack \in Seq(Slot) /\ locals \in Seq(Slot) /\ prevFrames \in Seq(StackFrame)
    BY <1>1, <1>3, <1>4, <1>5
  <2>4. status \in {"running", "failed", "ended"}
    BY <1>3
  <2>5. Frames[1] = [stackStart |-> 0, localsStart |-> 0]
    BY <1>3, <1>7
  <2>6. \A i, j \in 1..Len(Frames) : i <= j =>
            /\ Frames[i].stackStart <= Frames[j].stackStart
            /\ Frames[i].localsStart <= Frames[j].localsStart
    <3>1. 0 <= 0
      OBVIOUS
    <3>2. QED
      BY <2>1, <2>5, <3>1
  <2>7. QED
    BY <1>6, <2>2, <2>3, <2>4, <2>5, <2>6 DEF TypeOK
<1>9. Operands = <<>>
  <2>1. Operands \in Seq(Slot) /\ Len(Operands) = Depth
    BY <1>8, CurrentFrame
  <2>2. Depth = 0
    BY <1>3, <1>5 DEF Depth
  <2>3. QED
    BY <2>1, <2>2, EmptySeq
<1>10. Variables = Nulls(m)
  <2>1. Variables = SubSeq(Nulls(m), 0 + 1, m)
    BY <1>1, <1>3, <1>4 DEF Variables
  <2>2. SubSeq(Nulls(m), 1, Len(Nulls(m)) - 0) = Nulls(m)
    BY <1>4, Whole
  <2>3. m - 0 = m /\ 0 + 1 = 1
    BY <1>2
  <2>4. QED
    BY <1>4, <2>1, <2>2, <2>3
<1>11. Callers = <<>>
  <2>1. Callers \in Seq(Waiting) /\ Len(Callers) = Len(prevFrames)
    BY <1>8, CallerList
  <2>2. QED
    BY <1>3, <1>5, <2>1, EmptySeq
<1>12. Nulls(m) = [i \in 1..m |-> IF i <= Len(<<>>) THEN <<>>[i] ELSE Null]
  <2>1. \A i \in 1..m : ~(i <= Len(<<>>))
    BY <1>5
  <2>2. QED
    BY <2>1 DEF Nulls
<1>13. QED
  BY <1>3, <1>8, <1>9, <1>10, <1>11, <1>12
     DEF Isolated!Init, Isolated!Fresh, Operands, Variables, Callers

(* An instruction of the thread is one of the isolated frames, or none.    *)
LEMMA Step ==
    ASSUME TypeOK, [Next]_vars
    PROVE  TypeOK' /\ [Isolated!Next]_(Isolated!vars)
<1>1. CASE UNCHANGED vars
  <2>1. UNCHANGED <<stack, locals, prevFrames, currentFrame>> /\ status' = status
    BY <1>1 DEF vars
  <2>2. status' \in {"running", "failed", "ended"}
    BY <2>1 DEF TypeOK
  <2>3. TypeOK' /\ Operands' = Operands /\ Variables' = Variables /\ Callers' = Callers
    BY <2>1, <2>2, NothingMoves
  <2>4. QED
    BY <2>1, <2>3 DEF Isolated!vars, Operands, Variables, Callers
<1>2. CASE Next
  <2>1. status = "running" /\ Depth \in Nat /\ Len(locals) \in Nat /\ currentFrame.localsStart \in Nat
    BY <1>2, CurrentFrame DEF Next
  <2>2. ASSUME NEW n \in 0..2, NEW result \in BoundedSeq(Value, 2), Operate(n, result)
        PROVE  TypeOK' /\ Isolated!Next
    <3>1. CASE Depth < n
      BY <2>1, <2>2, <3>1, FailStep DEF Operate
    <3>2. CASE ~(Depth < n)
      <4>1. n \in Nat /\ n <= Depth
        BY <2>1, <3>2
      <4>2. result \in Seq(Value) /\ result \in Isolated!BoundedSeq(Value, 2)
        <5>1. result \in Isolated!BoundedSeq(Value, 2)
          BY DEF BoundedSeq, SeqOf, Isolated!BoundedSeq, Isolated!SeqOf
        <5>2. PICK m \in 0..2 : result \in [1..m -> Value]
          BY DEF BoundedSeq, SeqOf
        <5>3. \E k \in Nat : result \in [1..k -> Value]
          BY <5>2
        <5>4. QED
          BY <5>1, <5>3, SeqDef
      <4>3. TypeOK' /\ Isolated!Operate(n, result)
        BY <2>2, <4>1, <4>2, OperateStep
      <4>4. QED
        BY <2>1, <4>2, <4>3 DEF Isolated!Next
    <3>3. QED
      BY <3>1, <3>2
  <2>3. CASE Dup
    <3>1. CASE Depth >= 1
      <4>1. 1 \in Nat /\ 1 <= Depth /\ 1 \in 1..2
        BY <2>1, <3>1
      <4>2. stack' = stack \o TopSlots(1) /\ UNCHANGED <<locals, prevFrames, currentFrame, status>>
        BY <2>3, <3>1 DEF Dup
      <4>3. TypeOK' /\ Isolated!Duplicate(1)
        BY <4>1, <4>2, DuplicateStep
      <4>4. QED
        BY <2>1, <4>1, <4>3 DEF Isolated!Next
    <3>2. CASE ~(Depth >= 1)
      <4>1. UNCHANGED <<stack, locals, prevFrames, currentFrame>> /\ status' = status
        BY <2>3, <3>2 DEF Dup
      <4>2. status' \in {"running", "failed", "ended"}
        BY <4>1 DEF TypeOK
      <4>3. TypeOK' /\ Operands' = Operands /\ Variables' = Variables /\ Callers' = Callers
        BY <4>1, <4>2, NothingMoves
      <4>4. QED
        BY <4>1, <4>3 DEF Isolated!vars, Operands, Variables, Callers
    <3>3. QED
      BY <3>1, <3>2
  <2>4. CASE Dup2
    <3>1. 2 \in Nat /\ 2 <= Depth /\ 2 \in 1..2
      <4>1. Depth \in 2..MaxStack - 2
        BY <2>4 DEF Dup2
      <4>2. QED
        BY <2>1, <4>1, BoundAssumption
    <3>2. stack' = stack \o TopSlots(2) /\ UNCHANGED <<locals, prevFrames, currentFrame, status>>
      BY <2>4 DEF Dup2
    <3>3. TypeOK' /\ Isolated!Duplicate(2)
      BY <3>1, <3>2, DuplicateStep
    <3>4. QED
      BY <2>1, <3>1, <3>3 DEF Isolated!Next
  <2>5. ASSUME NEW at \in 0..MaxLocals, NEW n \in 1..2, LoadLocal(at, n)
        PROVE  TypeOK' /\ Isolated!Next
    <3>1. CASE Place(at) + n > Len(locals)
      BY <2>1, <2>5, <3>1, FailStep DEF LoadLocal
    <3>2. CASE ~(Place(at) + n > Len(locals))
      <4>1. at \in Nat /\ n \in Nat
        BY BoundAssumption
      <4>2. Place(at) + n <= Len(locals)
        BY <2>1, <3>2, <4>1 DEF Place
      <4>3. TypeOK' /\ Isolated!Load(at, n)
        BY <2>5, <4>1, <4>2, LoadStep
      <4>4. QED
        BY <2>1, <4>3 DEF Isolated!Next
    <3>3. QED
      BY <3>1, <3>2
  <2>6. ASSUME NEW at \in 0..MaxLocals, NEW n \in 1..2, StoreLocal(at, n)
        PROVE  TypeOK' /\ Isolated!Next
    <3>1. CASE Depth < n \/ Place(at) + n > Len(locals)
      BY <2>1, <2>6, <3>1, FailStep DEF StoreLocal
    <3>2. CASE ~(Depth < n \/ Place(at) + n > Len(locals))
      <4>1. at \in Nat /\ n \in Nat
        BY BoundAssumption
      <4>2. Place(at) + n <= Len(locals) /\ n <= Depth
        BY <2>1, <3>2, <4>1 DEF Place
      <4>3. TypeOK' /\ Isolated!Store(at, n)
        BY <2>6, <4>1, <4>2, StoreStep
      <4>4. QED
        BY <2>1, <4>3 DEF Isolated!Next
    <3>3. QED
      BY <3>1, <3>2
  <2>7. ASSUME NEW at \in 0..MaxLocals, NEW value \in Value, Iinc(at, value)
        PROVE  TypeOK' /\ Isolated!Next
    <3>1. CASE Place(at) >= Len(locals)
      BY <2>1, <2>7, <3>1, FailStep DEF Iinc
    <3>2. CASE ~(Place(at) >= Len(locals))
      <4>1. at \in Nat
        BY BoundAssumption
      <4>2. Place(at) < Len(locals)
        BY <2>1, <3>2, <4>1 DEF Place
      <4>3. TypeOK' /\ Isolated!Increment(at, value)
        BY <2>7, <4>1, <4>2, IncrementStep
      <4>4. QED
        BY <2>1, <4>3 DEF Isolated!Next
    <3>3. QED
      BY <3>1, <3>2
  <2>8. ASSUME NEW args \in 0..MaxLocals, NEW maxLocals \in 0..MaxLocals, Invoke(args, maxLocals)
        PROVE  TypeOK' /\ Isolated!Next
    <3>1. args \in Nat /\ maxLocals \in Nat
      BY BoundAssumption
    <3>2. TypeOK' /\ Isolated!Invoke(args, maxLocals)
      BY <2>8, <3>1, InvokeStep
    <3>3. QED
      BY <2>1, <3>2 DEF Isolated!Next
  <2>9. ASSUME NEW n \in 0..2, Return(n)
        PROVE  TypeOK' /\ Isolated!Next
    <3>1. CASE Depth < n
      BY <2>1, <2>9, <3>1, FailStep DEF Return
    <3>2. CASE ~(Depth < n) /\ prevFrames = <<>>
      <4>1. status' = "ended" /\ UNCHANGED <<stack, locals, prevFrames, currentFrame>>
        BY <2>9, <3>2 DEF Return
      <4>2. TypeOK' /\ Operands' = Operands /\ Variables' = Variables /\ Callers' = Callers
        BY <4>1, NothingMoves
      <4>3. Callers = <<>>
        BY <3>2, CallerList, EmptySeq
      <4>4. Isolated!End
        BY <4>1, <4>2, <4>3 DEF Isolated!End, Operands, Variables, Callers
      <4>5. QED
        BY <2>1, <4>2, <4>4 DEF Isolated!Next
    <3>3. CASE ~(Depth < n) /\ prevFrames # <<>>
      <4>1. n \in Nat /\ n <= Depth
        BY <2>1, <3>3
      <4>2. TypeOK' /\ Isolated!Return(n)
        BY <2>9, <3>3, <4>1, ReturnStep
      <4>3. QED
        BY <2>1, <4>2 DEF Isolated!Next
    <3>4. QED
      BY <3>1, <3>2, <3>3
  <2>10. QED
    BY <1>2, <2>2, <2>3, <2>4, <2>5, <2>6, <2>7, <2>8, <2>9 DEF Next
<1>3. QED
  BY <1>1, <1>2

(* The parts of the frames lie one behind the other in the two vectors,    *)
(* from the first frame of the thread to the current one (push_frame,      *)
(* pop_frame and finish_push_frame).                                       *)
THEOREM TypeCorrect == Spec => []TypeOK
<1>1. Init => TypeOK
  BY FirstFrame
<1>2. TypeOK /\ [Next]_vars => TypeOK'
  BY Step
<1>3. QED
  BY <1>1, <1>2, PTL DEF Spec

(* Frames are isolated: what the instructions do to the two vectors that   *)
(* all the frames of a thread share is what they would do if every         *)
(* invocation had an operand stack and local variables of its own.         *)
THEOREM Refinement == Spec => ImplementsFrames
<1>1. Init => Isolated!Init
  BY FirstFrame
<1>2. TypeOK /\ [Next]_vars => [Isolated!Next]_(Isolated!vars)
  BY Step
<1>3. QED
  BY <1>1, <1>2, TypeCorrect, PTL DEF Spec, ImplementsFrames, Isolated!Spec
=============================================================================
