--------------------------- MODULE SequenceFacts ---------------------------
(***************************************************************************)
(* Facts the proofs about texts, templates and payloads rest on: induction *)
(* over the positions of a sequence, and what is where in a sequence that  *)
(* was put together from parts.                                            *)
(***************************************************************************)
EXTENDS Integers, SequencesExt, SequenceTheorems, WellFoundedInduction, TLAPS

-----------------------------------------------------------------------------
(* Numbers *)

\* A set of numbers that is not empty has a least one.
LEMMA Least == ASSUME NEW S \in SUBSET Nat, S # {} PROVE \E x \in S : \A y \in S : x <= y
<1> DEFINE R == {ss \in Nat \X Nat : ss[1] < ss[2]}
<1>1. IsWellFoundedOn(R, Nat)
  BY NatLessThanWellFounded DEF OpToRel
<1>2. S \subseteq Nat /\ S # {}
  OBVIOUS
<1> HIDE DEF R
<1>3. PICK x \in S : \A y \in S : ~ (<<y, x>> \in R)
  BY <1>1, <1>2, WFMin
<1>4. \A y \in S : y \in Nat /\ x \in Nat /\ ~(y < x)
  BY <1>3 DEF R
<1>5. \A y \in S : x <= y
  BY <1>4
<1> QED
  BY <1>5

LEMMA Upward ==
  ASSUME NEW n \in Nat, NEW S, 0 \in S, \A i \in 1..n : i - 1 \in S => i \in S
  PROVE  \A i \in 0..n : i \in S
<1> DEFINE T == {i \in 0..n : i \notin S}
<1> SUFFICES ASSUME T # {} PROVE FALSE
  OBVIOUS
<1>0. T \in SUBSET Nat
  OBVIOUS
<1>1. PICK k \in T : \A m \in T : k <= m
  BY <1>0, Least
<1>2. k \in 1..n /\ k - 1 \in 0..n /\ k - 1 < k
  BY <1>1
<1>3. k - 1 \in S
  BY <1>1, <1>2
<1> QED
  BY <1>1, <1>2, <1>3

LEMMA Downward ==
  ASSUME NEW n \in Nat, NEW S, n \in S, \A i \in 1..n : i \in S => i - 1 \in S
  PROVE  \A i \in 0..n : i \in S
<1> DEFINE T == {k \in 0..n : n - k \notin S}
<1> SUFFICES ASSUME T # {} PROVE FALSE
  <2> SUFFICES ASSUME NEW i \in 0..n, i \notin S PROVE n - i \in T
    OBVIOUS
  <2> QED
    OBVIOUS
<1>0. T \in SUBSET Nat
  OBVIOUS
<1>1. PICK k \in T : \A m \in T : k <= m
  BY <1>0, Least
<1>2. k \in 1..n /\ k - 1 \in 0..n /\ k - 1 < k
  BY <1>1
<1>3. n - (k - 1) \in S
  BY <1>1, <1>2
<1>4. n - (k - 1) \in 1..n /\ (n - (k - 1)) - 1 = n - k
  BY <1>2
<1> QED
  BY <1>1, <1>3, <1>4

LEMMA DownwardFromAll ==
  ASSUME NEW n \in Nat, NEW S,
         \A i \in 1..n : (\A j \in (i + 1)..n : j \in S) => i \in S
  PROVE  \A i \in 1..n : i \in S
<1> DEFINE T == {k \in Nat : n - k \in 1..n /\ n - k \notin S}
<1> SUFFICES ASSUME T # {} PROVE FALSE
  <2> SUFFICES ASSUME NEW i \in 1..n, i \notin S PROVE n - i \in T
    OBVIOUS
  <2> QED
    OBVIOUS
<1>1. PICK k \in T : \A m \in T : k <= m
  BY Least
<1>2. ASSUME NEW j \in (n - k + 1)..n, j \notin S PROVE FALSE
  <2>1. n - j \in T /\ n - j < k
    BY <1>2
  <2> QED
    BY <2>1, <1>1
<1> QED
  BY <1>1, <1>2

LEMMA Onward ==
  ASSUME NEW a \in Nat, NEW b \in Nat, NEW S, a \in S, \A i \in a..(b - 1) : i \in S => i + 1 \in S
  PROVE  \A i \in a..b : i \in S
<1> DEFINE T == {k \in Nat : a + k \in a..b /\ a + k \notin S}
<1> SUFFICES ASSUME T # {} PROVE FALSE
  <2> SUFFICES ASSUME NEW i \in a..b, i \notin S PROVE i - a \in T
    OBVIOUS
  <2> QED
    OBVIOUS
<1>1. PICK k \in T : \A m \in T : k <= m
  BY Least
<1>2. k # 0 /\ k - 1 \in Nat /\ ~(k <= k - 1) /\ a + (k - 1) \in a..(b - 1) /\ (a + (k - 1)) + 1 = a + k
  BY <1>1
<1>3. a + (k - 1) \in S
  BY <1>1, <1>2
<1> QED
  BY <1>1, <1>2, <1>3

-----------------------------------------------------------------------------
(* Sequences put together *)

LEMMA Joined ==
  ASSUME NEW S, NEW s \in Seq(S), NEW t \in Seq(S)
  PROVE  /\ s \o t \in Seq(S)
         /\ Len(s \o t) = Len(s) + Len(t)
         /\ \A x \in 1..Len(s) : (s \o t)[x] = s[x]
         /\ \A j \in 1..Len(t) : (s \o t)[Len(s) + j] = t[j]
  OBVIOUS

\* The sequence x stands in b behind its first q fields.
Stands(x, b, q) == q + Len(x) <= Len(b) /\ \A j \in 1..Len(x) : b[q + j] = x[j]

\* A run of fields is the sequence they are.
LEMMA SubSeqIs ==
  ASSUME NEW S, NEW b \in Seq(S), NEW d \in Seq(S), NEW q \in Nat, Stands(d, b, q)
  PROVE  SubSeq(b, q + 1, q + Len(d)) = d
<1> DEFINE m == Len(d)
           z == Len(b)
           u == SubSeq(b, q + 1, q + m)
<1>1. m \in Nat /\ z \in Nat /\ q + m <= z /\ \A j \in 1..m : b[q + j] = d[j]
  BY DEF Stands
<1>2. u = [j \in 1..m |-> b[q + j]]
  <2>1. u = [j \in 1..((q + m) - (q + 1) + 1) |-> b[(q + 1) + j - 1]]
    BY <1>1
  <2>2. (q + m) - (q + 1) + 1 = m
    BY <1>1
  <2>3. \A j \in 1..m : (q + 1) + j - 1 = q + j
    BY <1>1
  <2> HIDE DEF m, u
  <2> QED
    BY <2>1, <2>2, <2>3
<1>3. u = d
  <2>1. d = [j \in 1..m |-> d[j]]
    OBVIOUS
  <2> HIDE DEF m, u
  <2> QED
    BY <1>1, <1>2, <2>1
<1> QED
  BY <1>3

\* P[i] is the first i of the sequences of e, put together.
FirstParts(P, e, S) ==
    /\ P \in [0..Len(e) -> Seq(S)]
    /\ P[0] = <<>>
    /\ \A i \in 1..Len(e) : P[i] = P[i - 1] \o e[i]

LEMMA FirstPartsExist == ASSUME NEW S, NEW e \in Seq(Seq(S)) PROVE \E P : FirstParts(P, e, S)
<1> DEFINE n == Len(e)
           Upto(m, P) == /\ P \in [0..m -> Seq(S)]
                         /\ P[0] = <<>>
                         /\ \A i \in 1..m : P[i] = P[i - 1] \o e[i]
           T == {m \in 0..n : \E P : Upto(m, P)}
<1>1. n \in Nat
  OBVIOUS
<1>2. 0 \in T
  <2>1. Upto(0, [i \in 0..0 |-> <<>>])
    OBVIOUS
  <2> HIDE DEF Upto
  <2> QED
    BY <1>1, <2>1
<1>3. ASSUME NEW m \in 1..n, m - 1 \in T PROVE m \in T
  <2>1. PICK P : Upto(m - 1, P)
    BY <1>3
  <2> DEFINE Q == [i \in 0..m |-> IF i = m THEN P[m - 1] \o e[m] ELSE P[i]]
  <2>2. Q \in [0..m -> Seq(S)]
    <3>1. e[m] \in Seq(S) /\ P[m - 1] \in Seq(S)
      BY <1>1, <2>1
    <3> QED
      BY <1>1, <2>1, <3>1
  <2>3. Q[0] = <<>>
    BY <1>1, <2>1
  <2>4. ASSUME NEW i \in 1..m PROVE Q[i] = Q[i - 1] \o e[i]
    <3> HIDE DEF n
    <3>1. i \in 0..m /\ i - 1 \in 0..m /\ i - 1 # m /\ m \in Nat /\ (i # m => i \in 1..(m - 1))
      BY <1>1
    <3>2. Q[i - 1] = P[i - 1]
      BY <3>1
    <3>3. CASE i = m
      BY <3>1, <3>2, <3>3
    <3>4. CASE i # m
      BY <2>1, <3>1, <3>2, <3>4
    <3> QED
      BY <3>3, <3>4
  <2>5. Upto(m, Q)
    BY <2>2, <2>3, <2>4
  <2> HIDE DEF Upto
  <2> QED
    BY <2>5
<1> HIDE DEF T, n
<1>4. n \in T
  <2>1. \A i \in 1..n : i - 1 \in T => i \in T
    BY <1>3
  <2>2. \A i \in 0..n : i \in T
    BY <1>1, <1>2, <2>1, Upward
  <2> QED
    BY <1>1, <2>2
<1> QED
  BY <1>4 DEF T, n, FirstParts

LEMMA FirstPartFacts ==
  ASSUME NEW S, NEW e \in Seq(Seq(S)), NEW P, FirstParts(P, e, S), NEW m \in 1..Len(e)
  PROVE  /\ P[m - 1] \in Seq(S) /\ P[m] \in Seq(S) /\ e[m] \in Seq(S)
         /\ P[m] = P[m - 1] \o e[m]
         /\ m - 1 \in 0..Len(e)
<1> DEFINE n == Len(e)
<1>1. n \in Nat /\ e[m] \in Seq(S) /\ m \in 1..n
  OBVIOUS
<1>2. /\ P \in [0..n -> Seq(S)]
      /\ \A i \in 1..n : P[i] = P[i - 1] \o e[i]
  BY DEF FirstParts
<1> HIDE DEF n
<1>3. m - 1 \in 0..n /\ m \in 0..n
  BY <1>1
<1>4. P[m - 1] \in Seq(S) /\ P[m] \in Seq(S) /\ P[m] = P[m - 1] \o e[m]
  BY <1>1, <1>2, <1>3
<1> QED
  BY <1>1, <1>3, <1>4 DEF n

\* What FlattenSeq computes.
LEMMA Flattening ==
  ASSUME NEW S, NEW e \in Seq(Seq(S))
  PROVE  \E P : FirstParts(P, e, S) /\ FlattenSeq(e) = P[Len(e)]
<1> DEFINE n == Len(e)
           body(f) == [i \in 1..n |-> IF i = 1 THEN e[i] ELSE f[i - 1] \o e[i]]
<1>1. PICK P : FirstParts(P, e, S)
  BY FirstPartsExist
<1>2. /\ n \in Nat /\ P[0] = <<>>
      /\ \A m \in 1..n : P[m] = P[m - 1] \o e[m] /\ (m = 1 => P[m] = e[m])
  <2>1. P[0] = <<>> /\ n \in Nat
    BY <1>1 DEF FirstParts
  <2>2. ASSUME NEW m \in 1..n PROVE P[m] = P[m - 1] \o e[m] /\ (m = 1 => P[m] = e[m])
    <3>1. P[m] = P[m - 1] \o e[m] /\ e[m] \in Seq(S)
      BY <1>1, FirstPartFacts
    <3>2. <<>> \o e[m] = e[m]
      BY <3>1, ConcatEmptySeq
    <3>3. m = 1 => m - 1 = 0
      OBVIOUS
    <3> QED
      BY <2>1, <3>1, <3>2, <3>3
  <2> QED
    BY <2>1, <2>2
<1>3. CASE n = 0
  <2>1. FlattenSeq(e) = e
    BY <1>3 DEF FlattenSeq
  <2>2. e = <<>>
    BY <1>3
  <2> QED
    BY <1>1, <1>2, <1>3, <2>1, <2>2
<1>4. CASE n # 0
  <2> DEFINE f == CHOOSE f : f = body(f)
             g == [i \in 1..n |-> P[i]]
  <2>1. FlattenSeq(e) = f[n]
    BY <1>4 DEF FlattenSeq
  <2> HIDE DEF n
  <2>2. g = body(g)
    <3>1. ASSUME NEW i \in 1..n PROVE P[i] = IF i = 1 THEN e[i] ELSE g[i - 1] \o e[i]
      <4>1. i # 1 => i - 1 \in 1..n
        BY <1>2
      <4> QED
        BY <1>2, <4>1
    <3> QED
      BY <3>1
  <2>3. f = body(f)
    BY <2>2
  <2> HIDE DEF f
  <2>4. \A i \in 1..n : f[i] = IF i = 1 THEN e[i] ELSE f[i - 1] \o e[i]
    BY <2>3
  <2> DEFINE T == {i \in 0..n : i = 0 \/ f[i] = P[i]}
  <2>5. 0 \in T
    BY <1>2
  <2>6. ASSUME NEW i \in 1..n, i - 1 \in T PROVE i \in T
    <3>1. i \in 0..n /\ (i # 1 => i - 1 # 0)
      BY <1>2
    <3>2. i # 1 => f[i - 1] = P[i - 1]
      BY <2>6, <3>1
    <3>3. f[i] = P[i]
      BY <1>2, <2>4, <3>2
    <3> QED
      BY <3>1, <3>3
  <2> HIDE DEF T
  <2>7. n \in T
    <3>1. \A i \in 1..n : i - 1 \in T => i \in T
      BY <2>6
    <3>2. \A i \in 0..n : i \in T
      BY <1>2, <2>5, <3>1, Upward
    <3> QED
      BY <1>2, <3>2
  <2>8. FlattenSeq(e) = P[n]
    BY <1>4, <2>1, <2>7 DEF T
  <2> QED
    BY <1>1, <2>8 DEF n
<1> QED
  BY <1>3, <1>4

PartStands(P, e, i) ==
    Len(P[i]) = Len(P[i - 1]) + Len(e[i]) /\ Stands(e[i], P[Len(e)], Len(P[i - 1]))

\* A part stands in the whole where it was put.
LEMMA PartInWhole ==
  ASSUME NEW S, NEW e \in Seq(Seq(S)), NEW P, FirstParts(P, e, S), NEW i \in 1..Len(e)
  PROVE  PartStands(P, e, i)
<1> DEFINE n == Len(e)
           T == {m \in 0..n : m < i \/ /\ Len(P[i]) <= Len(P[m])
                                       /\ \A x \in 1..Len(P[i]) : P[m][x] = P[i][x]}
<1>1. /\ n \in Nat /\ i \in 1..n
      /\ \A m \in 1..n : /\ e[m] \in Seq(S) /\ Len(e[m]) \in Nat /\ m - 1 \in 0..n
                         /\ P[m] = P[m - 1] \o e[m]
      /\ \A m \in 0..n : P[m] \in Seq(S) /\ Len(P[m]) \in Nat
  <2>1. n \in Nat /\ i \in 1..n
    OBVIOUS
  <2>2. ASSUME NEW m \in 1..n
        PROVE  /\ e[m] \in Seq(S) /\ Len(e[m]) \in Nat /\ m - 1 \in 0..n
               /\ P[m] = P[m - 1] \o e[m]
    <3>1. e[m] \in Seq(S) /\ P[m] = P[m - 1] \o e[m] /\ m - 1 \in 0..n
      BY FirstPartFacts
    <3> QED
      BY <3>1
  <2>3. ASSUME NEW m \in 0..n PROVE P[m] \in Seq(S) /\ Len(P[m]) \in Nat
    BY DEF FirstParts
  <2> QED
    BY <2>1, <2>2, <2>3
<1> HIDE DEF n
<1>2. ASSUME NEW m \in 1..n
      PROVE  /\ Len(P[m]) = Len(P[m - 1]) + Len(e[m])
             /\ \A x \in 1..Len(P[m - 1]) : P[m][x] = P[m - 1][x]
             /\ \A j \in 1..Len(e[m]) : P[m][Len(P[m - 1]) + j] = e[m][j]
  <2>1. P[m] = P[m - 1] \o e[m] /\ P[m - 1] \in Seq(S) /\ e[m] \in Seq(S)
    BY <1>1
  <2> DEFINE s == P[m - 1]
             t == e[m]
  <2>2. s \in Seq(S) /\ t \in Seq(S) /\ P[m] = s \o t
    BY <2>1
  <2> HIDE DEF s, t
  <2>3. /\ Len(s \o t) = Len(s) + Len(t)
        /\ \A x \in 1..Len(s) : (s \o t)[x] = s[x]
        /\ \A j \in 1..Len(t) : (s \o t)[Len(s) + j] = t[j]
    BY <2>2, Joined
  <2> QED
    BY <2>2, <2>3 DEF s, t
<1>3. 0 \in T
  BY <1>1
<1>4. ASSUME NEW m \in 1..n, m - 1 \in T PROVE m \in T
  <2>1. CASE m < i
    BY <1>1, <2>1
  <2>2. CASE m = i
    BY <1>1, <2>2
  <2>3. CASE i < m
    <3>1. Len(P[i]) <= Len(P[m - 1]) /\ \A x \in 1..Len(P[i]) : P[m - 1][x] = P[i][x]
      <4>1. ~(m - 1 < i)
        BY <1>1, <2>3
      <4> QED
        BY <1>4, <4>1
    <3> DEFINE a == Len(P[i])
               b == Len(P[m - 1])
               c == Len(P[m])
               d == Len(e[m])
    <3>2. a \in Nat /\ b \in Nat /\ c \in Nat /\ d \in Nat /\ c = b + d /\ a <= b
      <4>1. m - 1 \in 0..n /\ m \in 0..n /\ i \in 0..n
        BY <1>1
      <4>2. a \in Nat /\ b \in Nat /\ c \in Nat /\ d \in Nat
        BY <1>1, <4>1
      <4> QED
        BY <1>2, <3>1, <4>2
    <3>3. \A x \in 1..b : P[m][x] = P[m - 1][x]
      BY <1>2
    <3>4. \A x \in 1..a : P[m - 1][x] = P[i][x]
      BY <3>1
    <3>5. a <= c /\ \A x \in 1..a : P[m][x] = P[i][x]
      <4> HIDE DEF a, b, c, d
      <4> QED
        BY <3>2, <3>3, <3>4
    <3> QED
      BY <1>1, <3>5
  <2> QED
    BY <1>1, <2>1, <2>2, <2>3
<1> HIDE DEF T
<1>5. n \in T
  <2>1. \A m \in 1..n : m - 1 \in T => m \in T
    BY <1>4
  <2>2. \A m \in 0..n : m \in T
    BY <1>1, <1>3, <2>1, Upward
  <2> QED
    BY <1>1, <2>2
<1>6. Len(P[i]) <= Len(P[n]) /\ \A x \in 1..Len(P[i]) : P[n][x] = P[i][x]
  BY <1>1, <1>5 DEF T
<1>7. ASSUME NEW j \in 1..Len(e[i]) PROVE P[n][Len(P[i - 1]) + j] = e[i][j]
  <2> DEFINE a == Len(P[i - 1])
             c == Len(P[i])
             d == Len(e[i])
  <2>1. a \in Nat /\ d \in Nat /\ c = a + d /\ j \in 1..d
    BY <1>1, <1>2
  <2>2. a + j \in 1..c
    <3> HIDE DEF a, c, d
    <3> QED
      BY <2>1
  <2>3. P[i][a + j] = e[i][j]
    BY <1>1, <1>2
  <2> QED
    BY <1>6, <2>2, <2>3
<1> QED
  BY <1>1, <1>2, <1>6, <1>7 DEF n, PartStands, Stands

\* A running concatenation written as a recursive function.
RunBody(e, z, f) == [i \in 0..z |-> IF i = 0 THEN <<>> ELSE f[i - 1] \o e[i]]

LEMMA Running ==
  ASSUME NEW S, NEW e \in Seq(Seq(S)), NEW z, z = Len(e)
  PROVE  FirstParts(CHOOSE f : f = RunBody(e, z, f), e, S)
<1>1. PICK P : FirstParts(P, e, S)
  BY FirstPartsExist
<1>2. z \in Nat /\ P \in [0..z -> Seq(S)] /\ P[0] = <<>> /\ \A i \in 1..z : P[i] = P[i - 1] \o e[i]
  BY <1>1 DEF FirstParts
<1> DEFINE f == CHOOSE f : f = RunBody(e, z, f)
<1>3. P = RunBody(e, z, P)
  <2>1. ASSUME NEW i \in 0..z PROVE P[i] = IF i = 0 THEN <<>> ELSE P[i - 1] \o e[i]
    <3>1. i # 0 => i \in 1..z
      BY <1>2
    <3> QED
      BY <1>2, <3>1
  <2>2. P = [i \in 0..z |-> P[i]]
    BY <1>2
  <2> QED
    BY <2>1, <2>2 DEF RunBody
<1>4. f = RunBody(e, z, f)
  BY <1>3
<1> HIDE DEF f
<1>5. \A i \in 0..z : f[i] = IF i = 0 THEN <<>> ELSE f[i - 1] \o e[i]
  BY <1>4 DEF RunBody
<1> DEFINE T == {i \in 0..z : f[i] = P[i]}
<1>6. 0 \in T
  BY <1>2, <1>5
<1>7. ASSUME NEW i \in 1..z, i - 1 \in T PROVE i \in T
  <2>1. i \in 0..z /\ i # 0 /\ f[i - 1] = P[i - 1]
    BY <1>2, <1>7
  <2> QED
    BY <1>2, <1>5, <2>1
<1> HIDE DEF T
<1>8. \A i \in 0..z : i \in T
  <2>1. \A i \in 1..z : i - 1 \in T => i \in T
    BY <1>7
  <2> QED
    BY <1>2, <1>6, <2>1, Upward
<1>9. f = P
  <2>1. f = [i \in 0..z |-> f[i]]
    BY <1>4, <1>5 DEF RunBody
  <2>2. P = [i \in 0..z |-> P[i]]
    BY <1>2
  <2>3. \A i \in 0..z : f[i] = P[i]
    BY <1>8 DEF T
  <2> QED
    BY <2>1, <2>2, <2>3
<1> QED
  BY <1>1, <1>9 DEF f

\* Parts that are nothing, and parts that are a letter of s each.
AllEmpty(e, a, b)   == \A i \in (a + 1)..b : e[i] = <<>>
Lettered(e, s, a, b) == \A i \in (a + 1)..b : e[i] = <<s[i]>>

LEMMA PartsOfNothing ==
  ASSUME NEW S, NEW e \in Seq(Seq(S)), NEW P, FirstParts(P, e, S),
         NEW a \in 0..Len(e), NEW b \in a..Len(e), AllEmpty(e, a, b)
  PROVE  P[b] = P[a]
<1> DEFINE n == Len(e)
           T == {i \in 0..n : a <= i /\ i <= b => P[i] = P[a]}
<1>1. /\ n \in Nat /\ a \in 0..n /\ b \in 0..n /\ a <= b
      /\ \A i \in 1..n : P[i] = P[i - 1] \o e[i] /\ P[i - 1] \in Seq(S)
  <2>1. ASSUME NEW i \in 1..n PROVE P[i] = P[i - 1] \o e[i] /\ P[i - 1] \in Seq(S)
    BY FirstPartFacts
  <2>2. n \in Nat /\ a \in 0..n /\ b \in 0..n /\ a <= b
    OBVIOUS
  <2> HIDE DEF n
  <2> QED
    BY <2>1, <2>2
<1> HIDE DEF n
<1>2. 0 \in T
  <2>1. a <= 0 => a = 0
    BY <1>1
  <2> QED
    BY <1>1, <2>1
<1>3. ASSUME NEW i \in 1..n, i - 1 \in T PROVE i \in T
  <2>1. i \in 0..n /\ (a = i \/ a <= i - 1 \/ i < a) /\ (i <= b => i - 1 <= b)
    BY <1>1
  <2>2. CASE a <= i - 1 /\ i <= b
    <3>1. P[i] = P[a] \o <<>>
      <4>1. i \in (a + 1)..b
        BY <1>1, <2>2
      <4>2. e[i] = <<>>
        BY <4>1 DEF AllEmpty
      <4>3. P[i - 1] = P[a]
        BY <1>3, <2>1, <2>2
      <4> QED
        BY <1>1, <4>2, <4>3
    <3>2. P[a] \in Seq(S)
      BY <1>1, <1>3, <2>1, <2>2
    <3>3. P[a] \o <<>> = P[a]
      BY <3>2, ConcatEmptySeq
    <3> QED
      BY <2>1, <3>1, <3>3
  <2>3. CASE ~(a <= i - 1 /\ i <= b)
    BY <1>1, <2>1, <2>3
  <2> QED
    BY <2>2, <2>3
<1> HIDE DEF T
<1>4. b \in T
  <2>1. \A i \in 1..n : i - 1 \in T => i \in T
    BY <1>3
  <2>2. \A i \in 0..n : i \in T
    BY <1>1, <1>2, <2>1, Upward
  <2> QED
    BY <1>1, <2>2
<1> QED
  BY <1>1, <1>4 DEF T

Grows(P, s, a, b)    == P[b] = P[a] \o SubSeq(s, a + 1, b)

LEMMA PartsOfLetters ==
  ASSUME NEW S, NEW e \in Seq(Seq(S)), NEW P, FirstParts(P, e, S), NEW s \in Seq(S),
         NEW a \in 0..Len(e), NEW b \in a..Len(e), b <= Len(s), Lettered(e, s, a, b)
  PROVE  Grows(P, s, a, b)
<1> SUFFICES P[b] = P[a] \o SubSeq(s, a + 1, b)
  BY DEF Grows
<1> DEFINE n == Len(e)
           run(i) == SubSeq(s, a + 1, i)
           T == {i \in 0..n : a <= i /\ i <= b => P[i] = P[a] \o run(i)}
<1>1. /\ n \in Nat /\ a \in 0..n /\ b \in 0..n /\ a <= b
      /\ \A i \in 1..n : P[i] = P[i - 1] \o e[i]
      /\ P[a] \in Seq(S)
  <2>1. ASSUME NEW i \in 1..n PROVE P[i] = P[i - 1] \o e[i]
    BY FirstPartFacts
  <2>2. P[a] \in Seq(S)
    BY DEF FirstParts
  <2>3. n \in Nat /\ a \in 0..n /\ b \in 0..n /\ a <= b
    OBVIOUS
  <2> HIDE DEF n
  <2> QED
    BY <2>1, <2>2, <2>3
<1>2. P[a] = P[a] \o run(a)
  <2>1. run(a) = <<>>
    BY <1>1, SubSeqEmpty
  <2> QED
    BY <1>1, <2>1, ConcatEmptySeq
<1>3. ASSUME NEW i \in (a + 1)..b
      PROVE  run(i - 1) \in Seq(S) /\ <<s[i]>> \in Seq(S) /\ run(i) = run(i - 1) \o <<s[i]>>
  <2> DEFINE z == Len(s)
  <2>1. z \in Nat /\ b <= z
    OBVIOUS
  <2>2. \A k \in 1..z : s[k] \in S
    OBVIOUS
  <2>3. i \in 1..z /\ a + 1 \in 1..i /\ i \in (a + 1)..z /\ a + 1 \in 1..z
    <3> HIDE DEF z
    <3> QED
      BY <1>1, <2>1
  <2>4. run(i) = run(i - 1) \o <<s[i]>>
    BY <2>3, SubSeqRecursiveSecond
  <2>5. run(i - 1) \in Seq(S)
    <3>1. a + 1 \in Int /\ i - 1 \in Int /\ \A k \in (a + 1)..(i - 1) : s[k] \in S
      <4> HIDE DEF z
      <4> QED
        BY <1>1, <2>2, <2>3
    <3> QED
      BY <3>1, SubSeqProperties
  <2>6. s[i] \in S
    BY <2>2, <2>3
  <2> HIDE DEF run
  <2> QED
    BY <2>4, <2>5, <2>6
<1> HIDE DEF n, run
<1>4. 0 \in T
  <2>1. a <= 0 => a = 0
    BY <1>1
  <2> QED
    BY <1>1, <1>2, <2>1
<1>5. ASSUME NEW i \in 1..n, i - 1 \in T PROVE i \in T
  <2>1. i \in 0..n /\ (a = i \/ a <= i - 1 \/ i < a) /\ (i <= b => i - 1 <= b)
    BY <1>1
  <2>2. CASE a <= i - 1 /\ i <= b
    <3>1. i \in (a + 1)..b
      BY <1>1, <2>2
    <3>2. P[i - 1] = P[a] \o run(i - 1)
      BY <1>1, <1>5, <2>1, <2>2
    <3>3. P[i] = (P[a] \o run(i - 1)) \o <<s[i]>>
      <4>1. e[i] = <<s[i]>>
        BY <3>1 DEF Lettered
      <4> QED
        BY <1>1, <3>2, <4>1
    <3>4. P[i] = P[a] \o (run(i - 1) \o <<s[i]>>)
      <4> DEFINE u == run(i - 1)
                 v == <<s[i]>>
                 w == P[a]
      <4>1. u \in Seq(S) /\ v \in Seq(S) /\ w \in Seq(S) /\ P[i] = (w \o u) \o v
        BY <1>1, <1>3, <3>1, <3>3
      <4> HIDE DEF u, v, w
      <4>2. (w \o u) \o v = w \o (u \o v)
        BY <4>1, ConcatAssociative
      <4> QED
        BY <4>1, <4>2 DEF u, v, w
    <3>5. P[i] = P[a] \o run(i)
      BY <1>3, <3>1, <3>4
    <3> QED
      BY <2>1, <3>5
  <2>3. CASE a = i
    BY <1>2, <2>1, <2>3
  <2>4. CASE i < a \/ b < i
    BY <1>1, <2>1, <2>4
  <2> QED
    BY <1>1, <2>1, <2>2, <2>3, <2>4
<1> HIDE DEF T
<1>6. b \in T
  <2>1. \A i \in 1..n : i - 1 \in T => i \in T
    BY <1>5
  <2>2. \A i \in 0..n : i \in T
    BY <1>1, <1>4, <2>1, Upward
  <2> QED
    BY <1>1, <2>2
<1>7. P[b] = P[a] \o run(b)
  BY <1>1, <1>6 DEF T
<1> QED
  BY <1>7 DEF run

-----------------------------------------------------------------------------
(* Recursive functions there are *)

\* Forwards: each value from the one before.
Forth(f, m, T, a, step) ==
    f \in [0..m -> T] /\ f[0] = a /\ \A i \in 1..m : f[i] = step[i][f[i - 1]]

LEMMA Forwards ==
  ASSUME NEW T, NEW n \in Nat, NEW a \in T, NEW step \in [1..n -> [T -> T]]
  PROVE  \E f : Forth(f, n, T, a, step)
<1> DEFINE Upto(m, f) == f \in [0..m -> T] /\ f[0] = a /\ \A i \in 1..m : f[i] = step[i][f[i - 1]]
           M == {m \in 0..n : \E f : Upto(m, f)}
<1>1. 0 \in M
  <2> DEFINE f == [i \in 0..0 |-> a]
  <2>1. Upto(0, f)
    OBVIOUS
  <2> HIDE DEF Upto, f
  <2> QED
    BY <2>1
<1>2. ASSUME NEW m \in 1..n, m - 1 \in M PROVE m \in M
  <2>1. PICK f : Upto(m - 1, f)
    BY <1>2
  <2> DEFINE g == [i \in 0..m |-> IF i = m THEN step[m][f[m - 1]] ELSE f[i]]
  <2>2. g \in [0..m -> T] /\ g[0] = a
    BY <2>1
  <2>3. ASSUME NEW i \in 1..m PROVE g[i] = step[i][g[i - 1]]
    <3>1. i \in 0..m /\ i - 1 \in 0..m /\ i - 1 # m /\ (i # m => i \in 1..(m - 1))
      OBVIOUS
    <3>2. g[i - 1] = f[i - 1]
      BY <3>1
    <3>3. CASE i = m
      BY <3>1, <3>2, <3>3
    <3>4. CASE i # m
      BY <2>1, <3>1, <3>2, <3>4
    <3> QED
      BY <3>3, <3>4
  <2>4. Upto(m, g)
    BY <2>2, <2>3
  <2> HIDE DEF Upto, g
  <2> QED
    BY <2>4
<1> HIDE DEF M
<1>3. n \in M
  <2>1. \A m \in 1..n : m - 1 \in M => m \in M
    BY <1>2
  <2>2. \A m \in 0..n : m \in M
    BY <1>1, <2>1, Upward
  <2> QED
    BY <2>2
<1> QED
  BY <1>3 DEF M, Forth

\* Backwards: each value from a later one, or from none.
Behind(i, z, next, step, base, f) ==
    IF next[i] \in (i + 1)..z THEN step[i][f[next[i]]] ELSE base[i]

Back(f, z, T, next, step, base) ==
    f \in [1..z -> T] /\ \A i \in 1..z : f[i] = Behind(i, z, next, step, base, f)

LEMMA Backwards ==
  ASSUME NEW T, NEW z \in Nat, NEW next \in [1..z -> Nat], NEW step \in [1..z -> [T -> T]],
         NEW base \in [1..z -> T]
  PROVE  \E f : Back(f, z, T, next, step, base)
<1> DEFINE From(m, f) == /\ f \in [(m + 1)..z -> T]
                         /\ \A i \in (m + 1)..z : f[i] = Behind(i, z, next, step, base, f)
           M == {m \in 0..z : \E f : From(m, f)}
<1>1. z \in M
  <2> DEFINE f == [i \in (z + 1)..z |-> base[i]]
  <2>1. From(z, f)
    OBVIOUS
  <2> HIDE DEF From, f
  <2> QED
    BY <2>1
<1>2. ASSUME NEW m \in 1..z, m \in M PROVE m - 1 \in M
  <2>1. PICK f : From(m, f)
    BY <1>2
  <2> DEFINE g == [i \in m..z |-> IF i = m THEN Behind(m, z, next, step, base, f) ELSE f[i]]
  <2>2. Behind(m, z, next, step, base, f) \in T
    <3>1. CASE next[m] \in (m + 1)..z
      <4>1. f[next[m]] \in T
        BY <2>1, <3>1
      <4> QED
        BY <3>1, <4>1 DEF Behind
    <3>2. CASE next[m] \notin (m + 1)..z
      BY <3>2 DEF Behind
    <3> QED
      BY <3>1, <3>2
  <2>3. g \in [m..z -> T]
    BY <2>1, <2>2
  <2>4. ASSUME NEW i \in m..z PROVE g[i] = Behind(i, z, next, step, base, g)
    <3>1. g[i] = Behind(i, z, next, step, base, f)
      <4>1. i # m => i \in (m + 1)..z
        OBVIOUS
      <4> QED
        BY <2>1, <4>1
    <3>2. next[i] \in (i + 1)..z => g[next[i]] = f[next[i]]
      OBVIOUS
    <3> HIDE DEF g
    <3> QED
      BY <3>1, <3>2 DEF Behind
  <2>5. From(m - 1, g)
    <3>1. (m - 1) + 1 = m
      OBVIOUS
    <3> HIDE DEF g
    <3> QED
      BY <2>3, <2>4, <3>1
  <2> HIDE DEF From, g
  <2> QED
    BY <2>5
<1> HIDE DEF M
<1>3. 0 \in M
  <2>1. \A m \in 1..z : m \in M => m - 1 \in M
    BY <1>2
  <2>2. \A m \in 0..z : m \in M
    BY <1>1, <2>1, Downward
  <2> QED
    BY <2>2
<1> QED
  <2>1. PICK f : From(0, f)
    BY <1>3 DEF M
  <2>2. /\ f \in [(0 + 1)..z -> T]
        /\ \A i \in (0 + 1)..z : f[i] = Behind(i, z, next, step, base, f)
    BY <2>1
  <2>3. 0 + 1 = 1
    OBVIOUS
  <2> HIDE DEF From
  <2>4. Back(f, z, T, next, step, base)
    BY <2>2, <2>3 DEF Back
  <2> QED
    BY <2>4
=============================================================================
