--------------------------- MODULE CatalogProofs ---------------------------
(***************************************************************************)
(* Proofs that the catalogue keeps its types and implements                *)
(* ProfileRegistry, for any number of goroutines, any plans and names.     *)
(***************************************************************************)
EXTENDS Catalog, SequenceFacts, TLAPS

-----------------------------------------------------------------------------
(* The least and the greatest of a set of numbers *)

LEMMA MinIs == ASSUME NEW S \in SUBSET Nat, S # {} PROVE Min(S) \in S /\ \A y \in S : Min(S) <= y
  BY Least DEF Min

LEMMA MaxIs ==
  ASSUME NEW n \in Nat, NEW S \in SUBSET (1..n), S # {}
  PROVE  Max(S) \in S /\ \A y \in S : Max(S) >= y
<1> DEFINE R == {k \in Nat : n - k \in S}
<1>1. R # {}
  <2>1. PICK x \in S : TRUE
    OBVIOUS
  <2>2. n - x \in Nat /\ n - (n - x) = x
    OBVIOUS
  <2> QED
    BY <2>1, <2>2
<1>2. PICK k \in R : \A m \in R : k <= m
  BY <1>1, Least
<1>3. n - k \in S /\ \A y \in S : n - k >= y
  <2>1. \A y \in S : n - y \in Nat /\ n - (n - y) = y
    OBVIOUS
  <2> QED
    BY <1>2, <2>1
<1> QED
  BY <1>3 DEF Max

-----------------------------------------------------------------------------
(* What validateURLTemplate accepts *)

\* From i on, every "open" begins a placeholder.
Sound(tpl, i) == \A j \in i..Len(tpl) : tpl[j] = "open" => Placeholder(tpl, j)

LEMMA ClosingIs ==
  ASSUME NEW tpl \in Seq(STRING), NEW i \in 1..Len(tpl), tpl[i] = "open"
  PROVE  /\ Placeholder(tpl, i) => Closing(tpl, i) = i + 2
         /\ Closing(tpl, i) # 0 => Closing(tpl, i) \in (i + 1)..Len(tpl) /\ tpl[Closing(tpl, i)] = "close"
<1> DEFINE C == {j \in i..Len(tpl) : tpl[j] = "close"}
<1>1. C \in SUBSET Nat
  OBVIOUS
<1>2. C # {} => Min(C) \in C /\ \A y \in C : Min(C) <= y
  BY <1>1, MinIs
<1>3. Closing(tpl, i) = IF C = {} THEN 0 ELSE Min(C)
  BY DEF Closing
<1>4. \A j \in C : j \in (i + 1)..Len(tpl) /\ tpl[j] = "close"
  OBVIOUS
<1>5. ASSUME Placeholder(tpl, i) PROVE i + 2 \in C /\ i + 1 \notin C /\ i \notin C
  BY <1>5 DEF Placeholder, Fields
<1> HIDE DEF C
<1>6. ASSUME Placeholder(tpl, i) PROVE Min(C) = i + 2
  <2>1. Min(C) \in C /\ Min(C) <= i + 2
    BY <1>2, <1>5, <1>6
  <2>2. Min(C) \in (i + 1)..Len(tpl) /\ Min(C) # i + 1
    BY <2>1, <1>4, <1>5, <1>6
  <2> QED
    BY <2>1, <2>2
<1> QED
  BY <1>2, <1>3, <1>4, <1>5, <1>6

LEMMA NameIs ==
  ASSUME NEW tpl \in Seq(STRING), NEW i \in 1..Len(tpl), tpl[i] = "open", NEW e \in (i + 1)..Len(tpl), tpl[e] = "close"
  PROVE  SubSeq(tpl, i + 1, e - 1) \in {<<f>> : f \in Fields} => e = i + 2 /\ tpl[i + 1] \in Fields
<1> SUFFICES ASSUME NEW f \in Fields, SubSeq(tpl, i + 1, e - 1) = <<f>>
             PROVE e = i + 2 /\ tpl[i + 1] \in Fields
  OBVIOUS
<1>1. Len(SubSeq(tpl, i + 1, e - 1)) = 1 /\ SubSeq(tpl, i + 1, e - 1)[1] = f
  <2>1. Len(<<f>>) = 1 /\ <<f>>[1] = f
    OBVIOUS
  <2> QED
    BY <2>1, Zenon
<1>2. /\ Len(SubSeq(tpl, i + 1, e - 1)) = IF i + 1 <= e - 1 THEN e - 1 - (i + 1) + 1 ELSE 0
      /\ \A k \in 1..(e - 1 - (i + 1) + 1) : SubSeq(tpl, i + 1, e - 1)[k] = tpl[i + 1 + k - 1]
  <2>1. /\ i + 1 \in Int /\ e - 1 \in Int
        /\ \A k \in (i + 1)..(e - 1) : tpl[k] \in STRING
    OBVIOUS
  <2> QED
    BY <2>1, SubSeqProperties
<1>3. e = i + 2
  BY <1>1, <1>2
<1>4. SubSeq(tpl, i + 1, e - 1)[1] = tpl[i + 1]
  BY <1>2, <1>3
<1> QED
  BY <1>1, <1>3, <1>4

LEMMA NameOf ==
  ASSUME NEW tpl \in Seq(STRING), NEW i \in 1..Len(tpl), Placeholder(tpl, i)
  PROVE  SubSeq(tpl, i + 1, i + 1) \in {<<f>> : f \in Fields}
<1>1. i + 1 \in 1..Len(tpl)
  BY DEF Placeholder
<1>2. SubSeq(tpl, i + 1, i + 1) = <<tpl[i + 1]>> \o SubSeq(tpl, i + 1 + 1, i + 1)
  BY <1>1, SubSeqRecursiveFirst
<1>3. SubSeq(tpl, i + 1 + 1, i + 1) = <<>>
  BY SubSeqEmpty
<1>4. <<tpl[i + 1]>> \in Seq(STRING)
  BY <1>1
<1>5. SubSeq(tpl, i + 1, i + 1) = <<tpl[i + 1]>>
  BY <1>2, <1>3, <1>4, ConcatEmptySeq
<1> QED
  BY <1>5 DEF Placeholder

ScanBody(tpl, ok) ==
  [i \in 1..(Len(tpl) + 1) |->
            IF i > Len(tpl) THEN TRUE
            ELSE IF tpl[i] # "open" THEN ok[i + 1]
            ELSE LET end == Closing(tpl, i) IN
                 /\ end # 0
                 /\ SubSeq(tpl, i + 1, end - 1) \in {<<f>> : f \in Fields}
                 /\ ok[end + 1]]

LEMMA ScanChosen ==
  ASSUME NEW tpl, NEW w, w = ScanBody(tpl, w)
  PROVE Scan(tpl) = ScanBody(tpl, Scan(tpl))
<1>1. Scan(tpl) = CHOOSE ok : ok = ScanBody(tpl, ok)
  BY DEF Scan, ScanBody
<1> QED
  BY <1>1

LEMMA SoundFixed ==
  ASSUME NEW tpl \in Seq(STRING)
  PROVE [i \in 1..(Len(tpl) + 1) |-> Sound(tpl, i)] = ScanBody(tpl, [i \in 1..(Len(tpl) + 1) |-> Sound(tpl, i)])
<1> DEFINE w == [i \in 1..(Len(tpl) + 1) |-> Sound(tpl, i)]
<1>1. ASSUME NEW i \in 1..Len(tpl), tpl[i] # "open"
      PROVE  Sound(tpl, i) <=> Sound(tpl, i + 1)
   BY <1>1 DEF Sound
<1>2. ASSUME NEW i \in 1..Len(tpl), tpl[i] = "open", Placeholder(tpl, i)
      PROVE  Sound(tpl, i) <=> Sound(tpl, i + 3)
  <2>1. tpl[i + 1] # "open" /\ tpl[i + 2] # "open" /\ i + 2 <= Len(tpl)
    BY <1>2 DEF Placeholder, Fields
  <2> QED
   BY <1>2, <2>1 DEF Sound
<1>3. Sound(tpl, Len(tpl) + 1)
   BY DEF Sound
<1>4. ASSUME NEW i \in 1..Len(tpl), tpl[i] = "open"
      PROVE Placeholder(tpl, i) <=> /\ Closing(tpl, i) # 0 
                 /\ SubSeq(tpl, i + 1, Closing(tpl, i) - 1) \in {<<f>> : f \in Fields}
  <2>1. ASSUME Placeholder(tpl, i) PROVE Closing(tpl, i) # 0 /\ SubSeq(tpl, i + 1, Closing(tpl, i) - 1) \in {<<f>> : f \in Fields}
    <3>1. Closing(tpl, i) = i + 2 /\ Closing(tpl, i) - 1 = i + 1
      BY <1>4, <2>1, ClosingIs
    <3> QED BY <3>1, <2>1, NameOf
  <2>2. ASSUME Closing(tpl, i) # 0,
            SubSeq(tpl, i + 1, Closing(tpl, i) - 1) \in {<<f>> : f \in Fields}
        PROVE Placeholder(tpl, i)
    <3>1. Closing(tpl, i) \in (i + 1)..Len(tpl) /\ tpl[Closing(tpl, i)] = "close"
      BY <1>4, <2>2, ClosingIs
    <3>2. Closing(tpl, i) = i + 2 /\ tpl[i + 1] \in Fields
      BY <3>1, <2>2, <1>4, NameIs
    <3> QED BY <3>1, <3>2, <1>4 DEF Placeholder
  <2> QED BY <2>1, <2>2
<1>5. ASSUME NEW i \in 1..Len(tpl), tpl[i] = "open", Placeholder(tpl, i)
      PROVE Closing(tpl, i) + 1 = i + 3 /\ i + 3 \in 1..(Len(tpl) + 1)
   BY <1>5, ClosingIs DEF Placeholder
<1>6. ASSUME NEW i \in 1..Len(tpl), tpl[i] = "open", ~ Placeholder(tpl, i)
      PROVE ~ Sound(tpl, i)
   BY <1>6 DEF Sound
<1> DEFINE body(i) ==
            IF i > Len(tpl) THEN TRUE
            ELSE IF tpl[i] # "open" THEN w[i + 1]
            ELSE LET end == Closing(tpl, i) IN
                 /\ end # 0
                 /\ SubSeq(tpl, i + 1, end - 1) \in {<<f>> : f \in Fields}
                 /\ w[end + 1]
<1>7. ASSUME NEW i \in 1..(Len(tpl) + 1) PROVE Sound(tpl, i) = body(i)
  <2>0. \A k \in 1..(Len(tpl) + 1) : w[k] = Sound(tpl, k)
    OBVIOUS
  <2> Sound(tpl, i) \in BOOLEAN
    BY DEF Sound
  <2> HIDE DEF w
  <2>1. CASE i = Len(tpl) + 1
    <3>1. i > Len(tpl)
      BY <2>1
    <3> QED
      BY <2>1, <3>1, <1>3
  <2>2. CASE i \in 1..Len(tpl) /\ tpl[i] # "open"
    <3>1. ~(i > Len(tpl)) /\ i + 1 \in 1..(Len(tpl) + 1)
      BY <2>2
    <3>2. w[i + 1] = Sound(tpl, i + 1)
      BY <3>1, <2>0
    <3>3. Sound(tpl, i) = Sound(tpl, i + 1)
      BY <2>2, <1>1 DEF Sound
    <3> QED
      BY <3>1, <3>2, <3>3, <2>2
  <2>3. CASE i \in 1..Len(tpl) /\ tpl[i] = "open" /\ Placeholder(tpl, i)
    <3>1. ~(i > Len(tpl))
      BY <2>3
    <3>2. w[Closing(tpl, i) + 1] = Sound(tpl, i + 3)
      BY <2>3, <2>0, <1>5
    <3>3. Sound(tpl, i) = Sound(tpl, i + 3)
      BY <2>3, <1>2 DEF Sound
    <3>4. /\ Closing(tpl, i) # 0 
          /\ SubSeq(tpl, i + 1, Closing(tpl, i) - 1) \in {<<f>> : f \in Fields}
      BY <2>3, <1>4
    <3>5. body(i) = (/\ Closing(tpl, i) # 0 
                 /\ SubSeq(tpl, i + 1, Closing(tpl, i) - 1) \in {<<f>> : f \in Fields}
                 /\ w[Closing(tpl, i) + 1])
      BY <2>3, <3>1
    <3>6. Sound(tpl, i + 3) \in BOOLEAN
      BY DEF Sound
    <3> HIDE DEF body
    <3> QED
      BY <3>2, <3>3, <3>4, <3>5, <3>6
  <2>4. CASE i \in 1..Len(tpl) /\ tpl[i] = "open" /\ ~Placeholder(tpl, i)
    <3>1. ~(i > Len(tpl))
      BY <2>4
    <3>4. ~(/\ Closing(tpl, i) # 0 
          /\ SubSeq(tpl, i + 1, Closing(tpl, i) - 1) \in {<<f>> : f \in Fields})
      BY <2>4, <1>4
    <3>5. body(i) = (/\ Closing(tpl, i) # 0 
                 /\ SubSeq(tpl, i + 1, Closing(tpl, i) - 1) \in {<<f>> : f \in Fields}
                 /\ w[Closing(tpl, i) + 1])
      BY <2>4, <3>1
    <3>6. ~Sound(tpl, i)
      BY <2>4, <1>6
    <3> HIDE DEF body
    <3> QED
      BY <3>4, <3>5, <3>6
  <2> HIDE DEF body
  <2> QED
    BY <2>1, <2>2, <2>3, <2>4
<1>8. ScanBody(tpl, w) = [i \in 1..(Len(tpl) + 1) |-> body(i)]
  BY DEF ScanBody
<1> HIDE DEF body
<1> QED
  BY <1>7, <1>8

Stepwise(tpl, f) ==
  /\ f[Len(tpl) + 1] = TRUE
  /\ \A i \in 1..Len(tpl) : tpl[i] # "open" => f[i] = f[i + 1]
  /\ \A i \in 1..Len(tpl) : tpl[i] = "open" =>
              f[i] = (/\ Closing(tpl, i) # 0
                      /\ SubSeq(tpl, i + 1, Closing(tpl, i) - 1) \in {<<g>> : g \in Fields}
                      /\ f[Closing(tpl, i) + 1])

LEMMA ScanSteps == ASSUME NEW tpl \in Seq(STRING), NEW f, f = ScanBody(tpl, f) PROVE Stepwise(tpl, f)
<1>1. \A i \in 1..(Len(tpl) + 1) : f[i] = ScanBody(tpl, f)[i]
  BY Zenon
<1>2. /\ Len(tpl) + 1 \in 1..(Len(tpl) + 1) /\ Len(tpl) + 1 > Len(tpl)
      /\ \A i \in 1..Len(tpl) : i \in 1..(Len(tpl) + 1) /\ ~(i > Len(tpl))
  OBVIOUS
<1>3. ScanBody(tpl, f)[Len(tpl) + 1] = TRUE
  BY <1>2, Zenon DEF ScanBody
<1>4. ASSUME NEW i \in 1..Len(tpl), tpl[i] # "open" PROVE ScanBody(tpl, f)[i] = f[i + 1]
  BY <1>2, <1>4, Zenon DEF ScanBody
<1>5. ASSUME NEW i \in 1..Len(tpl), tpl[i] = "open" 
      PROVE ScanBody(tpl, f)[i] = (/\ Closing(tpl, i) # 0
                      /\ SubSeq(tpl, i + 1, Closing(tpl, i) - 1) \in {<<g>> : g \in Fields}
                      /\ f[Closing(tpl, i) + 1])
  BY <1>2, <1>5, Zenon DEF ScanBody
<1> QED
  BY <1>1, <1>2, <1>3, <1>4, <1>5, Zenon DEF Stepwise

\* What the loop finds.
LEMMA ScanSound ==
  ASSUME NEW tpl \in Seq(STRING)
  PROVE  Scan(tpl)[1] <=> Sound(tpl, 1)
<1> DEFINE n == Len(tpl) + 1
           f == Scan(tpl)
           w == [i \in 1..n |-> Sound(tpl, i)]
           S == {i \in 1..n : f[i] = w[i]}
<1>1. Stepwise(tpl, f)
  BY SoundFixed, ScanChosen, ScanSteps
<1>2. Stepwise(tpl, w)
  BY SoundFixed, ScanSteps
<1> HIDE DEF f, w
<1>3. ASSUME NEW i \in 1..n, \A j \in (i + 1)..n : j \in S PROVE i \in S
  <2>1. CASE i = n
    <3>1. f[n] = w[n]
      BY <1>1, <1>2 DEF Stepwise
    <3> QED
      BY <2>1, <3>1
  <2>2. CASE i \in 1..Len(tpl) /\ tpl[i] # "open"
    <3>1. f[i + 1] = w[i + 1]
      BY <1>3, <2>2
    <3>2. f[i] = f[i + 1] /\ w[i] = w[i + 1]
      BY <2>2, <1>1, <1>2 DEF Stepwise
    <3> QED
      BY <3>1, <3>2
  <2>3. CASE i \in 1..Len(tpl) /\ tpl[i] = "open" /\ Closing(tpl, i) # 0
    <3>1. Closing(tpl, i) + 1 \in (i + 1)..n
      BY <2>3, ClosingIs
    <3>2. f[Closing(tpl, i) + 1] = w[Closing(tpl, i) + 1]
      BY <1>3, <3>1
    <3> DEFINE A == SubSeq(tpl, i + 1, Closing(tpl, i) - 1) \in {<<g>> : g \in Fields}
    <3>4. f[i] = (Closing(tpl, i) # 0 /\ A /\ f[Closing(tpl, i) + 1])
      BY <2>3, <1>1 DEF Stepwise
    <3>5. w[i] = (Closing(tpl, i) # 0 /\ A /\ w[Closing(tpl, i) + 1])
      BY <2>3, <1>2 DEF Stepwise
    <3> HIDE DEF A
    <3>3. f[i] = w[i]
      BY <3>2, <3>4, <3>5
    <3> QED
      BY <3>3
  <2>4. CASE i \in 1..Len(tpl) /\ tpl[i] = "open" /\ Closing(tpl, i) = 0
    <3> DEFINE A == SubSeq(tpl, i + 1, Closing(tpl, i) - 1) \in {<<g>> : g \in Fields}
    <3>4. f[i] = (Closing(tpl, i) # 0 /\ A /\ f[Closing(tpl, i) + 1])
      BY <2>4, <1>1 DEF Stepwise
    <3>5. w[i] = (Closing(tpl, i) # 0 /\ A /\ w[Closing(tpl, i) + 1])
      BY <2>4, <1>2 DEF Stepwise
    <3> HIDE DEF A
    <3>3. f[i] = w[i]
      BY <2>4, <3>4, <3>5
    <3> QED
      BY <3>3
  <2> QED
    BY <2>1, <2>2, <2>3, <2>4
<1> HIDE DEF S
<1>4. n \in Nat /\ 1 \in 1..n
  OBVIOUS
<1>5. \A i \in 1..n : i \in S
  BY <1>3, <1>4, DownwardFromAll
<1>6. f[1] = w[1]
  BY <1>4, <1>5 DEF S
<1> QED
  BY <1>4, <1>6 DEF f, w

\* validate accepts exactly the templates that mean something.
LEMMA ValidIsWellFormed ==
  ASSUME NEW tpl \in Seq(STRING)
  PROVE  validateURLTemplate(tpl) <=> WellFormed(tpl)
<1>1. Len(tpl) \in Nat /\ DOMAIN tpl = 1..Len(tpl)
  OBVIOUS
<1>2. WellFormed(tpl) <=> Sound(tpl, 1) /\ \E i \in DOMAIN tpl : tpl[i] = "open" /\ tpl[i + 1] = "host"
  BY <1>1, Zenon DEF WellFormed, Sound
<1>3. validateURLTemplate(tpl) <=>
        Sound(tpl, 1) /\ \E i \in DOMAIN tpl : Placeholder(tpl, i) /\ tpl[i + 1] = "host"
  BY ScanSound, Zenon DEF validateURLTemplate
<1>4. \A i \in DOMAIN tpl : Placeholder(tpl, i) => tpl[i] = "open"
  BY DEF Placeholder
<1>5. Sound(tpl, 1) => \A i \in DOMAIN tpl : tpl[i] = "open" => Placeholder(tpl, i)
  BY <1>1 DEF Sound
<1> QED
  BY <1>2, <1>3, <1>4, <1>5, Zenon

-----------------------------------------------------------------------------
(* What becomes of a template *)

LEMMA OneToken == ASSUME NEW S, NEW x \in S PROVE <<x>> \in Seq(S)
  OBVIOUS

\* An endpoint's fields are texts.
Texts(e) == \A f \in Fields : e[f] \in Seq(STRING)

\* What the loop puts out for the token at i, and where it goes on.
Put(tpl, e, i)  == IF Placeholder(tpl, i) THEN e[tpl[i + 1]] ELSE <<tpl[i]>>
Goes(tpl, i)    == IF Placeholder(tpl, i) THEN i + 3 ELSE i + 1

ReplaceBody(tpl, e, f) ==
    [i \in 1..(Len(tpl) + 1) |->
            IF i > Len(tpl) THEN <<>>
            ELSE IF Placeholder(tpl, i) THEN e[tpl[i + 1]] \o f[i + 3]
            ELSE <<tpl[i]>> \o f[i + 1]]

LEMMA PutsAndGoes ==
  ASSUME NEW tpl \in Seq(STRING), NEW e, Texts(e), NEW i \in 1..Len(tpl)
  PROVE  Goes(tpl, i) \in (i + 1)..(Len(tpl) + 1) /\ Put(tpl, e, i) \in Seq(STRING)
<1>1. Placeholder(tpl, i) => i + 2 <= Len(tpl) /\ e[tpl[i + 1]] \in Seq(STRING)
  BY DEF Placeholder, Texts
<1>2. Len(tpl) \in Nat /\ tpl[i] \in STRING
  OBVIOUS
<1>3. <<tpl[i]>> \in Seq(STRING)
  BY <1>2, OneToken
<1>4. CASE Placeholder(tpl, i)
  BY <1>1, <1>2, <1>4 DEF Put, Goes
<1>5. CASE ~Placeholder(tpl, i)
  BY <1>2, <1>3, <1>5 DEF Put, Goes
<1> QED
  BY <1>4, <1>5

LEMMA ReplaceExists ==
  ASSUME NEW tpl \in Seq(STRING), NEW e, Texts(e)
  PROVE  \E f : f = ReplaceBody(tpl, e, f)
<1> DEFINE n == Len(tpl)
           A == Seq(STRING)
           next == [i \in 1..(n + 1) |-> IF i \in 1..n THEN Goes(tpl, i) ELSE 0]
           step == [i \in 1..(n + 1) |-> [x \in A |-> IF i \in 1..n THEN Put(tpl, e, i) \o x ELSE x]]
           base == [i \in 1..(n + 1) |-> <<>>]
<1>1. n \in Nat /\ n + 1 \in Nat /\ <<>> \in A
  OBVIOUS
<1>2. \A i \in 1..n : Goes(tpl, i) \in (i + 1)..(n + 1) /\ Put(tpl, e, i) \in A
  BY PutsAndGoes
<1>3. next \in [1..(n + 1) -> Nat] /\ base \in [1..(n + 1) -> A]
  <2> HIDE DEF n, A
  <2>1. \A i \in 1..(n + 1) : (IF i \in 1..n THEN Goes(tpl, i) ELSE 0) \in Nat
    BY <1>1, <1>2
  <2> QED
    BY <1>1, <2>1
<1>4. step \in [1..(n + 1) -> [A -> A]]
  <2> HIDE DEF n
  <2>1. ASSUME NEW i \in 1..(n + 1), NEW x \in A
        PROVE  (IF i \in 1..n THEN Put(tpl, e, i) \o x ELSE x) \in A
    BY <1>2, Joined
  <2> HIDE DEF A
  <2> QED
    BY <2>1
<1>5. PICK f : Back(f, n + 1, A, next, step, base)
  <2> HIDE DEF n, A, next, step, base
  <2> QED
    BY <1>1, <1>3, <1>4, Backwards
<1>6. /\ f \in [1..(n + 1) -> A]
      /\ \A i \in 1..(n + 1) : f[i] = Behind(i, n + 1, next, step, base, f)
  <2> HIDE DEF n, A, next, step, base
  <2> QED
    BY <1>5 DEF Back
<1>7. ASSUME NEW i \in 1..(n + 1)
      PROVE  f[i] = IF i = n + 1 THEN <<>> ELSE Put(tpl, e, i) \o f[Goes(tpl, i)]
  <2>1. f[i] = IF next[i] \in (i + 1)..(n + 1) THEN step[i][f[next[i]]] ELSE base[i]
    <3> HIDE DEF next, step, base
    <3> QED
      BY <1>6 DEF Behind
  <2>2. CASE i = n + 1
    <3>1. next[i] = 0 /\ base[i] = <<>>
      BY <1>1, <2>2
    <3> HIDE DEF next, step, base
    <3>2. next[i] \notin (i + 1)..(n + 1)
      BY <3>1
    <3> QED
      BY <2>1, <2>2, <3>1, <3>2
  <2>3. CASE i # n + 1
    <3>1. i \in 1..n /\ next[i] = Goes(tpl, i)
      BY <1>1, <2>3
    <3>2. next[i] \in (i + 1)..(n + 1) /\ next[i] \in 1..(n + 1)
      BY <1>1, <1>2, <3>1
    <3>3. f[next[i]] \in A
      BY <1>6, <3>2
    <3>4. \A x \in A : step[i][x] = Put(tpl, e, i) \o x
      BY <3>1
    <3> HIDE DEF next, step, base, A
    <3> QED
      BY <2>1, <2>3, <3>1, <3>2, <3>3, <3>4
  <2> QED
    BY <2>2, <2>3
<1>8. f = ReplaceBody(tpl, e, f)
  <2>1. f = [i \in 1..(n + 1) |-> f[i]]
    BY <1>6
  <2>2. \A i \in 1..(n + 1) : f[i] = IF i > Len(tpl) THEN <<>>
            ELSE IF Placeholder(tpl, i) THEN e[tpl[i + 1]] \o f[i + 3]
            ELSE <<tpl[i]>> \o f[i + 1]
    <3>1. \A i \in 1..(n + 1) : i > Len(tpl) <=> i = n + 1
      BY <1>1
    <3> QED
      BY <1>7, <3>1 DEF Goes, Put
  <2> QED
    BY <2>1, <2>2 DEF ReplaceBody
<1> QED
  BY <1>8

LEMMA ReplaceRuns ==
  ASSUME NEW tpl \in Seq(STRING), NEW e, Texts(e)
  PROVE  \E f : f = ReplaceBody(tpl, e, f) /\ Replace(tpl, e) = f[1]
<1> DEFINE f == CHOOSE f : f = ReplaceBody(tpl, e, f)
<1>1. Replace(tpl, e) = f[1]
  BY DEF Replace, ReplaceBody
<1>2. f = ReplaceBody(tpl, e, f)
  BY ReplaceExists
<1> QED
  BY <1>1, <1>2

-----------------------------------------------------------------------------

Opened(tpl, i)   == i >= 1 /\ tpl[i] = "open"
PartOf(tpl, e, i) ==
    CASE Opened(tpl, i - 1)                     -> e[tpl[i]]
      [] Opened(tpl, i) \/ Opened(tpl, i - 2)   -> <<>>
      [] OTHER                                  -> <<tpl[i]>>
Pieced(tpl, e) == [i \in DOMAIN tpl |-> PartOf(tpl, e, i)]

\* Behind a brace there is a name, and behind the name no brace that opens.
LEMMA BracesApart ==
  ASSUME NEW tpl \in Seq(STRING), WellFormed(tpl), NEW i \in 1..Len(tpl), tpl[i] = "open"
  PROVE  /\ Placeholder(tpl, i) /\ i + 1 \in 1..Len(tpl) /\ i + 2 \in 1..Len(tpl)
         /\ tpl[i + 1] \in Fields
         /\ tpl[i + 1] # "open" /\ tpl[i + 2] # "open"
<1>1. Placeholder(tpl, i)
  BY DEF WellFormed
<1> QED
  BY <1>1 DEF Placeholder, Fields

\* The three tokens of a placeholder, and any other.
LEMMA PartsOfPlaceholder ==
  ASSUME NEW tpl \in Seq(STRING), WellFormed(tpl), NEW e, NEW i \in 1..Len(tpl), tpl[i] = "open",
         ~Opened(tpl, i - 1)
  PROVE  PartOf(tpl, e, i) = <<>> /\ PartOf(tpl, e, i + 1) = e[tpl[i + 1]] /\ PartOf(tpl, e, i + 2) = <<>>
<1>1. /\ (i + 1) - 1 = i /\ (i + 2) - 1 = i + 1 /\ (i + 2) - 2 = i /\ i >= 1
      /\ tpl[i + 1] # "open" /\ tpl[i + 2] # "open"
  BY BracesApart
<1>2. Opened(tpl, i) /\ ~Opened(tpl, i + 1)
  BY <1>1 DEF Opened
<1>3. PartOf(tpl, e, i) = <<>>
  BY <1>2 DEF PartOf
<1>4. PartOf(tpl, e, i + 2) = <<>>
  BY <1>1, <1>2 DEF PartOf
<1>5. PartOf(tpl, e, i + 1) = e[tpl[i + 1]]
  <2>1. ~Opened(tpl, (i + 1) - 2)
    <3>1. (i + 1) - 2 = i - 1
      OBVIOUS
    <3> QED
      BY <3>1
  <2> QED
    BY <1>1, <1>2, <2>1 DEF PartOf
<1> QED
  BY <1>3, <1>4, <1>5

LEMMA PartOfToken ==
  ASSUME NEW tpl, NEW e, NEW i, ~Opened(tpl, i), ~Opened(tpl, i - 1), ~Opened(tpl, i - 2)
  PROVE  PartOf(tpl, e, i) = <<tpl[i]>>
BY DEF PartOf

LEMMA PiecedIs ==
  ASSUME NEW tpl \in Seq(STRING), WellFormed(tpl), NEW e, Texts(e)
  PROVE  /\ Pieced(tpl, e) \in Seq(Seq(STRING)) /\ Len(Pieced(tpl, e)) = Len(tpl)
         /\ \A i \in 1..Len(tpl) : Pieced(tpl, e)[i] = PartOf(tpl, e, i)
<1> DEFINE n == Len(tpl)
<1>1. n \in Nat /\ DOMAIN tpl = 1..n
  OBVIOUS
<1>2. ASSUME NEW i \in 1..n PROVE PartOf(tpl, e, i) \in Seq(STRING)
  <2>1. CASE Opened(tpl, i - 1)
    <3>1. i - 1 \in 1..n /\ tpl[i - 1] = "open" /\ (i - 1) + 1 = i
      BY <2>1 DEF Opened
    <3>2. tpl[i] \in Fields /\ tpl[i] # "open" /\ (i - 2 >= 1 => tpl[i - 2] # "open")
      <4>1. tpl[(i - 1) + 1] \in Fields /\ tpl[(i - 1) + 1] # "open"
        BY <3>1, BracesApart
      <4>2. ASSUME i - 2 >= 1, tpl[i - 2] = "open" PROVE FALSE
        <5>1. i - 2 \in 1..n /\ (i - 2) + 1 = i - 1
          BY <3>1, <4>2
        <5>2. tpl[(i - 2) + 1] # "open"
          BY <4>2, <5>1, BracesApart
        <5> QED
          BY <3>1, <5>1, <5>2
      <4> QED
        BY <3>1, <4>1, <4>2
    <3>3. ~Opened(tpl, i) /\ ~Opened(tpl, i - 2)
      BY <3>2 DEF Opened
    <3>4. PartOf(tpl, e, i) = e[tpl[i]]
      BY <2>1, <3>3 DEF PartOf
    <3> QED
      BY <3>2, <3>4 DEF Texts
  <2>2. CASE ~Opened(tpl, i - 1)
    <3>1. <<tpl[i]>> \in Seq(STRING)
      BY OneToken
    <3>2. PartOf(tpl, e, i) = <<>> \/ PartOf(tpl, e, i) = <<tpl[i]>>
      BY <2>2 DEF PartOf
    <3>3. <<>> \in Seq(STRING)
      OBVIOUS
    <3> QED
      BY <3>1, <3>2, <3>3, Zenon
  <2> QED
    BY <2>1, <2>2
<1> HIDE DEF n
<1>3. Pieced(tpl, e) = [i \in 1..n |-> PartOf(tpl, e, i)]
  BY <1>1 DEF Pieced
<1>4. [i \in 1..n |-> PartOf(tpl, e, i)] \in Seq(Seq(STRING)) /\ Len([i \in 1..n |-> PartOf(tpl, e, i)]) = n
  BY <1>1, <1>2
<1> QED
  BY <1>3, <1>4 DEF n

LEMMA ExpandedIs == ASSUME NEW tpl, NEW e PROVE Expanded(tpl, e) = FlattenSeq(Pieced(tpl, e))
BY DEF Expanded, Pieced, PartOf, Opened

\* strings.Replacer does to a template what the template means.
LEMMA ReplaceIsExpanded ==
  ASSUME NEW tpl \in Seq(STRING), WellFormed(tpl), NEW e, Texts(e)
  PROVE  Replace(tpl, e) = Expanded(tpl, e)
<1> DEFINE n == Len(tpl)
           A == Seq(STRING)
           q == Pieced(tpl, e)
<1>0. n \in Nat /\ DOMAIN tpl = 1..n
  OBVIOUS
<1>1. PICK f : f = ReplaceBody(tpl, e, f) /\ Replace(tpl, e) = f[1]
  BY ReplaceRuns
<1>2. q \in Seq(A) /\ Len(q) = n /\ \A i \in 1..n : q[i] = PartOf(tpl, e, i)
  BY PiecedIs
<1>3. PICK P : FirstParts(P, q, STRING) /\ FlattenSeq(q) = P[Len(q)]
  BY <1>2, Flattening
<1>4. /\ P \in [0..n -> A] /\ P[0] = <<>>
      /\ \A i \in 1..n : P[i] = P[i - 1] \o PartOf(tpl, e, i)
  <2> HIDE DEF q
  <2> QED
    BY <1>2, <1>3 DEF FirstParts
<1>5. \A i \in 1..(n + 1) : f[i] = IF i = n + 1 THEN <<>> ELSE Put(tpl, e, i) \o f[Goes(tpl, i)]
  <2>1. \A i \in 1..(n + 1) : i > Len(tpl) <=> i = n + 1
    BY <1>0
  <2> QED
    BY <1>1, <2>1 DEF ReplaceBody, Put, Goes
<1> DEFINE Fresh(i) == ~Opened(tpl, i - 1) /\ ~Opened(tpl, i - 2)
           Rest(i) == Fresh(i) => f[i] \in A /\ P[i - 1] \o f[i] = P[n]
           T == {i \in 1..(n + 1) : Rest(i)}
<1>6. \A i \in 0..n : P[i] \in A
  BY <1>4
<1> HIDE DEF q
<1>7. n + 1 \in T
  <2>1. f[n + 1] = <<>> /\ (n + 1) - 1 = n /\ P[n] \in Seq(STRING)
    BY <1>0, <1>5, <1>6
  <2>2. P[n] \o <<>> = P[n] /\ <<>> \in Seq(STRING)
    BY <2>1
  <2>3. n + 1 \in 1..(n + 1) /\ f[n + 1] \in A /\ P[(n + 1) - 1] \o f[n + 1] = P[n]
    BY <1>0, <2>1, <2>2
  <2> HIDE DEF Fresh, A
  <2> QED
    BY <2>3
<1>8. ASSUME NEW i \in 1..n, \A j \in (i + 1)..(n + 1) : j \in T PROVE i \in T
  <2>0. i \in 1..(n + 1) /\ i # n + 1 /\ i - 1 \in 0..n
    BY <1>0
  <2> SUFFICES ASSUME Fresh(i) PROVE f[i] \in A /\ P[i - 1] \o f[i] = P[n]
    <3> HIDE DEF Fresh, A
    <3> QED
      BY <2>0
  <2> DEFINE z == Goes(tpl, i)
             w == Put(tpl, e, i)
  <2>1. z \in (i + 1)..(n + 1) /\ w \in A
    BY PutsAndGoes
  <2>2. f[i] = w \o f[z]
    BY <1>5, <2>0
  <2>3. Fresh(z) /\ P[z - 1] = P[i - 1] \o w
    <3>1. CASE tpl[i] = "open"
      <4>1. /\ Placeholder(tpl, i) /\ i + 1 \in 1..n /\ i + 2 \in 1..n
            /\ tpl[i + 1] # "open" /\ tpl[i + 2] # "open"
        BY <3>1, BracesApart
      <4>2. z = i + 3 /\ w = e[tpl[i + 1]] /\ z - 1 = i + 2 /\ z - 2 = i + 1
        BY <4>1 DEF Goes, Put
      <4>3. PartOf(tpl, e, i) = <<>> /\ PartOf(tpl, e, i + 1) = w /\ PartOf(tpl, e, i + 2) = <<>>
        BY <3>1, <4>2, PartsOfPlaceholder
      <4>4. /\ P[i] = P[i - 1] \o <<>> /\ P[i + 1] = P[i] \o w /\ P[i + 2] = P[i + 1] \o <<>>
        <5>1. (i + 1) - 1 = i /\ (i + 2) - 1 = i + 1
          OBVIOUS
        <5> HIDE DEF w, z
        <5> QED
          BY <1>4, <4>1, <4>3, <5>1
      <4>5. P[i - 1] \in A /\ P[i] \in A /\ P[i + 1] \in A
        BY <1>6, <2>0, <4>1, <1>0
      <4>6. \A x \in A : x \o <<>> = x
        OBVIOUS
      <4>7. P[i + 2] = P[i - 1] \o w
        <5> HIDE DEF w, z, A
        <5> QED
          BY <4>4, <4>5, <4>6
      <4>8. Fresh(z)
        BY <4>1, <4>2 DEF Opened
      <4> QED
        BY <4>2, <4>7, <4>8
    <3>2. CASE tpl[i] # "open"
      <4>1. ~Placeholder(tpl, i)
        BY <3>2 DEF Placeholder
      <4>2. z = i + 1 /\ w = <<tpl[i]>> /\ z - 1 = i /\ z - 2 = i - 1
        BY <4>1 DEF Goes, Put
      <4>3. ~Opened(tpl, i)
        BY <3>2 DEF Opened
      <4>4. PartOf(tpl, e, i) = <<tpl[i]>>
        BY <4>3, PartOfToken
      <4> QED
        BY <1>4, <4>2, <4>3, <4>4
    <3> QED
      BY <3>1, <3>2
  <2>4. f[z] \in A /\ P[z - 1] \o f[z] = P[n]
    <3>1. z \in T
      BY <1>8, <2>1
    <3> QED
      BY <2>3, <3>1
  <2> HIDE DEF z, w
  <2>5. w \o f[z] \in A
    BY <2>1, <2>4, Joined
  <2>6. P[i - 1] \o (w \o f[z]) = (P[i - 1] \o w) \o f[z]
    <3>1. P[i - 1] \in Seq(STRING)
      BY <1>6, <2>0
    <3>2. \A x \in Seq(STRING), y \in Seq(STRING), v \in Seq(STRING) : x \o (y \o v) = (x \o y) \o v
      OBVIOUS
    <3> QED
      BY <2>1, <2>4, <3>1, <3>2
  <2> QED
    BY <2>2, <2>3, <2>4, <2>5, <2>6
<1>9. 1 \in T
  <2> HIDE DEF T, n
  <2>1. n + 1 \in Nat /\ 1 \in 1..(n + 1)
    BY <1>0
  <2>2. \A i \in 1..(n + 1) : (\A j \in (i + 1)..(n + 1) : j \in T) => i \in T
    <3>1. \A i \in 1..(n + 1) : i = n + 1 \/ i \in 1..n
      BY <1>0
    <3> QED
      BY <1>7, <1>8, <3>1
  <2>3. \A i \in 1..(n + 1) : i \in T
    BY <2>1, <2>2, DownwardFromAll
  <2> QED
    BY <2>1, <2>3
<1>10. Fresh(1)
  BY DEF Opened
<1>11. f[1] \in A /\ P[0] \o f[1] = P[n]
  <2>1. f[1] \in A /\ P[1 - 1] \o f[1] = P[n]
    <3> HIDE DEF Fresh, A
    <3> QED
      BY <1>9, <1>10
  <2>2. 1 - 1 = 0
    OBVIOUS
  <2> QED
    BY <2>1, <2>2
<1>12. f[1] = P[n]
  <2>1. \A x \in Seq(STRING) : <<>> \o x = x
    OBVIOUS
  <2> QED
    BY <1>4, <1>11, <2>1
<1>13. Expanded(tpl, e) = P[n]
  BY <1>2, <1>3, ExpandedIs DEF q
<1> QED
  BY <1>1, <1>12, <1>13

\* A well-formed template names the host, so that the URL is not empty.
LEMMA ExpandedNotEmpty ==
  ASSUME NEW tpl \in Seq(STRING), WellFormed(tpl), NEW e, Texts(e), e.host # <<>>
  PROVE  Expanded(tpl, e) # <<>>
<1> DEFINE n == Len(tpl)
           q == Pieced(tpl, e)
<1>1. PICK i \in 1..n : tpl[i] = "open" /\ tpl[i + 1] = "host"
  BY DEF WellFormed
<1>2. q \in Seq(Seq(STRING)) /\ Len(q) = n /\ \A j \in 1..n : q[j] = PartOf(tpl, e, j)
  BY PiecedIs
<1>3. PICK P : FirstParts(P, q, STRING) /\ FlattenSeq(q) = P[Len(q)]
  BY <1>2, Flattening
<1>4. ~Opened(tpl, i - 1) /\ i + 1 \in 1..n
  <2>1. ASSUME Opened(tpl, i - 1) PROVE FALSE
    <3>1. i - 1 \in 1..n /\ tpl[i - 1] = "open" /\ (i - 1) + 1 = i
      BY <2>1 DEF Opened
    <3>2. tpl[(i - 1) + 1] # "open"
      BY <3>1, BracesApart
    <3> QED
      BY <1>1, <3>1, <3>2
  <2> QED
    BY <1>1, <2>1, BracesApart
<1>5. q[i + 1] = e.host
  <2>1. PartOf(tpl, e, i + 1) = e[tpl[i + 1]]
    BY <1>1, <1>4, PartsOfPlaceholder
  <2> QED
    BY <1>1, <1>2, <1>4, <2>1
<1> HIDE DEF q
<1>6. PartStands(P, q, i + 1)
  BY <1>2, <1>3, <1>4, PartInWhole
<1>7. e.host \in Seq(STRING) /\ Len(e.host) \in Nat /\ Len(e.host) # 0
  <2>1. e.host \in Seq(STRING)
    BY DEF Texts, Fields
  <2> QED
    BY <2>1
<1>8. Len(P[i]) \in Nat /\ Len(P[n]) \in Nat
  <2>1. n \in Nat /\ i \in 0..n /\ n \in 0..n /\ P \in [0..n -> Seq(STRING)]
    BY <1>1, <1>2, <1>3 DEF FirstParts
  <2> QED
    BY <2>1
<1>9. Len(P[n]) # 0
  <2>1. (i + 1) - 1 = i
    OBVIOUS
  <2>2. Len(P[i]) + Len(q[i + 1]) <= Len(P[n])
    <3>1. Len(P[(i + 1) - 1]) + Len(q[i + 1]) <= Len(P[Len(q)])
      BY <1>6 DEF PartStands, Stands
    <3> QED
      BY <1>2, <2>1, <3>1
  <2> DEFINE a == Len(P[i])
             b == Len(q[i + 1])
             c == Len(P[n])
  <2>3. a \in Nat /\ b \in Nat /\ b # 0 /\ c \in Nat /\ a + b <= c
    BY <1>5, <1>7, <1>8, <2>2, Zenon
  <2> HIDE DEF a, b, c
  <2>4. c # 0
    BY <2>3
  <2> QED
    BY <2>4 DEF c
<1>10. P[n] # <<>>
  BY <1>9
<1> QED
  BY <1>2, <1>3, <1>10, ExpandedIs DEF q

\* The URLs of the built-in profiles, and what they are made of.
FormatUrls == {Server, Database, Options, Server \o <<"?options">>}
Tokens     == STRING \cup {"jdbc", "hostport", "/", "database", "?options", ":"}

LEMMA FormatUrlsAre ==
  ASSUME NEW url \in FormatUrls
  PROVE  url \in Seq(Tokens) /\ Len(url) \in Nat \ {0} /\ url[1] = "jdbc"
<1>1. \A x \in {"jdbc", "hostport", "/", "database", "?options", ":"} : x \in Tokens
  BY DEF Tokens
<1>2. Server \in Seq(Tokens) /\ Len(Server) # 0 /\ Server[1] = "jdbc"
  <2>1. \A x \in Tokens, y \in Tokens : <<x, y>> \in Seq(Tokens)
    OBVIOUS
  <2> QED
    BY <1>1, <2>1 DEF Server
<1>3. Database \in Seq(Tokens) /\ Len(Database) # 0 /\ Database[1] = "jdbc"
  <2>1. \A x \in Tokens, y \in Tokens, z \in Tokens, w \in Tokens : <<x, y, z, w>> \in Seq(Tokens)
    OBVIOUS
  <2> QED
    BY <1>1, <2>1 DEF Database
<1>4. ASSUME NEW u \in Seq(Tokens), Len(u) # 0, u[1] = "jdbc"
      PROVE  LET v == u \o <<"?options">> IN v \in Seq(Tokens) /\ Len(v) # 0 /\ v[1] = "jdbc"
  <2>1. <<"?options">> \in Seq(Tokens)
    BY <1>1, OneToken
  <2>2. 1 \in 1..Len(u) /\ Len(u) \in Nat /\ Len(<<"?options">>) = 1
    BY <1>4
  <2> QED
    BY <1>4, <2>1, <2>2, Joined
<1>5. \A u \in Seq(Tokens) : Len(u) \in Nat
  OBVIOUS
<1>6. Options \in Seq(Tokens) /\ Len(Options) # 0 /\ Options[1] = "jdbc"
  BY <1>3, <1>4 DEF Options
<1>7. LET u == Server \o <<"?options">> IN u \in Seq(Tokens) /\ Len(u) # 0 /\ u[1] = "jdbc"
  BY <1>2, <1>4
<1>8. url \in Seq(Tokens) /\ Len(url) # 0 /\ url[1] = "jdbc"
  BY <1>2, <1>3, <1>6, <1>7, Zenon DEF FormatUrls
<1> QED
  BY <1>5, <1>8

\* A built-in profile's URL is never empty.
LEMMA FormatNotEmpty ==
  ASSUME NEW p, p.kind = "format", p.url \in FormatUrls, NEW e, Texts(e)
  PROVE  BuildURL(p, e) # <<>>
<1> DEFINE u == p.url
           n == Len(u)
           part(i) == CASE u[i] = "hostport" -> HostPort(e)
                        [] u[i] = "database" -> e.database
                        [] OTHER             -> <<u[i]>>
           q == [i \in DOMAIN u |-> part(i)]
<1>1. u \in Seq(Tokens) /\ n \in Nat \ {0} /\ u[1] = "jdbc" /\ DOMAIN u = 1..n
  BY FormatUrlsAre
<1>2. BuildURL(p, e) = FlattenSeq(q)
  BY DEF BuildURL
<1>3. HostPort(e) \in Seq(Tokens) /\ e.database \in Seq(Tokens)
  <2>1. \A x \in Seq(STRING) : x \in Seq(Tokens)
    BY DEF Tokens
  <2>2. <<":">> \in Seq(Tokens)
    BY OneToken DEF Tokens
  <2>3. e.host \in Seq(Tokens) /\ e.port \in Seq(Tokens) /\ e.database \in Seq(Tokens)
    BY <2>1 DEF Texts, Fields
  <2> QED
    BY <2>2, <2>3, Joined DEF HostPort
<1>4. ASSUME NEW i \in 1..n PROVE part(i) \in Seq(Tokens)
  <2>1. <<u[i]>> \in Seq(Tokens)
    BY <1>1, OneToken
  <2>2. part(i) = HostPort(e) \/ part(i) = e.database \/ part(i) = <<u[i]>>
    OBVIOUS
  <2> HIDE DEF part
  <2> QED
    BY <1>3, <2>1, <2>2, Zenon
<1>5. 1 \in 1..n /\ part(1) = <<"jdbc">>
  BY <1>1
<1> HIDE DEF u, n, part
<1>6. q \in Seq(Seq(Tokens)) /\ Len(q) = n /\ q[1] = <<"jdbc">>
  <2>1. q = [i \in 1..n |-> part(i)]
    BY <1>1
  <2>2. [i \in 1..n |-> part(i)] \in Seq(Seq(Tokens)) /\ Len([i \in 1..n |-> part(i)]) = n
    BY <1>1, <1>4
  <2>3. [i \in 1..n |-> part(i)][1] = <<"jdbc">>
    BY <1>5
  <2> QED
    BY <2>1, <2>2, <2>3
<1> HIDE DEF q
<1>7. PICK P : FirstParts(P, q, Tokens) /\ FlattenSeq(q) = P[Len(q)]
  BY <1>6, Flattening
<1>8. PartStands(P, q, 1)
  BY <1>5, <1>6, <1>7, PartInWhole
<1>9. /\ Len(P[0]) + Len(q[1]) <= Len(P[n])
      /\ Len(P[0]) \in Nat /\ Len(P[n]) \in Nat /\ Len(q[1]) = 1
  <2>1. n \in 0..n /\ 0 \in 0..n /\ P \in [0..n -> Seq(Tokens)]
    BY <1>1, <1>6, <1>7 DEF FirstParts
  <2>2. Len(P[1 - 1]) + Len(q[1]) <= Len(P[Len(q)])
    BY <1>8 DEF PartStands, Stands
  <2>5. 1 - 1 = 0
    OBVIOUS
  <2>3. Len(<<"jdbc">>) = 1
    OBVIOUS
  <2>4. Len(P[0]) \in Nat /\ Len(P[n]) \in Nat
    BY <2>1
  <2> QED
    BY <1>6, <2>2, <2>3, <2>4, <2>5
<1>10. Len(P[n]) # 0
  <2> DEFINE a == Len(P[0])
             b == Len(q[1])
             c == Len(P[n])
  <2>1. a \in Nat /\ b = 1 /\ c \in Nat /\ a + b <= c
    BY <1>9, Zenon
  <2> HIDE DEF a, b, c
  <2>2. c # 0
    BY <2>1
  <2> QED
    BY <2>2 DEF c
<1>11. P[n] # <<>>
  BY <1>10
<1> QED
  BY <1>2, <1>6, <1>7, <1>11

\* TrimSpace leaves nothing of a blank text, and something of any other.
LEMMA TrimSpaceIs ==
  ASSUME NEW s \in Seq(STRING) PROVE TrimSpace(s) = <<>> <=> Blank(s)
<1> DEFINE ink == {i \in DOMAIN s : s[i] # " "}
           n == Len(s)
<1>1. n \in Nat /\ DOMAIN s = 1..n
  OBVIOUS
<1>2. Blank(s) <=> ink = {}
  BY DEF Blank
<1>3. CASE ink = {}
  BY <1>2, <1>3 DEF TrimSpace
<1>4. CASE ink # {}
  <2>1. TrimSpace(s) = SubSeq(s, Min(ink), Max(ink))
    BY <1>4 DEF TrimSpace
  <2>2. ink \in SUBSET (1..n)
    BY <1>1
  <2> HIDE DEF ink, n
  <2>3. Min(ink) \in ink /\ \A y \in ink : Min(ink) <= y
    <3>1. ink \in SUBSET Nat
      BY <2>2
    <3> QED
      BY <1>4, <3>1, MinIs
  <2>4. Max(ink) \in ink /\ \A y \in ink : Max(ink) >= y
    BY <1>1, <1>4, <2>2, MaxIs
  <2>5. Min(ink) \in 1..n /\ Max(ink) \in 1..n /\ Min(ink) <= Max(ink)
    BY <2>2, <2>3, <2>4
  <2>6. \A a \in 1..n, b \in 1..n : a <= b => Len(SubSeq(s, a, b)) # 0
    BY <1>1 DEF n
  <2>7. Len(SubSeq(s, Min(ink), Max(ink))) # 0
    BY <2>5, <2>6
  <2>8. Len(<<>>) = 0
    OBVIOUS
  <2>9. TrimSpace(s) # <<>>
    BY <2>1, <2>7, <2>8, Zenon
  <2> QED
    BY <1>2, <1>4, <2>9
<1> QED
  BY <1>3, <1>4

-----------------------------------------------------------------------------
(* Jars *)

Indexed(s) == DOMAIN s \in SUBSET Nat

LEMMA JarsAre ==
  ASSUME NEW globs, NEW dirs, NEW x
  PROVE  x \in Jars(globs, dirs) <=>
            \E i \in DOMAIN globs, d \in DOMAIN dirs : \E f \in Files(dirs[d], globs[i]) : x = <<i, d, f>>
<1> DEFINE Of(i, d) == {<<i, d, f>> : f \in Files(dirs[d], globs[i])}
<1>1. Jars(globs, dirs) = UNION {Of(i, d) : i \in DOMAIN globs, d \in DOMAIN dirs}
  BY DEF Jars
<1>2. \A i, d : x \in Of(i, d) <=> \E f \in Files(dirs[d], globs[i]) : x = <<i, d, f>>
  OBVIOUS
<1> HIDE DEF Of
<1>3. x \in Jars(globs, dirs) <=> \E i \in DOMAIN globs, d \in DOMAIN dirs : x \in Of(i, d)
  BY <1>1
<1> QED
  BY <1>2, <1>3

LEMMA FilesAre == ASSUME NEW dir, NEW glob PROVE Files(dir, glob) \in SUBSET Nat
BY FilesAssumption DEF Files

\* The first file is in the first directory with one.
FoundIn(path, dirs, glob) ==
    \E d \in DOMAIN dirs : \E f \in Files(dirs[d], glob) :
        /\ path = <<dirs[d], f>>
        /\ \A o \in DOMAIN dirs : \A h \in Files(dirs[o], glob) : d < o \/ (d = o /\ f <= h)

LEMMA findFileIs ==
  ASSUME NEW dirs, Indexed(dirs), NEW glob
  PROVE  IF \A d \in DOMAIN dirs : Files(dirs[d], glob) = {}
         THEN findFile(dirs, glob) = NoFile
         ELSE findFile(dirs, glob) # NoFile /\ FoundIn(findFile(dirs, glob), dirs, glob)
<1> DEFINE hits == {d \in DOMAIN dirs : Files(dirs[d], glob) # {}}
           d == Min(hits)
           f == Min(Files(dirs[d], glob))
<1>1. findFile(dirs, glob) = IF hits = {} THEN NoFile ELSE <<dirs[d], f>>
  BY DEF findFile
<1>2. hits = {} <=> \A o \in DOMAIN dirs : Files(dirs[o], glob) = {}
  OBVIOUS
<1>3. ASSUME hits # {} PROVE findFile(dirs, glob) # NoFile /\ FoundIn(findFile(dirs, glob), dirs, glob)
  <2>1. hits \in SUBSET Nat
    BY DEF Indexed
  <2>2. \A o \in hits : o \in DOMAIN dirs /\ Files(dirs[o], glob) # {}
    OBVIOUS
  <2>3. \A o \in DOMAIN dirs : \A h \in Files(dirs[o], glob) : o \in hits
    OBVIOUS
  <2> HIDE DEF hits
  <2>4. d \in hits /\ \A o \in hits : d <= o
    BY <1>3, <2>1, MinIs
  <2> HIDE DEF d
  <2>5. f \in Files(dirs[d], glob) /\ \A h \in Files(dirs[d], glob) : f <= h
    BY <2>2, <2>4, FilesAre, MinIs
  <2> HIDE DEF f
  <2>6. findFile(dirs, glob) = <<dirs[d], f>>
    BY <1>1, <1>3
  <2>7. ASSUME NEW o \in DOMAIN dirs, NEW h \in Files(dirs[o], glob) PROVE d < o \/ (d = o /\ f <= h)
    <3>1. o \in hits /\ d <= o /\ o \in Nat /\ d \in Nat
      BY <2>1, <2>3, <2>4, <2>7
    <3>2. d = o => f <= h
      BY <2>5, <2>7
    <3> QED
      BY <3>1, <3>2
  <2>8. FoundIn(<<dirs[d], f>>, dirs, glob)
    BY <2>2, <2>4, <2>5, <2>7 DEF FoundIn
  <2>9. <<dirs[d], f>> # NoFile
    BY DEF NoFile
  <2> QED
    BY <2>6, <2>8, <2>9
<1> HIDE DEF hits, d, f
<1> QED
  BY <1>1, <1>2, <1>3

LEMMA ResolveDriverJarsIs ==
  ASSUME NEW dirs, Indexed(dirs), NEW globs, Indexed(globs)
  PROVE  IF Jars(globs, dirs) = {}
         THEN ResolveDriverJars(dirs, globs) = NoFile
         ELSE /\ ResolveDriverJars(dirs, globs) # NoFile
              /\ First(ResolveDriverJars(dirs, globs), globs, dirs)
<1> DEFINE hits == {i \in DOMAIN globs : findFile(dirs, globs[i]) # NoFile}
           i == Min(hits)
<1>1. ResolveDriverJars(dirs, globs) = IF hits = {} THEN NoFile ELSE findFile(dirs, globs[i])
  BY DEF ResolveDriverJars
<1>2. \A j \in DOMAIN globs :
        j \in hits <=> \E d \in DOMAIN dirs : Files(dirs[d], globs[j]) # {}
  <2>1. ASSUME NEW j \in DOMAIN globs
        PROVE findFile(dirs, globs[j]) = NoFile <=> \A d \in DOMAIN dirs : Files(dirs[d], globs[j]) = {}
    BY findFileIs
  <2> QED
    BY <2>1
<1>3. hits = {} <=> Jars(globs, dirs) = {}
  <2>1. hits = {} <=> \A j \in DOMAIN globs, d \in DOMAIN dirs : Files(dirs[d], globs[j]) = {}
    BY <1>2
  <2> HIDE DEF hits
  <2>2. Jars(globs, dirs) = {} <=> \A j \in DOMAIN globs, d \in DOMAIN dirs : Files(dirs[d], globs[j]) = {}
    <3>1. ASSUME NEW j \in DOMAIN globs, NEW d \in DOMAIN dirs, NEW f \in Files(dirs[d], globs[j])
          PROVE  <<j, d, f>> \in Jars(globs, dirs)
      BY <3>1, JarsAre
    <3>2. ASSUME NEW x \in Jars(globs, dirs)
          PROVE  \E j \in DOMAIN globs, d \in DOMAIN dirs : \E f \in Files(dirs[d], globs[j]) : TRUE
      BY <3>2, JarsAre
    <3> QED
      BY <3>1, <3>2
  <2> QED
    BY <2>1, <2>2
<1>4. ASSUME hits # {}
      PROVE  findFile(dirs, globs[i]) # NoFile /\ First(findFile(dirs, globs[i]), globs, dirs)
  <2>1. hits \in SUBSET Nat
    BY DEF Indexed
  <2>2. \A j \in hits : j \in DOMAIN globs /\ findFile(dirs, globs[j]) # NoFile
    OBVIOUS
  <2> HIDE DEF hits
  <2>3. i \in hits /\ \A j \in hits : i <= j
    BY <1>4, <2>1, MinIs
  <2> HIDE DEF i
  <2> DEFINE path == findFile(dirs, globs[i])
  <2>4. i \in DOMAIN globs /\ path # NoFile
    BY <2>2, <2>3
  <2>5. FoundIn(path, dirs, globs[i])
    BY <2>4, findFileIs
  <2> HIDE DEF path
  <2>6. PICK d \in DOMAIN dirs : \E f \in Files(dirs[d], globs[i]) :
            /\ path = <<dirs[d], f>>
            /\ \A o \in DOMAIN dirs : \A h \in Files(dirs[o], globs[i]) : d < o \/ (d = o /\ f <= h)
    BY <2>5 DEF FoundIn
  <2>7. PICK f \in Files(dirs[d], globs[i]) :
            /\ path = <<dirs[d], f>>
            /\ \A o \in DOMAIN dirs : \A h \in Files(dirs[o], globs[i]) : d < o \/ (d = o /\ f <= h)
    BY <2>6
  <2> DEFINE jar == <<i, d, f>>
  <2>8. jar \in Jars(globs, dirs)
    BY <2>4, JarsAre
  <2>9. ASSUME NEW other \in Jars(globs, dirs)
        PROVE  \/ i < other[1]
               \/ i = other[1] /\ d < other[2]
               \/ i = other[1] /\ d = other[2] /\ f <= other[3]
    <3>0. PICK j \in DOMAIN globs, o \in DOMAIN dirs :
                \E h \in Files(dirs[o], globs[j]) : other = <<j, o, h>>
      BY <2>9, JarsAre
    <3>1. PICK h \in Files(dirs[o], globs[j]) : other = <<j, o, h>>
      BY <3>0
    <3>2. j \in hits /\ i <= j /\ i \in Nat /\ j \in Nat
      BY <1>2, <2>1, <2>3, <3>1
    <3>3. i = j => d < o \/ (d = o /\ f <= h)
      BY <2>7, <3>1
    <3>4. other[1] = j /\ other[2] = o /\ other[3] = h
      BY <3>1
    <3> QED
      BY <3>2, <3>3, <3>4
  <2>10. jar[1] = i /\ jar[2] = d /\ jar[3] = f
    OBVIOUS
  <2> HIDE DEF jar
  <2>11. First(path, globs, dirs)
    BY <2>7, <2>8, <2>9, <2>10 DEF First
  <2> QED
    BY <2>4, <2>11 DEF path
<1> HIDE DEF hits, i
<1> QED
  BY <1>1, <1>3, <1>4

\* Without a path of its own, the agent is looked for like a driver of one glob.
LEMMA AgentIsResolved ==
  ASSUME NEW dirs PROVE findFile(dirs, "owl-agent") = ResolveDriverJars(dirs, <<"owl-agent">>)
<1> DEFINE globs == <<"owl-agent">>
           hits  == {i \in DOMAIN globs : findFile(dirs, globs[i]) # NoFile}
<1>1. DOMAIN globs = {1} /\ globs[1] = "owl-agent"
  OBVIOUS
<1>2. ResolveDriverJars(dirs, globs) = IF hits = {} THEN NoFile ELSE findFile(dirs, globs[Min(hits)])
  BY DEF ResolveDriverJars
<1>3. hits \in SUBSET {1} /\ (1 \in hits <=> findFile(dirs, "owl-agent") # NoFile)
  BY <1>1
<1> HIDE DEF hits
<1>4. hits # {} => Min(hits) = 1 /\ 1 \in hits
  <2>1. hits \in SUBSET Nat
    BY <1>3
  <2>2. hits # {} => Min(hits) \in hits
    BY <2>1, MinIs
  <2> QED
    BY <1>3, <2>2
<1> QED
  BY <1>1, <1>2, <1>3, <1>4

LEMMA DirsIndexed == ASSUME NEW configured PROVE Indexed(JarSearchDirs(configured))
<1>1. \A x, y : DOMAIN <<x>> = {1} /\ DOMAIN <<x, y>> = {1, 2}
  OBVIOUS
<1> QED
  BY <1>1 DEF Indexed, JarSearchDirs

LEMMA ResolveAgentJarIs ==
  ASSUME NEW dirs, Indexed(dirs), NEW configured
  PROVE  IF IF configured = NoFile THEN Jars(<<"owl-agent">>, dirs) = {} ELSE ~Exists(configured)
         THEN ResolveAgentJar(dirs, configured) = NoFile
         ELSE /\ ResolveAgentJar(dirs, configured) # NoFile
              /\ IF configured = NoFile
                 THEN First(ResolveAgentJar(dirs, configured), <<"owl-agent">>, dirs)
                 ELSE ResolveAgentJar(dirs, configured) = configured
<1>1. Indexed(<<"owl-agent">>)
  <2>1. DOMAIN <<"owl-agent">> = {1}
    OBVIOUS
  <2> QED
    BY <2>1 DEF Indexed
<1>2. CASE configured = NoFile
  <2>1. ResolveAgentJar(dirs, configured) = ResolveDriverJars(dirs, <<"owl-agent">>)
    BY <1>2, AgentIsResolved DEF ResolveAgentJar
  <2> QED
    BY <1>1, <1>2, <2>1, ResolveDriverJarsIs
<1>3. CASE configured # NoFile
  BY <1>3 DEF ResolveAgentJar
<1> QED
  BY <1>2, <1>3

-----------------------------------------------------------------------------
(* Configurations *)

\* What makes a profile usable.
Usable(p) ==
    /\ p.kind \in {"format", "template", "dsn"}
    /\ p.kind = "format" => p.url \in FormatUrls
    /\ p.kind = "template" => p.url \in Seq(STRING) /\ WellFormed(p.url)
    /\ Indexed(p.globs)

\* The URL of a call, and when there is none.
UrlOf(p, call) == IF p.kind = "dsn" THEN TrimSpace(call.dsn) ELSE BuildURL(p, call.endpoint)
NoUrl(p, call) ==
    \/ p.kind = "dsn" /\ Blank(call.dsn)
    \/ p.kind = "format" /\ call.endpoint.host = <<>>
    \/ p.kind = "template" /\ Blank(call.endpoint.host)

LEMMA UrlIs ==
  ASSUME NEW p, Usable(p), NEW call, Texts(call.endpoint), call.dsn \in Seq(STRING)
  PROVE  /\ NoUrl(p, call) <=> \/ p.kind # "dsn" /\ call.endpoint.host = <<>>
                               \/ UrlOf(p, call) = <<>>
         /\ ~NoUrl(p, call) /\ p.kind = "template" => UrlOf(p, call) = Expanded(p.url, call.endpoint)
<1> DEFINE e == call.endpoint
<1>0. e.host \in Seq(STRING)
  BY DEF Texts, Fields
<1>1. CASE p.kind = "dsn"
  BY <1>1, TrimSpaceIs DEF NoUrl, UrlOf
<1>2. CASE p.kind = "format"
  <2>1. UrlOf(p, call) # <<>>
    BY <1>2, FormatNotEmpty DEF Usable, UrlOf
  <2> QED
    BY <1>2, <2>1 DEF NoUrl
<1>3. CASE p.kind = "template"
  <2>1. TrimSpace(e.host) = <<>> <=> Blank(e.host)
    BY <1>0, TrimSpaceIs
  <2>2. UrlOf(p, call) = IF TrimSpace(e.host) = <<>> THEN <<>> ELSE Replace(p.url, e)
    BY <1>3 DEF UrlOf, BuildURL
  <2>3. e.host = <<>> => Blank(e.host)
    <3>1. DOMAIN <<>> = {}
      OBVIOUS
    <3>2. Blank(<<>>)
      BY <3>1 DEF Blank
    <3> QED
      BY <3>2
  <2>4. p.url \in Seq(STRING) /\ WellFormed(p.url)
    BY <1>3 DEF Usable
  <2>5. Replace(p.url, e) = Expanded(p.url, e)
    BY <2>4, ReplaceIsExpanded
  <2>6. e.host # <<>> => Expanded(p.url, e) # <<>>
    BY <2>4, ExpandedNotEmpty
  <2>7. NoUrl(p, call) <=> Blank(e.host)
    BY <1>3 DEF NoUrl
  <2> HIDE DEF e
  <2> QED
    BY <1>3, <2>1, <2>2, <2>3, <2>5, <2>6, <2>7 DEF e
<1> QED
  BY <1>1, <1>2, <1>3 DEF Usable

\* BuildConfig refuses what there is reason to refuse, and answers every other
\* call with a whole configuration.
LEMMA BuildConfigIs ==
  ASSUME NEW p, Usable(p), NEW call, Texts(call.endpoint), call.dsn \in Seq(STRING)
  PROVE  IF Refused(p, call) THEN BuildConfig(p, call) = Failed
         ELSE BuildConfig(p, call) # Failed /\ Whole(BuildConfig(p, call), p, call)
<1> DEFINE dirs == JarSearchDirs(call.jarsDir)
           url  == UrlOf(p, call)
           jar  == ResolveDriverJars(dirs, p.globs)
           own  == ResolveAgentJar(dirs, call.agentJar)
           c    == [driver |-> p.driver, family |-> p.family, url |-> url,
                    user |-> IF p.kind = "dsn" THEN "" ELSE call.endpoint.user,
                    classpath |-> <<jar>>, agentJar |-> own]
           bad  == \/ p.kind # "dsn" /\ call.endpoint.host = <<>>
                   \/ url = <<>> \/ NoFile \in {jar, own}
           lost == IF call.agentJar = NoFile THEN Jars(<<"owl-agent">>, dirs) = {} ELSE ~Exists(call.agentJar)
<1>1. BuildConfig(p, call) = IF bad THEN Failed ELSE c
  BY DEF BuildConfig, UrlOf
<1>2. Refused(p, call) <=> NoUrl(p, call) \/ Jars(p.globs, dirs) = {} \/ lost
  BY DEF Refused, NoUrl
<1>3. Indexed(dirs) /\ Indexed(p.globs)
  BY DirsIndexed DEF Usable
<1>4. IF Jars(p.globs, dirs) = {} THEN jar = NoFile ELSE jar # NoFile /\ First(jar, p.globs, dirs)
  BY <1>3, ResolveDriverJarsIs
<1>5. IF lost THEN own = NoFile
      ELSE own # NoFile /\ IF call.agentJar = NoFile THEN First(own, <<"owl-agent">>, dirs)
                           ELSE own = call.agentJar
  BY <1>3, ResolveAgentJarIs
<1>6. /\ NoUrl(p, call) <=> (p.kind # "dsn" /\ call.endpoint.host = <<>>) \/ url = <<>>
      /\ ~NoUrl(p, call) /\ p.kind = "template" => url = Expanded(p.url, call.endpoint)
  BY UrlIs
<1>7. /\ c.driver = p.driver /\ c.family = p.family /\ c.url = url /\ c.agentJar = own
      /\ c.user = IF p.kind = "dsn" THEN "" ELSE call.endpoint.user
      /\ Len(c.classpath) = 1 /\ c.classpath[1] = jar
  OBVIOUS
<1>8. c # Failed
  <2>1. "driver" \in DOMAIN c /\ "driver" \notin DOMAIN Failed
    BY DEF Failed
  <2> HIDE DEF c
  <2> QED
    BY <2>1
<1>9. bad <=> Refused(p, call)
  <2> HIDE DEF url, jar, own, lost, dirs
  <2> QED
    BY <1>2, <1>4, <1>5, <1>6
<1>10. ASSUME ~Refused(p, call) PROVE Whole(c, p, call)
  <2>1. url # <<>> /\ (p.kind = "template" => url = Expanded(p.url, call.endpoint))
    BY <1>2, <1>6, <1>10
  <2>2. First(jar, p.globs, dirs)
    BY <1>2, <1>4, <1>10
  <2>3. IF call.agentJar = NoFile THEN First(own, <<"owl-agent">>, dirs) ELSE own = call.agentJar
    BY <1>2, <1>5, <1>10
  <2> HIDE DEF c, url, jar, own, lost
  <2> QED
    BY <1>7, <2>1, <2>2, <2>3, Zenon DEF Whole
<1> HIDE DEF bad, c
<1> QED
  BY <1>1, <1>8, <1>9, <1>10

-----------------------------------------------------------------------------
(* Names and maps *)

LEMMA NormalTwice == ASSUME NEW n PROVE Normal(Normal(n)) = Normal(n)
<1>1. CASE n \in DOMAIN Trimmed \cup DOMAIN Lowered
  BY <1>1, NamesAssumption
<1>2. CASE n \notin DOMAIN Trimmed \cup DOMAIN Lowered
  <2>1. Normal(n) = n
    BY <1>2 DEF Normal, Trim, Lower
  <2> QED
    BY <2>1
<1> QED
  BY <1>1, <1>2

IsMap(m) == m = [t \in DOMAIN m |-> m[t]]

\* The profiles of m stand under normalised names, are of a family and usable.
Profiled(m) ==
    \A t \in DOMAIN m : Normal(t) = t /\ m[t].family \in Families /\ Usable(m[t])

LEMMA BuiltInProfiled ==
  \A t \in DOMAIN BuiltIn : BuiltIn[t].family \in Families /\ Usable(BuiltIn[t])
<1> DEFINE Is(p) == /\ p.family \in Families
                    /\ \/ p.kind = "format" /\ p.url \in FormatUrls
                       \/ p.kind = "dsn"
                    /\ \/ \E x : p.globs = <<x>>
                       \/ \E x, y : p.globs = <<x, y>>
<1>1. ASSUME NEW t \in DOMAIN BuiltIn PROVE Is(BuiltIn[t])
  BY DEF BuiltIn, Profile, Families, FormatUrls
<1>2. \A x, y : DOMAIN <<x>> = {1} /\ DOMAIN <<x, y>> = {1, 2}
  OBVIOUS
<1>3. ASSUME NEW p, Is(p) PROVE Usable(p)
  BY <1>2, <1>3 DEF Usable, Indexed
<1> QED
  BY <1>1, <1>3

\* What a valid entry is compiled to.
LEMMA CompiledProfile ==
  ASSUME NEW n, NEW s, ValidSpec(n, s), s.template \in Seq(STRING), s.globs \in Seq(STRING)
  PROVE  Compiled(s).family \in Families /\ Usable(Compiled(s))
<1> DEFINE p == Compiled(s)
<1>1. /\ p.family = Normal(s.family) /\ p.globs = s.globs
      /\ p.kind = IF s.dsnRaw THEN "dsn" ELSE "template"
      /\ p.url = IF s.dsnRaw THEN <<>> ELSE s.template
  BY DEF Compiled, Profile
<1> HIDE DEF p
<1>2. p.family \in Families
  BY <1>1 DEF ValidSpec
<1>3. ~s.dsnRaw => WellFormed(s.template)
  BY ValidIsWellFormed DEF ValidSpec
<1>4. Indexed(p.globs)
  BY <1>1 DEF Indexed
<1>5. Usable(p)
  BY <1>1, <1>3, <1>4 DEF Usable
<1> QED
  BY <1>2, <1>5 DEF p

-----------------------------------------------------------------------------
(* The inductive invariant *)

Shapes ==
    /\ plan \in Plans
    /\ DOMAIN pc = Goroutines /\ DOMAIN left = Goroutines /\ DOMAIN built = Goroutines
    /\ DOMAIN seen = Goroutines /\ DOMAIN held = Goroutines /\ DOMAIN answer = Goroutines
    /\ IsMap(profiles) /\ Profiled(profiles)
    /\ \A g \in Goroutines : IsMap(built[g]) /\ Profiled(built[g])

\* One goroutine copies, or some list (specMu).
Exclusion ==
    /\ writer \in Goroutines \cup {NoProfile}
    /\ readers \subseteq Goroutines
    /\ \A g \in Goroutines : (pc[g] = "copy" <=> writer = g) /\ (pc[g] = "list" <=> g \in readers)
    /\ writer # NoProfile => readers = {}

\* What g may be doing, and what it has been told.
Asked(g) ==
    /\ pc[g] \in {"start", "validate", "lock", "copy", "list", "use", "done"}
    /\ pc[g] \in {"validate", "lock", "copy"} => plan[g].op = "register"
    /\ pc[g] = "list" => plan[g].op = "list"
    /\ pc[g] = "use" => plan[g].op \in {"look", "build", "probe"}
    /\ pc[g] \in {"start", "validate", "lock", "list"} => answer[g] = NoAnswer
    /\ pc[g] = "start" => held[g] = NoAnswer
    /\ seen[g] \subseteq DOMAIN profiles

\* built[g] holds the entries in done, each of them valid, one for each name.
Holds(g, done) ==
    /\ \A n \in done : ValidSpec(n, plan[g].specs[n]) /\ Normal(n) \in DOMAIN built[g]
    /\ \A t \in DOMAIN built[g] :
          \E n \in done : Normal(n) = t /\ built[g][t] = Compiled(plan[g].specs[n])

Batched(g) ==
    /\ pc[g] = "start" => DOMAIN built[g] = {}
    /\ pc[g] = "validate" =>
          left[g] \subseteq DOMAIN plan[g].specs /\ Holds(g, DOMAIN plan[g].specs \ left[g])
    /\ pc[g] \in {"lock", "copy"} => Holds(g, DOMAIN plan[g].specs)
    /\ pc[g] = "copy" =>
          /\ left[g] \subseteq DOMAIN built[g]
          /\ \A t \in DOMAIN built[g] \ left[g] : t \in DOMAIN profiles /\ profiles[t] = built[g][t]

CatalogInv == Shapes /\ Exclusion /\ \A g \in Goroutines : Asked(g) /\ Batched(g)

LEMMA CatalogInit == Init => CatalogInv
<1> SUFFICES ASSUME Init PROVE CatalogInv
  OBVIOUS
<1> USE DEF Init
<1>1. IsMap(profiles) /\ Profiled(profiles)
  BY NamesAssumption, BuiltInProfiled DEF IsMap, Profiled
<1>2. \A g \in Goroutines : DOMAIN built[g] = {}
  OBVIOUS
<1>3. \A g \in Goroutines : IsMap(built[g]) /\ Profiled(built[g])
  BY <1>2 DEF IsMap, Profiled
<1>4. Shapes
  BY <1>1, <1>3 DEF Shapes
<1>5. Exclusion
  BY PlansAssumption DEF Exclusion
<1>6. \A g \in Goroutines : Asked(g) /\ Batched(g)
  BY <1>2 DEF Asked, Batched
<1> QED
  BY <1>4, <1>5, <1>6 DEF CatalogInv

\* A goroutine that does not move keeps its part.
LEMMA Elsewhere ==
  ASSUME NEW h, Asked(h), Batched(h), plan' = plan,
         pc'[h] = pc[h], left'[h] = left[h], built'[h] = built[h], seen'[h] = seen[h],
         held'[h] = held[h], answer'[h] = answer[h],
         DOMAIN profiles \subseteq DOMAIN profiles',
         pc[h] = "copy" => profiles' = profiles
  PROVE  Asked(h)' /\ Batched(h)'
<1>1. Asked(h)'
  BY DEF Asked
<1>2. Batched(h)'
  BY DEF Batched, Holds
<1> QED
  BY <1>1, <1>2

LEMMA BeginRegisterKeeps ==
  ASSUME CatalogInv, NEW g \in Goroutines, BeginRegister(g) PROVE CatalogInv'
<1> USE DEF CatalogInv, BeginRegister, lockVars
<1>1. Shapes'
  BY DEF Shapes
<1>2. Exclusion'
  BY DEF Exclusion, Shapes
<1>3. Asked(g)'
  BY DEF Asked, Shapes
<1>4. Batched(g)'
  BY DEF Batched, Holds, Shapes
<1>5. ASSUME NEW h \in Goroutines, h # g PROVE Asked(h)' /\ Batched(h)'
  BY <1>5, Elsewhere DEF Shapes
<1> QED
  BY <1>1, <1>2, <1>3, <1>4, <1>5

\* One more entry is valid and in built.
LEMMA HoldsOneMore ==
  ASSUME NEW g \in Goroutines, NEW done, Holds(g, done), NEW n,
         ValidSpec(n, plan[g].specs[n]), plan' = plan,
         built'[g] = Assign(Normal(n), Compiled(plan[g].specs[n]), built[g])
  PROVE  Holds(g, done \cup {n})'
<1> DEFINE c == Compiled(plan[g].specs[n])
<1>1. /\ DOMAIN built'[g] = {Normal(n)} \cup DOMAIN built[g] /\ built'[g][Normal(n)] = c
      /\ \A u \in DOMAIN built[g] : u # Normal(n) => built'[g][u] = built[g][u]
  BY DEF Assign
<1> HIDE DEF c
<1>2. \A m \in done \cup {n} : ValidSpec(m, plan[g].specs[m]) /\ Normal(m) \in DOMAIN built'[g]
  BY <1>1 DEF Holds
<1>3. ASSUME NEW t \in DOMAIN built'[g]
      PROVE  \E m \in done \cup {n} : Normal(m) = t /\ built'[g][t] = Compiled(plan[g].specs[m])
  <2>1. CASE t = Normal(n)
    BY <2>1, <1>1 DEF c
  <2>2. CASE t # Normal(n)
    BY <2>2, <1>1 DEF Holds
  <2> QED
    BY <2>1, <2>2
<1> QED
  BY <1>2, <1>3 DEF Holds

LEMMA ValidateKeeps ==
  ASSUME CatalogInv, NEW g \in Goroutines, Validate(g) PROVE CatalogInv'
<1> USE DEF CatalogInv
<1>0. /\ pc[g] = "validate" /\ plan' = plan /\ profiles' = profiles /\ writer' = writer
      /\ readers' = readers /\ seen' = seen /\ held' = held
  BY DEF Validate, lockVars
<1>1. PICK n \in left[g] :
        IF ValidSpec(n, plan[g].specs[n])
        THEN /\ built' = [built EXCEPT ![g] = Assign(Normal(n), Compiled(plan[g].specs[n]), @)]
             /\ left' = [left EXCEPT ![g] = @ \ {n}]
             /\ pc' = IF left'[g] = {} THEN [pc EXCEPT ![g] = "lock"] ELSE pc
             /\ answer' = answer
        ELSE Answer(g, "error") /\ left' = left /\ built' = built
  BY DEF Validate, batchVars
<1>2. CASE ValidSpec(n, plan[g].specs[n])
  <2> DEFINE c == Compiled(plan[g].specs[n])
  <2>0. PICK done : done = DOMAIN plan[g].specs \ left[g]
    OBVIOUS
  <2>1. /\ built' = [built EXCEPT ![g] = Assign(Normal(n), c, @)]
        /\ left' = [left EXCEPT ![g] = @ \ {n}]
        /\ pc' = IF left'[g] = {} THEN [pc EXCEPT ![g] = "lock"] ELSE pc
        /\ answer' = answer
    BY <1>1, <1>2
  <2>2. IsMap(built'[g]) /\ Profiled(built'[g])
    <3>1. /\ DOMAIN built'[g] = {Normal(n)} \cup DOMAIN built[g] /\ built'[g][Normal(n)] = c
          /\ IsMap(built'[g])
          /\ \A u \in DOMAIN built[g] : u # Normal(n) => built'[g][u] = built[g][u]
      BY <2>1 DEF Shapes, Assign, IsMap
    <3>2. c.family \in Families /\ Usable(c)
      <4>1. n \in DOMAIN plan[g].specs /\ plan[g].op = "register" /\ plan \in Plans
        BY <1>0 DEF Shapes, Asked, Batched
      <4>2. plan[g].specs[n].template \in Seq(STRING) /\ plan[g].specs[n].globs \in Seq(STRING)
        BY <4>1, PlansAssumption
      <4> QED
        BY <1>2, <4>2, CompiledProfile
    <3> HIDE DEF c
    <3> QED
      BY <3>1, <3>2, NormalTwice DEF Profiled, Shapes
  <2> HIDE DEF c
  <2>3. Shapes'
    <3>1. \A h \in Goroutines : h # g => built'[h] = built[h]
      BY <2>1 DEF Shapes
    <3> QED
      BY <1>0, <2>1, <2>2, <3>1 DEF Shapes
  <2>4. Exclusion'
    BY <1>0, <2>1 DEF Exclusion, Shapes
  <2>5. Asked(g)'
    BY <1>0, <2>1 DEF Asked, Shapes
  <2>6. Holds(g, done \cup {n})'
    <3>1. Holds(g, done)
      BY <1>0, <2>0 DEF Batched
    <3>2. built'[g] = Assign(Normal(n), Compiled(plan[g].specs[n]), built[g])
      BY <2>1 DEF Shapes, c
    <3> QED
      BY <1>0, <1>2, <3>1, <3>2, HoldsOneMore
  <2>7. Batched(g)'
    <3>1. n \in DOMAIN plan[g].specs /\ left'[g] = left[g] \ {n} /\ left[g] \subseteq DOMAIN plan[g].specs
      BY <1>0, <2>1 DEF Batched, Shapes
    <3>2. done \cup {n} = DOMAIN plan'[g].specs \ left'[g]
      BY <1>0, <2>0, <3>1
    <3>3. Holds(g, DOMAIN plan[g].specs \ left[g])'
      BY <2>6, <3>2 DEF Holds
    <3>4. left'[g] = {} => Holds(g, DOMAIN plan[g].specs)'
      BY <3>3 DEF Holds
    <3>5. pc'[g] = IF left'[g] = {} THEN "lock" ELSE "validate"
      BY <1>0, <2>1 DEF Shapes
    <3> QED
      BY <1>0, <3>1, <3>3, <3>4, <3>5 DEF Batched
  <2>8. ASSUME NEW h \in Goroutines, h # g PROVE Asked(h)' /\ Batched(h)'
    BY <2>8, <1>0, <2>1, Elsewhere DEF Shapes
  <2> QED
    BY <2>3, <2>4, <2>5, <2>7, <2>8
<1>3. CASE ~ValidSpec(n, plan[g].specs[n])
  <2>1. Answer(g, "error") /\ left' = left /\ built' = built
    BY <1>1, <1>3
  <2> USE DEF Answer
  <2>2. Shapes'
    BY <1>0, <2>1 DEF Shapes
  <2>3. Exclusion'
    BY <1>0, <2>1 DEF Exclusion, Shapes
  <2>4. Asked(g)' /\ Batched(g)'
    BY <1>0, <2>1 DEF Asked, Batched, Shapes
  <2>5. ASSUME NEW h \in Goroutines, h # g PROVE Asked(h)' /\ Batched(h)'
    BY <2>5, <1>0, <2>1, Elsewhere DEF Shapes
  <2> QED
    BY <2>2, <2>3, <2>4, <2>5
<1> QED
  BY <1>2, <1>3

LEMMA LockKeeps ==
  ASSUME CatalogInv, NEW g \in Goroutines, Lock(g) PROVE CatalogInv'
<1> USE DEF CatalogInv, Lock
<1>1. Shapes'
  BY DEF Shapes
<1>2. Exclusion'
  BY PlansAssumption DEF Exclusion, Shapes, CanWrite
<1>3. Asked(g)'
  BY DEF Asked, Shapes
<1>4. Batched(g)'
  BY DEF Batched, Holds, Shapes
<1>5. ASSUME NEW h \in Goroutines, h # g PROVE Asked(h)' /\ Batched(h)'
  BY <1>5, Elsewhere DEF Shapes
<1> QED
  BY <1>1, <1>2, <1>3, <1>4, <1>5

LEMMA CopyOneKeeps ==
  ASSUME CatalogInv, NEW g \in Goroutines, CopyOne(g) PROVE CatalogInv'
<1> USE DEF CatalogInv
<1>0. /\ pc[g] = "copy" /\ plan' = plan /\ pc' = pc /\ built' = built /\ writer' = writer
      /\ readers' = readers /\ seen' = seen /\ held' = held /\ answer' = answer
  BY DEF CopyOne, lockVars
<1>1. PICK t \in left[g] : /\ profiles' = Assign(t, built[g][t], profiles)
                           /\ left' = [left EXCEPT ![g] = @ \ {t}]
  BY DEF CopyOne
<1>2. /\ DOMAIN profiles' = {t} \cup DOMAIN profiles /\ profiles'[t] = built[g][t] /\ IsMap(profiles')
      /\ \A u \in DOMAIN profiles : u # t => profiles'[u] = profiles[u]
  BY <1>1 DEF Assign, IsMap
<1>3. t \in DOMAIN built[g]
  BY <1>0, <1>1 DEF Batched
<1>4. Profiled(profiles')
  BY <1>2, <1>3 DEF Profiled, Shapes
<1>5. Shapes'
  BY <1>0, <1>1, <1>2, <1>4 DEF Shapes
<1>6. Exclusion'
  BY <1>0 DEF Exclusion
<1>7. Asked(g)'
  BY <1>0, <1>2 DEF Asked
<1>8. Batched(g)'
  <2>1. left'[g] = left[g] \ {t}
    BY <1>1 DEF Shapes
  <2>2. Holds(g, DOMAIN plan[g].specs)'
    BY <1>0 DEF Batched, Holds
  <2>3. \A u \in DOMAIN built[g] \ left'[g] : u \in DOMAIN profiles' /\ profiles'[u] = built[g][u]
    BY <1>0, <1>2, <2>1 DEF Batched
  <2>4. left'[g] \subseteq DOMAIN built[g]
    BY <1>0, <2>1 DEF Batched
  <2> QED
    BY <1>0, <2>2, <2>3, <2>4 DEF Batched
<1>9. ASSUME NEW h \in Goroutines, h # g PROVE Asked(h)' /\ Batched(h)'
  <2>1. pc[h] # "copy"
    BY <1>0, <1>9 DEF Exclusion
  <2> QED
    BY <2>1, <1>9, <1>0, <1>1, <1>2, Elsewhere DEF Shapes
<1> QED
  BY <1>5, <1>6, <1>7, <1>8, <1>9

LEMMA UnlockKeeps ==
  ASSUME CatalogInv, NEW g \in Goroutines, Unlock(g) PROVE CatalogInv'
<1> USE DEF CatalogInv, Unlock, Answer, batchVars
<1>1. Shapes'
  BY DEF Shapes
<1>2. Exclusion'
  BY PlansAssumption DEF Exclusion, Shapes
<1>3. Asked(g)' /\ Batched(g)'
  BY DEF Asked, Batched, Shapes
<1>4. ASSUME NEW h \in Goroutines, h # g PROVE Asked(h)' /\ Batched(h)'
  BY <1>4, Elsewhere DEF Shapes
<1> QED
  BY <1>1, <1>2, <1>3, <1>4

LEMMA ListKeeps ==
  ASSUME CatalogInv, NEW g \in Goroutines, List(g) PROVE CatalogInv'
<1> USE DEF CatalogInv, Answer, batchVars, lockVars
<1>1. CASE BeginList(g)
  <2> USE <1>1 DEF BeginList
  <2>1. Shapes'
    BY DEF Shapes
  <2>2. Exclusion'
    BY DEF Exclusion, Shapes, CanRead
  <2>3. Asked(g)' /\ Batched(g)'
    BY DEF Asked, Batched, Shapes
  <2>4. ASSUME NEW h \in Goroutines, h # g PROVE Asked(h)' /\ Batched(h)'
    BY <2>4, Elsewhere DEF Shapes
  <2> QED
    BY <2>1, <2>2, <2>3, <2>4
<1>2. CASE VisitOne(g)
  <2> USE <1>2 DEF VisitOne
  <2>1. Shapes'
    BY DEF Shapes
  <2>2. Exclusion'
    BY DEF Exclusion
  <2>3. Asked(g)'
    BY DEF Asked, Shapes
  <2>4. Batched(g)'
    BY DEF Batched, Holds, Shapes
  <2>5. ASSUME NEW h \in Goroutines, h # g PROVE Asked(h)' /\ Batched(h)'
    BY <2>5, Elsewhere DEF Shapes
  <2> QED
    BY <2>1, <2>2, <2>3, <2>4, <2>5
<1>3. CASE EndList(g)
  <2> USE <1>3 DEF EndList
  <2>1. Shapes'
    BY DEF Shapes
  <2>2. Exclusion'
    BY DEF Exclusion, Shapes
  <2>3. Asked(g)' /\ Batched(g)'
    BY DEF Asked, Batched, Shapes
  <2>4. ASSUME NEW h \in Goroutines, h # g PROVE Asked(h)' /\ Batched(h)'
    BY <2>4, Elsewhere DEF Shapes
  <2> QED
    BY <2>1, <2>2, <2>3, <2>4
<1> QED
  BY <1>1, <1>2, <1>3 DEF List

LEMMA ReadKeeps ==
  ASSUME CatalogInv, NEW g \in Goroutines, Read(g) PROVE CatalogInv'
<1> USE DEF CatalogInv, batchVars, lockVars
<1>1. PICK p : /\ pc[g] \in {"start", "use"} /\ p \in {"use", "done"}
               /\ p = "use" => plan[g].op \in {"look", "build", "probe"} /\ pc[g] = "start"
               /\ pc' = [pc EXCEPT ![g] = p]
               /\ DOMAIN answer' = Goroutines /\ DOMAIN held' = Goroutines
               /\ \A h \in Goroutines : h # g => answer'[h] = answer[h] /\ held'[h] = held[h]
               /\ UNCHANGED <<plan, profiles, lockVars, batchVars, seen>>
  BY DEF Read, Lookup, Use, Answer, Shapes
<1>2. Shapes'
  BY <1>1 DEF Shapes
<1>3. Exclusion'
  BY <1>1 DEF Exclusion, Shapes
<1>4. Asked(g)' /\ Batched(g)'
  BY <1>1 DEF Asked, Batched, Shapes
<1>5. ASSUME NEW h \in Goroutines, h # g PROVE Asked(h)' /\ Batched(h)'
  BY <1>1, <1>5, Elsewhere DEF Shapes
<1> QED
  BY <1>2, <1>3, <1>4, <1>5

-----------------------------------------------------------------------------

LEMMA CatalogStep == CatalogInv /\ [Next]_vars => CatalogInv'
<1> SUFFICES ASSUME CatalogInv, [Next]_vars PROVE CatalogInv'
  OBVIOUS
<1>1. ASSUME NEW g \in Goroutines, Register(g) PROVE CatalogInv'
  BY <1>1, BeginRegisterKeeps, ValidateKeeps, LockKeeps, CopyOneKeeps, UnlockKeeps DEF Register
<1>2. ASSUME NEW g \in Goroutines, List(g) \/ Read(g) PROVE CatalogInv'
  BY <1>2, ListKeeps, ReadKeeps
<1>3. CASE UNCHANGED vars
  <2> USE <1>3 DEF vars, lockVars, batchVars, CatalogInv
  <2>1. Shapes'
    BY DEF Shapes
  <2>2. Exclusion'
    BY DEF Exclusion
  <2>3. ASSUME NEW g \in Goroutines PROVE Asked(g)' /\ Batched(g)'
    BY Elsewhere
  <2> QED
    BY <2>1, <2>2, <2>3
<1> QED
  BY <1>1, <1>2, <1>3 DEF Next, Finished

LEMMA CatalogHolds == Spec => []CatalogInv
  BY CatalogInit, CatalogStep, PTL DEF Spec

\* The catalogue's state keeps its types, and a type is known under its
\* normalised name only, with one of the three families (catalog_spec.go:49),
\* whatever is registered under whatever names.
THEOREM TypeCorrect == Spec => []TypeOK
<1>1. CatalogInv => TypeOK
  <2> SUFFICES ASSUME CatalogInv PROVE TypeOK
    OBVIOUS
  <2>1. \A t \in DOMAIN profiles : Lower(Trim(t)) = t
    BY DEF CatalogInv, Shapes, Profiled, Normal
  <2> QED
    BY <2>1 DEF CatalogInv, Shapes, Profiled, Usable, Exclusion, Asked, Batched, TypeOK
<1> QED
  BY <1>1, CatalogHolds, PTL

-----------------------------------------------------------------------------
(* Configurations are whole *)

\* A build works on the profile it was given, and that is a usable one.
Informed(g) ==
    plan[g].op = "build" =>
        /\ pc[g] \in {"use", "done"} => held[g] = NoProfile \/ Usable(held[g])
        /\ pc[g] = "done" =>
              answer[g] = IF held[g] = NoProfile THEN Failed ELSE BuildConfig(held[g], plan[g])

AllInformed == \A g \in Goroutines : Informed(g)

LEMMA InformedInit == Init => AllInformed
BY DEF Init, AllInformed, Informed

\* The others stay as they are.
LEMMA InformedElsewhere ==
  ASSUME AllInformed, NEW g \in Goroutines, plan' = plan, Informed(g)',
         \A h \in Goroutines : h # g => pc'[h] = pc[h] /\ held'[h] = held[h] /\ answer'[h] = answer[h]
  PROVE  AllInformed'
<1>1. ASSUME NEW h \in Goroutines, h # g PROVE Informed(h)'
  BY <1>1 DEF AllInformed, Informed
<1> QED
  BY <1>1 DEF AllInformed

LEMMA RegisterInforms ==
  ASSUME CatalogInv, AllInformed, NEW g \in Goroutines, Register(g) \/ List(g)
  PROVE  AllInformed'
<1> USE DEF CatalogInv, batchVars, lockVars
<1>1. /\ plan' = plan /\ plan[g].op # "build" /\ held' = held
      /\ \A h \in Goroutines : h # g => pc'[h] = pc[h] /\ answer'[h] = answer[h]
  <2>1. CASE BeginRegister(g)
    BY <2>1 DEF BeginRegister
  <2>2. CASE Validate(g)
    <3>1. pc[g] = "validate" /\ plan' = plan /\ held' = held
      BY <2>2 DEF Validate
    <3>2. \/ answer' = answer /\ (pc' = pc \/ pc' = [pc EXCEPT ![g] = "lock"])
          \/ Answer(g, "error")
      BY <2>2 DEF Validate
    <3>3. plan[g].op = "register"
      BY <3>1 DEF Asked
    <3>4. \A h \in Goroutines : h # g => pc'[h] = pc[h] /\ answer'[h] = answer[h]
      BY <3>2 DEF Answer, Shapes
    <3> QED
      BY <3>1, <3>3, <3>4
  <2>3. CASE Lock(g)
    BY <2>3 DEF Lock, Asked
  <2>4. CASE CopyOne(g)
    BY <2>4 DEF CopyOne, Asked
  <2>5. CASE Unlock(g)
    BY <2>5 DEF Unlock, Answer, Asked
  <2>6. CASE BeginList(g)
    BY <2>6 DEF BeginList
  <2>7. CASE VisitOne(g)
    BY <2>7 DEF VisitOne, Asked
  <2>8. CASE EndList(g)
    BY <2>8 DEF EndList, Answer, Asked
  <2> QED
    BY <2>1, <2>2, <2>3, <2>4, <2>5, <2>6, <2>7, <2>8 DEF Register, List
<1>2. Informed(g)'
  BY <1>1 DEF Informed
<1> QED
  BY <1>1, <1>2, InformedElsewhere

LEMMA ReadInforms ==
  ASSUME CatalogInv, AllInformed, NEW g \in Goroutines, Read(g)
  PROVE  AllInformed'
<1> USE DEF CatalogInv, batchVars, lockVars
<1>1. CASE Lookup(g)
  <2> DEFINE t == Normal(plan[g].type)
             p == IF t \in DOMAIN profiles THEN profiles[t] ELSE NoProfile
  <2>1. /\ plan' = plan /\ pc' = [pc EXCEPT ![g] = "use"] /\ held' = [held EXCEPT ![g] = p]
        /\ answer' = answer
    BY <1>1 DEF Lookup
  <2>2. p = NoProfile \/ Usable(p)
    BY DEF Shapes, Profiled
  <2> HIDE DEF p
  <2>3. pc'[g] = "use" /\ held'[g] = p
    BY <2>1 DEF Shapes
  <2>4. Informed(g)'
    BY <2>2, <2>3 DEF Informed
  <2>5. \A h \in Goroutines : h # g => pc'[h] = pc[h] /\ held'[h] = held[h] /\ answer'[h] = answer[h]
    BY <2>1 DEF Shapes
  <2> QED
    BY <2>1, <2>4, <2>5, InformedElsewhere
<1>2. CASE Use(g)
  <2> DEFINE a == IF held[g] = NoProfile THEN Failed
                  ELSE CASE plan[g].op = "look"  -> held[g]
                         [] plan[g].op = "build" -> BuildConfig(held[g], plan[g])
                         [] plan[g].op = "probe" -> FindProfileJars(held[g], plan[g])
  <2>1. /\ plan' = plan /\ pc[g] = "use" /\ pc' = [pc EXCEPT ![g] = "done"] /\ held' = held
        /\ answer' = [answer EXCEPT ![g] = a]
    BY <1>2 DEF Use, Answer
  <2>2. plan[g].op = "build" => a = IF held[g] = NoProfile THEN Failed ELSE BuildConfig(held[g], plan[g])
    OBVIOUS
  <2> HIDE DEF a
  <2>3. pc'[g] = "done" /\ answer'[g] = a
    BY <2>1 DEF Shapes
  <2>4. Informed(g)'
    BY <2>1, <2>2, <2>3 DEF Informed, AllInformed
  <2>5. \A h \in Goroutines : h # g => pc'[h] = pc[h] /\ held'[h] = held[h] /\ answer'[h] = answer[h]
    BY <2>1 DEF Shapes
  <2> QED
    BY <2>1, <2>4, <2>5, InformedElsewhere
<1> QED
  BY <1>1, <1>2 DEF Read

LEMMA InformedStep == CatalogInv /\ AllInformed /\ [Next]_vars => AllInformed'
<1> SUFFICES ASSUME CatalogInv, AllInformed, [Next]_vars PROVE AllInformed'
  OBVIOUS
<1>1. CASE UNCHANGED vars
  BY <1>1 DEF vars, lockVars, batchVars, AllInformed, Informed
<1> QED
  BY <1>1, RegisterInforms, ReadInforms DEF Next, Finished

\* BuildConfig refuses a call exactly for want of a profile, a DSN, a host, a
\* driver's jar or the agent's, and every other call gets a configuration of one
\* profile with the URL its template means and the first jars there are, for any
\* templates, endpoints and directories, and whatever is registered meanwhile
\* (catalog.go:161).
THEOREM ConfigsWhole == Spec => []ConfigWhole
<1>1. CatalogInv /\ AllInformed => ConfigWhole
  <2> SUFFICES ASSUME CatalogInv, AllInformed,
                      NEW g \in Goroutines, pc[g] = "done", plan[g].op = "build"
               PROVE  IF held[g] = NoProfile \/ Refused(held[g], plan[g])
                      THEN answer[g] = Failed
                      ELSE answer[g] # Failed /\ Whole(answer[g], held[g], plan[g])
    BY Zenon DEF ConfigWhole
  <2>1. /\ held[g] = NoProfile \/ Usable(held[g])
        /\ answer[g] = IF held[g] = NoProfile THEN Failed ELSE BuildConfig(held[g], plan[g])
    BY DEF AllInformed, Informed
  <2>2. CASE held[g] = NoProfile
    BY <2>1, <2>2
  <2>3. CASE held[g] # NoProfile
    <3>1. Texts(plan[g].endpoint) /\ plan[g].dsn \in Seq(STRING)
      <4>1. plan \in Plans
        BY DEF CatalogInv, Shapes
      <4>2. /\ plan[g].endpoint.host \in Seq(STRING) /\ plan[g].endpoint.port \in Seq(STRING)
            /\ plan[g].endpoint.database \in Seq(STRING) /\ plan[g].dsn \in Seq(STRING)
        BY <4>1, PlansAssumption
      <4> QED
        BY <4>2 DEF Texts, Fields
    <3> QED
      BY <2>1, <2>3, <3>1, BuildConfigIs
  <2> QED
    BY <2>2, <2>3
<1>2. Spec => []AllInformed
  BY CatalogHolds, InformedInit, InformedStep, PTL DEF Spec
<1> QED
  BY <1>1, <1>2, CatalogHolds, PTL

-----------------------------------------------------------------------------
(* Catalog implements ProfileRegistry *)

\* An entry is valid exactly when it means something.
LEMMA ValidIsMeaningful ==
  ASSUME plan \in Plans, NEW g \in Goroutines, plan[g].op = "register",
         NEW n \in DOMAIN plan[g].specs
  PROVE  ValidSpec(n, plan[g].specs[n]) <=> Meaningful(n, plan[g].specs[n])
<1>1. plan[g].specs[n].template \in Seq(STRING)
  BY PlansAssumption
<1>2. validateURLTemplate(plan[g].specs[n].template) <=> WellFormed(plan[g].specs[n].template)
  BY <1>1, ValidIsWellFormed
<1> QED
  BY <1>2, Zenon DEF ValidSpec, Meaningful

\* A batch that is checked is one of its outcomes.
LEMMA BuiltIsOffered ==
  ASSUME plan \in Plans, NEW g \in Goroutines, plan[g].op = "register",
         IsMap(built[g]), Holds(g, DOMAIN plan[g].specs)
  PROVE  built[g] \in Outcomes(plan[g].specs)
<1> DEFINE specs == plan[g].specs
           types == {Normal(n) : n \in DOMAIN specs}
           w     == [t \in types |-> CHOOSE n \in DOMAIN specs :
                                        Normal(n) = t /\ built[g][t] = Compiled(specs[n])]
<1>1. DOMAIN built[g] = types
  BY DEF Holds
<1>2. \A n \in DOMAIN specs : Meaningful(n, specs[n])
  BY ValidIsMeaningful DEF Holds
<1>3. \A t \in types : w[t] \in DOMAIN specs /\ Normal(w[t]) = t /\ built[g][t] = Compiled(specs[w[t]])
  BY <1>1 DEF Holds
<1>4. w \in [types -> DOMAIN specs]
  BY <1>3
<1> HIDE DEF w
<1>5. built[g] = [t \in types |-> Compiled(specs[w[t]])]
  BY <1>1, <1>3 DEF IsMap
<1> QED
  BY <1>2, <1>3, <1>4, <1>5 DEF Outcomes

LEMMA InvalidIsRefused ==
  ASSUME plan \in Plans, NEW g \in Goroutines, plan[g].op = "register",
         NEW n \in DOMAIN plan[g].specs, ~ValidSpec(n, plan[g].specs[n])
  PROVE  Outcomes(plan[g].specs) = {}
BY ValidIsMeaningful DEF Outcomes

\* Nothing that ProfileRegistry speaks of changes.
LEMMA Stutters ==
  ASSUME plan' = plan, Table' = Table, Told' = Told
  PROVE  UNCHANGED Registry!vars
BY DEF Registry!vars

LEMMA TellIs ==
  ASSUME plan' = plan, NEW g \in Goroutines, NEW k, NEW a,
         k = IF plan[g].op \in {"register", "list"} THEN plan[g].op ELSE "look",
         Told[g] = NoAnswer, Told'[g] = a, \A h \in Goroutines : h # g => Told'[h] = Told[h]
  PROVE  Registry!Tell(g, k, a)
<1>1. Told' = [Told EXCEPT ![g] = a]
  BY DEF Told
<1> QED
  BY <1>1 DEF Registry!Tell

\* While no writer comes or goes, the table is the same.
LEMMA TableKept ==
  ASSUME profiles' = profiles, writer' = writer,
         writer # NoProfile => built'[writer] = built[writer]
  PROVE  Table' = Table
BY DEF Table

LEMMA ToldKept ==
  ASSUME plan' = plan, NEW g \in Goroutines,
         \A h \in Goroutines : h # g => pc'[h] = pc[h] /\ answer'[h] = answer[h] /\ held'[h] = held[h]
  PROVE  /\ \A h \in Goroutines : h # g => Told'[h] = Told[h]
         /\ Told'[g] = Told[g] => Told' = Told
BY DEF Told

LEMMA RegistryInit == Init => Registry!Init
<1> SUFFICES ASSUME Init PROVE Told = [g \in Goroutines |-> NoAnswer]
  BY DEF Registry!Init
<1> QED
  BY DEF Init, Told

LEMMA RegisterImplements ==
  ASSUME CatalogInv, NEW g \in Goroutines, Register(g)
  PROVE  Registry!Next \/ UNCHANGED Registry!vars
<1> USE DEF CatalogInv, lockVars, batchVars
<1>1. CASE BeginRegister(g)
  <2>1. Table' = Table
    BY <1>1, TableKept DEF BeginRegister
  <2>2. Told'[g] = Told[g]
    BY <1>1 DEF BeginRegister, Told, Shapes
  <2>3. Told' = Told
    BY <1>1, <2>2, ToldKept DEF BeginRegister, Shapes
  <2> QED
    BY <1>1, <2>1, <2>3, Stutters DEF BeginRegister
<1>2. CASE Validate(g)
  <2>0. /\ pc[g] = "validate" /\ plan' = plan /\ profiles' = profiles /\ writer' = writer
        /\ held' = held /\ plan[g].op = "register" /\ answer[g] = NoAnswer /\ writer # g
    BY <1>2 DEF Validate, Asked, Exclusion
  <2>1. PICK n \in left[g] :
          IF ValidSpec(n, plan[g].specs[n])
          THEN /\ built' = [built EXCEPT ![g] = Assign(Normal(n), Compiled(plan[g].specs[n]), @)]
               /\ left' = [left EXCEPT ![g] = @ \ {n}]
               /\ pc' = IF left'[g] = {} THEN [pc EXCEPT ![g] = "lock"] ELSE pc
               /\ answer' = answer
          ELSE Answer(g, "error") /\ left' = left /\ built' = built
    BY <1>2 DEF Validate
  <2>2. \A h \in Goroutines : h # g => built'[h] = built[h]
    BY <2>1 DEF Shapes
  <2>3. Table' = Table
    BY <2>0, <2>2, TableKept DEF Exclusion
  <2>4. n \in DOMAIN plan[g].specs
    BY <2>0, <2>1 DEF Batched
  <2>5. CASE ValidSpec(n, plan[g].specs[n])
    <3>1. /\ \A h \in Goroutines : h # g => pc'[h] = pc[h] /\ answer'[h] = answer[h] /\ held'[h] = held[h]
          /\ pc'[g] # "copy" /\ answer' = answer
      BY <2>0, <2>1, <2>5 DEF Shapes
    <3>2. Told'[g] = Told[g]
      BY <2>0, <3>1 DEF Told
    <3> QED
      BY <2>0, <2>3, <3>1, <3>2, ToldKept, Stutters
  <2>6. CASE ~ValidSpec(n, plan[g].specs[n])
    <3>1. Outcomes(plan[g].specs) = {}
      BY <2>0, <2>4, <2>6, InvalidIsRefused DEF Shapes
    <3>2. Answer(g, "error")
      BY <2>1, <2>6
    <3>3. Told[g] = NoAnswer /\ Told'[g] = "error"
      BY <2>0, <3>2 DEF Told, Answer, Shapes
    <3>4. \A h \in Goroutines : h # g => Told'[h] = Told[h]
      BY <2>0, <3>2 DEF Told, Answer, Shapes
    <3>5. Registry!Tell(g, "register", "error")
      BY <2>0, <3>3, <3>4, TellIs
    <3>6. Registry!Reject(g)
      BY <2>0, <2>3, <3>1, <3>5 DEF Registry!Reject
    <3> QED
      BY <3>6 DEF Registry!Next
  <2> QED
    BY <2>5, <2>6
<1>3. CASE Lock(g)
  <2>0. /\ pc[g] = "lock" /\ plan' = plan /\ profiles' = profiles /\ writer = NoProfile /\ writer' = g
        /\ built' = built /\ pc' = [pc EXCEPT ![g] = "copy"] /\ answer' = answer /\ held' = held
        /\ plan[g].op = "register" /\ answer[g] = NoAnswer
    BY <1>3 DEF Lock, CanWrite, Asked
  <2>1. built[g] \in Outcomes(plan[g].specs)
    BY <2>0, BuiltIsOffered DEF Shapes, Batched
  <2>2. Table' = [t \in DOMAIN built[g] \cup DOMAIN Table |->
                     IF t \in DOMAIN built[g] THEN built[g][t] ELSE Table[t]]
    BY <2>0, PlansAssumption DEF Table
  <2>3. Told[g] = NoAnswer /\ Told'[g] = "ok"
    BY <2>0 DEF Told, Shapes
  <2>4. \A h \in Goroutines : h # g => Told'[h] = Told[h]
    BY <2>0 DEF Told, Shapes
  <2>5. Registry!Tell(g, "register", "ok")
    BY <2>0, <2>3, <2>4, TellIs
  <2>6. Registry!Register(g)
    BY <2>0, <2>1, <2>2, <2>5 DEF Registry!Register
  <2> QED
    BY <2>6 DEF Registry!Next
<1>4. CASE CopyOne(g)
  <2>0. /\ pc[g] = "copy" /\ plan' = plan /\ pc' = pc /\ writer' = writer /\ built' = built
        /\ answer' = answer /\ held' = held /\ writer = g
    BY <1>4 DEF CopyOne, Exclusion
  <2>1. PICK t \in left[g] : profiles' = Assign(t, built[g][t], profiles)
    BY <1>4 DEF CopyOne
  <2>2. /\ t \in DOMAIN built[g] /\ DOMAIN profiles' = {t} \cup DOMAIN profiles
        /\ \A u \in DOMAIN profiles : u # t => profiles'[u] = profiles[u]
    BY <2>0, <2>1 DEF Batched, Assign
  <2>3. Table' = Table
    BY <2>0, <2>2, PlansAssumption DEF Table
  <2>4. Told' = Told
    BY <2>0 DEF Told
  <2> QED
    BY <2>0, <2>3, <2>4, Stutters
<1>5. CASE Unlock(g)
  <2>0. /\ pc[g] = "copy" /\ plan' = plan /\ pc' = [pc EXCEPT ![g] = "done"]
        /\ answer' = [answer EXCEPT ![g] = "ok"] /\ held' = held /\ profiles' = profiles
        /\ writer = g /\ writer' = NoProfile /\ plan[g].op = "register"
        /\ \A t \in DOMAIN built[g] : t \in DOMAIN profiles /\ profiles[t] = built[g][t]
    BY <1>5 DEF Unlock, Answer, Exclusion, Asked, Batched
  <2>1. Table = profiles
    <3>1. DOMAIN built[g] \cup DOMAIN profiles = DOMAIN profiles
      BY <2>0
    <3> QED
      BY <2>0, <3>1, PlansAssumption DEF Table, Shapes, IsMap
  <2>2. Table' = profiles
    BY <2>0 DEF Table
  <2>3. Told'[g] = Told[g]
    BY <2>0 DEF Told, Shapes
  <2>4. \A h \in Goroutines : h # g => pc'[h] = pc[h] /\ answer'[h] = answer[h] /\ held'[h] = held[h]
    BY <2>0 DEF Shapes
  <2>5. Told' = Told
    BY <2>0, <2>3, <2>4, ToldKept
  <2> QED
    BY <2>0, <2>1, <2>2, <2>5, Stutters
<1> QED
  BY <1>1, <1>2, <1>3, <1>4, <1>5 DEF Register

LEMMA ListImplements ==
  ASSUME CatalogInv, NEW g \in Goroutines, List(g)
  PROVE  Registry!Next \/ UNCHANGED Registry!vars
<1> USE DEF CatalogInv, lockVars, batchVars
<1>1. CASE BeginList(g) \/ VisitOne(g)
  <2>1. /\ plan' = plan /\ profiles' = profiles /\ writer' = writer /\ built' = built
        /\ answer' = answer /\ held' = held /\ pc[g] # "copy" /\ pc'[g] # "copy"
        /\ \A h \in Goroutines : h # g => pc'[h] = pc[h]
    BY <1>1 DEF BeginList, VisitOne, Shapes
  <2>2. Table' = Table
    BY <2>1, TableKept
  <2>3. Told' = Told
    BY <2>1 DEF Told
  <2> QED
    BY <2>1, <2>2, <2>3, Stutters
<1>2. CASE EndList(g)
  <2>0. /\ pc[g] = "list" /\ plan' = plan /\ pc' = [pc EXCEPT ![g] = "done"]
        /\ answer' = [answer EXCEPT ![g] = seen[g]] /\ held' = held /\ profiles' = profiles
        /\ writer = NoProfile /\ writer' = writer /\ plan[g].op = "list" /\ answer[g] = NoAnswer
        /\ seen[g] = DOMAIN profiles
    BY <1>2 DEF EndList, Answer, Exclusion, Asked
  <2>1. Table = profiles /\ Table' = Table
    BY <2>0 DEF Table
  <2>2. Told[g] = NoAnswer /\ Told'[g] = DOMAIN Table
    BY <2>0, <2>1 DEF Told, Shapes
  <2>3. \A h \in Goroutines : h # g => Told'[h] = Told[h]
    BY <2>0 DEF Told, Shapes
  <2>4. Registry!Tell(g, "list", DOMAIN Table)
    BY <2>0, <2>2, <2>3, TellIs
  <2>5. Registry!List(g)
    BY <2>1, <2>4 DEF Registry!List
  <2> QED
    BY <2>5 DEF Registry!Next
<1> QED
  BY <1>1, <1>2 DEF List

LEMMA ReadImplements ==
  ASSUME CatalogInv, NEW g \in Goroutines, Read(g)
  PROVE  Registry!Next \/ UNCHANGED Registry!vars
<1> USE DEF CatalogInv, lockVars, batchVars
<1>1. CASE Lookup(g)
  <2> DEFINE t == Normal(plan[g].type)
             p == IF t \in DOMAIN profiles THEN profiles[t] ELSE NoProfile
  <2>0. /\ pc[g] = "start" /\ plan' = plan /\ pc' = [pc EXCEPT ![g] = "use"]
        /\ held' = [held EXCEPT ![g] = p] /\ answer' = answer /\ profiles' = profiles
        /\ writer = NoProfile /\ writer' = writer /\ plan[g].op \in {"look", "build", "probe"}
        /\ held[g] = NoAnswer
    BY <1>1 DEF Lookup, CanRead, Asked
  <2>1. Table = profiles /\ Table' = Table
    BY <2>0 DEF Table
  <2> HIDE DEF p
  <2>2. Told[g] = NoAnswer /\ Told'[g] = p
    BY <2>0 DEF Told, Shapes
  <2>3. \A h \in Goroutines : h # g => Told'[h] = Told[h]
    BY <2>0 DEF Told, Shapes
  <2>4. Registry!Tell(g, "look", p)
    BY <2>0, <2>2, <2>3, TellIs
  <2>5. Registry!Look(g)
    BY <2>0, <2>1, <2>4 DEF Registry!Look, p
  <2> QED
    BY <2>5 DEF Registry!Next
<1>2. CASE Use(g)
  <2>0. /\ pc[g] = "use" /\ plan' = plan /\ pc' = [pc EXCEPT ![g] = "done"] /\ held' = held
        /\ \A h \in Goroutines : h # g => answer'[h] = answer[h]
        /\ profiles' = profiles /\ writer' = writer /\ built' = built
        /\ plan[g].op \in {"look", "build", "probe"}
    BY <1>2 DEF Use, Answer, Asked, Shapes
  <2>1. Table' = Table
    BY <2>0, TableKept
  <2>2. Told'[g] = Told[g]
    BY <2>0 DEF Told, Shapes
  <2>3. Told' = Told
    BY <2>0, <2>2, ToldKept DEF Shapes
  <2> QED
    BY <2>0, <2>1, <2>3, Stutters
<1> QED
  BY <1>1, <1>2 DEF Read

\* A batch of profiles is registered whole or not at all, and everything a
\* goroutine is told of the table is true of the table between two
\* registrations, whatever is registered, listed and looked up at once
\* (catalog_spec.go:39 and 53).
THEOREM RegistryKept == Spec => KeepsRegistry
<1>1. Init => Registry!Init
  BY RegistryInit
<1>2. CatalogInv /\ [Next]_vars => [Registry!Next]_(Registry!vars)
  <2> SUFFICES ASSUME CatalogInv, [Next]_vars PROVE Registry!Next \/ UNCHANGED Registry!vars
    OBVIOUS
  <2>1. ASSUME UNCHANGED vars PROVE UNCHANGED Registry!vars
    BY <2>1, Stutters DEF vars, lockVars, batchVars, Table, Told
  <2> QED
    BY <2>1, RegisterImplements, ListImplements, ReadImplements DEF Next, Finished
<1> QED
  BY <1>1, <1>2, CatalogHolds, PTL DEF Spec, KeepsRegistry, Registry!RegistrySpec
=============================================================================
