------------------------ MODULE RequestsDataProofs ------------------------
(***************************************************************************)
(* Proof that the values of a request and of its rows arrive: the fields   *)
(* written for a sequence of values are cut where they were put together,  *)
(* and each value is read back, for all values the two sides have.         *)
(***************************************************************************)
EXTENDS RequestsProofs

-----------------------------------------------------------------------------
(* Numbers *)

LEMMA Division ==
  ASSUME NEW a \in Int, NEW b \in Nat \ {0}
  PROVE  /\ a = b * (a \div b) + (a % b)
         /\ a \div b \in Int /\ a % b \in Int /\ 0 <= a % b /\ a % b < b
  OBVIOUS

\* b goes q times into a, and r is left.
Goes(a, b, q, r) == a = b * q + r /\ r \in Int /\ 0 <= r /\ r < b

LEMMA Quotient ==
  ASSUME NEW b \in Nat \ {0}, NEW q \in Int, NEW r, NEW a \in Int, Goes(a, b, q, r)
  PROVE  a \div b = q /\ a % b = r
<1>0. a = b * q + r /\ r \in Int /\ 0 <= r /\ r < b
  BY DEF Goes
<1> DEFINE d == a \div b
           m == a % b
<1>1. a = b * d + m /\ d \in Int /\ m \in Int /\ 0 <= m /\ m < b
  BY Division
<1> HIDE DEF d, m
<1>2. b * d \in Int /\ b * q \in Int /\ b * (d - q) \in Int /\ b * (d - q) = b * d - b * q
  BY <1>1
<1>3. b * (d - q) = r - m
  BY <1>0, <1>1, <1>2
<1>4. r - m < b /\ r - m > -b
  BY <1>0, <1>1
<1>5. d - q >= 1 => b * (d - q) >= b
  BY <1>1
<1>6. d - q <= -1 => b * (d - q) <= -b
  BY <1>1
<1>7. d = q
  <2> DEFINE x == b * (d - q)
  <2>1. x \in Int /\ x < b /\ x > -b /\ (d - q >= 1 => x >= b) /\ (d - q <= -1 => x <= -b)
    BY <1>0, <1>2, <1>3, <1>4, <1>5, <1>6
  <2> HIDE DEF x
  <2> QED
    BY <1>1, <2>1
<1>8. m = r
  BY <1>0, <1>1, <1>2, <1>7
<1> QED
  BY <1>7, <1>8 DEF d, m

\* Nested division.
LEMMA Nested ==
  ASSUME NEW a \in Int, NEW m \in Nat \ {0}, NEW n \in Nat \ {0}
  PROVE  (a \div n) \div m = a \div (m * n) /\ (a % (m * n)) % n = a % n /\ m * n \in Nat \ {0}
<1> DEFINE q == a \div n
           r == a % n
           p == q \div m
           s == q % m
<1>1. a = n * q + r /\ q \in Int /\ r \in Int /\ 0 <= r /\ r < n
  BY Division
<1>2. q = m * p + s /\ p \in Int /\ s \in Int /\ 0 <= s /\ s < m
  <2>1. q \in Int
    BY <1>1
  <2> HIDE DEF q
  <2> QED
    BY <2>1, Division
<1> HIDE DEF p, s, q, r
<1>3. m * n \in Nat \ {0}
  OBVIOUS
<1>4. a = (m * n) * p + (n * s + r) /\ n * s + r \in Int
  <2>1. n * (m * p + s) = (m * n) * p + n * s
    BY <1>2
  <2> QED
    BY <1>1, <1>2, <2>1
<1>5. 0 <= n * s + r /\ n * s + r < m * n
  <2>1. n * s >= 0 /\ n * s \in Int
    BY <1>2
  <2>2. n * (m - 1 - s) >= 0
    BY <1>2
  <2>3. n * (m - 1 - s) = m * n - n - n * s
    BY <1>2
  <2> QED
    BY <1>1, <2>1, <2>2, <2>3
<1>6. a \div (m * n) = p /\ a % (m * n) = n * s + r
  <2> DEFINE mn == m * n
             t == n * s + r
  <2>1. mn \in Nat \ {0} /\ t \in Int /\ a = mn * p + t /\ 0 <= t /\ t < mn
    BY <1>3, <1>4, <1>5
  <2> HIDE DEF mn, t
  <2>2. a \div mn = p /\ a % mn = t
    BY <1>2, <2>1, Quotient DEF Goes
  <2> QED
    BY <2>2 DEF mn, t
<1>7. (n * s + r) % n = r
  <2>1. Goes(n * s + r, n, s, r)
    BY <1>1, <1>2 DEF Goes
  <2> QED
    BY <1>2, <1>4, <2>1, Quotient
<1> QED
  BY <1>3, <1>6, <1>7 DEF p, s, q, r

\* Sums wrap as if nothing had wrapped before.
LEMMA WrapSum ==
  ASSUME MaxInt64 \in Nat \ {0}, NEW x \in Int, NEW y \in Int,
         x + y \in -(MaxInt64 + 1)..MaxInt64
  PROVE  Wrap(Wrap(x) + y) = x + y
<1> DEFINE w == MaxInt64 + 1
           k == (x + w) \div (2 * w)
           r == (x + w) % (2 * w)
<1>1. w \in Nat /\ w > 0 /\ 2 * w \in Nat \ {0} /\ x + w \in Int /\ -w <= x + y /\ x + y < w
  OBVIOUS
<1>2. x + w = (2 * w) * k + r /\ k \in Int /\ r \in Int
  <2> DEFINE d == 2 * w
             z == x + w
  <2>1. d \in Nat \ {0} /\ z \in Int
    BY <1>1
  <2> HIDE DEF d, z
  <2>2. z = d * (z \div d) + (z % d) /\ z \div d \in Int /\ z % d \in Int
    BY <2>1, Division
  <2> QED
    BY <2>2 DEF d, z
<1>3. Wrap(x) = r - w
  BY DEF Wrap
<1> HIDE DEF w, k, r
<1>4. Wrap(x) + y + w = (2 * w) * (-k) + (x + y + w)
  <2>1. (2 * w) * (-k) = -((2 * w) * k) /\ (2 * w) * k \in Int
    BY <1>1, <1>2
  <2> QED
    BY <1>1, <1>2, <1>3, <2>1
<1>5. (Wrap(x) + y + w) % (2 * w) = x + y + w
  <2> DEFINE d == 2 * w
             z == Wrap(x) + y + w
             t == x + y + w
  <2>1. d \in Nat \ {0} /\ z \in Int /\ t \in Int /\ 0 <= t /\ t < d /\ -k \in Int /\ z = d * (-k) + t
    BY <1>1, <1>2, <1>3, <1>4
  <2> HIDE DEF d, z, t
  <2>2. z % d = t
    BY <2>1, Quotient DEF Goes
  <2> QED
    BY <2>2 DEF d, z, t
<1>6. Wrap(Wrap(x) + y) = ((Wrap(x) + y + w) % (2 * w)) - w
  <2>1. Wrap(x) + y + MaxInt64 + 1 = Wrap(x) + y + w
    BY <1>1, <1>2, <1>3 DEF w
  <2> QED
    BY <2>1 DEF Wrap, w
<1> QED
  BY <1>1, <1>5, <1>6
-----------------------------------------------------------------------------
(* Values found *)

\* The equation of Starts.
Cut(b, f, i) ==
    IF i = Len(b) + 1 THEN [ok |-> TRUE, at |-> <<>>]
    ELSE IF ~Whole(b, i) THEN [ok |-> FALSE, at |-> <<>>]
    ELSE [f[i + Size(b, i)] EXCEPT !.at = <<i>> \o @]

\* A value that is all there ends behind its start, and no later than the fields.
LEMMA WholeEnds ==
  ASSUME NEW b \in Seq(Int), NEW i \in 1..Len(b), Whole(b, i)
  PROVE  i + Size(b, i) \in (i + 1)..(Len(b) + 1)
<1>1. b[i] \in 0..9 /\ Size(b, i) \in Int => i + Size(b, i) <= Len(b) + 1
  BY DEF Whole, Tag
<1>2. Size(b, i) \in Int /\ Size(b, i) >= 1
  <2>1. CASE b[i] \in Counted
    <3>1. b[i + 1] \in Nat /\ Size(b, i) = 2 + b[i + 1]
      BY <2>1 DEF Whole, Size, Counted, Tag
    <3> QED
      BY <3>1
  <2>2. CASE b[i] \notin Counted
    BY <2>2 DEF Whole, Size, Tag
  <2> QED
    BY <2>1, <2>2
<1>3. b[i] \in 0..9
  BY DEF Whole, Tag
<1> DEFINE s == Size(b, i)
           n == Len(b)
<1>4. s \in Int /\ s >= 1 /\ i + s <= n + 1 /\ n \in Nat /\ i \in 1..n
  BY <1>1, <1>2, <1>3
<1> HIDE DEF s, n
<1>5. i + s \in (i + 1)..(n + 1)
  BY <1>4
<1> QED
  BY <1>5 DEF s, n

LEMMA StartsEquation ==
  ASSUME NEW b \in Seq(Int), NEW i \in 1..(Len(b) + 1)
  PROVE  Starts(b)[i] = Cut(b, Starts(b), i)
<1> DEFINE n == Len(b)
           R == [ok : BOOLEAN, at : Seq(Nat)]
           From(m, f) == f \in [1..(n + 1) -> R] /\ \A j \in (m + 1)..(n + 1) : f[j] = Cut(b, f, j)
           T == {m \in 0..n : \E f : From(m, f)}
           body(f) == [j \in 1..(n + 1) |-> Cut(b, f, j)]
<1>1. n \in Nat
  OBVIOUS
<1>2. \A j \in 1..n : Whole(b, j) => j + Size(b, j) \in (j + 1)..(n + 1)
  BY WholeEnds
<1>3. \A f, j : Cut(b, f, j) = IF j = n + 1 THEN [ok |-> TRUE, at |-> <<>>]
                               ELSE IF ~Whole(b, j) THEN [ok |-> FALSE, at |-> <<>>]
                               ELSE [f[j + Size(b, j)] EXCEPT !.at = <<j>> \o @]
  BY DEF Cut
<1> HIDE DEF n
<1>4. n \in T
  <2> DEFINE f == [j \in 1..(n + 1) |-> [ok |-> TRUE, at |-> <<>>]]
  <2>1. f \in [1..(n + 1) -> R]
    OBVIOUS
  <2>2. ASSUME NEW j \in (n + 1)..(n + 1) PROVE f[j] = Cut(b, f, j)
    <3>1. j = n + 1 /\ j \in 1..(n + 1)
      BY <1>1
    <3>2. f[j] = [ok |-> TRUE, at |-> <<>>]
      BY <3>1
    <3> HIDE DEF f
    <3>3. Cut(b, f, j) = [ok |-> TRUE, at |-> <<>>]
      BY <1>3, <3>1
    <3> QED
      BY <3>2, <3>3
  <2>3. From(n, f)
    BY <2>1, <2>2
  <2> HIDE DEF f, From
  <2> QED
    BY <1>1, <2>3
<1>5. ASSUME NEW m \in 1..n, m \in T PROVE m - 1 \in T
  <2>1. PICK f : From(m, f)
    BY <1>5
  <2> DEFINE g == [j \in 1..(n + 1) |-> IF j = m THEN Cut(b, f, j) ELSE f[j]]
  <2>2. m \in 1..(n + 1) /\ m # n + 1 /\ m - 1 \in 0..n
    BY <1>1
  <2>3. Cut(b, f, m) \in R
    <3>1. CASE Whole(b, m)
      <4>1. m + Size(b, m) \in 1..(n + 1)
        BY <1>1, <1>2, <3>1
      <4> DEFINE x == f[m + Size(b, m)]
      <4>2. x \in R /\ <<m>> \in Seq(Nat)
        BY <2>1, <4>1, <1>1
      <4>3. Cut(b, f, m) = [x EXCEPT !.at = <<m>> \o @]
        BY <1>3, <2>2, <3>1
      <4> HIDE DEF x
      <4>4. <<m>> \o x.at \in Seq(Nat)
        <5> DEFINE y == x.at
        <5>1. y \in Seq(Nat)
          BY <4>2
        <5> HIDE DEF y
        <5>2. <<m>> \o y \in Seq(Nat)
          BY <4>2, <5>1
        <5> QED
          BY <5>2 DEF y
      <4> QED
        BY <4>2, <4>3, <4>4
    <3>2. CASE ~Whole(b, m)
      <4>1. Cut(b, f, m) = [ok |-> FALSE, at |-> <<>>]
        BY <1>3, <2>2, <3>2
      <4> QED
        BY <4>1
    <3> QED
      BY <3>1, <3>2
  <2>4. g \in [1..(n + 1) -> R]
    BY <2>1, <2>3
  <2>5. ASSUME NEW j \in ((m - 1) + 1)..(n + 1) PROVE g[j] = Cut(b, g, j)
    <3>1. j \in m..(n + 1) /\ j \in 1..(n + 1)
      BY <1>1
    <3>2. g[j] = Cut(b, f, j)
      <4>1. j # m => j \in (m + 1)..(n + 1)
        BY <1>1, <3>1
      <4> HIDE DEF R
      <4> QED
        BY <2>1, <3>1, <4>1
    <3>3. Cut(b, g, j) = Cut(b, f, j)
      <4>1. CASE j # n + 1 /\ Whole(b, j)
        <5>1. j \in 1..n
          BY <1>1, <3>1, <4>1
        <5>2. j + Size(b, j) \in (j + 1)..(n + 1)
          BY <1>2, <4>1, <5>1
        <5> DEFINE l == j + Size(b, j)
        <5>3. l \in 1..(n + 1) /\ l # m
          <6>1. l \in (j + 1)..(n + 1)
            BY <5>2
          <6> HIDE DEF l
          <6> QED
            BY <1>1, <3>1, <6>1
        <5>4. g[l] = f[l]
          <6> HIDE DEF l, R
          <6> QED
            BY <5>3
        <5>5. Cut(b, g, j) = [g[l] EXCEPT !.at = <<j>> \o @] /\ Cut(b, f, j) = [f[l] EXCEPT !.at = <<j>> \o @]
          BY <1>3, <4>1
        <5> HIDE DEF g, l
        <5> QED
          BY <5>4, <5>5
      <4>2. CASE ~(j # n + 1 /\ Whole(b, j))
        <5> HIDE DEF g
        <5> QED
          BY <1>3, <4>2
      <4> QED
        BY <4>1, <4>2
    <3> QED
      BY <3>2, <3>3
  <2>6. From(m - 1, g)
    BY <2>4, <2>5
  <2> HIDE DEF From, g
  <2> QED
    BY <2>2, <2>6
<1> HIDE DEF T
<1>6. 0 \in T
  <2>1. \A j \in 1..n : j \in T => j - 1 \in T
    BY <1>5
  <2>2. \A j \in 0..n : j \in T
    BY <1>1, <1>4, <2>1, Downward
  <2> QED
    BY <1>1, <2>2
<1>7. PICK f : f = body(f)
  <2>1. PICK f : From(0, f)
    BY <1>6 DEF T
  <2>2. f = body(f)
    <3>1. \A j \in (0 + 1)..(n + 1) : f[j] = Cut(b, f, j)
      BY <2>1
    <3>2. f \in [1..(n + 1) -> R]
      BY <2>1
    <3> HIDE DEF R, From
    <3> QED
      BY <3>1, <3>2
  <2> QED
    BY <2>2
<1>8. Starts(b) = CHOOSE x : x = body(x)
  BY DEF Starts, Cut, n
<1> HIDE DEF body
<1>9. Starts(b) = body(Starts(b))
  BY <1>7, <1>8
<1> QED
  BY <1>9 DEF body, n

LEMMA HeadAndRest ==
  ASSUME NEW S, NEW k \in Nat, NEW q \in Seq(S), NEW t \in Seq(S), 1 \in 1..Len(q)
  PROVE  Len(q) = k + 1 /\ Len(t) = k /\ (\A j \in 1..k : t[j] = q[j + 1]) => <<q[1]>> \o t = q
<1> DEFINE h == <<q[1]>>
<1>1. h \in Seq(S) /\ Len(h) = 1 /\ h[1] = q[1]
  <2>1. q[1] \in S
    OBVIOUS
  <2> QED
    BY <2>1
<1> HIDE DEF h
<1>2. /\ h \o t \in Seq(S)
      /\ Len(h \o t) = Len(h) + Len(t)
      /\ \A x \in 1..Len(h) : (h \o t)[x] = h[x]
      /\ \A j \in 1..Len(t) : (h \o t)[Len(h) + j] = t[j]
  <2>1. h \in Seq(S)
    BY <1>1
  <2> QED
    BY <2>1
<1>3. SUFFICES ASSUME Len(q) = k + 1, Len(t) = k, \A j \in 1..k : t[j] = q[j + 1]
               PROVE  h \o t = q
  BY DEF h
<1>4. \A i \in 1..(k + 1) : (h \o t)[i] = q[i]
  <2> SUFFICES ASSUME NEW i \in 1..(k + 1) PROVE (h \o t)[i] = q[i]
    OBVIOUS
  <2>1. CASE i = 1
    BY <1>1, <1>2, <1>3, <2>1
  <2>2. CASE i # 1
    <3>1. i - 1 \in 1..k /\ (i - 1) + 1 = i /\ 1 + (i - 1) = i
      BY <2>2
    <3>2. i - 1 \in 1..Len(t) /\ Len(h) + (i - 1) = i
      BY <1>1, <1>3, <3>1
    <3>3. (h \o t)[i] = t[i - 1]
      BY <1>2, <3>2
    <3> QED
      BY <1>3, <3>1, <3>3
  <2> QED
    BY <2>1, <2>2
<1>5. h \o t = q
  <2>1. h \o t \in Seq(S) /\ Len(h \o t) = Len(q)
    BY <1>1, <1>2, <1>3
  <2>2. \A i \in 1..Len(h \o t) : (h \o t)[i] = q[i]
    BY <1>3, <1>4, <2>1
  <2> QED
    BY <2>1, <2>2, SeqEqual
<1> QED
  BY <1>5

\* Values that follow each other up to the end are all found.
LEMMA Found ==
  ASSUME NEW b \in Seq(Int), NEW n \in Nat, NEW p \in [1..(n + 1) -> Nat], p[n + 1] = Len(b) + 1,
         \A i \in 1..n : p[i] \in 1..Len(b) /\ Whole(b, p[i]) /\ p[i + 1] = p[i] + Size(b, p[i])
  PROVE  Starts(b)[p[1]] = [ok |-> TRUE, at |-> [j \in 1..n |-> p[j]]]
<1> DEFINE f == Starts(b)
           z == Len(b)
           From(i) == [j \in 1..(n - i) |-> p[i + j]]
           T == {i \in 0..n : f[p[i + 1]] = [ok |-> TRUE, at |-> From(i)]}
<1>1. z \in Nat /\ \A i \in 1..(z + 1) : f[i] = Cut(b, f, i)
  <2>1. z \in Nat
    OBVIOUS
  <2>2. ASSUME NEW i \in 1..(z + 1) PROVE f[i] = Cut(b, f, i)
    BY StartsEquation
  <2> QED
    BY <2>1, <2>2
<1>2. p[n + 1] = z + 1 /\ \A i \in 1..n : p[i] \in 1..z /\ Whole(b, p[i]) /\ p[i + 1] = p[i] + Size(b, p[i])
  OBVIOUS
<1> HIDE DEF f, z
<1>3. n \in T
  <2>1. From(n) = <<>>
    OBVIOUS
  <2>2. f[z + 1] = [ok |-> TRUE, at |-> <<>>]
    <3>1. z + 1 \in 1..(z + 1) /\ z + 1 = Len(b) + 1
      BY <1>1 DEF z
    <3> QED
      BY <1>1, <3>1 DEF Cut
  <2> HIDE DEF From
  <2>3. n \in 0..n
    OBVIOUS
  <2> QED
    BY <1>2, <2>1, <2>2, <2>3
<1>4. ASSUME NEW i \in 1..n, i \in T PROVE i - 1 \in T
  <2>1. /\ p[i] \in 1..(z + 1) /\ p[i] # Len(b) + 1 /\ Whole(b, p[i])
        /\ p[i] + Size(b, p[i]) = p[i + 1] /\ p[i] \in Nat
    BY <1>1, <1>2 DEF z
  <2>2. f[p[i + 1]] = [ok |-> TRUE, at |-> From(i)]
    BY <1>4
  <2>3. f[p[i]] = [ok |-> TRUE, at |-> <<p[i]>> \o From(i)]
    <3> HIDE DEF From
    <3>1. f[p[i]] = [f[p[i + 1]] EXCEPT !.at = <<p[i]>> \o @]
      BY <1>1, <2>1 DEF Cut
    <3> DEFINE x == f[p[i + 1]]
               a == From(i)
               h == <<p[i]>>
               y == f[p[i]]
    <3>2. x = [ok |-> TRUE, at |-> a] /\ y = [x EXCEPT !.at = h \o @]
      BY <2>2, <3>1
    <3> HIDE DEF x, a, h, y
    <3>3. y = [ok |-> TRUE, at |-> h \o a]
      BY <3>2
    <3> QED
      BY <3>3 DEF a, h, y
  <2>4. <<p[i]>> \o From(i) = From(i - 1)
    <3> DEFINE k == n - i
               q == From(i - 1)
    <3>1. k \in Nat /\ n - (i - 1) = k + 1
      OBVIOUS
    <3>2. q = [j \in 1..(k + 1) |-> p[(i - 1) + j]]
      BY <3>1
    <3>3. \A j \in 1..(k + 1) : q[j] = p[(i - 1) + j] /\ (i - 1) + j \in 1..(n + 1)
      BY <3>2
    <3>4. q[1] = p[i]
      <4>1. 1 \in 1..(k + 1) /\ (i - 1) + 1 = i
        BY <3>1
      <4> QED
        BY <3>3, <4>1
    <3>5. \A j \in 1..k : q[j + 1] = p[i + j]
      <4>1. \A j \in 1..k : j + 1 \in 1..(k + 1) /\ (i - 1) + (j + 1) = i + j
        BY <3>1
      <4> QED
        BY <3>3, <4>1
    <3>6. From(i) = [j \in 1..k |-> q[j + 1]]
      BY <3>5
    <3>7. q \in Seq(Nat) /\ Len(q) = k + 1
      BY <3>1, <3>2, <3>3
    <3> DEFINE t == From(i)
    <3> HIDE DEF k, q, At
    <3>8. t \in Seq(Nat) /\ Len(t) = k /\ \A j \in 1..k : t[j] = q[j + 1]
      <4>1. t = [j \in 1..k |-> q[j + 1]]
        BY <3>6
      <4>2. \A j \in 1..k : q[j + 1] \in Nat
        <5>1. \A j \in 1..k : j + 1 \in 1..(k + 1)
          BY <3>1
        <5>2. \A j \in 1..Len(q) : q[j] \in Nat
          BY <3>7
        <5> QED
          BY <3>7, <5>1, <5>2
      <4> HIDE DEF t
      <4> QED
        BY <3>1, <4>1, <4>2
    <3> HIDE DEF t
    <3>9. <<q[1]>> \o t = q
      BY <3>1, <3>7, <3>8, HeadAndRest
    <3> QED
      BY <3>4, <3>9 DEF q, t
  <2>5. i - 1 \in 0..n /\ (i - 1) + 1 = i
    OBVIOUS
  <2> HIDE DEF From
  <2> QED
    BY <2>3, <2>4, <2>5
<1> HIDE DEF T
<1>5. 0 \in T
  <2>1. \A j \in 1..n : j \in T => j - 1 \in T
    BY <1>4
  <2>2. \A j \in 0..n : j \in T
    BY <1>3, <2>1, Downward
  <2> QED
    BY <2>2
<1>6. f[p[0 + 1]] = [ok |-> TRUE, at |-> From(0)]
  BY <1>5 DEF T
<1>7. From(0) = [j \in 1..n |-> p[j]]
  OBVIOUS
<1>8. 0 + 1 = 1
  OBVIOUS
<1> HIDE DEF From
<1> QED
  BY <1>6, <1>7, <1>8 DEF f
-----------------------------------------------------------------------------
(* One value *)

\* Data a value of the tag has: a time and its zone, as much as a length says, a number.
Shaped(tag, d) ==
    /\ tag \in 0..9 /\ d \in Seq(Int)
    /\ (tag = 0 => Len(d) = 0)
    /\ (tag = 7 => Len(d) = 2)
    /\ (tag \in {1, 2, 3} => Len(d) = 1)

TagFacts == /\ Tag.Null = 0 /\ Tag.Datetime = 7 /\ Tag.Time = 9
            /\ Counted = {4, 5, 6, 8, 9}

LEMMA TagsAre == TagFacts
  BY DEF TagFacts, Tag, Counted

LEMMA Encoded ==
  ASSUME NEW tag, NEW d, Shaped(tag, d), NEW e, e = Encode(tag, d)
  PROVE  /\ e \in Seq(Int) /\ e[1] = tag /\ Len(e) \in Nat /\ Len(e) >= 1
         /\ (tag = 0 => Len(e) = 1)
         /\ (tag = 7 => Len(e) = 4 /\ e[2] = d[1] \div NsPerMs /\ e[3] = d[2] /\ e[4] = d[1] % NsPerSec)
         /\ (tag \in {1, 2, 3} => Len(e) = 2 /\ e[2] = d[1])
         /\ (tag \in {4, 5, 6, 8, 9} => Len(e) = 2 + Len(d) /\ e[2] = Len(d))
         /\ (tag \in {4, 5, 6, 8, 9} => \A j \in 1..Len(d) : e[2 + j] = d[j])
<1>1. tag \in Int /\ d \in Seq(Int)
  BY DEF Shaped
<1>2. ASSUME NEW h, NEW t, h \in Seq(Int), t \in Seq(Int)
      PROVE  /\ h \o t \in Seq(Int)
             /\ Len(h \o t) = Len(h) + Len(t)
             /\ \A x \in 1..Len(h) : (h \o t)[x] = h[x]
             /\ \A j \in 1..Len(t) : (h \o t)[Len(h) + j] = t[j]
  BY <1>2
<1>3. CASE tag = 7
  <2> DEFINE h == <<tag>>
             t == TimeFields(d)
  <2>1. Len(d) = 2
    BY <1>3 DEF Shaped
  <2>2. d[1] \in Int /\ d[2] \in Int
    BY <1>1, <2>1
  <2>3. NsPerSec \in Nat \ {0} /\ NsPerMs \in Nat \ {0}
    BY CodecAssumption DEF NsPerSec
  <2>4. d[1] \div NsPerMs \in Int /\ d[1] % NsPerSec \in Int
    BY <2>2, <2>3, Division
  <2>5. t = <<d[1] \div NsPerMs, d[2], d[1] % NsPerSec>>
    BY DEF TimeFields
  <2>6. e = h \o t
    BY <1>3, TagsAre DEF TagFacts, Encode
  <2>7. h \in Seq(Int) /\ t \in Seq(Int)
    BY <1>1, <2>2, <2>4, <2>5
  <2>8. Len(h) = 1 /\ h[1] = tag /\ Len(t) = 3
        /\ t[1] = d[1] \div NsPerMs /\ t[2] = d[2] /\ t[3] = d[1] % NsPerSec
    BY <2>5
  <2> HIDE DEF h, t
  <2>9. /\ e \in Seq(Int)
        /\ Len(e) = Len(h) + Len(t)
        /\ \A x \in 1..Len(h) : e[x] = h[x]
        /\ \A j \in 1..Len(t) : e[Len(h) + j] = t[j]
    BY <1>2, <2>6, <2>7
  <2> QED
    BY <1>3, <2>8, <2>9
<1>4. CASE tag \in {4, 5, 6, 8, 9}
  <2> DEFINE h == <<tag, Len(d)>>
  <2>1. e = h \o d
    BY <1>4, TagsAre DEF TagFacts, Encode
  <2>2. h \in Seq(Int)
    BY <1>1
  <2>3. Len(h) = 2 /\ h[1] = tag /\ h[2] = Len(d)
    OBVIOUS
  <2> HIDE DEF h
  <2>4. /\ e \in Seq(Int)
        /\ Len(e) = Len(h) + Len(d)
        /\ \A x \in 1..Len(h) : e[x] = h[x]
        /\ \A j \in 1..Len(d) : e[Len(h) + j] = d[j]
    BY <1>1, <1>2, <2>1, <2>2
  <2>5. Len(d) \in Nat
    BY <1>1
  <2> QED
    BY <1>4, <2>3, <2>4, <2>5
<1>5. CASE tag \in {1, 2, 3}
  <2> DEFINE h == <<tag>>
  <2>1. Len(d) = 1
    BY <1>5 DEF Shaped
  <2>2. e = h \o d
    BY <1>5, TagsAre DEF TagFacts, Encode
  <2>3. h \in Seq(Int)
    BY <1>1
  <2>4. Len(h) = 1 /\ h[1] = tag
    OBVIOUS
  <2> HIDE DEF h
  <2>5. /\ e \in Seq(Int)
        /\ Len(e) = Len(h) + Len(d)
        /\ \A x \in 1..Len(h) : e[x] = h[x]
        /\ \A j \in 1..Len(d) : e[Len(h) + j] = d[j]
    BY <1>1, <1>2, <2>2, <2>3
  <2> QED
    BY <1>5, <2>1, <2>4, <2>5
<1>6. CASE tag = 0
  <2> DEFINE h == <<tag>>
  <2>1. Len(d) = 0
    BY <1>6 DEF Shaped
  <2>2. e = h \o d
    BY <1>6, TagsAre DEF TagFacts, Encode
  <2>3. h \in Seq(Int)
    BY <1>1
  <2>4. Len(h) = 1 /\ h[1] = tag
    OBVIOUS
  <2> HIDE DEF h
  <2>5. /\ e \in Seq(Int)
        /\ Len(e) = Len(h) + Len(d)
        /\ \A x \in 1..Len(h) : e[x] = h[x]
    BY <1>1, <1>2, <2>2, <2>3
  <2> QED
    BY <1>6, <2>1, <2>4, <2>5
<1> QED
  BY <1>3, <1>4, <1>5, <1>6 DEF Shaped

\* What is read of the value at a field: its tag and its data.
Reads(b, at, tag, d) ==
    /\ b[at] = tag
    /\ (tag # 7 => Body(b, at) = d)
    /\ (tag = 7 => /\ b[at + 1] = d[1] \div NsPerMs
                   /\ b[at + 2] = d[2]
                   /\ b[at + 3] = d[1] % NsPerSec)

Intact(b, at, tag, d) ==
    /\ at \in 1..Len(b) /\ Whole(b, at)
    /\ Size(b, at) = Len(Encode(tag, d))
    /\ Reads(b, at, tag, d)

\* A value is read where it was written, whatever stands around it.
LEMMA ReadBack ==
  ASSUME NEW tag, NEW d, Shaped(tag, d), NEW b \in Seq(Int), NEW q \in Nat,
         Stands(Encode(tag, d), b, q)
  PROVE  Intact(b, q + 1, tag, d)
<1> DEFINE e == Encode(tag, d)
           l == Len(e)
           m == Len(d)
           z == Len(b)
<1>1. /\ e \in Seq(Int) /\ e[1] = tag /\ l \in Nat /\ l >= 1
      /\ (tag = 0 => l = 1)
      /\ (tag = 7 => l = 4 /\ e[2] = d[1] \div NsPerMs /\ e[3] = d[2] /\ e[4] = d[1] % NsPerSec)
      /\ (tag \in {1, 2, 3} => l = 2 /\ e[2] = d[1])
      /\ (tag \in {4, 5, 6, 8, 9} => l = 2 + m /\ e[2] = m)
      /\ (tag \in {4, 5, 6, 8, 9} => \A j \in 1..m : e[2 + j] = d[j])
  BY Encoded
<1>2. /\ z \in Nat /\ m \in Nat /\ d \in Seq(Int) /\ q + l <= z
      /\ \A j \in 1..l : b[q + j] = e[j]
  BY DEF Shaped, Stands
<1>3. tag \in 0..9 /\ (tag = 0 => m = 0) /\ (tag = 7 => m = 2) /\ (tag \in {1, 2, 3} => m = 1)
  BY DEF Shaped
<1> HIDE DEF e, l, m, z
<1>4. b[q + 1] = tag /\ q + 1 \in 1..z
  <2>1. 1 \in 1..l
    BY <1>1
  <2> QED
    BY <1>1, <1>2, <2>1
<1>5. tag \in {4, 5, 6, 8, 9} => b[(q + 1) + 1] = m
  <2>1. tag \in {4, 5, 6, 8, 9} => 2 \in 1..l
    BY <1>1, <1>2
  <2>2. (q + 1) + 1 = q + 2
    OBVIOUS
  <2>3. 2 \in 1..l => b[q + 2] = e[2]
    BY <1>2
  <2> QED
    BY <1>1, <2>1, <2>2, <2>3
<1>6. Size(b, q + 1) = l
  <2>1. CASE tag = 0
    BY <1>1, <1>4, <2>1, TagsAre DEF TagFacts, Size
  <2>2. CASE tag = 7
    BY <1>1, <1>4, <2>2, TagsAre DEF TagFacts, Size
  <2>3. CASE tag \in {1, 2, 3}
    <3>1. tag \in {1, 2, 3} => tag # 0 /\ tag # 7 /\ tag \notin {4, 5, 6, 8, 9}
      OBVIOUS
    <3> QED
      BY <1>1, <1>4, <2>3, <3>1, TagsAre DEF TagFacts, Size
  <2>4. CASE tag \in {4, 5, 6, 8, 9}
    BY <1>1, <1>4, <1>5, <2>4, TagsAre DEF TagFacts, Size
  <2> QED
    BY <1>3, <2>1, <2>2, <2>3, <2>4
<1>7. Whole(b, q + 1)
  <2>1. (q + 1) + l - 1 <= z
    BY <1>1, <1>2
  <2>2. tag \in {4, 5, 6, 8, 9} => q + 1 < z /\ b[(q + 1) + 1] \in Nat
    BY <1>1, <1>2, <1>5
  <2> QED
    BY <1>3, <1>4, <1>6, <2>1, <2>2, TagsAre DEF TagFacts, Whole, z
<1>8. ASSUME tag # 7 PROVE Body(b, q + 1) = d
  <2>1. CASE tag \in {4, 5, 6, 8, 9}
    <3>1. Body(b, q + 1) = SubSeq(b, (q + 1) + 2, (q + 1) + 1 + m)
      BY <1>4, <1>5, <2>1, TagsAre DEF TagFacts, Body
    <3>2. \A j \in 1..m : b[q + 2 + j] = d[j]
      <4> SUFFICES ASSUME NEW j \in 1..m PROVE b[q + 2 + j] = d[j]
        OBVIOUS
      <4>1. 2 + j \in 1..l /\ q + (2 + j) = q + 2 + j
        BY <1>1, <1>2, <2>1
      <4>2. b[q + (2 + j)] = e[2 + j]
        BY <1>2, <4>1
      <4> QED
        BY <1>1, <2>1, <4>1, <4>2
    <3>3. SubSeq(b, (q + 2) + 1, (q + 2) + m) = d
      <4>1. (q + 2) + m <= z /\ q + 2 \in Nat
        BY <1>1, <1>2, <2>1
      <4>2. Stands(d, b, q + 2)
        BY <3>2, <4>1 DEF Stands, m, z
      <4> QED
        BY <1>2, <4>1, <4>2, SubSeqIs DEF m
    <3>4. (q + 1) + 2 = (q + 2) + 1 /\ (q + 1) + 1 + m = (q + 2) + m
      BY <1>2
    <3> QED
      BY <3>1, <3>3, <3>4
  <2>2. CASE tag \in {0, 1, 2, 3}
    <3>1. Body(b, q + 1) = SubSeq(b, (q + 1) + 1, (q + 1) + l - 1)
      <4>1. tag \notin {4, 5, 6, 8, 9}
        BY <2>2
      <4> QED
        BY <1>4, <1>6, <4>1, TagsAre DEF TagFacts, Body
    <3>2. l = m + 1
      BY <1>1, <1>3, <2>2
    <3>3. \A j \in 1..m : b[q + 1 + j] = d[j]
      <4> SUFFICES ASSUME NEW j \in 1..m PROVE b[q + 1 + j] = d[j]
        OBVIOUS
      <4>1. j = 1 /\ tag \in {1, 2, 3}
        BY <1>3, <2>2
      <4>2. 2 \in 1..l /\ q + 2 = q + 1 + j
        BY <1>1, <4>1
      <4> QED
        BY <1>1, <1>2, <4>1, <4>2
    <3>4. SubSeq(b, (q + 1) + 1, (q + 1) + m) = d
      <4>1. (q + 1) + m <= z /\ q + 1 \in Nat
        BY <1>1, <1>2, <3>2
      <4>2. Stands(d, b, q + 1)
        BY <3>3, <4>1 DEF Stands, m, z
      <4> QED
        BY <1>2, <4>1, <4>2, SubSeqIs DEF m
    <3>5. (q + 1) + l - 1 = (q + 1) + m
      BY <1>2, <3>2
    <3> QED
      BY <3>1, <3>4, <3>5
  <2> QED
    BY <1>3, <1>8, <2>1, <2>2
<1>9. ASSUME tag = 7
      PROVE  /\ b[(q + 1) + 1] = d[1] \div NsPerMs /\ b[(q + 1) + 2] = d[2]
             /\ b[(q + 1) + 3] = d[1] % NsPerSec
  <2>1. 2 \in 1..l /\ 3 \in 1..l /\ 4 \in 1..l
    BY <1>1, <1>9
  <2>2. (q + 1) + 1 = q + 2 /\ (q + 1) + 2 = q + 3 /\ (q + 1) + 3 = q + 4
    OBVIOUS
  <2>3. b[q + 2] = e[2] /\ b[q + 3] = e[3] /\ b[q + 4] = e[4]
    BY <1>2, <2>1
  <2> QED
    BY <1>1, <1>9, <2>2, <2>3
<1> QED
  BY <1>4, <1>6, <1>7, <1>8, <1>9 DEF e, l, z, Intact, Reads
-----------------------------------------------------------------------------
(* Values that follow each other *)

\* e holds the encodings of values.
Encodings(e, tags, ds) ==
    \A i \in 1..Len(e) : Shaped(tags[i], ds[i]) /\ e[i] = Encode(tags[i], ds[i])

\* From a field on, b holds n values and nothing else.
Holds(b, at, n, tags, ds) ==
    \E p : /\ Starts(b)[at] = [ok |-> TRUE, at |-> p]
          /\ DOMAIN p = 1..n
          /\ \A i \in 1..n : Reads(b, p[i], tags[i], ds[i])

\* The encodings of values, put together behind some fields, are found again one by
\* one, and nothing else is.
LEMMA AllFound ==
  ASSUME NEW e \in Seq(Seq(Int)), NEW tags, NEW ds, Encodings(e, tags, ds), NEW pre \in Seq(Int),
         NEW b, b = pre \o FlattenSeq(e)
  PROVE  /\ b \in Seq(Int) /\ Len(b) >= Len(pre)
         /\ Holds(b, Len(pre) + 1, Len(e), tags, ds)
<1> DEFINE n == Len(e)
           o == Len(pre)
<1>1. PICK P : FirstParts(P, e, Int) /\ FlattenSeq(e) = P[n]
  BY Flattening
<1> DEFINE F == P[n]
           l(i) == Len(P[i])
           p == [i \in 1..(n + 1) |-> o + l(i - 1) + 1]
<1>2. n \in Nat /\ o \in Nat
  OBVIOUS
<1>3. ASSUME NEW i \in 0..n PROVE P[i] \in Seq(Int) /\ l(i) \in Nat
  <2>1. P[i] \in Seq(Int)
    BY <1>1 DEF FirstParts
  <2> QED
    BY <2>1
<1>4. F \in Seq(Int)
  BY <1>2, <1>3
<1>5. /\ b \in Seq(Int) /\ Len(b) = o + l(n)
      /\ \A j \in 1..l(n) : b[o + j] = F[j]
  <2> HIDE DEF F
  <2>1. b = pre \o F
    BY <1>1 DEF F
  <2>2. b \in Seq(Int) /\ Len(b) = Len(pre) + Len(F) /\ \A j \in 1..Len(F) : b[Len(pre) + j] = F[j]
    BY <1>4, <2>1
  <2> QED
    BY <2>2 DEF F
<1>6. ASSUME NEW i \in 1..n
      PROVE  /\ l(i) = l(i - 1) + Len(e[i]) /\ l(i - 1) + Len(e[i]) <= l(n)
             /\ \A j \in 1..Len(e[i]) : F[l(i - 1) + j] = e[i][j]
  <2>1. FirstParts(P, e, Int) /\ i \in 1..Len(e)
    BY <1>1
  <2>2. PartStands(P, e, i)
    BY <2>1, PartInWhole
  <2>3. Stands(e[i], F, l(i - 1)) /\ l(i) = l(i - 1) + Len(e[i])
    BY <2>2 DEF PartStands
  <2> QED
    BY <2>3 DEF Stands
<1> HIDE DEF F, l, n, o
<1>7. ASSUME NEW i \in 1..n
      PROVE  /\ p[i] \in 1..Len(b) /\ Whole(b, p[i]) /\ p[i + 1] = p[i] + Size(b, p[i])
             /\ Reads(b, p[i], tags[i], ds[i])
  <2> DEFINE q == o + l(i - 1)
             s == Len(e[i])
  <2>1. i - 1 \in 0..n /\ i \in 0..n /\ i \in 1..(n + 1) /\ i + 1 \in 1..(n + 1) /\ (i + 1) - 1 = i
    BY <1>2
  <2>2. l(i - 1) \in Nat /\ l(i) \in Nat /\ l(n) \in Nat /\ s \in Nat
    <3>1. e[i] \in Seq(Int)
      BY DEF n
    <3> QED
      BY <1>2, <1>3, <2>1, <3>1
  <2>3. p[i] = q + 1 /\ p[i + 1] = o + l(i) + 1 /\ q \in Nat
    BY <1>2, <2>1, <2>2
  <2> HIDE DEF s, p
  <2>4. l(i) = l(i - 1) + s /\ l(i) <= l(n)
    BY <1>6 DEF s
  <2>5. q + s <= Len(b)
    BY <1>2, <1>5, <2>2, <2>4
  <2>6. \A j \in 1..s : b[q + j] = e[i][j]
    <3> SUFFICES ASSUME NEW j \in 1..s PROVE b[q + j] = e[i][j]
      OBVIOUS
    <3>1. F[l(i - 1) + j] = e[i][j]
      BY <1>6 DEF s
    <3>2. l(i - 1) + j \in 1..l(n) /\ o + (l(i - 1) + j) = q + j
      BY <1>2, <2>2, <2>4
    <3>3. b[o + (l(i - 1) + j)] = F[l(i - 1) + j]
      BY <1>5, <3>2
    <3> QED
      BY <3>1, <3>2, <3>3
  <2>7. Shaped(tags[i], ds[i]) /\ e[i] = Encode(tags[i], ds[i])
    BY DEF n, Encodings
  <2> DEFINE t == tags[i]
             d == ds[i]
  <2> HIDE DEF q, t, d
  <2>8. Shaped(t, d) /\ e[i] = Encode(t, d) /\ s = Len(Encode(t, d))
    BY <2>7 DEF s, t, d
  <2>9. Stands(Encode(t, d), b, q)
    BY <2>5, <2>6, <2>8 DEF Stands
  <2>10. Intact(b, q + 1, t, d)
    BY <1>5, <2>3, <2>8, <2>9, ReadBack
  <2>11. q + 1 + s = o + l(i) + 1
    BY <1>2, <2>2, <2>4 DEF q
  <2> QED
    BY <2>3, <2>8, <2>10, <2>11 DEF t, d, Intact
<1>8. p \in [1..(n + 1) -> Nat] /\ p[n + 1] = Len(b) + 1
  <2>1. \A i \in 1..(n + 1) : i - 1 \in 0..n
    BY <1>2
  <2>2. n + 1 \in 1..(n + 1) /\ (n + 1) - 1 = n
    BY <1>2
  <2> QED
    BY <1>2, <1>3, <1>5, <2>1, <2>2
<1>9. p[1] = o + 1
  <2>1. 1 \in 1..(n + 1) /\ 1 - 1 = 0
    BY <1>2
  <2>2. l(0) = 0
    BY <1>1 DEF FirstParts, l
  <2> QED
    BY <1>2, <2>1, <2>2
<1> DEFINE w == [j \in 1..n |-> p[j]]
<1>10. DOMAIN w = 1..n /\ \A i \in 1..n : w[i] = p[i]
  OBVIOUS
<1>11. Starts(b)[p[1]] = [ok |-> TRUE, at |-> w]
  <2> HIDE DEF p
  <2> QED
    BY <1>2, <1>5, <1>7, <1>8, Found
<1> HIDE DEF p, w
<1>12. Len(b) >= o
  <2>1. l(n) \in Nat
    BY <1>2, <1>3
  <2> QED
    BY <1>2, <1>5, <2>1
<1>13. /\ Starts(b)[o + 1] = [ok |-> TRUE, at |-> w]
       /\ DOMAIN w = 1..n
       /\ \A i \in 1..n : Reads(b, w[i], tags[i], ds[i])
  BY <1>7, <1>9, <1>10, <1>11
<1> QED
  BY <1>5, <1>12, <1>13 DEF n, o, Holds
-----------------------------------------------------------------------------
(* Times *)

\* What setNanos leaves of a time.
LEMMA TimeToTimestamp ==
  ASSUME NEW t \in Int
  PROVE  ((t \div NsPerMs) \div MsPerSec) * NsPerSec + SubMilli(t % NsPerSec) = WithoutMillis(t)
<1> DEFINE n == NsPerMs
           m == MsPerSec
           s == m * n
           q == t \div s
           r == t % s
           k == r \div n
           f == r % n
<1>1. n \in Nat \ {0} /\ m \in Nat \ {0} /\ NsPerSec = s
  BY CodecAssumption DEF NsPerSec
<1>2. s \in Nat \ {0} /\ (t \div n) \div m = q
  <2> HIDE DEF n, m
  <2>1. n \in Nat \ {0} /\ m \in Nat \ {0}
    BY <1>1
  <2>2. (t \div n) \div m = t \div (m * n) /\ (t % (m * n)) % n = t % n /\ m * n \in Nat \ {0}
    BY <2>1, Nested
  <2> QED
    BY <2>2
<1>3. SubMilli(t % NsPerSec) = f /\ WithoutMillis(t) = t - k * n
  BY <1>1 DEF SubMilli, WithoutMillis
<1>4. ((t \div NsPerMs) \div MsPerSec) * NsPerSec = q * s
  BY <1>1, <1>2
<1> HIDE DEF s, n, m
<1>5. t = s * q + r /\ q \in Int /\ r \in Int
  BY <1>2, Division
<1> HIDE DEF q, r
<1>6. r = n * k + f /\ k \in Int /\ f \in Int
  BY <1>1, <1>5, Division
<1> HIDE DEF k, f
<1>7. q * s + f = t - k * n
  <2>1. s * q = q * s /\ n * k = k * n /\ q * s \in Int /\ k * n \in Int
    BY <1>1, <1>2, <1>5, <1>6
  <2> QED
    BY <2>1, <1>5, <1>6
<1> QED
  BY <1>3, <1>4, <1>7

LEMMA TimestampToTime ==
  ASSUME NEW t \in -(MaxInt64 + 1)..MaxInt64
  PROVE  Wrap(Wrap((t \div NsPerMs) * NsPerMs) + SubMilli(t % NsPerSec)) = t
<1> DEFINE n == NsPerMs
           x == (t \div n) * n
           y == SubMilli(t % NsPerSec)
<1>1. n \in Nat \ {0} /\ MsPerSec \in Nat \ {0} /\ NsPerSec = MsPerSec * n /\ MaxInt64 \in Nat \ {0} /\ t \in Int
  BY CodecAssumption DEF NsPerSec
<1>2. y = t % n
  <2>1. y = (t % (MsPerSec * n)) % n
    BY <1>1 DEF SubMilli
  <2> HIDE DEF n
  <2>2. (t % (MsPerSec * n)) % n = t % n
    BY <1>1, Nested
  <2> HIDE DEF y
  <2> QED
    BY <2>1, <2>2
<1>3. x + y = t /\ x \in Int /\ y \in Int
  <2> HIDE DEF n, y
  <2> DEFINE d == t \div n
             r == t % n
  <2>1. t = n * d + r /\ d \in Int /\ r \in Int
    BY <1>1, Division
  <2> HIDE DEF d, r
  <2>2. n * d = d * n /\ d * n \in Int
    BY <1>1, <2>1
  <2>3. y = r /\ x = d * n
    BY <1>2 DEF d, r
  <2> QED
    BY <2>1, <2>2, <2>3
<1> HIDE DEF x, y, n
<1>4. Wrap(Wrap(x) + y) = x + y
  BY <1>1, <1>3, WrapSum
<1> QED
  BY <1>3, <1>4 DEF x, y, n
-----------------------------------------------------------------------------
(* Arguments *)

LEMMA GoShape ==
  ASSUME NEW v \in Values(GoTag)
  PROVE  /\ Shaped(GoTag[v.kind], v.data)
         /\ v.kind \in {"nil", "bool", "int64", "float64", "string", "bytes", "time"}
<1>1. v.kind \in {"nil", "bool", "int64", "float64", "string", "bytes", "time"} /\ v.data \in Seq(Int)
  BY DEF Values, GoTag
<1>2. CASE GoTag[v.kind] = 0
  BY <1>1, <1>2, TagsAre DEF Values, TagFacts, Shaped
<1>3. CASE GoTag[v.kind] = 7
  BY <1>1, <1>3, TagsAre DEF Values, TagFacts, Shaped
<1>4. CASE GoTag[v.kind] \in {5, 6}
  BY <1>1, <1>4 DEF Shaped
<1>5. CASE GoTag[v.kind] \in {1, 2, 3}
  BY <1>1, <1>5, TagsAre DEF Values, TagFacts, Shaped
<1>6. GoTag[v.kind] \in {0, 1, 2, 3, 5, 6, 7}
  BY <1>1 DEF GoTag, Tag
<1> QED
  BY <1>1, <1>2, <1>3, <1>4, <1>5, <1>6

\* What bind hands over for the parameter a.
Carried(a, b) ==
    IF a.kind = "time"
    THEN b = Value("DateTimeValue", <<WithoutMillis(a.data[1]), a.data[2]>>)
    ELSE b.data = a.data /\ Become[b.kind] = a.kind

LEMMA ArgRead ==
  ASSUME NEW v \in Values(GoTag), NEW b, NEW at, Reads(b, at, GoTag[v.kind], v.data)
  PROVE  Carried(v, decodeArg(b, at))
<1> DEFINE tag == GoTag[v.kind]
           r == decodeArg(b, at)
<1>1. /\ v.kind \in {"nil", "bool", "int64", "float64", "string", "bytes", "time"}
      /\ Shaped(tag, v.data)
  BY GoShape
<1>2. b[at] = tag
  BY DEF Reads
<1>3. CASE v.kind = "time"
  <2>1. tag = 7 /\ Tag.Datetime = 7
    BY <1>3 DEF GoTag, Tag
  <2>2. /\ b[at + 1] = v.data[1] \div NsPerMs /\ b[at + 2] = v.data[2]
        /\ b[at + 3] = v.data[1] % NsPerSec
    BY <2>1 DEF Reads
  <2>3. r = Value("DateTimeValue", ToTimestamp(b, at))
    BY <1>2, <2>1 DEF decodeArg, JavaKind, Tag
  <2> DEFINE t == v.data[1]
             x == ((t \div NsPerMs) \div MsPerSec) * NsPerSec + SubMilli(t % NsPerSec)
  <2>4. ToTimestamp(b, at) = <<x, v.data[2]>>
    BY <2>2 DEF ToTimestamp
  <2>5. t \in Int
    BY <1>1, <2>1 DEF Shaped
  <2> HIDE DEF t
  <2>6. x = WithoutMillis(t)
    BY <2>5, TimeToTimestamp
  <2> HIDE DEF x, r
  <2> QED
    BY <1>3, <2>3, <2>4, <2>6 DEF Carried, r, t
<1>4. CASE v.kind # "time"
  <2>1. tag # 7 /\ Tag.Datetime = 7
    BY <1>1, <1>4 DEF GoTag, Tag
  <2>2. Body(b, at) = v.data
    BY <2>1 DEF Reads
  <2>3. r.data = v.data /\ r.kind = JavaKind(tag)
    BY <1>2, <2>1, <2>2 DEF decodeArg, Value
  <2>4. Become[JavaKind(tag)] = v.kind
    BY <1>1, <1>4 DEF GoTag, Tag, JavaKind, Become
  <2> HIDE DEF r, tag
  <2> QED
    BY <1>4, <2>3, <2>4 DEF Carried, r
<1> QED
  BY <1>3, <1>4

\* The arguments come out as they were put in, for all arguments.
LEMMA ArgsBound ==
  ASSUME NEW args \in Seq(Values(GoTag))
  PROVE  /\ Len(Bound(args)) = Len(args) /\ DOMAIN Bound(args) = 1..Len(args)
         /\ \A i \in 1..Len(args) : Carried(args[i], Bound(args)[i])
<1> DEFINE n == Len(args)
           e == [i \in DOMAIN args |-> encodeValue(args[i])]
           tags == [i \in 1..n |-> GoTag[args[i].kind]]
           ds == [i \in 1..n |-> args[i].data]
           b == FlattenSeq(e)
<1>1. n \in Nat /\ \A i \in 1..n : args[i] \in Values(GoTag)
  OBVIOUS
<1>2. DOMAIN args = 1..n
  OBVIOUS
<1>3. ASSUME NEW i \in 1..n
      PROVE  Shaped(tags[i], ds[i]) /\ e[i] = Encode(tags[i], ds[i]) /\ e[i] \in Seq(Int)
  <2> DEFINE v == args[i]
             t == GoTag[v.kind]
             d == v.data
  <2>1. tags[i] = t /\ ds[i] = d /\ v \in Values(GoTag)
    BY <1>1
  <2>2. e[i] = Encode(t, d)
    BY <1>2 DEF encodeValue
  <2>3. Shaped(t, d)
    BY <2>1, GoShape
  <2> HIDE DEF e, t, d, tags, ds
  <2>4. e[i] \in Seq(Int)
    BY <2>2, <2>3, Encoded
  <2> QED
    BY <2>1, <2>2, <2>3, <2>4
<1>4. e \in Seq(Seq(Int)) /\ Len(e) = n
  <2>1. e = [i \in 1..n |-> e[i]]
    BY <1>2
  <2> HIDE DEF e, n
  <2> QED
    BY <1>1, <1>3, <2>1
<1> HIDE DEF n, e, tags, ds, b
<1>5. <<>> \in Seq(Int) /\ Len(<<>>) = 0
  OBVIOUS
<1>6. b = <<>> \o FlattenSeq(e)
  <2>1. PICK P : FirstParts(P, e, Int) /\ FlattenSeq(e) = P[Len(e)]
    BY <1>4, Flattening
  <2>2. b \in Seq(Int)
    BY <1>1, <1>4, <2>1 DEF FirstParts, b
  <2> QED
    BY <2>2, ConcatEmptySeq DEF b
<1>7. PICK p : /\ Starts(b)[1] = [ok |-> TRUE, at |-> p]
               /\ DOMAIN p = 1..n
               /\ \A i \in 1..n : Reads(b, p[i], tags[i], ds[i])
  <2>1. Encodings(e, tags, ds)
    BY <1>3, <1>4 DEF Encodings
  <2>2. Holds(b, Len(<<>>) + 1, Len(e), tags, ds)
    BY <1>4, <1>5, <1>6, <2>1, AllFound
  <2>3. Len(<<>>) + 1 = 1
    BY <1>5
  <2>4. Holds(b, 1, n, tags, ds)
    BY <1>4, <2>2, <2>3
  <2> QED
    BY <2>4 DEF Holds
<1>8. Bound(args) = [i \in 1..n |-> decodeArg(b, p[i])]
  <2>1. Bound(args) = decodeArgs(b).row
    BY DEF Bound, b, e
  <2>2. Starts(b)[1].at = p
    BY <1>7
  <2> QED
    BY <1>7, <2>1, <2>2 DEF decodeArgs
<1>9. ASSUME NEW i \in 1..n PROVE Carried(args[i], Bound(args)[i])
  <2>1. Reads(b, p[i], GoTag[args[i].kind], args[i].data)
    BY <1>7 DEF tags, ds
  <2>2. Bound(args)[i] = decodeArg(b, p[i])
    BY <1>8
  <2>3. args[i] \in Values(GoTag)
    BY <1>1
  <2> QED
    BY <2>1, <2>2, <2>3, ArgRead
<1> QED
  BY <1>1, <1>8, <1>9 DEF n
-----------------------------------------------------------------------------
(* Rows *)

JavaKinds == {"null", "Boolean", "Integer", "Long", "Float", "Double", "BigDecimal", "Timestamp",
              "Date", "Time", "Clob", "Blob", "bytes", "Object"}

LEMMA JavaShape ==
  ASSUME NEW v \in Values(JavaTag), NEW family
  PROVE  /\ Shaped(JavaTag[columnValue(family, v).kind], columnValue(family, v).data)
         /\ v.kind \in JavaKinds /\ v.data \in Seq(Int) /\ v = Value(v.kind, v.data)
<1> DEFINE c == columnValue(family, v)
           tag == JavaTag[c.kind]
<1>1. v.kind \in JavaKinds /\ v.data \in Seq(Int) /\ v = Value(v.kind, v.data)
  BY DEF Values, JavaTag, JavaKinds, Value
<1>2. c.data = v.data /\ (c.kind = v.kind \/ c.kind \in {"bytes", "Object"})
  BY DEF columnValue, Value
<1>3. CASE c.kind \in {"bytes", "Object"}
  <2>1. tag \in {5, 6}
    BY <1>3 DEF JavaTag, Tag
  <2> QED
    BY <1>1, <1>2, <2>1 DEF Shaped
<1>4. CASE c.kind = v.kind
  <2> DEFINE t == JavaTag[v.kind]
  <2>1. t \in {0, 1, 2, 3, 4, 5, 6, 7, 9}
    BY <1>1 DEF JavaTag, Tag, JavaKinds
  <2>2. /\ (t = 0 => Len(v.data) = 0)
        /\ (t = 7 => Len(v.data) = 2)
        /\ (t \in {1, 2, 3} => Len(v.data) = 1)
    <3>1. CASE t = 0
      BY <3>1, TagsAre DEF Values, TagFacts
    <3>2. CASE t = 7
      BY <3>2, TagsAre DEF Values, TagFacts
    <3>3. CASE t \in {1, 2, 3}
      BY <3>3, TagsAre DEF Values, TagFacts
    <3> QED
      BY <3>1, <3>2, <3>3
  <2>3. Shaped(t, v.data)
    <3> HIDE DEF t
    <3> QED
      BY <1>1, <2>1, <2>2 DEF Shaped
  <2> QED
    BY <1>1, <1>2, <1>4, <2>3
<1> QED
  BY <1>2, <1>3, <1>4

\* What Rows.Next delivers of the column v.
Arrived(family, v) ==
    Value(IF family = "mysql" /\ v.kind \in Rendered THEN "string" ELSE Become[v.kind], v.data)

LEMMA ColumnRead ==
  ASSUME NEW v \in Values(JavaTag), NEW family, NEW b, NEW at, InRange(v),
         Reads(b, at, JavaTag[columnValue(family, v).kind], columnValue(family, v).data)
  PROVE  decodeValue(b, at) = Arrived(family, v)
<1> DEFINE c == columnValue(family, v)
           tag == JavaTag[c.kind]
           r == decodeValue(b, at)
           kind == IF family = "mysql" /\ v.kind \in Rendered THEN "string" ELSE Become[v.kind]
<1>1. v.kind \in JavaKinds /\ v.data \in Seq(Int) /\ Shaped(tag, c.data) /\ c.data = v.data
  BY JavaShape DEF columnValue, Value
<1>2. b[at] = tag
  BY DEF Reads
<1>3. c.kind = IF v.kind = "Blob" THEN "bytes"
               ELSE IF family = "mysql" /\ v.kind \in Rendered THEN "Object" ELSE v.kind
  BY DEF columnValue, Value, Rendered
<1>4. GoKind(tag) = kind
  BY <1>1, <1>3 DEF JavaKinds, JavaTag, Tag, GoKind, Become, Rendered
<1>5. CASE tag = 7
  <2>1. c.kind = v.kind /\ v.kind \in {"Timestamp", "Date"}
    BY <1>1, <1>3, <1>5 DEF JavaKinds, JavaTag, Tag
  <2>2. /\ b[at + 1] = v.data[1] \div NsPerMs /\ b[at + 2] = v.data[2]
        /\ b[at + 3] = v.data[1] % NsPerSec
    BY <1>1, <1>5 DEF Reads
  <2> DEFINE t == v.data[1]
  <2>3. t \in -(MaxInt64 + 1)..MaxInt64
    BY <2>1 DEF InRange
  <2>4. r = Value(GoKind(tag), ToTime(b, at))
    BY <1>2, <1>5, TagsAre DEF decodeValue, TagFacts
  <2>5. ToTime(b, at) = <<t, v.data[2]>>
    <3>1. ToTime(b, at) = <<Wrap(Wrap((t \div NsPerMs) * NsPerMs) + SubMilli(t % NsPerSec)), v.data[2]>>
      BY <2>2 DEF ToTime
    <3> HIDE DEF t
    <3>2. Wrap(Wrap((t \div NsPerMs) * NsPerMs) + SubMilli(t % NsPerSec)) = t
      BY <2>3, TimestampToTime
    <3> QED
      BY <3>1, <3>2
  <2>6. v.data = <<t, v.data[2]>>
    <3>1. Len(v.data) = 2
      BY <1>1, <1>5 DEF Shaped
    <3> QED
      BY <1>1, <3>1
  <2> HIDE DEF r, tag, kind
  <2> QED
    BY <1>4, <2>4, <2>5, <2>6 DEF Arrived, r, kind
<1>6. CASE tag # 7
  <2>1. Body(b, at) = v.data
    BY <1>1, <1>6 DEF Reads
  <2>2. r = Value(GoKind(tag), Body(b, at))
    BY <1>2, <1>6, TagsAre DEF decodeValue, TagFacts
  <2> HIDE DEF r, tag, kind
  <2> QED
    BY <1>4, <2>1, <2>2 DEF Arrived, r, kind
<1> QED
  BY <1>5, <1>6

\* A row comes out as it was put in, for all rows.
LEMMA RowRead ==
  ASSUME NEW row \in Seq(Values(JavaTag)), NEW family,
         NEW r, r = decodeRowBatch(RowFrame(family, row)).row
  PROVE  /\ DOMAIN r = 1..Len(row)
         /\ \A i \in 1..Len(row) : InRange(row[i]) => r[i] = Arrived(family, row[i])
<1> DEFINE n == Len(row)
           c(i) == columnValue(family, row[i])
           e == [i \in DOMAIN row |-> encodeColumn(family, row[i])]
           tags == [i \in 1..n |-> JavaTag[c(i).kind]]
           ds == [i \in 1..n |-> c(i).data]
           pre == <<0, 0, 1>>
           b == RowFrame(family, row)
<1>1. n \in Nat /\ DOMAIN row = 1..n /\ \A i \in 1..n : row[i] \in Values(JavaTag)
  OBVIOUS
<1>2. ASSUME NEW i \in 1..n
      PROVE  Shaped(tags[i], ds[i]) /\ e[i] = Encode(tags[i], ds[i]) /\ e[i] \in Seq(Int)
  <2> DEFINE t == JavaTag[c(i).kind]
             d == c(i).data
  <2>1. tags[i] = t /\ ds[i] = d /\ row[i] \in Values(JavaTag)
    BY <1>1
  <2>2. e[i] = Encode(t, d)
    BY <1>1 DEF encodeColumn
  <2>3. Shaped(t, d)
    BY <2>1, JavaShape
  <2> HIDE DEF e, t, d, tags, ds
  <2>4. e[i] \in Seq(Int)
    BY <2>2, <2>3, Encoded
  <2> QED
    BY <2>1, <2>2, <2>3, <2>4
<1>3. e \in Seq(Seq(Int)) /\ Len(e) = n
  <2>1. e = [i \in 1..n |-> e[i]]
    BY <1>1
  <2> HIDE DEF e, n
  <2> QED
    BY <1>1, <1>2, <2>1
<1>4. pre \in Seq(Int) /\ Len(pre) = 3
  OBVIOUS
<1>5. b = pre \o FlattenSeq(e)
  BY DEF RowFrame, EncodeRowBatch
<1>6. r = decodeRowBatch(b).row
  OBVIOUS
<1> HIDE DEF n, e, tags, ds, b, pre
<1>7. PICK p : /\ Starts(b)[4] = [ok |-> TRUE, at |-> p]
               /\ DOMAIN p = 1..n
               /\ \A i \in 1..n : Reads(b, p[i], tags[i], ds[i])
  <2>1. Encodings(e, tags, ds)
    BY <1>2, <1>3 DEF Encodings
  <2>2. Holds(b, Len(pre) + 1, Len(e), tags, ds)
    BY <1>3, <1>4, <1>5, <2>1, AllFound
  <2>3. Len(pre) + 1 = 4
    BY <1>4
  <2>4. Holds(b, 4, n, tags, ds)
    BY <1>3, <2>2, <2>3
  <2> QED
    BY <2>4 DEF Holds
<1>8. r = [i \in 1..n |-> decodeValue(b, p[i])]
  <2>1. Starts(b)[4].at = p
    BY <1>7
  <2> QED
    BY <1>6, <1>7, <2>1 DEF decodeRowBatch
<1>9. ASSUME NEW i \in 1..n, InRange(row[i]) PROVE r[i] = Arrived(family, row[i])
  <2>1. Reads(b, p[i], JavaTag[c(i).kind], c(i).data)
    BY <1>7 DEF tags, ds
  <2>2. r[i] = decodeValue(b, p[i])
    BY <1>8
  <2>3. row[i] \in Values(JavaTag)
    BY <1>1
  <2> QED
    BY <1>9, <2>1, <2>2, <2>3, ColumnRead
<1> QED
  BY <1>8, <1>9 DEF n

\* The rows a call delivers, each copied over the one before.
LEMMA DeliveredRows ==
  ASSUME NEW j, NEW X, j.rows \in Seq(X)
  PROVE  \E g : /\ Delivered(j) = [n \in 1..Len(j.rows) |-> g[n]]
                /\ \A n \in 1..Len(j.rows) : g[n] = Copied(Received(j, n), g[n - 1])
<1> DEFINE z == Len(j.rows)
           step(n, x) == Copied(Received(j, n), x)
           body(f) == [n \in 0..z |-> IF n = 0 THEN <<>> ELSE step(n, f[n - 1])]
           Upto(m, f) == /\ f = [n \in 0..m |-> f[n]] /\ f[0] = <<>>
                         /\ \A n \in 1..m : f[n] = step(n, f[n - 1])
           T == {m \in 0..z : \E f : Upto(m, f)}
<1>1. z \in Nat /\ DOMAIN j.rows = 1..z
  OBVIOUS
<1>2. Delivered(j) = [n \in 1..z |-> (CHOOSE f : f = body(f))[n]]
  BY <1>1 DEF Delivered
<1> HIDE DEF z, step
<1>3. 0 \in T
  <2> DEFINE f == [n \in 0..0 |-> <<>>]
  <2>1. Upto(0, f)
    OBVIOUS
  <2> HIDE DEF Upto, f
  <2> QED
    BY <1>1, <2>1
<1>4. ASSUME NEW m \in 1..z, m - 1 \in T PROVE m \in T
  <2>1. PICK f : Upto(m - 1, f)
    BY <1>4
  <2> DEFINE g == [n \in 0..m |-> IF n = m THEN step(m, f[m - 1]) ELSE f[n]]
  <2>2. g[0] = <<>> /\ g = [n \in 0..m |-> g[n]]
    BY <1>1, <2>1
  <2>3. ASSUME NEW n \in 1..m PROVE g[n] = step(n, g[n - 1])
    <3>1. n \in 0..m /\ n - 1 \in 0..m /\ n - 1 # m /\ (n # m => n \in 1..(m - 1))
      BY <1>1
    <3>2. g[n - 1] = f[n - 1]
      BY <3>1
    <3>3. CASE n = m
      BY <3>1, <3>2, <3>3
    <3>4. CASE n # m
      BY <2>1, <3>1, <3>2, <3>4
    <3> QED
      BY <3>3, <3>4
  <2>4. Upto(m, g)
    BY <2>2, <2>3
  <2> HIDE DEF Upto, g
  <2> QED
    BY <2>4
<1> HIDE DEF T
<1>5. z \in T
  <2>1. \A m \in 1..z : m - 1 \in T => m \in T
    BY <1>4
  <2>2. \A m \in 0..z : m \in T
    BY <1>1, <1>3, <2>1, Upward
  <2> QED
    BY <1>1, <2>2
<1>6. PICK f : f = body(f)
  <2>1. PICK f : Upto(z, f)
    BY <1>5 DEF T
  <2>2. ASSUME NEW n \in 0..z PROVE f[n] = IF n = 0 THEN <<>> ELSE step(n, f[n - 1])
    <3>1. n # 0 => n \in 1..z
      BY <1>1
    <3> QED
      BY <2>1, <3>1
  <2>3. f = [n \in 0..z |-> f[n]]
    BY <2>1
  <2>4. f = body(f)
    <3> HIDE DEF Upto
    <3> QED
      BY <2>2, <2>3
  <2> QED
    BY <2>4
<1> DEFINE g == CHOOSE h : h = body(h)
<1>7. g = body(g)
  <2> HIDE DEF body
  <2> QED
    BY <1>6
<1>8. Delivered(j) = [n \in 1..z |-> g[n]]
  BY <1>2
<1> HIDE DEF g
<1>9. ASSUME NEW n \in 1..z PROVE g[n] = step(n, g[n - 1])
  <2>1. n \in 0..z /\ n # 0
    BY <1>1
  <2> QED
    BY <1>7, <2>1
<1> QED
  BY <1>8, <1>9 DEF z, step
-----------------------------------------------------------------------------

\* What is bound for a call are its arguments, in their places, each with its kind
\* and its value, of a time all but its milliseconds, for any calls, goroutines,
\* frames and failures (ValueCodec.java, Session.java:64, Protocol.java:93).
THEOREM ArgsArrive == Spec => []ArgsKept
<1>1. CallsInv => ArgsKept
  <2> SUFFICES ASSUME CallsInv, NEW k \in Callers, ran[k] # NotRun
               PROVE  /\ Len(ran[k].args) = Len(job[k].args)
                      /\ \A i \in DOMAIN ran[k].args : Carried(job[k].args[i], ran[k].args[i])
    BY DEF ArgsKept, Carried
  <2>1. ran[k].args = Bound(job[k].args)
    <3>1. ran[k] = Executed(k)
      BY DEF CallsInv, Progress
    <3> QED
      BY <3>1 DEF Executed
  <2>2. job[k].args \in Seq(Values(GoTag))
    BY RequestsAssumption DEF CallsInv
  <2> QED
    BY <2>1, <2>2, ArgsBound
<1>2. Init => CallsInv
  BY CallsInit
<1>3. CallsInv /\ [Next]_vars => CallsInv'
  BY CallsStep
<1> QED
  BY <1>1, <1>2, <1>3, PTL DEF Spec

\* What is delivered for a call are the rows of the database, each column in its
\* place with its kind and its value, for any rows, goroutines, frames and failures
\* (proto.go:159, Protocol.java).
THEOREM RowsArrive == Spec => []RowsKept
<1>1. CallsInv => RowsKept
  <2> SUFFICES ASSUME CallsInv, NEW k \in Callers, outcome[k] = "ok"
               PROVE  /\ Len(dest[k]) = Len(job[k].rows)
                      /\ \A n \in DOMAIN dest[k] : \A i \in DOMAIN job[k].rows[n] :
                            InRange(job[k].rows[n][i]) =>
                                dest[k][n][i] = Arrived(job[k].family, job[k].rows[n][i])
    BY DEF RowsKept, Arrived
  <2>1. dest[k] = Delivered(job[k])
    BY DEF CallsInv, Progress
  <2>2. job[k].rows \in Seq(Seq(Values(JavaTag)))
    BY RequestsAssumption DEF CallsInv
  <2> DEFINE j == job[k]
             z == Len(j.rows)
  <2>3. PICK g : /\ Delivered(j) = [n \in 1..z |-> g[n]]
                 /\ \A n \in 1..z : g[n] = Copied(Received(j, n), g[n - 1])
    BY <2>2, DeliveredRows
  <2>4. z \in Nat /\ dest[k] = [n \in 1..z |-> g[n]]
    BY <2>1, <2>2, <2>3
  <2>5. ASSUME NEW n \in 1..z, NEW i \in DOMAIN j.rows[n], InRange(j.rows[n][i])
        PROVE  g[n][i] = Arrived(j.family, j.rows[n][i])
    <3> DEFINE row == j.rows[n]
               r == Received(j, n)
    <3>1. row \in Seq(Values(JavaTag)) /\ r = decodeRowBatch(RowFrame(j.family, row)).row
      BY <2>2 DEF Received
    <3>2. g[n] = Copied(r, g[n - 1]) /\ i \in DOMAIN row
      BY <2>3
    <3>3. InRange(row[i])
      BY <2>5
    <3> HIDE DEF r, row
    <3>4. DOMAIN r = 1..Len(row) /\ \A x \in 1..Len(row) : InRange(row[x]) => r[x] = Arrived(j.family, row[x])
      BY <3>1, RowRead
    <3>5. i \in DOMAIN r
      BY <3>1, <3>2, <3>4
    <3>6. g[n][i] = r[i]
      BY <3>2, <3>5 DEF Copied
    <3> QED
      BY <3>3, <3>4, <3>5, <3>6 DEF row
  <2> QED
    BY <2>4, <2>5
<1>2. Init => CallsInv
  BY CallsInit
<1>3. CallsInv /\ [Next]_vars => CallsInv'
  BY CallsStep
<1> QED
  BY <1>1, <1>2, <1>3, PTL DEF Spec
=============================================================================
