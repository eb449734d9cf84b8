--------------------------- MODULE SqlTextProofs ---------------------------
(***************************************************************************)
(* Proof that the two scanners do to every text what they are meant to do: *)
(* they replace the placeholders a lexer finds outside literals and        *)
(* comments, one after the other and whether or not the first has run      *)
(* already.                                                                *)
(***************************************************************************)
EXTENDS SqlText, SequenceFacts

\* (The provers do not know that "?" is a string.)
Alphabet == STRING \cup {"?"}
Text     == Seq(Alphabet)

-----------------------------------------------------------------------------
(* The lexer *)

\* The mode in which each letter is read, letter by letter.
LexerReads(s, mode) ==
    /\ mode[1] = "code"
    /\ \A i \in 1..Len(s) : mode[i + 1] = Then[mode[i]][Letter(s, i)]
    /\ \A i \in 1..(Len(s) + 1) : mode[i] \in Modes

LEMMA LetterIs == ASSUME NEW s \in Text, NEW i \in 1..Len(s) PROVE Letter(s, i) \in Letters
  BY DEF Letter, Letters, NewLine

LEMMA ThenIs ==
  ASSUME NEW m \in Modes, NEW c \in Letters
  PROVE  /\ Then[m][c] \in Modes
         /\ m = "code" /\ c = "other" => Then[m][c] = "code"
  BY DEF Then, Modes

LEMMA ModeIs == ASSUME NEW s \in Text PROVE LexerReads(s, Mode(s))
<1> DEFINE n == Len(s)
           step == [i \in 1..n |-> [m \in Modes |-> Then[m][Letter(s, i)]]]
           body(f) == [i \in 1..(n + 1) |-> IF i = 1 THEN "code" ELSE Then[f[i - 1]][Letter(s, i - 1)]]
           mode == CHOOSE f : f = body(f)
<1>1. n \in Nat
  OBVIOUS
<1>2. "code" \in Modes /\ step \in [1..n -> [Modes -> Modes]]
  BY LetterIs, ThenIs DEF Modes
<1>3. Mode(s) = mode
  BY DEF Mode, Beyond
<1>4. PICK g \in [0..n -> Modes] : g[0] = "code" /\ \A i \in 1..n : g[i] = step[i][g[i - 1]]
  <2> HIDE DEF step, n
  <2>1. \E f : Forth(f, n, Modes, "code", step)
    BY <1>1, <1>2, Forwards
  <2> QED
    BY <2>1 DEF Forth
<1>5. \A i \in 1..n : g[i] = Then[g[i - 1]][Letter(s, i)]
  <2> SUFFICES ASSUME NEW i \in 1..n PROVE g[i] = Then[g[i - 1]][Letter(s, i)]
    OBVIOUS
  <2>1. g[i - 1] \in Modes /\ g[i] = step[i][g[i - 1]]
    BY <1>1, <1>4
  <2> QED
    BY <2>1
<1> HIDE DEF n, step
<1> DEFINE f == [i \in 1..(n + 1) |-> g[i - 1]]
<1>6. f = body(f)
  <2>1. ASSUME NEW i \in 1..(n + 1)
        PROVE  g[i - 1] = IF i = 1 THEN "code" ELSE Then[f[i - 1]][Letter(s, i - 1)]
    <3>1. CASE i = 1
      BY <1>4, <3>1
    <3>2. CASE i # 1
      <4>1. i - 1 \in 1..n /\ i - 1 \in 1..(n + 1) /\ f[i - 1] = g[(i - 1) - 1]
        BY <1>1, <3>2
      <4> QED
        BY <1>5, <3>2, <4>1
    <3> QED
      BY <3>1, <3>2
  <2> QED
    BY <2>1
<1> HIDE DEF f
<1>7. mode = body(mode)
  BY <1>6
<1> HIDE DEF mode
<1>8. \A i \in 1..(n + 1) : mode[i] = IF i = 1 THEN "code" ELSE Then[mode[i - 1]][Letter(s, i - 1)]
  BY <1>7
<1>9. mode[1] = "code" /\ \A i \in 1..n : mode[i + 1] = Then[mode[i]][Letter(s, i)]
  <2>1. 1 \in 1..(n + 1)
    BY <1>1
  <2>2. ASSUME NEW i \in 1..n PROVE mode[i + 1] = Then[mode[i]][Letter(s, i)]
    <3>1. i + 1 \in 1..(n + 1) /\ i + 1 # 1 /\ (i + 1) - 1 = i
      BY <1>1
    <3> QED
      BY <1>8, <3>1
  <2> QED
    BY <1>8, <2>1, <2>2
<1>10. \A i \in 1..(n + 1) : mode[i] \in Modes
  <2> DEFINE T == {i \in 0..n : mode[i + 1] \in Modes}
  <2>1. 0 \in T
    BY <1>1, <1>2, <1>9
  <2>2. ASSUME NEW i \in 1..n, i - 1 \in T PROVE i \in T
    <3>1. (i - 1) + 1 = i /\ i \in 0..n
      BY <1>1
    <3>2. mode[i] \in Modes
      BY <2>2, <3>1
    <3>3. Letter(s, i) \in Letters
      BY LetterIs DEF n
    <3>4. mode[i + 1] \in Modes
      BY <1>9, <3>2, <3>3, ThenIs
    <3> QED
      BY <3>1, <3>4
  <2> HIDE DEF T
  <2>3. \A i \in 0..n : i \in T
    <3>1. \A i \in 1..n : i - 1 \in T => i \in T
      BY <2>2
    <3> QED
      BY <1>1, <2>1, <3>1, Upward
  <2>4. ASSUME NEW i \in 1..(n + 1) PROVE mode[i] \in Modes
    <3>1. i - 1 \in 0..n /\ (i - 1) + 1 = i
      BY <1>1
    <3>2. mode[(i - 1) + 1] \in Modes
      BY <2>3, <3>1 DEF T
    <3> QED
      BY <3>1, <3>2
  <2> QED
    BY <2>4
<1> QED
  BY <1>3, <1>9, <1>10 DEF LexerReads, n

\* What a letter is for the lexer.
Looks(s, i) ==
    /\ (Letter(s, i) = "'") <=> (s[i] = "'")
    /\ (Letter(s, i) = "\"") <=> (s[i] = "\"")
    /\ (Letter(s, i) = NewLine) <=> (s[i] = NewLine)
    /\ (Letter(s, i) = "--") <=> (Pair(s, i) = <<"-", "-">>)
    /\ (Letter(s, i) = "/*") <=> (Pair(s, i) = <<"/", "*">>)
    /\ (Letter(s, i) = "*/") <=> (Pair(s, i) = <<"*", "/">>)

LEMMA PairIs ==
  ASSUME NEW s \in Text, NEW i \in 1..Len(s), NEW a, NEW b
  PROVE  (Pair(s, i) = <<a, b>>) <=> (s[i] = a /\ At(s, i + 1) = b)
  BY DEF Pair, At

\* The three pairs the lexer looks for.
Pairs(s, i) ==
    /\ (Pair(s, i) = <<"-", "-">>) <=> (s[i] = "-" /\ At(s, i + 1) = "-")
    /\ (Pair(s, i) = <<"/", "*">>) <=> (s[i] = "/" /\ At(s, i + 1) = "*")
    /\ (Pair(s, i) = <<"*", "/">>) <=> (s[i] = "*" /\ At(s, i + 1) = "/")

LEMMA PairsAre == ASSUME NEW s \in Text, NEW i \in 1..Len(s) PROVE Pairs(s, i)
  BY PairIs DEF Pairs

LEMMA LetterLooks == ASSUME NEW s \in Text, NEW i \in 1..Len(s) PROVE Looks(s, i)
<1> DEFINE x == s[i]
           y == At(s, i + 1)
<1>1. /\ (Pair(s, i) = <<"-", "-">>) <=> (x = "-" /\ y = "-")
      /\ (Pair(s, i) = <<"/", "*">>) <=> (x = "/" /\ y = "*")
      /\ (Pair(s, i) = <<"*", "/">>) <=> (x = "*" /\ y = "/")
  BY PairIs
<1> HIDE DEF y
<1> QED
  BY <1>1 DEF Looks, Letter, NewLine

\* What the lexer makes of it.
LEMMA ThenTable ==
  ASSUME NEW c \in Letters
  PROVE  /\ Then["code"]["'"] = "string" /\ Then["code"]["\""] = "name"
         /\ Then["code"]["--"] = "line" /\ Then["code"]["/*"] = "open"
         /\ c \notin {"'", "\"", "--", "/*"} => Then["code"][c] = "code"
         /\ Then["string"][c] = IF c = "'" THEN "code" ELSE "string"
         /\ Then["name"][c] = IF c = "\"" THEN "code" ELSE "name"
         /\ Then["line"][c] = IF c = NewLine THEN "code" ELSE "line"
         /\ Then["open"][c] = "block"
         /\ Then["block"][c] = IF c = "*/" THEN "closing" ELSE "block"
         /\ Then["closing"][c] = "code"
<1>1. /\ {"'", "\"", "--", "/*"} \subseteq Letters
      /\ {"code", "string", "name", "line", "open", "block", "closing"} \subseteq Modes
  BY DEF Letters, Modes
<1>2. Then["code"]["'"] = "string" /\ Then["code"]["\""] = "name"
  BY <1>1 DEF Then
<1>3. Then["code"]["--"] = "line" /\ Then["code"]["/*"] = "open"
  BY <1>1 DEF Then
<1>4. c \notin {"'", "\"", "--", "/*"} => Then["code"][c] = "code"
  BY <1>1 DEF Then
<1>5. Then["string"][c] = IF c = "'" THEN "code" ELSE "string"
  BY <1>1 DEF Then
<1>6. Then["name"][c] = IF c = "\"" THEN "code" ELSE "name"
  BY <1>1 DEF Then
<1>7. Then["line"][c] = IF c = NewLine THEN "code" ELSE "line"
  BY <1>1 DEF Then
<1>8. Then["open"][c] = "block"
  BY <1>1 DEF Then
<1>9. Then["block"][c] = IF c = "*/" THEN "closing" ELSE "block"
  BY <1>1 DEF Then
<1>10. Then["closing"][c] = "code"
  BY <1>1 DEF Then
<1> QED
  BY <1>2, <1>3, <1>4, <1>5, <1>6, <1>7, <1>8, <1>9, <1>10

-----------------------------------------------------------------------------
(* Where the scanners find an end *)

LEMMA FirstIs ==
  ASSUME NEW S \in SUBSET Nat, S # {}
  PROVE  LET x == CHOOSE j \in S : \A k \in S : j <= k
         IN  x \in S /\ \A k \in S : x <= k
  BY Least

\* e is the first position from i on where the letter is in set.
Ends(s, i, set, e) ==
    /\ e \in i..(Len(s) + 1)
    /\ \A j \in i..(e - 1) : s[j] \notin set
    /\ e <= Len(s) => s[e] \in set

LEMMA FindIs ==
  ASSUME NEW s \in Text, NEW i \in 1..(Len(s) + 1), NEW set
  PROVE  Ends(s, i, set, Find(s, i, set))
<1> DEFINE n == Len(s)
           hits == {j \in i..n : s[j] \in set}
           first == CHOOSE j \in hits : \A k \in hits : j <= k
<1>1. n \in Nat /\ hits \in SUBSET Nat
  OBVIOUS
<1>2. Find(s, i, set) = IF hits = {} THEN n + 1 ELSE first
  BY DEF Find, Beyond
<1>3. CASE hits = {}
  <2>1. \A j \in i..n : s[j] \notin set
    BY <1>3
  <2> QED
    BY <1>1, <1>2, <1>3, <2>1 DEF Ends
<1>4. CASE hits # {}
  <2>1. first \in hits /\ \A k \in hits : first <= k
    BY <1>1, <1>4, FirstIs
  <2>2. first \in i..n /\ s[first] \in set
    BY <2>1
  <2>3. ASSUME NEW j \in i..(first - 1) PROVE s[j] \notin set
    <3>1. j \in i..n /\ ~(first <= j)
      BY <1>1, <2>2
    <3> QED
      BY <2>1, <3>1
  <2>4. Find(s, i, set) = first
    BY <1>2, <1>4
  <2> HIDE DEF hits, first
  <2>5. Ends(s, i, set, first)
    BY <1>1, <2>2, <2>3 DEF Ends
  <2> QED
    BY <2>4, <2>5
<1> QED
  BY <1>3, <1>4

LEMMA NumberEndIs ==
  ASSUME NEW s \in Text, NEW i \in 1..(Len(s) + 1)
  PROVE  /\ NumberEnd(s, i) \in i..(Len(s) + 1)
         /\ \A j \in i..(NumberEnd(s, i) - 1) : s[j] \in Digits
         /\ NumberEnd(s, i) <= Len(s) => s[NumberEnd(s, i)] \notin Digits
<1> DEFINE n == Len(s)
           rest == {j \in i..n : s[j] \notin Digits}
           first == CHOOSE j \in rest : \A k \in rest : j <= k
<1>1. n \in Nat /\ rest \in SUBSET Nat
  OBVIOUS
<1>2. NumberEnd(s, i) = IF rest = {} THEN n + 1 ELSE first
  BY DEF NumberEnd, Beyond
<1>3. CASE rest = {}
  <2>1. \A j \in i..n : s[j] \in Digits
    BY <1>3
  <2> QED
    BY <1>1, <1>2, <1>3, <2>1
<1>4. CASE rest # {}
  <2>1. first \in rest /\ \A k \in rest : first <= k
    BY <1>1, <1>4, FirstIs
  <2>2. first \in i..n /\ s[first] \notin Digits
    BY <2>1
  <2>3. ASSUME NEW j \in i..(first - 1) PROVE s[j] \in Digits
    <3>1. j \in i..n /\ ~(first <= j)
      BY <1>1, <2>2
    <3> QED
      BY <2>1, <3>1
  <2>4. NumberEnd(s, i) = first
    BY <1>2, <1>4
  <2> HIDE DEF rest, first
  <2> QED
    BY <1>1, <2>2, <2>3, <2>4
<1> QED
  BY <1>3, <1>4

\* A comment ends behind the first closing pair, or with the text.
Closes(s, i, e) ==
    /\ e \in (i + 2)..(Len(s) + 1) \/ e = Len(s) + 1
    /\ \/ e = Len(s) + 1 /\ \A j \in (i + 2)..Len(s) : Pair(s, j) # <<"*", "/">>
       \/ /\ e - 2 \in (i + 2)..Len(s) /\ e - 1 <= Len(s)
          /\ Pair(s, e - 2) = <<"*", "/">>
          /\ \A j \in (i + 2)..(e - 3) : Pair(s, j) # <<"*", "/">>

LEMMA CommentEndIs ==
  ASSUME NEW s \in Text, NEW i \in 1..Len(s) PROVE Closes(s, i, CommentEnd(s, i))
<1> DEFINE n == Len(s)
           ends == {j \in (i + 2)..n : Pair(s, j) = <<"*", "/">>}
           first == CHOOSE j \in ends : \A k \in ends : j <= k
           e == CommentEnd(s, i)
<1>1. n \in Nat /\ ends \in SUBSET Nat
  OBVIOUS
<1>2. e = IF ends = {} THEN n + 1 ELSE 2 + first
  BY DEF CommentEnd, Beyond
<1>3. CASE ends = {}
  <2>1. \A j \in (i + 2)..n : Pair(s, j) # <<"*", "/">>
    BY <1>3
  <2> QED
    BY <1>1, <1>2, <1>3, <2>1 DEF Closes
<1>4. CASE ends # {}
  <2>1. first \in ends /\ \A k \in ends : first <= k
    BY <1>1, <1>4, FirstIs
  <2>2. first \in (i + 2)..n /\ Pair(s, first) = <<"*", "/">>
    BY <2>1
  <2>3. ASSUME NEW j \in (i + 2)..(first - 1) PROVE Pair(s, j) # <<"*", "/">>
    <3>1. j \in (i + 2)..n /\ ~(first <= j)
      BY <1>1, <2>2
    <3> QED
      BY <2>1, <3>1
  <2>4. first + 1 \in 1..n
    <3>1. first \in 1..n
      BY <1>1, <2>2
    <3>2. At(s, first + 1) = "/"
      BY <2>2, <3>1, PairIs
    <3> QED
      BY <3>2 DEF At
  <2>9. e = 2 + first
    BY <1>2, <1>4
  <2> HIDE DEF ends, first, e
  <2>5. e - 2 = first /\ e - 3 = first - 1 /\ e - 1 = first + 1
    BY <1>1, <2>2, <2>9
  <2>6. e - 2 \in (i + 2)..n /\ e - 1 <= n /\ e \in (i + 2)..(n + 1)
    BY <1>1, <2>2, <2>4, <2>9
  <2>7. Pair(s, e - 2) = <<"*", "/">> /\ \A j \in (i + 2)..(e - 3) : Pair(s, j) # <<"*", "/">>
    BY <2>2, <2>3, <2>5
  <2>8. Closes(s, i, e)
    BY <2>6, <2>7 DEF Closes, n
  <2> QED
    BY <2>8 DEF e
<1> QED
  BY <1>3, <1>4

-----------------------------------------------------------------------------
(* The scanners follow the lexer *)

\* One step of the lexer.
Steps(s, i, m, next) ==
    /\ m = "string" => next = IF s[i] = "'" THEN "code" ELSE "string"
    /\ m = "name" => next = IF s[i] = "\"" THEN "code" ELSE "name"
    /\ m = "line" => next = IF s[i] = NewLine THEN "code" ELSE "line"
    /\ m = "open" => next = "block"
    /\ m = "block" => next = IF Pair(s, i) = <<"*", "/">> THEN "closing" ELSE "block"
    /\ m = "closing" => next = "code"
    /\ m = "code" =>
          /\ s[i] = "'" => next = "string"
          /\ s[i] = "\"" => next = "name"
          /\ Pair(s, i) = <<"-", "-">> => next = "line"
          /\ Pair(s, i) = <<"/", "*">> => next = "open"
          /\ \/ s[i] \in {"'", "\""}
             \/ Pair(s, i) \in {<<"-", "-">>, <<"/", "*">>}
             \/ next = "code"

LEMMA StepIs ==
  ASSUME NEW s \in Text, NEW i \in 1..Len(s)
  PROVE  Steps(s, i, Mode(s)[i], Mode(s)[i + 1])
<1> DEFINE c == Letter(s, i)
           m == Mode(s)[i]
           next == Mode(s)[i + 1]
<1>1. c \in Letters
  BY LetterIs
<1>4. /\ (c = "'") <=> (s[i] = "'")
      /\ (c = "\"") <=> (s[i] = "\"")
      /\ (c = NewLine) <=> (s[i] = NewLine)
      /\ (c = "--") <=> (Pair(s, i) = <<"-", "-">>)
      /\ (c = "/*") <=> (Pair(s, i) = <<"/", "*">>)
      /\ (c = "*/") <=> (Pair(s, i) = <<"*", "/">>)
  BY LetterLooks DEF Looks
<1>2. m \in Modes /\ next = Then[m][c]
  <2>1. i \in 1..(Len(s) + 1)
    OBVIOUS
  <2> QED
    BY <2>1, ModeIs DEF LexerReads
<1> HIDE DEF c, m, next
<1>3. Steps(s, i, m, next)
  <2>1. /\ m = "code" /\ c = "'" => next = "string"
        /\ m = "code" /\ c = "\"" => next = "name"
        /\ m = "code" /\ c = "--" => next = "line"
        /\ m = "code" /\ c = "/*" => next = "open"
        /\ m = "code" /\ c \notin {"'", "\"", "--", "/*"} => next = "code"
    BY <1>1, <1>2, ThenTable
  <2>2. m = "string" => next = IF c = "'" THEN "code" ELSE "string"
    BY <1>1, <1>2, ThenTable
  <2>3. m = "name" => next = IF c = "\"" THEN "code" ELSE "name"
    BY <1>1, <1>2, ThenTable
  <2>4. m = "line" => next = IF c = NewLine THEN "code" ELSE "line"
    BY <1>1, <1>2, ThenTable
  <2>5. m = "open" => next = "block"
    BY <1>1, <1>2, ThenTable
  <2>6. m = "block" => next = IF c = "*/" THEN "closing" ELSE "block"
    BY <1>1, <1>2, ThenTable
  <2>7. m = "closing" => next = "code"
    BY <1>1, <1>2, ThenTable
  <2> QED
    BY <1>4, <2>1, <2>2, <2>3, <2>4, <2>5, <2>6, <2>7 DEF Steps
<1> QED
  BY <1>3 DEF m, next

\* A token may start here: the letter is code, or the newline a comment ends at.
Fresh(s, i) ==
    \/ i = Len(s) + 1
    \/ Mode(s)[i] = "code"
    \/ Mode(s)[i] = "line" /\ s[i] = NewLine

\* No letter of s from i to before e could be a placeholder's.
Covered(s, i, e) == \A j \in i..(e - 1) : Mode(s)[j] # "code" \/ s[j] = "'"

\* The scanners look a string through to its end.
EndBody(s, f) ==
    [j \in 1..(Len(s) + 2) |->
        IF j > Len(s) THEN Beyond(s)
        ELSE IF s[j] # "'" THEN f[j + 1]
        ELSE IF At(s, j + 1) = "'" THEN f[j + 2]
        ELSE j + 1]

LEMMA EndExists == ASSUME NEW s \in Text PROVE \E f : f = EndBody(s, f)
<1> DEFINE n == Len(s)
           next == [j \in 1..(n + 2) |-> IF j > n THEN 0 ELSE IF s[j] # "'" THEN j + 1
                                         ELSE IF At(s, j + 1) = "'" THEN j + 2 ELSE 0]
           step == [j \in 1..(n + 2) |-> [x \in Nat |-> x]]
           base == [j \in 1..(n + 2) |-> IF j > n THEN n + 1 ELSE j + 1]
<1>1. n \in Nat /\ n + 2 \in Nat
  OBVIOUS
<1>2. /\ next \in [1..(n + 2) -> Nat] /\ base \in [1..(n + 2) -> Nat]
      /\ step \in [1..(n + 2) -> [Nat -> Nat]]
  OBVIOUS
<1>3. PICK f : Back(f, n + 2, Nat, next, step, base)
  <2> HIDE DEF n, next, step, base
  <2> QED
    BY <1>1, <1>2, Backwards
<1>4. /\ f \in [1..(n + 2) -> Nat]
      /\ \A j \in 1..(n + 2) : f[j] = Behind(j, n + 2, next, step, base, f)
  <2> HIDE DEF n, next, step, base
  <2> QED
    BY <1>3 DEF Back
<1>5. ASSUME NEW j \in 1..(n + 2)
      PROVE  f[j] = IF j > n THEN n + 1 ELSE IF s[j] # "'" THEN f[j + 1]
                    ELSE IF At(s, j + 1) = "'" THEN f[j + 2] ELSE j + 1
  <2>1. f[j] = IF next[j] \in (j + 1)..(n + 2) THEN step[j][f[next[j]]] ELSE base[j]
    <3> HIDE DEF next, step, base
    <3> QED
      BY <1>4 DEF Behind
  <2>2. At(s, j + 1) = "'" => j + 1 <= n
    BY <1>1 DEF At
  <2>3. CASE next[j] \in (j + 1)..(n + 2)
    <3>1. next[j] \in 1..(n + 2)
      BY <1>1, <2>3
    <3>2. f[next[j]] \in Nat
      BY <1>4, <3>1
    <3>3. f[j] = f[next[j]]
      BY <2>1, <2>3, <3>2
    <3>4. j <= n /\ next[j] = IF s[j] # "'" THEN j + 1 ELSE IF At(s, j + 1) = "'" THEN j + 2 ELSE 0
      BY <1>1, <2>3
    <3>5. next[j] # 0
      BY <1>1, <2>3
    <3> HIDE DEF next
    <3> QED
      BY <1>1, <3>3, <3>4, <3>5
  <2>4. CASE next[j] \notin (j + 1)..(n + 2)
    <3>1. f[j] = base[j]
      BY <2>1, <2>4
    <3>2. j > n \/ (s[j] = "'" /\ At(s, j + 1) # "'")
      BY <1>1, <2>2, <2>4
    <3>3. f[j] = IF j > n THEN n + 1 ELSE j + 1
      BY <3>1
    <3> QED
      BY <3>2, <3>3
  <2> QED
    BY <2>3, <2>4
<1>6. f = EndBody(s, f)
  <2>1. f = [j \in 1..(n + 2) |-> f[j]]
    BY <1>4
  <2> QED
    BY <1>5, <2>1 DEF EndBody, Beyond
<1> QED
  BY <1>6

LEMMA StringEndIs ==
  ASSUME NEW s \in Text, NEW i \in 1..Len(s)
  PROVE  /\ StringEnd(s, i) \in (i + 1)..(Len(s) + 1)
         /\ Mode(s)[i + 1] = "string" =>
               Fresh(s, StringEnd(s, i)) /\ Covered(s, i + 1, StringEnd(s, i))
<1> DEFINE n == Len(s)
           end == CHOOSE f : f = EndBody(s, f)
<1>1. n \in Nat
  OBVIOUS
<1>2. StringEnd(s, i) = end[i + 1]
  BY DEF StringEnd, EndBody
<1>3. end = EndBody(s, end)
  BY EndExists
<1> HIDE DEF end
<1>4. \A j \in 1..(n + 2) : end[j] = IF j > n THEN n + 1 ELSE IF s[j] # "'" THEN end[j + 1]
                                     ELSE IF At(s, j + 1) = "'" THEN end[j + 2] ELSE j + 1
  BY <1>3 DEF EndBody, Beyond
<1> DEFINE Good(j) == /\ end[j] \in j..(n + 1)
                      /\ Mode(s)[j] = "string" => Fresh(s, end[j]) /\ Covered(s, j, end[j])
           T == {j \in 1..(n + 1) : Good(j)}
<1>5. ASSUME NEW j \in 1..(n + 1), \A k \in (j + 1)..(n + 1) : k \in T PROVE j \in T
  <2>0. end[j] = IF j > n THEN n + 1 ELSE IF s[j] # "'" THEN end[j + 1]
                 ELSE IF At(s, j + 1) = "'" THEN end[j + 2] ELSE j + 1
    BY <1>1, <1>4
  <2>1. CASE j = n + 1
    <3>1. end[j] = n + 1
      BY <1>1, <2>0, <2>1
    <3> QED
      BY <1>1, <2>1, <3>1 DEF Fresh, Covered
  <2>2. CASE j # n + 1 /\ s[j] # "'"
    <3>1. j \in 1..n /\ j + 1 \in (j + 1)..(n + 1) /\ end[j] = end[j + 1]
      BY <1>1, <2>0, <2>2
    <3>2. Good(j + 1)
      BY <1>5, <3>1
    <3>3. Mode(s)[j] = "string" => Mode(s)[j + 1] = "string"
      BY <2>2, <3>1, StepIs DEF Steps
    <3>4. end[j] \in j..(n + 1)
      BY <1>1, <3>1, <3>2
    <3>5. Mode(s)[j] = "string" => Fresh(s, end[j]) /\ Covered(s, j, end[j])
      <4>1. SUFFICES ASSUME Mode(s)[j] = "string" PROVE Fresh(s, end[j]) /\ Covered(s, j, end[j])
        OBVIOUS
      <4>2. Fresh(s, end[j]) /\ Covered(s, j + 1, end[j])
        BY <3>1, <3>2, <3>3, <4>1
      <4>3. \A k \in j..(end[j] - 1) : k = j \/ k \in (j + 1)..(end[j] - 1)
        BY <1>1, <3>4
      <4> QED
        BY <4>1, <4>2, <4>3 DEF Covered
    <3> QED
      BY <3>4, <3>5
  <2>3. CASE j # n + 1 /\ s[j] = "'" /\ At(s, j + 1) = "'"
    <3>1. j \in 1..n /\ j + 1 \in 1..n /\ s[j + 1] = "'"
      BY <1>1, <2>3 DEF At
    <3>2. j + 2 \in (j + 1)..(n + 1) /\ end[j] = end[j + 2]
      BY <1>1, <2>0, <2>3, <3>1
    <3>3. Good(j + 2)
      BY <1>5, <3>2
    <3>4. end[j] \in j..(n + 1)
      BY <1>1, <3>2, <3>3
    <3>5. Mode(s)[j] = "string" => Fresh(s, end[j]) /\ Covered(s, j, end[j])
      <4>1. SUFFICES ASSUME Mode(s)[j] = "string" PROVE Fresh(s, end[j]) /\ Covered(s, j, end[j])
        OBVIOUS
      <4>2. Mode(s)[j + 1] = "code"
        BY <2>3, <3>1, <4>1, StepIs DEF Steps
      <4>6. Steps(s, j + 1, Mode(s)[j + 1], Mode(s)[(j + 1) + 1])
        BY <3>1, StepIs
      <4>3. Mode(s)[(j + 1) + 1] = "string" /\ (j + 1) + 1 = j + 2
        BY <3>1, <4>2, <4>6 DEF Steps
      <4>4. Fresh(s, end[j]) /\ Covered(s, j + 2, end[j])
        BY <3>2, <3>3, <4>3
      <4>5. \A k \in j..(end[j] - 1) : k = j \/ k = j + 1 \/ k \in (j + 2)..(end[j] - 1)
        BY <1>1, <3>4
      <4> QED
        BY <3>1, <4>1, <4>4, <4>5 DEF Covered
    <3> QED
      BY <3>4, <3>5
  <2>4. CASE j # n + 1 /\ s[j] = "'" /\ At(s, j + 1) # "'"
    <3>1. j \in 1..n /\ end[j] = j + 1
      BY <1>1, <2>0, <2>4
    <3>2. Mode(s)[j] = "string" => Mode(s)[j + 1] = "code"
      BY <2>4, <3>1, StepIs DEF Steps
    <3>3. \A k \in j..(end[j] - 1) : k = j
      BY <1>1, <3>1
    <3>4. Mode(s)[j] = "string" => Fresh(s, end[j]) /\ Covered(s, j, end[j])
      BY <3>1, <3>2, <3>3 DEF Fresh, Covered
    <3>5. end[j] \in j..(n + 1)
      BY <1>1, <3>1
    <3> QED
      BY <3>4, <3>5
  <2> QED
    BY <2>1, <2>2, <2>3, <2>4
<1>6. \A j \in 1..(n + 1) : j \in T
  <2> HIDE DEF T, n
  <2>1. n + 1 \in Nat
    BY <1>1
  <2> QED
    BY <1>5, <2>1, DownwardFromAll
<1>7. i + 1 \in 1..(n + 1)
  BY <1>1
<1> QED
  BY <1>2, <1>6, <1>7

\* A run of letters the lexer reads in one mode.
LEMMA StaysIn ==
  ASSUME NEW s \in Text, NEW a \in 1..(Len(s) + 1), NEW b \in a..(Len(s) + 1), NEW m,
         Mode(s)[a] = m,
         \A j \in a..(b - 1) : Mode(s)[j] = m => Mode(s)[j + 1] = m
  PROVE  \A j \in a..b : Mode(s)[j] = m
<1> DEFINE T == {j \in Nat : Mode(s)[j] = m}
<1>1. a \in Nat /\ b \in Nat /\ a \in T
  OBVIOUS
<1>2. \A j \in a..(b - 1) : j \in T => j + 1 \in T
  BY <1>1
<1> HIDE DEF T
<1>3. \A j \in a..b : j \in T
  BY <1>1, <1>2, Onward
<1> QED
  BY <1>3 DEF T

\* Which scanner finds the end of which token.
NameEnd(s, i) ==
    LET first == Find(s, i + 1, {"\""})
    IN  IF first > Len(s) THEN first ELSE first + 1

Token(s, i, e) ==
    \/ s[i] = "'" /\ e = StringEnd(s, i)
    \/ s[i] = "\"" /\ e = NameEnd(s, i)
    \/ Pair(s, i) = <<"-", "-">> /\ e = Find(s, i, {NewLine})
    \/ Pair(s, i) = <<"/", "*">> /\ e = CommentEnd(s, i)
    \/ /\ s[i] # "'" /\ s[i] # "\""
       /\ Pair(s, i) # <<"-", "-">> /\ Pair(s, i) # <<"/", "*">>
       /\ e = i + 1

LEMMA TokenEndIs ==
  ASSUME NEW s \in Text, NEW i \in 1..Len(s) PROVE Token(s, i, TokenEnd(s, i))
<1> DEFINE x == s[i]
           dashes == Pair(s, i) = <<"-", "-">>
           opens == Pair(s, i) = <<"/", "*">>
<1>1. (dashes => x = "-") /\ (opens => x = "/")
  BY PairIs
<1>2. TokenEnd(s, i) = CASE x = "'"  -> StringEnd(s, i)
                         [] x = "\"" -> NameEnd(s, i)
                         [] dashes   -> Find(s, i, {NewLine})
                         [] opens    -> CommentEnd(s, i)
                         [] OTHER    -> i + 1
  BY DEF TokenEnd, NameEnd
<1> DEFINE e == TokenEnd(s, i)
<1> HIDE DEF e
<1>3. x = "'" => e = StringEnd(s, i)
  BY <1>1, <1>2 DEF e
<1>4. x = "\"" => e = NameEnd(s, i)
  BY <1>1, <1>2 DEF e
<1>5. dashes => e = Find(s, i, {NewLine})
  BY <1>1, <1>2 DEF e
<1>6. opens => e = CommentEnd(s, i)
  BY <1>1, <1>2 DEF e
<1>7. x # "'" /\ x # "\"" /\ ~dashes /\ ~opens => e = i + 1
  BY <1>1, <1>2 DEF e
<1> QED
  BY <1>3, <1>4, <1>5, <1>6, <1>7 DEF Token, e

\* A token ends behind where it starts.
LEMMA TokenEndsLater ==
  ASSUME NEW s \in Text, NEW i \in 1..Len(s) PROVE TokenEnd(s, i) \in (i + 1)..(Len(s) + 1)
<1> DEFINE n == Len(s)
<1>1. n \in Nat /\ i + 1 \in 1..(n + 1) /\ i \in 1..(n + 1)
  OBVIOUS
<1>2. StringEnd(s, i) \in (i + 1)..(n + 1)
  BY StringEndIs
<1>3. NameEnd(s, i) \in (i + 1)..(n + 1)
  <2> DEFINE first == Find(s, i + 1, {"\""})
  <2>1. first \in (i + 1)..(n + 1)
    BY <1>1, FindIs DEF Ends
  <2> HIDE DEF first
  <2>2. (IF first > n THEN first ELSE first + 1) \in (i + 1)..(n + 1)
    BY <1>1, <2>1
  <2> QED
    BY <2>2 DEF NameEnd, first
<1>4. Pair(s, i) = <<"-", "-">> => Find(s, i, {NewLine}) \in (i + 1)..(n + 1)
  <2>1. Ends(s, i, {NewLine}, Find(s, i, {NewLine}))
    BY <1>1, FindIs
  <2>2. Pair(s, i) = <<"-", "-">> => s[i] = "-"
    BY PairIs
  <2> QED
    BY <1>1, <2>1, <2>2 DEF Ends, NewLine
<1>5. CommentEnd(s, i) \in (i + 1)..(n + 1)
  BY <1>1, CommentEndIs DEF Closes
<1> QED
  <2> DEFINE e == TokenEnd(s, i)
  <2>1. Token(s, i, e)
    BY TokenEndIs
  <2>2. i + 1 \in (i + 1)..(n + 1)
    BY <1>1
  <2> HIDE DEF e, n
  <2>3. e \in (i + 1)..(n + 1)
    BY <1>2, <1>3, <1>4, <1>5, <2>1, <2>2 DEF Token
  <2> QED
    BY <2>3 DEF e, n

\* Behind a token the lexer is where the next one starts, and no letter in it
\* but the first could be a placeholder's.
LEMMA TokenIs ==
  ASSUME NEW s \in Text, NEW i \in 1..Len(s), Fresh(s, i)
  PROVE  Fresh(s, TokenEnd(s, i)) /\ Covered(s, i + 1, TokenEnd(s, i))
<1> DEFINE n == Len(s)
           e == TokenEnd(s, i)
<1>1. n \in Nat /\ i + 1 \in 1..(n + 1) /\ i \in 1..(n + 1) /\ i # n + 1
  OBVIOUS
<1>2. e \in (i + 1)..(n + 1)
  BY TokenEndsLater
<1>3. \A j \in 1..n : Steps(s, j, Mode(s)[j], Mode(s)[j + 1])
  BY StepIs
<1>4. Mode(s)[i] = "code" \/ (Mode(s)[i] = "line" /\ s[i] = NewLine)
  BY <1>1 DEF Fresh
<1>5. ASSUME Mode(s)[i] = "line", s[i] = NewLine PROVE Fresh(s, e) /\ Covered(s, i + 1, e)
  <2>1. Pair(s, i) # <<"-", "-">> /\ Pair(s, i) # <<"/", "*">> /\ s[i] # "'" /\ s[i] # "\""
    BY <1>5, PairIs DEF NewLine
  <2>2. e = i + 1
    BY <2>1, TokenEndIs DEF Token
  <2>3. Mode(s)[i + 1] = "code"
    BY <1>3, <1>5 DEF Steps
  <2> QED
    BY <1>1, <2>2, <2>3 DEF Fresh, Covered
<1>7. Token(s, i, e)
  BY TokenEndIs
<1>8. (Pair(s, i) = <<"-", "-">> => s[i] = "-") /\ (Pair(s, i) = <<"/", "*">> => s[i] = "/")
  BY PairIs
<1>6. ASSUME Mode(s)[i] = "code" PROVE Fresh(s, e) /\ Covered(s, i + 1, e)
  <2>0. Steps(s, i, "code", Mode(s)[i + 1])
    BY <1>3, <1>6
  <2>1. CASE s[i] = "'"
    <3>1. e = StringEnd(s, i)
      BY <2>1, <1>7, <1>8 DEF Token
    <3>2. Mode(s)[i + 1] = "string"
      BY <2>0, <2>1 DEF Steps
    <3> QED
      BY <3>1, <3>2, StringEndIs
  <2>2. CASE s[i] = "\""
    <3> DEFINE q == Find(s, i + 1, {"\""})
    <3>9. e = NameEnd(s, i)
      BY <2>2, <1>7, <1>8 DEF Token
    <3>1. e = IF q > n THEN q ELSE q + 1
      BY <3>9 DEF NameEnd
    <3>2. Mode(s)[i + 1] = "name"
      BY <2>0, <2>2 DEF Steps
    <3>3. Ends(s, i + 1, {"\""}, q)
      BY <1>1, FindIs
    <3> HIDE DEF q, e
    <3>4. q \in (i + 1)..(n + 1)
      BY <3>3 DEF Ends
    <3>10. \A j \in (i + 1)..(q - 1) : s[j] # "\""
      BY <3>3 DEF Ends
    <3>5. \A j \in (i + 1)..(q - 1) : Mode(s)[j] = "name" => Mode(s)[j + 1] = "name"
      <4>1. \A j \in (i + 1)..(q - 1) : j \in 1..n
        BY <1>1, <3>4
      <4> QED
        BY <1>3, <3>10, <4>1 DEF Steps
    <3>6. \A j \in (i + 1)..q : Mode(s)[j] = "name"
      BY <1>1, <3>2, <3>4, <3>5, StaysIn
    <3>7. CASE q > n
      <4>1. e = n + 1 /\ e = q
        BY <1>1, <3>1, <3>4, <3>7
      <4> QED
        BY <3>6, <4>1 DEF Fresh, Covered
    <3>8. CASE ~(q > n)
      <4>1. e = q + 1 /\ q \in 1..n /\ q \in (i + 1)..q /\ e - 1 = q
        BY <1>1, <3>1, <3>4, <3>8
      <4>4. q <= Len(s)
        BY <4>1
      <4>5. s[q] \in {"\""}
        BY <3>3, <4>4 DEF Ends
      <4>2. s[q] = "\"" /\ Mode(s)[q] = "name"
        BY <3>6, <4>1, <4>5
      <4>3. Mode(s)[e] = "code"
        BY <1>3, <4>1, <4>2 DEF Steps
      <4> QED
        BY <3>6, <4>1, <4>3 DEF Fresh, Covered
    <3> QED
      BY <3>7, <3>8
  <2>3. CASE Pair(s, i) = <<"-", "-">>
    <3>0. s[i] = "-"
      BY <2>3, PairIs
    <3>1. e = Find(s, i, {NewLine})
      BY <2>3, <1>7, <1>8 DEF Token
    <3>2. Mode(s)[i + 1] = "line"
      BY <2>0, <2>3 DEF Steps
    <3>3. Ends(s, i, {NewLine}, e)
      BY <1>1, <3>1, FindIs
    <3> HIDE DEF e
    <3>4. \A j \in (i + 1)..(e - 1) : s[j] # NewLine /\ j \in 1..n
      BY <1>1, <1>2, <3>3 DEF Ends
    <3>5. \A j \in (i + 1)..(e - 1) : Mode(s)[j] = "line" => Mode(s)[j + 1] = "line"
      BY <1>3, <3>4 DEF Steps
    <3>6. \A j \in (i + 1)..e : Mode(s)[j] = "line"
      BY <1>1, <1>2, <3>2, <3>5, StaysIn
    <3>7. Covered(s, i + 1, e)
      BY <1>1, <1>2, <3>6 DEF Covered
    <3>8. Fresh(s, e)
      <4>1. Mode(s)[e] = "line" /\ (e = n + 1 \/ e <= n)
        BY <1>1, <1>2, <3>6
      <4> QED
        BY <3>3, <4>1 DEF Fresh, Ends
    <3> QED
      BY <3>7, <3>8
  <2>4. CASE Pair(s, i) = <<"/", "*">>
    <3>0. s[i] = "/" /\ At(s, i + 1) = "*"
      BY <2>4, PairIs
    <3>1. e = CommentEnd(s, i)
      BY <2>4, <1>7, <1>8 DEF Token
    <3>2. Mode(s)[i + 1] = "open"
      BY <2>0, <2>4 DEF Steps
    <3>3. i + 1 \in 1..n /\ (i + 1) + 1 = i + 2 /\ i + 2 \in 1..(n + 1)
      BY <1>1, <3>0 DEF At
    <3>4. Mode(s)[i + 2] = "block"
      <4>1. Steps(s, i + 1, Mode(s)[i + 1], Mode(s)[i + 2])
        BY <1>3, <3>3
      <4> QED
        BY <3>2, <4>1 DEF Steps
    <3>5. Closes(s, i, e)
      BY <3>1, CommentEndIs
    <3> HIDE DEF e
    <3>6. CASE e = n + 1 /\ \A j \in (i + 2)..n : Pair(s, j) # <<"*", "/">>
      <4>1. \A j \in (i + 2)..n : Mode(s)[j] = "block" => Mode(s)[j + 1] = "block"
        <5>1. \A j \in (i + 2)..n : j \in 1..n
          BY <1>1
        <5> QED
          BY <1>3, <3>6, <5>1 DEF Steps
      <4>2. \A j \in (i + 2)..(n + 1) : Mode(s)[j] = "block"
        <5>1. n + 1 \in (i + 2)..(n + 1) /\ (n + 1) - 1 = n
          BY <1>1, <3>3
        <5> QED
          BY <3>3, <3>4, <4>1, <5>1, StaysIn
      <4>3. \A j \in (i + 1)..n : j = i + 1 \/ j \in (i + 2)..(n + 1)
        BY <1>1
      <4>4. e - 1 = n
        BY <1>1, <3>6
      <4> QED
        BY <3>2, <3>6, <4>2, <4>3, <4>4 DEF Fresh, Covered
    <3>7. CASE /\ e - 2 \in (i + 2)..n /\ e - 1 <= n
               /\ Pair(s, e - 2) = <<"*", "/">>
               /\ \A j \in (i + 2)..(e - 3) : Pair(s, j) # <<"*", "/">>
      <4>0. e \in Nat /\ (e - 2) - 1 = e - 3 /\ (e - 2) + 1 = e - 1 /\ (e - 1) + 1 = e
        BY <1>1, <1>2
      <4>1. \A j \in (i + 2)..(e - 3) : Mode(s)[j] = "block" => Mode(s)[j + 1] = "block"
        <5>1. \A j \in (i + 2)..(e - 3) : j \in 1..n
          BY <1>1, <3>7, <4>0
        <5> QED
          BY <1>3, <3>7, <5>1 DEF Steps
      <4>2. \A j \in (i + 2)..(e - 2) : Mode(s)[j] = "block"
        <5>1. e - 2 \in (i + 2)..(n + 1)
          BY <1>1, <3>7, <4>0
        <5> QED
          BY <3>3, <3>4, <4>0, <4>1, <5>1, StaysIn
      <4>3. Mode(s)[e - 1] = "closing"
        <5>1. e - 2 \in 1..n /\ e - 2 \in (i + 2)..(e - 2)
          BY <1>1, <3>7, <4>0
        <5>2. Steps(s, e - 2, Mode(s)[e - 2], Mode(s)[e - 1])
          BY <1>3, <4>0, <5>1
        <5> QED
          BY <3>7, <4>2, <5>1, <5>2 DEF Steps
      <4>4. Mode(s)[e] = "code"
        <5>1. e - 1 \in 1..n
          BY <1>1, <3>7, <4>0
        <5>2. Steps(s, e - 1, Mode(s)[e - 1], Mode(s)[e])
          BY <1>3, <4>0, <5>1
        <5> QED
          BY <4>3, <5>2 DEF Steps
      <4>5. \A j \in (i + 1)..(e - 1) : j = i + 1 \/ j = e - 1 \/ j \in (i + 2)..(e - 2)
        BY <1>1, <4>0
      <4> QED
        BY <3>2, <4>2, <4>3, <4>4, <4>5 DEF Fresh, Covered
    <3> QED
      BY <3>5, <3>6, <3>7 DEF Closes
  <2>5. CASE /\ s[i] # "'" /\ s[i] # "\""
             /\ Pair(s, i) # <<"-", "-">> /\ Pair(s, i) # <<"/", "*">>
    <3>1. e = i + 1
      BY <1>7, <2>5 DEF Token
    <3>2. Mode(s)[i + 1] = "code"
      BY <2>0, <2>5 DEF Steps
    <3> QED
      BY <1>1, <3>1, <3>2 DEF Fresh, Covered
  <2> QED
    BY <2>1, <2>2, <2>3, <2>4, <2>5
<1> QED
  BY <1>4, <1>5, <1>6

-----------------------------------------------------------------------------
(* What marking placeholders leaves *)

\* Only a letter of code is marked, and only one that begins a placeholder.
Marks(s, M) ==
    /\ M \subseteq 1..Len(s)
    /\ \A i \in M : /\ s[i] \in {"$", ":"}
                    /\ At(s, i + 1) \in Digits
                    /\ Mode(s)[i] = "code"

PartsOf(s, M) ==
    [i \in DOMAIN s |-> IF InNumber(s, M, i) THEN <<>>
                        ELSE IF i \in M THEN <<"?">> ELSE <<s[i]>>]

LEMMA DigitsAre == Digits \cap {"$", ":", "?", "'", "-", "/", "*", "\"", NewLine, ""} = {}
  BY DEF Digits, NewLine

LEMMA OneLetter == ASSUME NEW S, NEW x \in S PROVE <<x>> \in Seq(S)
  OBVIOUS

LEMMA PartsAre ==
  ASSUME NEW s \in Text, NEW M
  PROVE  /\ PartsOf(s, M) \in Seq(Text) /\ Len(PartsOf(s, M)) = Len(s)
         /\ \A i \in 1..Len(s) : PartsOf(s, M)[i] = IF InNumber(s, M, i) THEN <<>>
                                                    ELSE IF i \in M THEN <<"?">> ELSE <<s[i]>>
<1> DEFINE n == Len(s)
           part(i) == IF InNumber(s, M, i) THEN <<>> ELSE IF i \in M THEN <<"?">> ELSE <<s[i]>>
<1>1. n \in Nat /\ DOMAIN s = 1..n /\ \A i \in 1..n : s[i] \in Alphabet
  BY DEF Text
<1>2. PartsOf(s, M) = [i \in 1..n |-> part(i)]
  BY <1>1 DEF PartsOf
<1>3. ASSUME NEW i \in 1..n PROVE part(i) \in Text
  <2>1. <<>> \in Text
    BY DEF Text
  <2>3. <<"?">> \in Text
    BY OneLetter DEF Text, Alphabet
  <2>2. <<s[i]>> \in Text
    BY <1>1, OneLetter DEF Text
  <2> QED
    BY <2>1, <2>2, <2>3
<1> HIDE DEF n, part
<1>4. [i \in 1..n |-> part(i)] \in Seq(Text) /\ Len([i \in 1..n |-> part(i)]) = n
  BY <1>1, <1>3
<1>5. \A i \in 1..n : PartsOf(s, M)[i] = part(i)
  BY <1>2
<1> QED
  BY <1>2, <1>4, <1>5 DEF n, part

\* Putting the parts together gives what Marked gives.
LEMMA MarkedIs ==
  ASSUME NEW s \in Text, NEW M
  PROVE  \E P : FirstParts(P, PartsOf(s, M), Alphabet) /\ Marked(s, M) = P[Len(s)]
<1> DEFINE e == PartsOf(s, M)
           z == Len(s)
           P == CHOOSE f : f = RunBody(e, z, f)
<1>1. Marked(s, M) = P[Len(s)]
  BY DEF Marked, PartsOf, RunBody
<1>2. e \in Seq(Seq(Alphabet)) /\ z = Len(e)
  BY PartsAre DEF Text
<1> HIDE DEF e, z
<1>3. FirstParts(P, e, Alphabet)
  BY <1>2, Running
<1> HIDE DEF P
<1> QED
  BY <1>1, <1>3 DEF e

\* A number goes on with the digit behind it, and begins behind its mark.
LEMMA InNumberIs ==
  ASSUME NEW s \in Text, NEW M \in SUBSET (1..Len(s)), NEW i \in 1..Len(s)
  PROVE  InNumber(s, M, i) <=>
            s[i] \in Digits /\ i # 1 /\ (i - 1 \in M \/ InNumber(s, M, i - 1))
<1>1. ASSUME InNumber(s, M, i)
      PROVE  s[i] \in Digits /\ i # 1 /\ (i - 1 \in M \/ InNumber(s, M, i - 1))
  <2>1. PICK p \in M : p < i /\ \A j \in (p + 1)..i : s[j] \in Digits
    BY <1>1 DEF InNumber
  <2>2. p \in 1..Len(s) /\ i \in (p + 1)..i /\ i # 1
    BY <2>1
  <2>3. CASE p = i - 1
    BY <2>1, <2>2, <2>3
  <2>4. CASE p # i - 1
    <3>1. p < i - 1 /\ \A j \in (p + 1)..(i - 1) : j \in (p + 1)..i
      BY <2>1, <2>2, <2>4
    <3>2. InNumber(s, M, i - 1)
      BY <2>1, <3>1 DEF InNumber
    <3> QED
      BY <2>1, <2>2, <3>2
  <2> QED
    BY <2>3, <2>4
<1>2. ASSUME s[i] \in Digits, i # 1, i - 1 \in M PROVE InNumber(s, M, i)
  <2>1. i - 1 < i /\ \A j \in ((i - 1) + 1)..i : j = i
    OBVIOUS
  <2> QED
    BY <1>2, <2>1 DEF InNumber
<1>3. ASSUME s[i] \in Digits, i # 1, InNumber(s, M, i - 1) PROVE InNumber(s, M, i)
  <2>1. PICK p \in M : p < i - 1 /\ \A j \in (p + 1)..(i - 1) : s[j] \in Digits
    BY <1>3 DEF InNumber
  <2>2. p \in 1..Len(s) /\ p < i
    BY <2>1
  <2>3. \A j \in (p + 1)..i : j = i \/ j \in (p + 1)..(i - 1)
    BY <2>2
  <2>4. \A j \in (p + 1)..i : s[j] \in Digits
    BY <1>3, <2>1, <2>3
  <2> QED
    BY <2>2, <2>4 DEF InNumber
<1> QED
  BY <1>1, <1>2, <1>3

\* A placeholder is all code, and so is the letter behind it.
LEMMA NumberIsCode ==
  ASSUME NEW s \in Text, NEW M, Marks(s, M), NEW i \in 1..Len(s)
  PROVE  i \in M \/ InNumber(s, M, i) => Mode(s)[i] = "code" /\ Mode(s)[i + 1] = "code"
<1> DEFINE n == Len(s)
           Plain(j) == s[j] # "'" /\ s[j] # "\"" /\ s[j] # "-" /\ s[j] # "/"
<1>1. ASSUME NEW j \in 1..n, Mode(s)[j] = "code", Plain(j) PROVE Mode(s)[j + 1] = "code"
  <2>0. s[j] # "-" /\ s[j] # "/"
    BY <1>1
  <2>3. (Pair(s, j) = <<"-", "-">> => s[j] = "-") /\ (Pair(s, j) = <<"/", "*">> => s[j] = "/")
    BY PairIs
  <2>1. Pair(s, j) # <<"-", "-">> /\ Pair(s, j) # <<"/", "*">>
    BY <2>0, <2>3
  <2>2. Steps(s, j, "code", Mode(s)[j + 1])
    BY <1>1, StepIs
  <2> QED
    BY <1>1, <2>1, <2>2 DEF Steps
<1>2. ASSUME NEW p \in M PROVE p \in 1..n /\ Mode(s)[p] = "code" /\ Mode(s)[p + 1] = "code"
  <2>1. p \in 1..n /\ s[p] \in {"$", ":"} /\ Mode(s)[p] = "code"
    BY <1>2 DEF Marks
  <2> QED
    BY <1>1, <2>1
<1>3. ASSUME InNumber(s, M, i) PROVE Mode(s)[i] = "code" /\ Mode(s)[i + 1] = "code"
  <2>1. PICK p \in M : p < i /\ \A j \in (p + 1)..i : s[j] \in Digits
    BY <1>3 DEF InNumber
  <2>2. p \in 1..n /\ Mode(s)[p + 1] = "code"
    BY <1>2
  <2>3. \A j \in (p + 1)..i : j \in 1..n /\ Plain(j)
    <3>1. ASSUME NEW j \in (p + 1)..i PROVE j \in 1..n /\ Plain(j)
      <4>1. j \in 1..n
        BY <2>2
      <4>2. s[j] \in Digits
        BY <2>1
      <4>3. Plain(j)
        BY <4>2 DEF Digits
      <4> QED
        BY <4>1, <4>3
    <3> HIDE DEF Plain
    <3> QED
      BY <3>1
  <2>4. \A j \in (p + 1)..((i + 1) - 1) : Mode(s)[j] = "code" => Mode(s)[j + 1] = "code"
    <3>1. (i + 1) - 1 = i
      OBVIOUS
    <3> HIDE DEF Plain
    <3> QED
      BY <1>1, <2>3, <3>1
  <2>5. p + 1 \in 1..(n + 1) /\ i + 1 \in (p + 1)..(n + 1) /\ i \in (p + 1)..(i + 1)
    BY <2>1, <2>2
  <2>6. \A j \in (p + 1)..(i + 1) : Mode(s)[j] = "code"
    BY <2>2, <2>4, <2>5, StaysIn
  <2> QED
    BY <2>5, <2>6
<1> QED
  BY <1>2, <1>3

-----------------------------------------------------------------------------
(* What the scanners leave *)

\* Where the loop goes on from i, and what it has written there.
NextToken(s, K, i) == IF i \in K THEN NumberEnd(s, i + 1) ELSE TokenEnd(s, i)
Output(s, K, i)    == IF i \in K THEN <<"?">> ELSE SubSeq(s, i, TokenEnd(s, i) - 1)

RewriteBody(s, K, f) ==
    [i \in 1..Beyond(s) |-> IF i = Beyond(s) THEN <<>>
                            ELSE IF i \in K THEN <<"?">> \o f[NumberEnd(s, i + 1)]
                            ELSE SubSeq(s, i, TokenEnd(s, i) - 1) \o f[TokenEnd(s, i)]]

LEMMA LoopGoesOn ==
  ASSUME NEW s \in Text, NEW K \in SUBSET (1..Len(s)), NEW i \in 1..Len(s)
  PROVE  NextToken(s, K, i) \in (i + 1)..(Len(s) + 1) /\ Output(s, K, i) \in Text
<1>1. i + 1 \in 1..(Len(s) + 1)
  OBVIOUS
<1>2. NumberEnd(s, i + 1) \in (i + 1)..(Len(s) + 1) /\ TokenEnd(s, i) \in (i + 1)..(Len(s) + 1)
  BY <1>1, NumberEndIs, TokenEndsLater
<1>3. <<"?">> \in Text
  BY OneLetter DEF Text, Alphabet
<1>4. SubSeq(s, i, TokenEnd(s, i) - 1) \in Text
  <2>1. ASSUME NEW e \in (i + 1)..(Len(s) + 1) PROVE SubSeq(s, i, e - 1) \in Seq(Alphabet)
    <3>1. s \in Seq(Alphabet) /\ i \in Nat /\ e - 1 \in 1..Len(s)
      BY DEF Text
    <3>2. \A j \in i..(e - 1) : s[j] \in Alphabet
      BY <3>1
    <3> QED
      BY <3>1, <3>2
  <2> QED
    BY <1>2, <2>1 DEF Text
<1> QED
  BY <1>2, <1>3, <1>4 DEF NextToken, Output

\* The loop comes to an end, wherever placeholders start.
LEMMA RewriteExists ==
  ASSUME NEW s \in Text, NEW K \in SUBSET (1..Len(s))
  PROVE  \E f : f = RewriteBody(s, K, f)
<1> DEFINE n == Len(s)
           next == [i \in 1..(n + 1) |-> IF i \in 1..n THEN NextToken(s, K, i) ELSE 0]
           step == [i \in 1..(n + 1) |-> [x \in Text |-> IF i \in 1..n THEN Output(s, K, i) \o x ELSE x]]
           base == [i \in 1..(n + 1) |-> <<>>]
<1>1. n \in Nat /\ n + 1 \in Nat /\ <<>> \in Text
  BY DEF Text
<1>2. \A i \in 1..n : NextToken(s, K, i) \in (i + 1)..(n + 1) /\ Output(s, K, i) \in Text
  BY LoopGoesOn
<1>3. next \in [1..(n + 1) -> Nat] /\ base \in [1..(n + 1) -> Text]
  <2> HIDE DEF n
  <2>1. \A i \in 1..(n + 1) : (IF i \in 1..n THEN NextToken(s, K, i) ELSE 0) \in Nat
    BY <1>1, <1>2
  <2> QED
    BY <1>1, <2>1
<1>4. step \in [1..(n + 1) -> [Text -> Text]]
  <2> HIDE DEF n
  <2>1. ASSUME NEW i \in 1..(n + 1), NEW x \in Text
        PROVE  (IF i \in 1..n THEN Output(s, K, i) \o x ELSE x) \in Text
    BY <1>2, Joined DEF Text
  <2> QED
    BY <2>1
<1>5. PICK f : Back(f, n + 1, Text, next, step, base)
  <2> HIDE DEF n, next, step, base
  <2> QED
    BY <1>1, <1>3, <1>4, Backwards
<1>6. /\ f \in [1..(n + 1) -> Text]
      /\ \A i \in 1..(n + 1) : f[i] = Behind(i, n + 1, next, step, base, f)
  <2> HIDE DEF n, next, step, base
  <2> QED
    BY <1>5 DEF Back
<1>7. ASSUME NEW i \in 1..(n + 1)
      PROVE  f[i] = IF i = n + 1 THEN <<>> ELSE Output(s, K, i) \o f[NextToken(s, K, i)]
  <2>1. f[i] = IF next[i] \in (i + 1)..(n + 1) THEN step[i][f[next[i]]] ELSE base[i]
    <3> HIDE DEF next, step, base
    <3> QED
      BY <1>6 DEF Behind
  <2>2. CASE i = n + 1
    <3>1. next[i] = 0 /\ base[i] = <<>>
      BY <1>1, <2>2
    <3> HIDE DEF next, step, base
    <3>2. next[i] \notin (i + 1)..(n + 1)
      BY <3>1
    <3> QED
      BY <2>1, <2>2, <3>1, <3>2
  <2>3. CASE i # n + 1
    <3>1. i \in 1..n /\ next[i] = NextToken(s, K, i)
      BY <1>1, <2>3
    <3>2. next[i] \in (i + 1)..(n + 1) /\ next[i] \in 1..(n + 1)
      BY <1>1, <1>2, <3>1
    <3>3. f[next[i]] \in Text
      BY <1>6, <3>2
    <3>4. \A x \in Text : step[i][x] = Output(s, K, i) \o x
      BY <3>1
    <3> HIDE DEF next, step, base
    <3> QED
      BY <2>1, <2>3, <3>1, <3>2, <3>3, <3>4
  <2> QED
    BY <2>2, <2>3
<1>8. f = RewriteBody(s, K, f)
  <2>1. f = [i \in 1..(n + 1) |-> f[i]]
    BY <1>6
  <2>2. \A i \in 1..(n + 1) : f[i] = IF i = n + 1 THEN <<>>
                                     ELSE IF i \in K THEN <<"?">> \o f[NumberEnd(s, i + 1)]
                                     ELSE SubSeq(s, i, TokenEnd(s, i) - 1) \o f[TokenEnd(s, i)]
    BY <1>7 DEF NextToken, Output
  <2> QED
    BY <2>1, <2>2 DEF RewriteBody, Beyond
<1> QED
  BY <1>8

\* Where no number goes on, none does at the end of the token that follows.
LEMMA NoNumberBehind ==
  ASSUME NEW s \in Text, NEW M \in SUBSET (1..Len(s)), NEW i \in 1..Len(s), NEW e \in (i + 1)..(Len(s) + 1),
         ~InNumber(s, M, i), \A j \in i..(e - 1) : j \notin M
  PROVE  \A j \in i..e : j <= Len(s) => ~InNumber(s, M, j)
<1> SUFFICES ASSUME NEW j \in i..e, j <= Len(s), InNumber(s, M, j) PROVE FALSE
  OBVIOUS
<1>1. PICK p \in M : p < j /\ \A k \in (p + 1)..j : s[k] \in Digits
  BY DEF InNumber
<1>2. p \in 1..Len(s) /\ p < i
  BY <1>1
<1>3. \A k \in (p + 1)..i : k \in (p + 1)..j
  BY <1>2
<1> QED
  BY <1>1, <1>2, <1>3 DEF InNumber

\* K: where the loop takes a letter for the start of a placeholder.
Opens(s, K) == \A i \in K : s[i] \in {"$", ":"} /\ At(s, i + 1) \in Digits

InCode(s, K) == {i \in K : Mode(s)[i] = "code"}

\* The loop replaces the placeholders that are code.
LEMMA LoopMarks ==
  ASSUME NEW s \in Text, NEW K \in SUBSET (1..Len(s)), Opens(s, K),
         NEW f, f = RewriteBody(s, K, f)
  PROVE  f[1] = Marked(s, InCode(s, K))
<1> DEFINE n == Len(s)
           M == InCode(s, K)
           e == PartsOf(s, M)
<1>0. n \in Nat
  BY DEF Text
<1>1. M \in SUBSET (1..Len(s))
  BY DEF InCode
<1>14. Marks(s, M)
  BY DEF InCode, Opens, Marks
<1>15. s \in Seq(Alphabet)
  BY DEF Text
<1>2. e \in Seq(Seq(Alphabet)) /\ Len(e) = n
  BY PartsAre DEF Text
<1>3. \A i \in 1..n : e[i] = IF InNumber(s, M, i) THEN <<>> ELSE IF i \in M THEN <<"?">> ELSE <<s[i]>>
  BY PartsAre
<1>4. PICK P : FirstParts(P, e, Alphabet) /\ Marked(s, M) = P[n]
  BY MarkedIs
<1>5. \A i \in 1..(n + 1) : f[i] = IF i = n + 1 THEN <<>> ELSE Output(s, K, i) \o f[NextToken(s, K, i)]
  BY DEF RewriteBody, Beyond, Output, NextToken
<1> DEFINE Begins(i) == Fresh(s, i) /\ (i <= n => ~InNumber(s, M, i))
           Rest(i) == Begins(i) => f[i] \in Seq(Alphabet) /\ P[i - 1] \o f[i] = P[n]
           T == {i \in 1..(n + 1) : Rest(i)}
<1>6. \A i \in 0..n : P[i] \in Seq(Alphabet)
  BY <1>2, <1>4 DEF FirstParts
<1>7. n + 1 \in T
  <2>1. f[n + 1] = <<>> /\ (n + 1) - 1 = n /\ P[n] \in Seq(Alphabet)
    BY <1>1, <1>5, <1>6
  <2>2. P[n] \o <<>> = P[n] /\ <<>> \in Seq(Alphabet)
    BY <2>1
  <2>3. n + 1 \in 1..(n + 1) /\ f[n + 1] \in Seq(Alphabet) /\ P[(n + 1) - 1] \o f[n + 1] = P[n]
    BY <1>0, <2>1, <2>2
  <2> HIDE DEF Begins
  <2> QED
    BY <2>3
<1>8. ASSUME NEW i \in 1..n, \A j \in (i + 1)..(n + 1) : j \in T PROVE i \in T
  <2>0. i \in 1..(n + 1) /\ i # n + 1
    BY <1>0
  <2> SUFFICES ASSUME Begins(i) PROVE f[i] \in Seq(Alphabet) /\ P[i - 1] \o f[i] = P[n]
    <3> HIDE DEF Begins
    <3> QED
      BY <2>0
  <2> DEFINE z == NextToken(s, K, i)
             w == Output(s, K, i)
  <2>1. z \in (i + 1)..(n + 1) /\ w \in Seq(Alphabet)
    BY LoopGoesOn DEF Text
  <2>2. f[i] = w \o f[z]
    BY <1>5, <2>0
  <2>3. Begins(z) /\ P[z - 1] = P[i - 1] \o w
    <3>0. /\ i - 1 \in 0..n /\ i \in 0..n /\ z - 1 \in 0..n /\ z - 1 \in i..n /\ z - 1 \in (i - 1)..n
          /\ (i - 1) + 1 = i /\ i <= n /\ ~InNumber(s, M, i) /\ Fresh(s, i) /\ i # n + 1
      BY <1>0, <2>1
    <3>1. CASE i \in K
      <4>1. z = NumberEnd(s, i + 1) /\ w = <<"?">> /\ i + 1 \in 1..(n + 1)
        BY <1>0, <3>1 DEF NextToken, Output
      <4>2. i \in M
        BY <3>0, <3>1 DEF Fresh, InCode, Opens, NewLine
      <4>3. (\A j \in (i + 1)..(z - 1) : s[j] \in Digits) /\ (z <= n => s[z] \notin Digits)
        BY <4>1, NumberEndIs
      <4>4. ASSUME NEW j \in (i + 1)..(z - 1) PROVE j \in 1..n /\ InNumber(s, M, j)
        <5>1. j \in 1..n /\ i < j /\ \A k \in (i + 1)..j : k \in (i + 1)..(z - 1)
          BY <2>1
        <5> QED
          BY <4>2, <4>3, <5>1 DEF InNumber
      <4>5. P[z - 1] = P[i]
        <5>1. AllEmpty(e, i, z - 1)
          BY <1>3, <4>4 DEF AllEmpty
        <5> HIDE DEF e, z, n
        <5> QED
          BY <1>2, <1>4, <3>0, <5>1, PartsOfNothing
      <4>6. P[i] = P[i - 1] \o <<"?">>
        <5>1. e[i] = <<"?">>
          BY <1>3, <3>0, <4>2
        <5> HIDE DEF e
        <5> QED
          BY <1>2, <1>4, <5>1 DEF FirstParts
      <4>7. z <= n => ~InNumber(s, M, z)
        <5>1. ASSUME z <= n PROVE ~InNumber(s, M, z)
          <6>1. z \in 1..n
            BY <2>1, <5>1
          <6>2. InNumber(s, M, z) => s[z] \in Digits
            BY <1>1, <6>1, InNumberIs
          <6> QED
            BY <4>3, <5>1, <6>2
        <5> QED
          BY <5>1
      <4>8. Fresh(s, z)
        <5>1. z - 1 \in 1..n /\ (z - 1) + 1 = z /\ (z - 1 = i \/ z - 1 \in (i + 1)..(z - 1))
          BY <2>1
        <5>2. z - 1 \in M \/ InNumber(s, M, z - 1)
          BY <4>2, <4>4, <5>1
        <5>3. Mode(s)[z] = "code"
          BY <1>14, <5>1, <5>2, NumberIsCode
        <5> QED
          BY <5>3 DEF Fresh
      <4> QED
        BY <4>1, <4>5, <4>6, <4>7, <4>8
    <3>2. CASE i \notin K
      <4>1. z = TokenEnd(s, i) /\ w = SubSeq(s, i, z - 1)
        BY <3>2 DEF NextToken, Output
      <4>2. Fresh(s, z) /\ Covered(s, i + 1, z)
        BY <3>0, <4>1, TokenIs
      <4>3. ASSUME NEW j \in i..(z - 1), j \in M PROVE FALSE
        <5>1. j \in K /\ Mode(s)[j] = "code" /\ s[j] # "'"
          BY <4>3 DEF InCode, Opens
        <5>2. j \in (i + 1)..(z - 1)
          BY <3>2, <5>1
        <5> QED
          BY <4>2, <5>1, <5>2 DEF Covered
      <4>4. \A j \in i..z : j <= n => ~InNumber(s, M, j)
        BY <1>1, <2>1, <3>0, <4>3, NoNumberBehind
      <4>5. Lettered(e, s, i - 1, z - 1)
        <5>1. ASSUME NEW j \in ((i - 1) + 1)..(z - 1) PROVE e[j] = <<s[j]>>
          <6>1. j \in i..z /\ j \in i..(z - 1) /\ j <= n /\ j \in 1..n
            BY <2>1
          <6> QED
            BY <1>3, <4>3, <4>4, <6>1
        <5> QED
          BY <5>1 DEF Lettered
      <4>6. P[z - 1] = P[i - 1] \o SubSeq(s, i, z - 1)
        <5>1. z - 1 <= Len(s)
          BY <2>1
        <5>2. e \in Seq(Seq(Alphabet)) /\ i - 1 \in 0..Len(e) /\ z - 1 \in (i - 1)..Len(e)
          BY <1>2, <3>0
        <5>4. FirstParts(P, e, Alphabet)
          BY <1>4
        <5>5. Lettered(e, s, i - 1, z - 1)
          BY <4>5
        <5> HIDE DEF e, z, n, M
        <5>3. P[z - 1] = P[i - 1] \o SubSeq(s, (i - 1) + 1, z - 1)
          <6>1. Grows(P, s, i - 1, z - 1)
            BY <1>15, <5>1, <5>2, <5>4, <5>5, PartsOfLetters
          <6> QED
            BY <6>1 DEF Grows
        <5> QED
          BY <3>0, <5>3
      <4>7. z <= n => ~InNumber(s, M, z)
        BY <2>1, <4>4
      <4> QED
        BY <4>1, <4>2, <4>6, <4>7
    <3> QED
      BY <3>1, <3>2
  <2>4. f[z] \in Seq(Alphabet) /\ P[z - 1] \o f[z] = P[n]
    <3>1. z \in T
      BY <1>8, <2>1
    <3> QED
      BY <2>3, <3>1
  <2> HIDE DEF z, w
  <2>5. w \o f[z] \in Seq(Alphabet)
    BY <2>1, <2>4, Joined
  <2>6. P[i - 1] \o (w \o f[z]) = (P[i - 1] \o w) \o f[z]
    <3>1. P[i - 1] \in Seq(Alphabet)
      BY <1>6
    <3>2. \A x \in Seq(Alphabet), y \in Seq(Alphabet), v \in Seq(Alphabet) : x \o (y \o v) = (x \o y) \o v
      OBVIOUS
    <3> QED
      BY <2>1, <2>4, <3>1, <3>2
  <2> QED
    BY <2>2, <2>3, <2>4, <2>5, <2>6
<1>9. 1 \in T
  <2> HIDE DEF T, n
  <2>1. n + 1 \in Nat /\ 1 \in 1..(n + 1)
    BY <1>0
  <2>2. \A i \in 1..(n + 1) : (\A j \in (i + 1)..(n + 1) : j \in T) => i \in T
    <3>1. \A i \in 1..(n + 1) : i = n + 1 \/ i \in 1..n
      BY <1>0
    <3> QED
      BY <1>7, <1>8, <3>1
  <2>3. \A i \in 1..(n + 1) : i \in T
    BY <2>1, <2>2, DownwardFromAll
  <2> QED
    BY <2>1, <2>3
<1>10. Begins(1)
  <2>1. Mode(s)[1] = "code"
    BY ModeIs DEF LexerReads
  <2>2. ASSUME 1 <= n PROVE ~InNumber(s, M, 1)
    <3>1. 1 \in 1..Len(s)
      BY <1>0, <2>2
    <3> QED
      BY <1>1, <3>1, InNumberIs
  <2> QED
    BY <2>1, <2>2 DEF Fresh
<1>11. f[1] \in Seq(Alphabet) /\ P[0] \o f[1] = P[n]
  <2>1. f[1] \in Seq(Alphabet) /\ P[1 - 1] \o f[1] = P[n]
    <3> HIDE DEF Begins
    <3> QED
      BY <1>9, <1>10
  <2>2. 1 - 1 = 0
    OBVIOUS
  <2> QED
    BY <2>1, <2>2
<1>12. P[0] = <<>>
  BY <1>4 DEF FirstParts
<1>13. <<>> \o f[1] = f[1]
  BY <1>11
<1> QED
  BY <1>4, <1>11, <1>12, <1>13

\* The placeholders of PostgreSQL and of Oracle.
Dollars(s) == {i \in 1..Len(s) : IsDollar(s, i) /\ Mode(s)[i] = "code"}
Colons(s)  == {i \in 1..Len(s) : IsColon(s, i) /\ Mode(s)[i] = "code"}

LEMMA PlaceholdersAre ==
  ASSUME NEW s \in Text, NEW family
  PROVE  /\ Dollars(s) \in SUBSET (1..Len(s)) /\ Colons(s) \in SUBSET (1..Len(s))
         /\ Marks(s, Dollars(s)) /\ Marks(s, Dollars(s) \cup Colons(s))
         /\ Placeholders(family, s) =
               IF family = "postgres" THEN Dollars(s) \cup Colons(s) ELSE Colons(s)
<1>1. DOMAIN s = 1..Len(s)
  BY DEF Text
<1>2. Placeholders(family, s) =
         IF family = "postgres" THEN Dollars(s) \cup Colons(s) ELSE Colons(s)
  BY <1>1 DEF Placeholders, Dollars, Colons, IsDollar, IsColon
<1>3. Marks(s, Dollars(s)) /\ Marks(s, Dollars(s) \cup Colons(s))
  BY DEF Marks, Dollars, Colons, IsDollar, IsColon
<1> QED
  BY <1>2, <1>3 DEF Dollars, Colons

\* Each scanner replaces the placeholders of its own syntax, and leaves the
\* rest of every text as it is.
LEMMA DollarsReplaced ==
  ASSUME NEW s \in Text PROVE rewriteDollarPlaceholders(s) = Marked(s, Dollars(s))
<1> DEFINE K == {i \in 1..Len(s) : IsDollar(s, i)}
           body(f) == [i \in 1..Beyond(s) |->
                          IF i = Beyond(s) THEN <<>>
                          ELSE IF IsDollar(s, i) THEN <<"?">> \o f[NumberEnd(s, i + 1)]
                          ELSE SubSeq(s, i, TokenEnd(s, i) - 1) \o f[TokenEnd(s, i)]]
           f == CHOOSE f : f = body(f)
<1>1. rewriteDollarPlaceholders(s) = f[1]
  BY DEF rewriteDollarPlaceholders, Rewrite
<1>2. ASSUME NEW g PROVE body(g) = RewriteBody(s, K, g)
  <2>1. \A i \in 1..Beyond(s) : i # Beyond(s) => i \in 1..Len(s)
    BY DEF Beyond, Text
  <2>2. \A i \in 1..Beyond(s) : i # Beyond(s) => (i \in K <=> IsDollar(s, i))
    BY <2>1
  <2> HIDE DEF K
  <2> QED
    BY <2>2 DEF RewriteBody
<1>3. K \in SUBSET (1..Len(s)) /\ Opens(s, K) /\ InCode(s, K) = Dollars(s)
  BY DEF Opens, InCode, Dollars, IsDollar
<1>4. \E g : g = RewriteBody(s, K, g)
  BY <1>3, RewriteExists
<1> HIDE DEF K, body
<1>5. f = body(f)
  BY <1>2, <1>4
<1> HIDE DEF f
<1>6. f = RewriteBody(s, K, f)
  BY <1>2, <1>5
<1>7. f[1] = Marked(s, InCode(s, K))
  BY <1>3, <1>6, LoopMarks
<1> QED
  BY <1>1, <1>3, <1>7

LEMMA ColonsReplaced ==
  ASSUME NEW s \in Text PROVE BindRewriter(s) = Marked(s, Colons(s))
<1> DEFINE K == {i \in 1..Len(s) : IsColon(s, i)}
           body(f) == [i \in 1..Beyond(s) |->
                          IF i = Beyond(s) THEN <<>>
                          ELSE IF IsColon(s, i) THEN <<"?">> \o f[NumberEnd(s, i + 1)]
                          ELSE SubSeq(s, i, TokenEnd(s, i) - 1) \o f[TokenEnd(s, i)]]
           f == CHOOSE f : f = body(f)
<1>1. BindRewriter(s) = f[1]
  BY DEF BindRewriter, Rewrite
<1>2. ASSUME NEW g PROVE body(g) = RewriteBody(s, K, g)
  <2>1. \A i \in 1..Beyond(s) : i # Beyond(s) => i \in 1..Len(s)
    BY DEF Beyond, Text
  <2>2. \A i \in 1..Beyond(s) : i # Beyond(s) => (i \in K <=> IsColon(s, i))
    BY <2>1
  <2> HIDE DEF K
  <2> QED
    BY <2>2 DEF RewriteBody
<1>3. K \in SUBSET (1..Len(s)) /\ Opens(s, K) /\ InCode(s, K) = Colons(s)
  BY DEF Opens, InCode, Colons, IsColon
<1>4. \E g : g = RewriteBody(s, K, g)
  BY <1>3, RewriteExists
<1> HIDE DEF K, body
<1>5. f = body(f)
  BY <1>2, <1>4
<1> HIDE DEF f
<1>6. f = RewriteBody(s, K, f)
  BY <1>2, <1>5
<1>7. f[1] = Marked(s, InCode(s, K))
  BY <1>3, <1>6, LoopMarks
<1> QED
  BY <1>1, <1>3, <1>7

-----------------------------------------------------------------------------
(* One scanner after the other *)

\* Letter i of s is part of a placeholder.
Taken(s, i) == i \in Dollars(s) \/ InNumber(s, Dollars(s), i)

\* t is s after the first scanner, and q[i] the letters of t that stand for the
\* first i letters of s.
After(s, t, q) ==
    /\ t \in Text
    /\ q \in [0..Len(s) -> Nat] /\ q[0] = 0 /\ q[Len(s)] = Len(t)
    /\ \A i \in 1..Len(s) :
          IF InNumber(s, Dollars(s), i) THEN q[i] = q[i - 1]
          ELSE /\ q[i] = q[i - 1] + 1 /\ q[i] \in 1..Len(t)
               /\ t[q[i]] = IF i \in Dollars(s) THEN "?" ELSE s[i]

LEMMA AfterIs == ASSUME NEW s \in Text PROVE \E q : After(s, Marked(s, Dollars(s)), q)
<1> DEFINE n == Len(s)
           M == Dollars(s)
           e == PartsOf(s, M)
           t == Marked(s, M)
<1>0. n \in Nat
  BY DEF Text
<1>1. e \in Seq(Seq(Alphabet)) /\ Len(e) = n
  BY PartsAre DEF Text
<1>2. \A i \in 1..n : e[i] = IF InNumber(s, M, i) THEN <<>> ELSE IF i \in M THEN <<"?">> ELSE <<s[i]>>
  BY PartsAre
<1>3. PICK P : FirstParts(P, e, Alphabet) /\ t = P[n]
  BY MarkedIs
<1> HIDE DEF e, t, M, n
<1>4. P \in [0..n -> Seq(Alphabet)] /\ P[0] = <<>>
  BY <1>1, <1>3 DEF FirstParts
<1> DEFINE q == [i \in 0..n |-> Len(P[i])]
<1>5. t \in Text /\ q \in [0..n -> Nat] /\ q[0] = 0 /\ q[n] = Len(t)
  <2>1. \A i \in 0..n : P[i] \in Seq(Alphabet) /\ Len(P[i]) \in Nat
    BY <1>4
  <2>2. n \in 0..n /\ 0 \in 0..n /\ Len(<<>>) = 0
    BY <1>0
  <2> QED
    BY <1>3, <1>4, <2>1, <2>2 DEF Text
<1>6. ASSUME NEW i \in 1..n
      PROVE  IF InNumber(s, M, i) THEN q[i] = q[i - 1]
             ELSE /\ q[i] = q[i - 1] + 1 /\ q[i] \in 1..Len(t)
                  /\ t[q[i]] = IF i \in M THEN "?" ELSE s[i]
  <2>1. i \in 0..n /\ i - 1 \in 0..n
    BY <1>0
  <2>2. q[i] = Len(P[i]) /\ q[i - 1] = Len(P[i - 1]) /\ q[i] \in Nat /\ q[i - 1] \in Nat
    BY <1>5, <2>1
  <2>3. PartStands(P, e, i)
    BY <1>1, <1>3, PartInWhole
  <2>4. Len(P[i]) = Len(P[i - 1]) + Len(e[i]) /\ Stands(e[i], t, Len(P[i - 1]))
    BY <1>1, <1>3, <2>3 DEF PartStands
  <2> HIDE DEF q
  <2>5. CASE InNumber(s, M, i)
    <3>0. e[i] = <<>>
      BY <1>2, <2>5
    <3>1. Len(e[i]) = 0
      BY <3>0
    <3> QED
      BY <2>2, <2>4, <2>5, <3>1
  <2>6. CASE ~InNumber(s, M, i)
    <3> DEFINE x == IF i \in M THEN "?" ELSE s[i]
    <3>0. e[i] = <<x>>
      BY <1>2, <2>6
    <3> HIDE DEF x
    <3>5. Len(e[i]) = 1 /\ e[i][1] = x
      BY <3>0
    <3>1. Len(e[i]) = 1 /\ e[i][1] = IF i \in M THEN "?" ELSE s[i]
      BY <3>5 DEF x
    <3>2. q[i - 1] + 1 <= Len(t) /\ t[q[i - 1] + 1] = e[i][1]
      <4>1. 1 \in 1..Len(e[i])
        BY <3>1
      <4> QED
        BY <2>2, <2>4, <3>1, <4>1 DEF Stands
    <3>3. q[i] = q[i - 1] + 1
      BY <2>2, <2>4, <3>1
    <3>4. Len(t) \in Nat
      BY <1>5 DEF Text
    <3> QED
      BY <2>2, <2>6, <3>1, <3>2, <3>3, <3>4
  <2> QED
    BY <2>5, <2>6
<1> HIDE DEF q
<1>7. After(s, t, q)
  BY <1>5, <1>6 DEF After, M, n
<1> QED
  BY <1>7 DEF t, M

\* What stands for letter i.
Kept(s, t, q, i) ==
    /\ q[i] \in 1..Len(t)
    /\ t[q[i]] = IF Taken(s, i) THEN "?" ELSE s[i]

LEMMA KeptIs ==
  ASSUME NEW s \in Text, NEW t, NEW q, After(s, t, q), NEW i \in 1..Len(s)
  PROVE  Kept(s, t, q, i)
<1> DEFINE n == Len(s)
           M == Dollars(s)
           T == {j \in 0..n : j = 0 \/ Kept(s, t, q, j)}
<1>0. n \in Nat
  BY DEF Text
<1>1. M \in SUBSET (1..Len(s))
  BY PlaceholdersAre
<1>2. ASSUME NEW j \in 1..n, j - 1 \in T PROVE j \in T
  <2>1. IF InNumber(s, M, j) THEN q[j] = q[j - 1]
        ELSE q[j] \in 1..Len(t) /\ t[q[j]] = IF j \in M THEN "?" ELSE s[j]
    BY DEF After
  <2>2. CASE InNumber(s, M, j)
    <3>1. j # 1 /\ Taken(s, j - 1)
      BY <1>1, <2>2, InNumberIs DEF Taken
    <3>2. Kept(s, t, q, j - 1) /\ Taken(s, j)
      BY <1>2, <2>2, <3>1 DEF Taken
    <3>3. Kept(s, t, q, j)
      BY <2>1, <2>2, <3>1, <3>2 DEF Kept
    <3> QED
      BY <1>0, <3>3
  <2>3. CASE ~InNumber(s, M, j)
    <3>1. Taken(s, j) <=> j \in M
      BY <2>3 DEF Taken
    <3>2. Kept(s, t, q, j)
      BY <2>1, <2>3, <3>1 DEF Kept
    <3> QED
      BY <1>0, <3>2
  <2> QED
    BY <2>2, <2>3
<1>3. i \in T
  <2>1. 0 \in T /\ i \in 0..n
    BY <1>0
  <2> HIDE DEF T, n
  <2>2. \A j \in 1..n : j - 1 \in T => j \in T
    BY <1>2
  <2>3. \A j \in 0..n : j \in T
    BY <1>0, <2>1, <2>2, Upward
  <2> QED
    BY <2>1, <2>3
<1> QED
  BY <1>3

\* Behind a letter that is no part of a placeholder stands what stood there,
\* or the mark of the next placeholder.
LEMMA NextIsKept ==
  ASSUME NEW s \in Text, NEW t, NEW q, After(s, t, q), NEW i \in 1..Len(s), ~Taken(s, i)
  PROVE  At(t, q[i] + 1) = IF i + 1 \in Dollars(s) THEN "?" ELSE At(s, i + 1)
<1> DEFINE n == Len(s)
           M == Dollars(s)
<1>0. n \in Nat /\ t \in Text /\ Len(t) \in Nat
  BY DEF Text, After
<1>1. M \in SUBSET (1..Len(s))
  BY PlaceholdersAre
<1>2. CASE i = n
  <2>0. i + 1 \notin 1..Len(s)
    BY <1>0, <1>2
  <2>1. i + 1 \notin M /\ At(s, i + 1) = ""
    BY <1>1, <2>0 DEF At
  <2>2. q[i] = Len(t)
    BY <1>2 DEF After
  <2>4. Len(t) + 1 \notin 1..Len(t)
    BY <1>0
  <2>3. At(t, q[i] + 1) = ""
    BY <2>2, <2>4 DEF At
  <2> QED
    BY <2>1, <2>3
<1>3. CASE i # n
  <2>1. i + 1 \in 1..n /\ (i + 1) - 1 = i
    BY <1>0, <1>3
  <2>2. ~InNumber(s, M, i + 1)
    <3>1. InNumber(s, M, i + 1) => (i + 1) - 1 \in M \/ InNumber(s, M, (i + 1) - 1)
      BY <1>1, <2>1, InNumberIs
    <3> QED
      BY <2>1, <3>1 DEF Taken
  <2>3. q[i + 1] = q[i] + 1 /\ q[i + 1] \in 1..Len(t) /\ t[q[i + 1]] = IF i + 1 \in M THEN "?" ELSE s[i + 1]
    BY <2>1, <2>2 DEF After
  <2> QED
    BY <2>1, <2>3 DEF At
<1> QED
  BY <1>2, <1>3

\* The lexer reads such a letter as it did.
LEMMA LetterIsKept ==
  ASSUME NEW s \in Text, NEW t, NEW q, After(s, t, q), NEW i \in 1..Len(s), ~Taken(s, i)
  PROVE  Letter(t, q[i]) = Letter(s, i)
<1> DEFINE x == q[i]
<1>1. t \in Text /\ x \in 1..Len(t) /\ t[x] = s[i]
  <2>1. t \in Text
    BY DEF After
  <2>2. Kept(s, t, q, i)
    BY KeptIs
  <2> QED
    BY <2>1, <2>2 DEF Kept
<1>2. At(t, x + 1) = At(s, i + 1) \/ (At(t, x + 1) = "?" /\ At(s, i + 1) = "$")
  <2>1. i + 1 \in Dollars(s) => At(s, i + 1) = "$"
    BY DEF Dollars, IsDollar, At
  <2> QED
    BY <2>1, NextIsKept
<1> HIDE DEF x
<1>3. /\ (Pair(t, x) = <<"-", "-">>) <=> (Pair(s, i) = <<"-", "-">>)
      /\ (Pair(t, x) = <<"/", "*">>) <=> (Pair(s, i) = <<"/", "*">>)
      /\ (Pair(t, x) = <<"*", "/">>) <=> (Pair(s, i) = <<"*", "/">>)
  <2>1. /\ (Pair(t, x) = <<"-", "-">>) <=> (t[x] = "-" /\ At(t, x + 1) = "-")
        /\ (Pair(t, x) = <<"/", "*">>) <=> (t[x] = "/" /\ At(t, x + 1) = "*")
        /\ (Pair(t, x) = <<"*", "/">>) <=> (t[x] = "*" /\ At(t, x + 1) = "/")
    BY <1>1, PairsAre DEF Pairs
  <2>2. /\ (Pair(s, i) = <<"-", "-">>) <=> (s[i] = "-" /\ At(s, i + 1) = "-")
        /\ (Pair(s, i) = <<"/", "*">>) <=> (s[i] = "/" /\ At(s, i + 1) = "*")
        /\ (Pair(s, i) = <<"*", "/">>) <=> (s[i] = "*" /\ At(s, i + 1) = "/")
    BY PairIs
  <2> QED
    BY <1>1, <1>2, <2>1, <2>2
<1>4. Letter(t, x) = Letter(s, i)
  BY <1>1, <1>3 DEF Letter
<1> QED
  BY <1>4 DEF x

\* So behind letter i and behind what stands for it the lexer is in one mode.
LEMMA ModeIsKept ==
  ASSUME NEW s \in Text, NEW t, NEW q, After(s, t, q), NEW i \in 0..Len(s)
  PROVE  Mode(t)[q[i] + 1] = Mode(s)[i + 1]
<1> DEFINE n == Len(s)
           M == Dollars(s)
           T == {j \in 0..n : Mode(t)[q[j] + 1] = Mode(s)[j + 1]}
<1>0. n \in Nat /\ t \in Text /\ Len(t) \in Nat
  BY DEF Text, After
<1>1. Marks(s, M)
  BY PlaceholdersAre
<1>2. 0 \in T
  <2>1. q[0] = 0 /\ 0 + 1 = 1
    BY DEF After
  <2>2. Mode(t)[1] = "code" /\ Mode(s)[1] = "code"
    BY <1>0, ModeIs DEF LexerReads
  <2> QED
    BY <1>0, <2>1, <2>2
<1>3. ASSUME NEW j \in 1..n, j - 1 \in T PROVE j \in T
  <2>0. Mode(t)[q[j - 1] + 1] = Mode(s)[j] /\ j \in 0..n /\ q[j - 1] \in Nat
    <3>1. (j - 1) + 1 = j /\ j \in 0..n /\ j - 1 \in 0..n
      BY <1>0
    <3> QED
      BY <1>3, <3>1 DEF After
  <2>1. Mode(t)[q[j] + 1] = Mode(s)[j + 1]
    <3>1. CASE InNumber(s, M, j)
      <4>1. Mode(s)[j] = "code" /\ Mode(s)[j + 1] = "code" /\ q[j] = q[j - 1]
        BY <1>1, <3>1, NumberIsCode DEF After
      <4> QED
        BY <2>0, <4>1
    <3>2. CASE ~InNumber(s, M, j)
      <4>1. q[j] = q[j - 1] + 1 /\ q[j] \in 1..Len(t)
        BY <3>2 DEF After
      <4>2. Mode(t)[q[j]] = Mode(s)[j]
        BY <2>0, <4>1
      <4>3. CASE j \in M
        <5>1. Mode(s)[j] = "code" /\ Mode(s)[j + 1] = "code"
          BY <1>1, <4>3, NumberIsCode
        <5>2. t[q[j]] = "?"
          BY <3>2, <4>3 DEF After
        <5>3. Pair(t, q[j]) # <<"-", "-">> /\ Pair(t, q[j]) # <<"/", "*">>
          <6>1. /\ Pair(t, q[j]) = <<"-", "-">> => t[q[j]] = "-"
                /\ Pair(t, q[j]) = <<"/", "*">> => t[q[j]] = "/"
            BY <1>0, <4>1, PairsAre DEF Pairs
          <6> QED
            BY <5>2, <6>1
        <5>4. Steps(t, q[j], "code", Mode(t)[q[j] + 1])
          <6>1. Steps(t, q[j], Mode(t)[q[j]], Mode(t)[q[j] + 1])
            BY <1>0, <4>1, StepIs
          <6> QED
            BY <4>2, <5>1, <6>1
        <5>5. Mode(t)[q[j] + 1] = "code"
          BY <5>2, <5>3, <5>4 DEF Steps
        <5> QED
          BY <5>1, <5>5
      <4>4. CASE j \notin M
        <5>1. ~Taken(s, j)
          BY <3>2, <4>4 DEF Taken
        <5>2. Letter(t, q[j]) = Letter(s, j)
          BY <5>1, LetterIsKept
        <5>3. Mode(t)[q[j] + 1] = Then[Mode(t)[q[j]]][Letter(t, q[j])]
          BY <1>0, <4>1, ModeIs DEF LexerReads
        <5>4. Mode(s)[j + 1] = Then[Mode(s)[j]][Letter(s, j)]
          BY ModeIs DEF LexerReads
        <5> QED
          BY <4>2, <5>2, <5>3, <5>4
      <4> QED
        BY <4>3, <4>4
    <3> QED
      BY <3>1, <3>2
  <2> QED
    BY <2>0, <2>1
<1>4. i \in T
  <2> HIDE DEF T
  <2>1. \A j \in 1..n : j - 1 \in T => j \in T
    BY <1>3
  <2>2. \A j \in 0..n : j \in T
    BY <1>0, <1>2, <2>1, Upward
  <2> QED
    BY <2>2
<1> QED
  BY <1>4

\* Where t has a letter of its own, the one before it and the lexer's mode.
LEMMA OwnLetter ==
  ASSUME NEW s \in Text, NEW t, NEW q, After(s, t, q), NEW i \in 1..Len(s),
         ~InNumber(s, Dollars(s), i)
  PROVE  /\ q[i] \in 1..Len(t) /\ q[i] - 1 = q[i - 1]
         /\ Mode(t)[q[i]] = Mode(s)[i]
<1>1. i - 1 \in 0..Len(s) /\ (i - 1) + 1 = i
  BY DEF Text
<1>2. q[i] = q[i - 1] + 1 /\ q[i] \in 1..Len(t) /\ q[i - 1] \in Nat
  BY <1>1 DEF After
<1>3. Mode(t)[q[i - 1] + 1] = Mode(s)[(i - 1) + 1]
  BY <1>1, ModeIsKept
<1> QED
  BY <1>1, <1>2, <1>3

\* The second scanner's placeholders are where they were.
LEMMA ColonIsKept ==
  ASSUME NEW s \in Text, NEW t, NEW q, After(s, t, q), NEW i \in 1..Len(s), ~Taken(s, i)
  PROVE  q[i] \in Colons(t) <=> i \in Colons(s)
<1> DEFINE x == q[i]
<1>1. t \in Text /\ ~InNumber(s, Dollars(s), i)
  BY DEF After, Taken
<1>2. x \in 1..Len(t) /\ x - 1 = q[i - 1] /\ Mode(t)[x] = Mode(s)[i]
  BY <1>1, OwnLetter
<1>3. t[x] = s[i]
  BY KeptIs DEF Kept
<1>4. At(t, x + 1) \in Digits <=> At(s, i + 1) \in Digits
  <2>1. i + 1 \in Dollars(s) => At(s, i + 1) = "$"
    BY DEF Dollars, IsDollar, At
  <2>2. At(t, x + 1) = IF i + 1 \in Dollars(s) THEN "?" ELSE At(s, i + 1)
    BY NextIsKept
  <2>3. "?" \notin Digits /\ "$" \notin Digits
    BY DEF Digits
  <2> QED
    BY <2>1, <2>2, <2>3
<1>5. At(t, x - 1) = ":" <=> At(s, i - 1) = ":"
  <2>1. CASE i = 1
    <3>1. x - 1 = 0 /\ i - 1 = 0
      BY <1>2, <2>1 DEF After
    <3>2. At(t, 0) = "" /\ At(s, 0) = ""
      BY DEF At
    <3> QED
      BY <2>1, <3>1, <3>2
  <2>2. CASE i # 1
    <3>1. i - 1 \in 1..Len(s)
      BY <2>2 DEF Text
    <3>2. q[i - 1] \in 1..Len(t) /\ t[q[i - 1]] = IF Taken(s, i - 1) THEN "?" ELSE s[i - 1]
      BY <3>1, KeptIs DEF Kept
    <3>3. Taken(s, i - 1) => s[i - 1] # ":"
      <4>1. i - 1 \in Dollars(s) => s[i - 1] = "$"
        BY DEF Dollars, IsDollar
      <4>2. InNumber(s, Dollars(s), i - 1) => s[i - 1] \in Digits
        BY <3>1, PlaceholdersAre, InNumberIs
      <4> QED
        BY <4>1, <4>2 DEF Taken, Digits
    <3>4. At(t, x - 1) = t[q[i - 1]] /\ At(s, i - 1) = s[i - 1]
      BY <1>2, <3>1, <3>2 DEF At
    <3> QED
      BY <3>2, <3>3, <3>4
  <2> QED
    BY <2>1, <2>2
<1> HIDE DEF x
<1>6. x \in Colons(t) <=> i \in Colons(s)
  BY <1>2, <1>3, <1>4, <1>5 DEF Colons, IsColon
<1> QED
  BY <1>6 DEF x

\* And so are their numbers.
LEMMA NumberIsKept ==
  ASSUME NEW s \in Text, NEW t, NEW q, After(s, t, q), NEW i \in 1..Len(s),
         ~InNumber(s, Dollars(s), i)
  PROVE  InNumber(t, Colons(t), q[i]) <=> InNumber(s, Dollars(s) \cup Colons(s), i)
<1> DEFINE n == Len(s)
           M == Dollars(s)
           B == Dollars(s) \cup Colons(s)
           T == {j \in 0..n : \/ j = 0 \/ InNumber(s, M, j)
                              \/ (InNumber(t, Colons(t), q[j]) <=> InNumber(s, B, j))}
<1>0. n \in Nat /\ t \in Text
  BY DEF Text, After
<1>1. M \in SUBSET (1..Len(s)) /\ B \in SUBSET (1..Len(s)) /\ Colons(t) \in SUBSET (1..Len(t))
  BY <1>0, PlaceholdersAre
<1>2. ASSUME NEW j \in 1..n, j - 1 \in T PROVE j \in T
  <2> DEFINE x == q[j]
  <2> SUFFICES ASSUME ~InNumber(s, M, j) PROVE InNumber(t, Colons(t), x) <=> InNumber(s, B, j)
    BY <1>0
  <2>1. x \in 1..Len(t) /\ x - 1 = q[j - 1]
    BY OwnLetter
  <2>2. InNumber(t, Colons(t), x) <=>
           t[x] \in Digits /\ x # 1 /\ (x - 1 \in Colons(t) \/ InNumber(t, Colons(t), x - 1))
    BY <1>0, <1>1, <2>1, InNumberIs
  <2>3. InNumber(s, B, j) <=> s[j] \in Digits /\ j # 1 /\ (j - 1 \in B \/ InNumber(s, B, j - 1))
    BY <1>1, InNumberIs
  <2>4. InNumber(s, M, j) <=> s[j] \in Digits /\ j # 1 /\ (j - 1 \in M \/ InNumber(s, M, j - 1))
    BY <1>1, InNumberIs
  <2>5. t[x] \in Digits <=> s[j] \in Digits
    <3>1. t[x] = IF j \in M THEN "?" ELSE s[j]
      BY DEF After
    <3>2. j \in M => s[j] = "$"
      BY DEF Dollars, IsDollar
    <3> QED
      BY <3>1, <3>2 DEF Digits
  <2>6. CASE s[j] \notin Digits
    BY <2>2, <2>3, <2>5, <2>6
  <2>7. CASE j = 1
    <3>1. x = 1
      BY <2>1, <2>7 DEF After
    <3> QED
      BY <2>2, <2>3, <2>7, <3>1
  <2>8. CASE s[j] \in Digits /\ j # 1
    <3>1. ~Taken(s, j - 1) /\ ~InNumber(s, M, j - 1) /\ j - 1 \notin M
      BY <2>4, <2>8 DEF Taken
    <3>2. j - 1 \in 1..Len(s)
      BY <1>0, <2>8
    <3>3. q[j - 1] \in 1..Len(t)
      BY <3>2, KeptIs DEF Kept
    <3>4. q[j - 1] \in Colons(t) <=> j - 1 \in B
      BY <3>1, <3>2, ColonIsKept
    <3>5. InNumber(t, Colons(t), q[j - 1]) <=> InNumber(s, B, j - 1)
      BY <1>2, <3>1, <3>2
    <3>6. x # 1
      BY <2>1, <3>3
    <3> QED
      BY <2>1, <2>2, <2>3, <2>5, <2>8, <3>4, <3>5, <3>6
  <2> QED
    BY <2>6, <2>7, <2>8
<1>3. i \in T
  <2>1. 0 \in T /\ i \in 0..n
    BY <1>0
  <2> HIDE DEF T, n
  <2>2. \A j \in 1..n : j - 1 \in T => j \in T
    BY <1>2
  <2>3. \A j \in 0..n : j \in T
    BY <1>0, <2>1, <2>2, Upward
  <2> QED
    BY <2>1, <2>3
<1> QED
  BY <1>3

\* One scanner after the other replaces the placeholders of both.
LEMMA BothReplaced ==
  ASSUME NEW s \in Text, NEW t, NEW q, After(s, t, q)
  PROVE  Marked(t, Colons(t)) = Marked(s, Dollars(s) \cup Colons(s))
<1> DEFINE n == Len(s)
           M == Dollars(s)
           B == Dollars(s) \cup Colons(s)
           C == Colons(t)
           d == PartsOf(t, C)
           g == PartsOf(s, B)
<1>0. n \in Nat /\ t \in Text
  BY DEF Text, After
<1>1. /\ d \in Seq(Seq(Alphabet)) /\ Len(d) = Len(t)
      /\ \A x \in 1..Len(t) : d[x] = IF InNumber(t, C, x) THEN <<>> ELSE IF x \in C THEN <<"?">> ELSE <<t[x]>>
  BY <1>0, PartsAre DEF Text
<1>2. /\ g \in Seq(Seq(Alphabet)) /\ Len(g) = n
      /\ \A i \in 1..n : g[i] = IF InNumber(s, B, i) THEN <<>> ELSE IF i \in B THEN <<"?">> ELSE <<s[i]>>
  BY PartsAre DEF Text
<1>3. PICK R : FirstParts(R, d, Alphabet) /\ Marked(t, C) = R[Len(t)]
  BY <1>0, MarkedIs
<1>4. PICK Q : FirstParts(Q, g, Alphabet) /\ Marked(s, B) = Q[n]
  BY MarkedIs
<1>5. R[0] = <<>> /\ \A x \in 1..Len(t) : R[x] = R[x - 1] \o d[x]
  BY <1>1, <1>3 DEF FirstParts
<1>6. Q[0] = <<>> /\ Q \in [0..n -> Seq(Alphabet)] /\ \A i \in 1..n : Q[i] = Q[i - 1] \o g[i]
  BY <1>2, <1>4 DEF FirstParts
<1> DEFINE T == {j \in 0..n : R[q[j]] = Q[j]}
<1>7. 0 \in T
  BY <1>0, <1>5, <1>6 DEF After
<1>8. ASSUME NEW i \in 1..n, i - 1 \in T PROVE i \in T
  <2>0. R[q[i - 1]] = Q[i - 1] /\ i \in 0..n /\ i - 1 \in 0..n
    BY <1>0, <1>8
  <2>1. CASE InNumber(s, M, i)
    <3>1. q[i] = q[i - 1]
      BY <2>1 DEF After
    <3>2. InNumber(s, B, i)
      BY <2>1 DEF InNumber
    <3>3. g[i] = <<>>
      BY <1>2, <3>2
    <3>4. Q[i - 1] \in Seq(Alphabet)
      BY <1>6, <2>0
    <3>5. Q[i] = Q[i - 1]
      <4> HIDE DEF g
      <4>1. Q[i] = Q[i - 1] \o <<>>
        BY <1>6, <3>3
      <4> QED
        BY <3>4, <4>1
    <3> QED
      BY <2>0, <3>1, <3>5
  <2>2. CASE ~InNumber(s, M, i)
    <3> DEFINE x == q[i]
    <3>1. x \in 1..Len(t) /\ x - 1 = q[i - 1]
      BY <2>2, OwnLetter
    <3>2. InNumber(t, C, x) <=> InNumber(s, B, i)
      BY <2>2, NumberIsKept
    <3>3. t[x] = IF i \in M THEN "?" ELSE s[i]
      BY <2>2 DEF After
    <3>4. d[x] = g[i]
      <4> HIDE DEF d, g, x
      <4>1. d[x] = IF InNumber(t, C, x) THEN <<>> ELSE IF x \in C THEN <<"?">> ELSE <<t[x]>>
        BY <1>1, <3>1
      <4>2. g[i] = IF InNumber(s, B, i) THEN <<>> ELSE IF i \in B THEN <<"?">> ELSE <<s[i]>>
        BY <1>2
      <4>3. CASE i \in M
        <5>1. t[x] = "?" /\ i \in B
          BY <3>3, <4>3
        <5>2. <<t[x]>> = <<"?">>
          BY <5>1
        <5> QED
          BY <3>2, <4>1, <4>2, <5>1, <5>2
      <4>4. CASE i \notin M
        <5>1. ~Taken(s, i)
          BY <2>2, <4>4 DEF Taken
        <5>2. x \in C <=> i \in B
          BY <4>4, <5>1, ColonIsKept DEF x
        <5>3. <<t[x]>> = <<s[i]>>
          BY <3>3, <4>4
        <5> QED
          BY <3>2, <4>1, <4>2, <5>2, <5>3
      <4> QED
        BY <4>3, <4>4
    <3> HIDE DEF x, d, g
    <3>5. R[x] = R[q[i - 1]] \o d[x] /\ Q[i] = Q[i - 1] \o g[i]
      BY <1>5, <1>6, <3>1
    <3>6. R[x] = Q[i]
      BY <2>0, <3>4, <3>5
    <3> QED
      BY <2>0, <3>6 DEF x
  <2> QED
    BY <2>1, <2>2
<1>9. n \in T
  <2>1. n \in 0..n
    BY <1>0
  <2> HIDE DEF T, n
  <2>2. \A j \in 1..n : j - 1 \in T => j \in T
    BY <1>8
  <2>3. \A j \in 0..n : j \in T
    BY <1>0, <1>7, <2>2, Upward
  <2> QED
    BY <2>1, <2>3
<1>10. q[n] = Len(t)
  BY DEF After
<1> QED
  BY <1>3, <1>4, <1>9, <1>10

\* No placeholder of the first scanner's is left.
LEMMA NoDollarLeft ==
  ASSUME NEW s \in Text, NEW t, NEW q, After(s, t, q) PROVE Dollars(t) = {}
<1> DEFINE n == Len(s)
           M == Dollars(s)
           T == {j \in 0..n : \A x \in 1..q[j] : \E k \in 1..j : ~InNumber(s, M, k) /\ q[k] = x}
<1>0. n \in Nat /\ t \in Text /\ q[0] = 0 /\ q[n] = Len(t) /\ \A j \in 0..n : q[j] \in Nat
  BY DEF Text, After
<1>1. 0 \in T
  BY <1>0
<1>2. ASSUME NEW j \in 1..n, j - 1 \in T PROVE j \in T
  <2>0. j \in 0..n /\ j - 1 \in 0..n /\ \A k \in 1..(j - 1) : k \in 1..j
    BY <1>0
  <2>1. ASSUME NEW x \in 1..q[j - 1] PROVE \E k \in 1..j : ~InNumber(s, M, k) /\ q[k] = x
    BY <1>2, <2>0, <2>1
  <2>2. CASE InNumber(s, M, j)
    <3>1. q[j] = q[j - 1]
      BY <2>2 DEF After
    <3> QED
      BY <2>0, <2>1, <3>1
  <2>3. CASE ~InNumber(s, M, j)
    <3>1. q[j] = q[j - 1] + 1
      BY <2>3 DEF After
    <3>2. \A x \in 1..q[j] : x = q[j] \/ x \in 1..q[j - 1]
      BY <1>0, <2>0, <3>1
    <3>3. j \in 1..j
      BY <1>0
    <3> QED
      BY <2>0, <2>1, <2>3, <3>2, <3>3
  <2> QED
    BY <2>2, <2>3
<1>3. \A x \in 1..Len(t) : \E k \in 1..n : ~InNumber(s, M, k) /\ q[k] = x
  <2>1. n \in 0..n
    BY <1>0
  <2>2. n \in T
    <3> HIDE DEF T, n
    <3>1. \A j \in 1..n : j - 1 \in T => j \in T
      BY <1>2
    <3>2. \A j \in 0..n : j \in T
      BY <1>0, <1>1, <3>1, Upward
    <3> QED
      BY <2>1, <3>2
  <2> QED
    BY <1>0, <2>2
<1>4. ASSUME NEW x \in Dollars(t) PROVE FALSE
  <2>1. x \in 1..Len(t) /\ t[x] = "$" /\ At(t, x + 1) \in Digits /\ Mode(t)[x] = "code"
    BY <1>4 DEF Dollars, IsDollar
  <2>2. PICK k \in 1..n : ~InNumber(s, M, k) /\ q[k] = x
    BY <1>3, <2>1
  <2>3. t[x] = IF k \in M THEN "?" ELSE s[k]
    BY <2>2 DEF After
  <2>4. k \notin M /\ s[k] = "$" /\ ~Taken(s, k)
    BY <2>1, <2>2, <2>3 DEF Taken
  <2>5. Mode(s)[k] = "code"
    BY <2>1, <2>2, OwnLetter
  <2>6. At(s, k + 1) \in Digits
    <3>1. At(t, x + 1) = IF k + 1 \in M THEN "?" ELSE At(s, k + 1)
      BY <2>2, <2>4, NextIsKept
    <3>2. "?" \notin Digits
      BY DEF Digits
    <3> QED
      BY <2>1, <3>1, <3>2
  <2> QED
    BY <2>4, <2>5, <2>6 DEF Dollars, IsDollar
<1> QED
  BY <1>4

LEMMA NothingMarked == ASSUME NEW t \in Text PROVE Marked(t, {}) = t
<1> DEFINE n == Len(t)
           e == PartsOf(t, {})
<1>0. n \in Nat /\ t \in Seq(Alphabet)
  BY DEF Text
<1>1. e \in Seq(Seq(Alphabet)) /\ Len(e) = n
  BY PartsAre DEF Text
<1>2. \A i \in 1..n : e[i] = <<t[i]>>
  <2>1. \A i \in 1..n : ~InNumber(t, {}, i)
    BY DEF InNumber
  <2> QED
    BY <2>1, PartsAre
<1>3. PICK P : FirstParts(P, e, Alphabet) /\ Marked(t, {}) = P[n]
  BY MarkedIs
<1>4. Grows(P, t, 0, n)
  <2>1. Lettered(e, t, 0, n) /\ n <= Len(t)
    BY <1>0, <1>2 DEF Lettered
  <2>2. 0 \in 0..Len(e) /\ n \in 0..Len(e)
    BY <1>0, <1>1
  <2>3. FirstParts(P, e, Alphabet)
    BY <1>3
  <2> HIDE DEF e, n
  <2> QED
    BY <1>0, <1>1, <2>1, <2>2, <2>3, PartsOfLetters
<1>5. P[0] = <<>>
  BY <1>3 DEF FirstParts
<1>6. <<>> \o SubSeq(t, 0 + 1, n) = t
  BY <1>0
<1> QED
  BY <1>3, <1>4, <1>5, <1>6 DEF Grows

\* What the JDBC driver is handed is the text the program wrote with a "?" for
\* each placeholder, whether the client adapts the text once or twice.
THEOREM TextsKept ==
  ASSUME NEW s \in Text, NEW family
  PROVE  LET once == adaptSQL(family, s)
         IN  /\ BindRewriter(once) = Meant(family, s)
             /\ BindRewriter(adaptSQL(family, once)) = Meant(family, s)
<1>1. CASE family # "postgres"
  <2>1. adaptSQL(family, s) = s
    BY <1>1 DEF adaptSQL
  <2>2. Meant(family, s) = Marked(s, Colons(s))
    BY <1>1, PlaceholdersAre DEF Meant
  <2> QED
    BY <2>1, <2>2, ColonsReplaced
<1>2. CASE family = "postgres"
  <2> DEFINE t == Marked(s, Dollars(s))
  <2>1. adaptSQL(family, s) = t
    BY <1>2, DollarsReplaced DEF adaptSQL
  <2>2. PICK q : After(s, t, q)
    BY AfterIs
  <2>3. Meant(family, s) = Marked(s, Dollars(s) \cup Colons(s))
    BY <1>2, PlaceholdersAre DEF Meant
  <2> HIDE DEF t
  <2>4. t \in Text
    BY <2>2 DEF After
  <2>5. adaptSQL(family, t) = t
    <3>1. Dollars(t) = {}
      BY <2>2, NoDollarLeft
    <3> QED
      BY <1>2, <2>4, <3>1, DollarsReplaced, NothingMarked DEF adaptSQL
  <2>6. BindRewriter(t) = Meant(family, s)
    BY <2>2, <2>3, <2>4, ColonsReplaced, BothReplaced
  <2> QED
    BY <2>1, <2>5, <2>6
<1> QED
  BY <1>1, <1>2
=============================================================================
