------------------------------ MODULE SqlText ------------------------------
(***************************************************************************)
(* SQL text on its way to the JDBC driver: the two scanners that replace   *)
(* placeholders by "?" (rewriteDollarPlaceholders in driver_pg.go for $N,  *)
(* BindRewriter.java for :N), and what they are meant to do, stated        *)
(* without scanning ahead.  A text is a sequence of one-letter strings.    *)
(***************************************************************************)
EXTENDS Naturals, SequencesExt

NewLine == "\n"
Digits  == {"0", "1", "2"}    \* enough of the ten

At(s, i)      == IF i \in 1..Len(s) THEN s[i] ELSE ""
Pair(s, i)    == <<At(s, i), At(s, i + 1)>>
Beyond(s)     == Len(s) + 1

-----------------------------------------------------------------------------
(* Seeded faults for the mutation runs *)

CommentEndOverlaps(s, i) ==
    LET ends == {j \in (i + 1)..Len(s) : Pair(s, j) = <<"*", "/">>}
    IN  IF ends = {} THEN Beyond(s) ELSE 2 + CHOOSE j \in ends : \A k \in ends : j <= k

-----------------------------------------------------------------------------
(* The scanners: position i is where a token starts *)

\* The first position from i on whose letter is in set, or the end.
Find(s, i, set) ==
    LET hits == {j \in i..Len(s) : s[j] \in set}
    IN  IF hits = {} THEN Beyond(s) ELSE CHOOSE j \in hits : \A k \in hits : j <= k

\* '...' with '' as an escaped quote; an unclosed string runs to the end.
StringEnd(s, i) ==
    LET end[j \in 1..(Len(s) + 2)] ==
            IF j > Len(s) THEN Beyond(s)
            ELSE IF s[j] # "'" THEN end[j + 1]
            ELSE IF At(s, j + 1) = "'" THEN end[j + 2]
            ELSE j + 1
    IN  end[i + 1]

\* "*/" is looked for behind the opening, so that /*/ does not close itself.
CommentEnd(s, i) ==
    LET ends == {j \in (i + 2)..Len(s) : Pair(s, j) = <<"*", "/">>}
    IN  IF ends = {} THEN Beyond(s) ELSE 2 + CHOOSE j \in ends : \A k \in ends : j <= k

\* Where the token that starts at i ends: a literal, a comment or one letter.
TokenEnd(s, i) ==
    CASE s[i] = "'"                -> StringEnd(s, i)
      [] s[i] = "\""               -> LET q == Find(s, i + 1, {"\""})
                                      IN  IF q > Len(s) THEN q ELSE q + 1
      [] Pair(s, i) = <<"-", "-">> -> Find(s, i, {NewLine})
      [] Pair(s, i) = <<"/", "*">> -> CommentEnd(s, i)
      [] OTHER                     -> i + 1

NumberEnd(s, i) ==
    LET rest == {j \in i..Len(s) : s[j] \notin Digits}
    IN  IF rest = {} THEN Beyond(s) ELSE CHOOSE j \in rest : \A k \in rest : j <= k

\* The loop both scanners share; Mark(s, i): a placeholder starts at i.
Rewrite(s, Mark(_, _)) ==
    LET out[i \in 1..Beyond(s)] ==
            IF i = Beyond(s) THEN <<>>
            ELSE IF Mark(s, i) THEN <<"?">> \o out[NumberEnd(s, i + 1)]
            ELSE SubSeq(s, i, TokenEnd(s, i) - 1) \o out[TokenEnd(s, i)]
    IN  out[1]

IsDollar(s, i) == s[i] = "$" /\ At(s, i + 1) \in Digits
IsColon(s, i)  == s[i] = ":" /\ At(s, i + 1) \in Digits /\ At(s, i - 1) # ":"

rewriteDollarPlaceholders(s) == Rewrite(s, IsDollar)
BindRewriter(s)              == Rewrite(s, IsColon)

\* Conn.adaptSQL.
adaptSQL(family, s) == IF family = "postgres" THEN rewriteDollarPlaceholders(s) ELSE s

-----------------------------------------------------------------------------
(* What they are meant to do: a lexer that reads one letter at a time *)

Modes   == {"code", "string", "name", "line", "open", "block", "closing"}
Letters == {"'", "\"", NewLine, "--", "/*", "*/", "other"}

\* A letter as far as the lexer can tell it apart, with the one behind it.
Letter(s, i) ==
    CASE Pair(s, i) = <<"-", "-">> -> "--"
      [] Pair(s, i) = <<"/", "*">> -> "/*"
      [] Pair(s, i) = <<"*", "/">> -> "*/"
      [] s[i] \in {"'", "\"", NewLine} -> s[i]
      [] OTHER                     -> "other"

\* The mode behind a letter read in mode m.  A doubled quote needs no case: it
\* closes the string and opens the next.
Then == [m \in Modes |-> [c \in Letters |->
    CASE m = "code" /\ c = "'"      -> "string"
      [] m = "code" /\ c = "\""     -> "name"
      [] m = "code" /\ c = "--"     -> "line"
      [] m = "code" /\ c = "/*"     -> "open"
      [] m = "open"                 -> "block"
      [] m = "block" /\ c = "*/"    -> "closing"
      [] \/ m = "string" /\ c = "'"
         \/ m = "name" /\ c = "\""
         \/ m = "line" /\ c = NewLine
         \/ m = "closing"           -> "code"
      [] OTHER                      -> m]]

\* The mode in which each letter of s is read.
Mode(s) ==
    LET mode[i \in 1..Beyond(s)] ==
            IF i = 1 THEN "code" ELSE Then[mode[i - 1]][Letter(s, i - 1)]
    IN  mode

\* The placeholders of the family's own syntax and of Oracle's, outside literals.
Placeholders(family, s) ==
    {i \in DOMAIN s :
        /\ \/ s[i] = "$" /\ family = "postgres"
           \/ s[i] = ":" /\ At(s, i - 1) # ":"
        /\ At(s, i + 1) \in Digits
        /\ Mode(s)[i] = "code"}

\* Letter i belongs to the number behind one of the marks.
InNumber(s, marks, i) == \E p \in marks : p < i /\ \A j \in (p + 1)..i : s[j] \in Digits

\* s with a "?" for each mark and its number.
Marked(s, marks) ==
    LET part == [i \in DOMAIN s |-> IF InNumber(s, marks, i) THEN <<>>
                                    ELSE IF i \in marks THEN <<"?">> ELSE <<s[i]>>]
        out[i \in 0..Len(s)] == IF i = 0 THEN <<>> ELSE out[i - 1] \o part[i]
    IN  out[Len(s)]

\* The text the program wrote.
Meant(family, s) == Marked(s, Placeholders(family, s))
=============================================================================
