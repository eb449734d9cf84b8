---------------------------- MODULE MCRequests ----------------------------
(* TLC instances of Requests. *)
EXTENDS Requests

CONSTANTS g1, g2   \* goroutines of the host program

TwoCallers == {g1, g2}

Plain   == <<"x">>
Nothing == [text |-> Plain, family |-> "oracle", prepared |-> FALSE, args |-> <<>>,
            size |-> 0, rows |-> <<>>, trouble |-> FALSE]
Simple  == [Nothing EXCEPT !.size = 1]
Sized(n) == [Nothing EXCEPT !.size = n, !.trouble = TRUE]

Alone(j)   == [k \in TwoCallers |-> IF k = g1 THEN j ELSE Nothing]
Both(i, j) == [k \in TwoCallers |-> IF k = g1 THEN i ELSE j]

\* Texts of three tokens and a placeholder of each syntax behind them.
Tokens == {<<"'">>, <<"\"">>, <<"-", "-">>, <<"/", "*">>, <<"*", "/">>, <<"\n">>,
           <<"$", "1">>, <<":", "1">>, <<"$">>, <<":">>, <<"/">>}
Texts  == {a \o b \o c \o <<"$", "1", ":", "2">> : a \in Tokens, b \in Tokens, c \in Tokens}
TextJobs ==
    {Alone([Simple EXCEPT !.text = t, !.family = "postgres", !.prepared = p]) :
        t \in Texts, p \in BOOLEAN}
    \cup {Alone([Simple EXCEPT !.text = t]) : t \in Texts}

\* Frames of the smallest and the largest size, and one too long.
SizeJobs == {Both(Sized(i), Sized(j)) : i, j \in 1..3}

\* Times before and after the epoch, with and without a fraction, around the
\* largest and the smallest int64.
Instants == {-5, -4, -1, 0, 3, 5, 6, 8, -MaxInt64 - 1, MaxInt64, MaxInt64 + 1}
Times(k) == {Value(k, <<t, z>>) : t \in Instants, z \in {-1, 0, 2}}

\* Every value beside one of each kind.
PlainArgs == {Value("nil", <<>>), Value("bool", <<1>>), Value("int64", <<7>>),
              Value("float64", <<7>>), Value("string", <<>>), Value("string", <<5, 6>>),
              Value("bytes", <<0, 7>>), Value("time", <<3, 2>>)}
ArgJobs == {Alone([Simple EXCEPT !.args = <<a, b>>]) : a \in PlainArgs \cup Times("time"),
                                                      b \in PlainArgs}

PlainColumns == {Value("null", <<>>), Value("Boolean", <<0>>), Value("Integer", <<7>>),
                 Value("Double", <<7>>), Value("BigDecimal", <<1, 5>>), Value("Time", <<3>>),
                 Value("Clob", <<>>), Value("Blob", <<7, 0>>), Value("bytes", <<>>),
                 Value("Object", <<5, 6>>), Value("Date", <<8, 2>>)}
RowJobs == {Alone([Simple EXCEPT !.family = f, !.rows = <<<<a, b>>, <<b, a>>>>]) :
              a \in PlainColumns \cup Times("Timestamp"), b \in PlainColumns,
              f \in {"oracle", "mysql"}}

AllJobs  == TextJobs \cup SizeJobs \cup ArgJobs \cup RowJobs
TimeJobs == {Alone([Simple EXCEPT !.args = <<a>>]) : a \in Times("time")}
=============================================================================
