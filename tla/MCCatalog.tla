----------------------------- MODULE MCCatalog -----------------------------
(* TLC instances of Catalog. *)
EXTENDS Catalog, TLC

CONSTANTS g1, g2, g3   \* goroutines of the host program

ThreeGoroutines == {g1, g2, g3}

\* One URL with a database, one type with two globs, one whose DSN is its URL.
ThreeTypes == {"postgres", "dm", "timesten"}

Trims  == [x \in {" new", " ", " DM "} |->
              CASE x = " new" -> "new" [] x = " " -> "" [] x = " DM " -> "DM"]
Lowers == [x \in {"DM", "ORACLE"} |-> IF x = "DM" THEN "dm" ELSE "oracle"]

\* File 1 is the agent's jar; 3 and 4 are versions of one driver.
Matches ==
    "owl-agent" :> {1} @@ "postgresql" :> {3, 4} @@ "DmJdbcDriver" :> {5} @@ "dm-jdbc" :> {6}
    @@ "ojdbc" :> {8} @@ "ttjdbc" :> {9} @@ "*" :> {1, 3, 8}
Folders == "jars" :> {1, 3, 4, 6, 8} @@ "empty" :> {} @@ "." :> {1, 4, 5, 9}

Here == [host |-> <<"h">>, port |-> <<"1">>, database |-> <<"d">>, user |-> "u"]
Sound == [driver |-> "x", family |-> "mysql", globs |-> <<"dm-jdbc">>, dsnRaw |-> FALSE,
          template |-> <<"jdbc", "open", "host", "close">>]

Idle       == [op |-> "look", type |-> "none"]
Batch(b)   == [op |-> "register", specs |-> b]
Look(t)    == [op |-> "look", type |-> t]
Build(t)   == [op |-> "build", type |-> t, endpoint |-> Here, dsn |-> <<"u">>,
               jarsDir |-> "jars", agentJar |-> NoFile]
Probe(t)   == [op |-> "probe", type |-> t, dirs |-> <<"jars", ".">>]

Two(a, b) == [g \in ThreeGoroutines |-> CASE g = g1 -> a [] g = g2 -> b [] g = g3 -> Idle]

\* Batches that add, that override a built-in type, that share a name, that are
\* partly invalid, against each other and against readers.
Other   == [Sound EXCEPT !.driver = "y", !.family = "ORACLE", !.globs = <<"ojdbc", "*">>]
Raw     == [Sound EXCEPT !.dsnRaw = TRUE, !.template = <<>>]
Batches == {<<>>, "new" :> Sound @@ " DM " :> Other, "new" :> Other @@ " new" :> Sound @@ "dm" :> Raw,
            "new" :> Sound @@ "dm" :> [Sound EXCEPT !.family = "mariadb"], "timesten" :> Sound}
Ops     == {Batch(b) : b \in Batches} \cup {[op |-> "list"], Build("dm"), Look(" new"), Probe("DM")}
SharedPlans ==
    {p \in [ThreeGoroutines -> Ops] : p[g1].op = "register" /\ p[g3].op # "register"}

\* Templates of up to four pieces.
Pieces == {<<"open", "host", "close">>, <<"open", "port", "close">>, <<"open", "database", "close">>,
           <<"open", "x", "close">>, <<"open">>, <<"close">>, <<"host">>}
Templates == Pieces \cup {a \o b : a, b \in Pieces} \cup {a \o b \o c : a, b, c \in Pieces}
             \cup {a \o b \o c \o d : a, b, c, d \in Pieces}
Odd == [host |-> <<"open", "port", "close">>, port |-> <<"1">>, database |-> <<>>, user |-> "u"]
TemplatePlans ==
    {Two(Batch("new" :> [Sound EXCEPT !.template = t]),
         [Build("new") EXCEPT !.endpoint = Odd]) : t \in Templates}

\* Everything else validate and BuildConfig look at.
Specs == {[driver |-> v, family |-> f, globs |-> gs, dsnRaw |-> r, template |-> Sound.template] :
            v \in {"x", " "}, f \in {"oracle", "ORACLE", ""},
            gs \in {<<>>, <<" ">>, <<"dm-jdbc", "ojdbc">>, <<"ttjdbc", "*">>}, r \in BOOLEAN}
Calls == {[op |-> "build", type |-> t, endpoint |-> [Here EXCEPT !.host = h, !.port = p],
           dsn |-> d, jarsDir |-> j, agentJar |-> a] :
            t \in {"new", "DM", "postgres", "timesten"},
            h \in {<<>>, <<" ">>, <<"h">>}, p \in {<<>>, <<"1">>}, d \in {<<" ">>, <<" ", "u", " ">>},
            j \in {"", "jars", "empty"}, a \in {NoFile, <<"jars", 1>>, <<"empty", 1>>}}
ConfigPlans ==
    {Two(Batch(" DM " :> s), Build("DM")) : s \in Specs}
    \cup {Two(Batch(" new" :> [Raw EXCEPT !.globs = <<"DmJdbcDriver">>]), c) : c \in Calls}

AllPlans == SharedPlans \cup TemplatePlans \cup ConfigPlans
=============================================================================
