---------------------------- MODULE AgentCalls ----------------------------
(***************************************************************************)
(* What a statement call promises the program that makes it: the text it   *)
(* meant is executed at most once and nothing else is; success is reported *)
(* only for an execution; an error leaves open whether it took place, also *)
(* later.                                                                  *)
(***************************************************************************)
CONSTANT Callers

VARIABLES
    wanted,   \* the text each call means
    asked,    \* calls that were made
    ran,      \* the texts executed for each
    outcome   \* what each call returned: none, ok, error

vars == <<wanted, asked, ran, outcome>>

Init ==
    /\ asked = {}
    /\ ran = [k \in Callers |-> <<>>]
    /\ outcome = [k \in Callers |-> "none"]

Ask(k) ==
    /\ k \notin asked
    /\ asked' = asked \cup {k}
    /\ UNCHANGED <<wanted, ran, outcome>>

Execute(k) ==
    /\ k \in asked
    /\ ran[k] = <<>>
    /\ ran' = [ran EXCEPT ![k] = <<wanted[k]>>]
    /\ UNCHANGED <<wanted, asked, outcome>>

Return(k) ==
    /\ k \in asked
    /\ outcome[k] = "none"
    /\ \E o \in {"ok", "error"} :
        /\ o = "ok" => ran[k] # <<>>
        /\ outcome' = [outcome EXCEPT ![k] = o]
    /\ UNCHANGED <<wanted, asked, ran>>

Next == \E k \in Callers : Ask(k) \/ Execute(k) \/ Return(k)

CallsSpec == Init /\ [][Next]_vars
=============================================================================
