-------------------------- MODULE ProfileRegistry --------------------------
(***************************************************************************)
(* What the catalogue promises the goroutines that share it: a batch of    *)
(* profiles is registered whole or not at all, and whoever looks sees the  *)
(* table as it is between two registrations.                               *)
(***************************************************************************)
CONSTANTS Goroutines, NoProfile, NoAnswer

VARIABLES
    kind,      \* what each goroutine is about to do: register, list, look
    offered,   \* the tables each batch may add: one per entry that wins a
               \* name two entries share, none when an entry is invalid
    wanted,    \* the type each goroutine looks for
    table,     \* type -> profile
    answer     \* what each goroutine was told

vars == <<kind, offered, wanted, table, answer>>

Init == answer = [g \in Goroutines |-> NoAnswer]

Tell(g, k, a) ==
    /\ kind[g] = k
    /\ answer[g] = NoAnswer
    /\ answer' = [answer EXCEPT ![g] = a]
    /\ UNCHANGED <<kind, offered, wanted>>

Register(g) ==
    /\ Tell(g, "register", "ok")
    /\ \E added \in offered[g] :
        table' = [t \in DOMAIN added \cup DOMAIN table |->
                     IF t \in DOMAIN added THEN added[t] ELSE table[t]]

Reject(g) == offered[g] = {} /\ Tell(g, "register", "error") /\ UNCHANGED table

List(g) == Tell(g, "list", DOMAIN table) /\ UNCHANGED table

Look(g) ==
    /\ Tell(g, "look", IF wanted[g] \in DOMAIN table THEN table[wanted[g]] ELSE NoProfile)
    /\ UNCHANGED table

Next == \E g \in Goroutines : Register(g) \/ Reject(g) \/ List(g) \/ Look(g)

RegistrySpec == Init /\ [][Next]_vars
=============================================================================
