---------------------------- MODULE AgentLease -----------------------------
(***************************************************************************)
(* What the process pool promises its users: a process is leased to any    *)
(* number of connections, it is retired (killed on purpose) only while     *)
(* nobody holds a lease on it, and a retired process is never leased       *)
(* again.  Manager is shown to implement this.                             *)
(***************************************************************************)
CONSTANTS Clients, Agents, NoAgent

VARIABLES
    lease,     \* the process each client works with, or NoAgent
    retired    \* processes killed by the pool

leaseVars == <<lease, retired>>

LeaseInit ==
    /\ lease = [k \in Clients |-> NoAgent]
    /\ retired = {}

Take(k, i) ==
    /\ lease[k] = NoAgent
    /\ i \notin retired
    /\ lease' = [lease EXCEPT ![k] = i]
    /\ UNCHANGED retired

GiveBack(k) ==
    /\ lease[k] # NoAgent
    /\ lease' = [lease EXCEPT ![k] = NoAgent]
    /\ UNCHANGED retired

Retire(i) ==
    /\ \A k \in Clients : lease[k] # i
    /\ retired' = retired \cup {i}
    /\ UNCHANGED lease

LeaseNext ==
    \/ \E k \in Clients, i \in Agents : Take(k, i)
    \/ \E k \in Clients : GiveBack(k)
    \/ \E i \in Agents : Retire(i)

LeaseSpec == LeaseInit /\ [][LeaseNext]_leaseVars
=============================================================================
