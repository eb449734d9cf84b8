------------------------------ MODULE Manager ------------------------------
(***************************************************************************)
(* Manager (manager.go) with the parts of client.go and driver.go it calls *)
(* and that call it: goroutines open and close connections; connections of *)
(* one classpath profile share one sidecar process, counted by references  *)
(* and killed when the count reaches zero.                                 *)
(*                                                                         *)
(* What happens on a session between opening and closing is AgentClient's. *)
(***************************************************************************)
EXTENDS Integers, FiniteSets

CONSTANTS
    Clients,     \* goroutines that open and close connections
    Profiles,    \* values of profileKey
    Agents,      \* processes the operating system can start
    MaxOpens,    \* bound: Connect calls
    Free, NoKey, NoAgent   \* no client, no profile, no process

ASSUME ManagerAssumption ==
    /\ IsFiniteSet(Clients)
    /\ MaxOpens \in Nat
    /\ Free \notin Clients /\ NoKey \notin Profiles /\ NoAgent \notin Agents

VARIABLES
    mu,       \* who holds Manager.mu across a blocking call, or Free
    procs,    \* Manager.procs: the entry of each profile, or NoAgent
    refs,     \* procEntry.refs
    agent,    \* the operating system's view of each process
    stopped,  \* processes AgentProc.close was called on
    opens,    \* Connect calls so far
    client    \* what each goroutine is executing

vars == <<mu, procs, refs, agent, stopped, opens, client>>

-----------------------------------------------------------------------------

Idle == [pc |-> "idle", key |-> NoKey, ag |-> NoAgent]

At(k, pc)    == client[k].pc = pc
Step(k, pc, i) == client' = [client EXCEPT ![k] = [pc |-> pc, key |-> client[k].key, ag |-> i]]
GoTo(k, pc)  == Step(k, pc, client[k].ag)
Using        == {"session", "conn"}        \* in NewSession, or with a Conn
Counted      == Using \cup {"release"}     \* Release not yet performed
Holders(key) == {k \in Clients : client[k].pc \in Counted /\ client[k].key = key}
Users(i)     == {k \in Clients : client[k].pc \in Using /\ client[k].ag = i}

-----------------------------------------------------------------------------
(* Seeded faults for the mutation runs *)

LastRefAnyone(e)   == TRUE
LastRefNever(e)    == FALSE
CountFresh(e)      == [refs EXCEPT ![e] = 0]
ReturnRetries(k)   == Step(k, "acquire", NoAgent)

-----------------------------------------------------------------------------
(* Acquire *)

Return(k) == client' = [client EXCEPT ![k] = Idle]

Connect(k, key) ==
    /\ client[k] = Idle
    /\ opens < MaxOpens
    /\ opens' = opens + 1
    /\ client' = [client EXCEPT ![k] = [pc |-> "acquire", key |-> key, ag |-> NoAgent]]
    /\ UNCHANGED <<mu, procs, refs, agent, stopped>>

\* An entry of the map is used as it is, whether its process lives or not.
CountUp(e) == [refs EXCEPT ![e] = @ + 1]

AcquireHit(k) ==
    LET e == procs[client[k].key]
    IN  /\ At(k, "acquire")
        /\ mu = Free
        /\ e # NoAgent
        /\ refs' = CountUp(e)
        /\ Step(k, "session", e)
        /\ UNCHANGED <<mu, procs, agent, stopped, opens>>

\* No entry: openAgent runs with Manager.mu held.  cmd.Start succeeds ...
AcquireMiss(k, i) ==
    /\ At(k, "acquire")
    /\ mu = Free
    /\ procs[client[k].key] = NoAgent
    /\ agent[i] = "none"
    /\ agent' = [agent EXCEPT ![i] = "up"]
    /\ Step(k, "open", i)
    /\ mu' = k
    /\ UNCHANGED <<procs, refs, stopped, opens>>

\* ... or fails (no such java): Acquire returns the error.
StartFails(k) ==
    /\ At(k, "acquire")
    /\ mu = Free
    /\ procs[client[k].key] = NoAgent
    /\ Return(k)
    /\ UNCHANGED <<mu, procs, refs, agent, stopped, opens>>

Unlock(k) == mu' = Free

\* The PING was answered: the entry is made with one reference, mu unlocked.
HandshakeOK(k) ==
    LET i == client[k].ag
    IN  /\ At(k, "open")
        /\ agent[i] = "up"
        /\ procs' = [procs EXCEPT ![client[k].key] = i]
        /\ refs' = [refs EXCEPT ![i] = 1]
        /\ GoTo(k, "session")
        /\ Unlock(k)
        /\ UNCHANGED <<agent, stopped, opens>>

\* Time out, cancelled context or dead process: openAgent closes the process.
HandshakeFails(k) ==
    /\ At(k, "open")
    /\ stopped' = stopped \cup {client[k].ag}
    /\ Return(k)
    /\ Unlock(k)
    /\ UNCHANGED <<procs, refs, agent, opens>>

\* NewSession, without Manager.mu: CONNECT succeeds ...
SessionOK(k) ==
    /\ At(k, "session")
    /\ agent[client[k].ag] = "up"
    /\ client[k].ag \notin stopped
    /\ GoTo(k, "conn")
    /\ UNCHANGED <<mu, procs, refs, agent, stopped, opens>>

\* ... or fails, and Acquire releases the reference before it returns.
SessionFails(k) ==
    /\ At(k, "session")
    /\ GoTo(k, "release")
    /\ UNCHANGED <<mu, procs, refs, agent, stopped, opens>>

-----------------------------------------------------------------------------
(* Conn.Close and Release *)

\* Conn.Close: Session.Close has returned, whatever it returned; database/sql
\* closes a Conn once.
CloseConn(k) ==
    /\ At(k, "conn")
    /\ GoTo(k, "release")
    /\ UNCHANGED <<mu, procs, refs, agent, stopped, opens>>

LastRef(e) == refs[e] <= 1

\* Release counts down the entry its key has now.  It does nothing when there
\* is none; RefsExact says a goroutine that owes a Release finds one, and a
\* goroutine that did not would deadlock here.
CountDown(k, e) ==
    /\ At(k, "release")
    /\ mu = Free
    /\ e = procs[client[k].key]
    /\ refs' = [refs EXCEPT ![e] = @ - 1]
    /\ UNCHANGED <<mu, agent, stopped, opens>>

ReleaseShared(k) ==
    \E e \in Agents :
        /\ CountDown(k, e)
        /\ ~LastRef(e)
        /\ Return(k)
        /\ UNCHANGED procs

\* ... and after the last reference deletes it, unlocking before the kill.
ReleaseLast(k) ==
    \E e \in Agents :
        /\ CountDown(k, e)
        /\ LastRef(e)
        /\ procs' = [procs EXCEPT ![client[k].key] = NoAgent]
        /\ Step(k, "kill", e)

\* e.proc.close(), after Manager.mu was released.
Kill(k) ==
    /\ At(k, "kill")
    /\ stopped' = stopped \cup {client[k].ag}
    /\ Return(k)
    /\ UNCHANGED <<mu, procs, refs, agent, opens>>

-----------------------------------------------------------------------------
(* The process *)

\* A process dies of the kill it was sent, or by itself.
Die(i) ==
    /\ agent[i] = "up"
    /\ agent' = [agent EXCEPT ![i] = "dead"]
    /\ UNCHANGED <<mu, procs, refs, stopped, opens, client>>

\* All the connections the bound allows were opened and closed again.
Finished ==
    /\ opens = MaxOpens
    /\ \A k \in Clients : client[k] = Idle
    /\ UNCHANGED vars

-----------------------------------------------------------------------------

Init ==
    /\ mu = Free
    /\ procs = [key \in Profiles |-> NoAgent]
    /\ refs = [i \in Agents |-> 0]
    /\ agent = [i \in Agents |-> "none"]
    /\ stopped = {}
    /\ opens = 0
    /\ client = [k \in Clients |-> Idle]

TakeLock(k) ==
    \/ AcquireHit(k) \/ (\E i \in Agents : AcquireMiss(k, i)) \/ StartFails(k)
    \/ ReleaseShared(k) \/ ReleaseLast(k)
Proceed(k)  == HandshakeOK(k) \/ HandshakeFails(k) \/ SessionOK(k) \/ SessionFails(k) \/ Kill(k)

Next ==
    \/ \E k \in Clients :
          \/ \E key \in Profiles : Connect(k, key)
          \/ TakeLock(k) \/ Proceed(k) \/ CloseConn(k)
    \/ \E i \in Agents : Die(i)
    \/ Finished

Spec == Init /\ [][Next]_vars

\* sync.Mutex hands the lock to a waiter that starved for a millisecond, so a
\* waiter gets it in the end; the handshake has a time limit, CONNECT is
\* answered, and a killed process dies.  Nobody has to close a connection.
Fairness ==
    /\ \A k \in Clients : SF_vars(TakeLock(k)) /\ WF_vars(Proceed(k))
    /\ \A i \in Agents : WF_vars(i \in stopped /\ Die(i))

FairSpec == Spec /\ Fairness

-----------------------------------------------------------------------------
(* Properties *)

Pcs         == {"idle", "acquire", "open", "session", "conn", "release", "kill"}
ClientState == [pc : Pcs, key : Profiles \cup {NoKey}, ag : Agents \cup {NoAgent}]

\* Each variable stays in its type.
TypeOK ==
    /\ mu \in Clients \cup {Free}
    /\ procs \in [Profiles -> Agents \cup {NoAgent}]
    /\ refs \in [Agents -> Nat]
    /\ agent \in [Agents -> {"none", "up", "dead"}]
    /\ stopped \subseteq Agents
    /\ opens \in 0..MaxOpens
    /\ client \in [Clients -> ClientState]

\* procEntry.refs counts exactly the goroutines that still owe a Release, all
\* of them work on the process of the entry their Release will find under the
\* key (manager.go:49 looks it up again), and a profile without entry is owed
\* nothing.
RefsExact ==
    \A key \in Profiles :
        /\ procs[key] # NoAgent => refs[procs[key]] = Cardinality(Holders(key))
        /\ \A k \in Holders(key) : client[k].ag = procs[key] /\ procs[key] # NoAgent

\* A process is closed only when no connection is on it or being opened on it.
NoLiveKill == \A i \in stopped : Users(i) = {}

\* The pool implements its abstract promise; a lease runs from the count in
\* Acquire to the end of Conn.Close.
Lease == INSTANCE AgentLease WITH
             lease   <- [k \in Clients |-> IF client[k].pc \in Using THEN client[k].ag ELSE NoAgent],
             retired <- stopped
KeepsLease == Lease!LeaseSpec

\* A process nobody works with any more is dead in the end, also when its
\* handshake failed or its only CONNECT did: no JVM is leaked.
Reclaimed ==
    \A i \in Agents :
        (agent[i] = "up" /\ Users(i) = {}) ~> (agent[i] = "dead" \/ Users(i) # {})

\* Every Acquire and every Release returns.
AcquireReturns ==
    \A k \in Clients : (client[k].pc \notin {"idle", "conn"}) ~> (client[k].pc \in {"idle", "conn"})
=============================================================================
