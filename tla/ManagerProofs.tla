--------------------------- MODULE ManagerProofs ---------------------------
(***************************************************************************)
(* Theorems about Manager, for every finite set of goroutines and every    *)
(* set of profiles and processes.                                          *)
(***************************************************************************)
EXTENDS Manager, FiniteSetTheorems, TLAPS

(* The inductive invariant *)

\* A goroutine past the lock knows its key and a process that was started.
ClientsPlaced ==
    \A k \in Clients :
        /\ client[k].pc # "idle" => client[k].key \in Profiles
        /\ client[k].pc \notin {"idle", "acquire"} =>
               client[k].ag \in Agents /\ agent[client[k].ag] # "none"
        /\ client[k].pc \in {"idle", "acquire"} => client[k].ag = NoAgent

\* Manager.mu is kept exactly by the goroutine that runs openAgent.
MuHeld == \A k \in Clients : client[k].pc = "open" <=> mu = k

\* Entries name started processes that were not closed, one key each.
EntriesLive ==
    /\ \A key \in Profiles : procs[key] # NoAgent =>
           agent[procs[key]] # "none" /\ procs[key] \notin stopped
    /\ \A p, q \in Profiles : procs[p] = procs[q] /\ procs[p] # NoAgent => p = q
    /\ \A i \in stopped : agent[i] # "none"

\* A process being opened or about to be killed is in no entry; one being
\* opened is known to nobody else, and its profile has no entry.
OutOfMap ==
    /\ \A k \in Clients : client[k].pc \in {"open", "kill"} =>
           \A key \in Profiles : procs[key] # client[k].ag
    /\ \A k \in Clients : client[k].pc = "open" =>
           /\ procs[client[k].key] = NoAgent
           /\ client[k].ag \notin stopped
           /\ \A j \in Clients \ {k} : client[j].ag # client[k].ag

PoolInv == ClientsPlaced /\ MuHeld /\ EntriesLive /\ OutOfMap /\ RefsExact

-----------------------------------------------------------------------------
(* Lemmas *)

\* The idle goroutine's record.
LEMMA IdleFacts == /\ Idle \in ClientState
                   /\ Idle = [pc |-> "idle", key |-> NoKey, ag |-> NoAgent]
BY DEF Idle, ClientState, Pcs

\* What a step that rewrites one goroutine's record leaves behind.
LEMMA Moved ==
    ASSUME client \in [Clients -> ClientState], NEW k \in Clients, NEW pc \in Pcs,
           NEW key \in Profiles \cup {NoKey}, NEW ag \in Agents \cup {NoAgent},
           client' = [client EXCEPT ![k] = [pc |-> pc, key |-> key, ag |-> ag]]
    PROVE  /\ client' \in [Clients -> ClientState]
           /\ client'[k].pc = pc /\ client'[k].key = key /\ client'[k].ag = ag
           /\ \A j \in Clients : j # k => client'[j] = client[j]
<1>1. [pc |-> pc, key |-> key, ag |-> ag] \in ClientState
  BY DEF ClientState
<1> QED BY <1>1

\* The goroutine's fields are typed.
LEMMA Fields ==
    ASSUME TypeOK, NEW k \in Clients
    PROVE  /\ client[k].pc \in Pcs /\ client[k].key \in Profiles \cup {NoKey}
           /\ client[k].ag \in Agents \cup {NoAgent}
           /\ client[k] = [pc |-> client[k].pc, key |-> client[k].key, ag |-> client[k].ag]
BY DEF TypeOK, ClientState

\* GoTo rewrites the pc alone.
LEMMA GoToMoves ==
    ASSUME TypeOK, NEW k \in Clients, NEW pc \in Pcs, GoTo(k, pc)
    PROVE  client' = [client EXCEPT ![k] = [pc |-> pc, key |-> client[k].key, ag |-> client[k].ag]]
BY DEF GoTo, Step

\* There are finitely many holders, so they can be counted.
LEMMA HoldersFinite ==
    ASSUME NEW key
    PROVE  IsFiniteSet(Holders(key)) /\ Cardinality(Holders(key)) \in Nat
BY ManagerAssumption, FS_Subset, FS_CardinalityType DEF Holders

\* A step that changes no goroutine's standing as a holder keeps the holders.
LEMMA HoldersKept ==
    ASSUME NEW key,
           \A j \in Clients : (client'[j].pc \in Counted /\ client'[j].key = key)
                               <=> (client[j].pc \in Counted /\ client[j].key = key)
    PROVE  Holders(key)' = Holders(key)
BY DEF Holders, Counted, Using

\* One goroutine more owes a Release.
LEMMA HolderJoins ==
    ASSUME NEW key, NEW k \in Clients, k \notin Holders(key),
           client'[k].pc \in Counted, client'[k].key = key,
           \A j \in Clients : j # k => client'[j] = client[j]
    PROVE  /\ Holders(key)' = Holders(key) \cup {k}
           /\ Cardinality(Holders(key)') = Cardinality(Holders(key)) + 1
<1>1. Holders(key)' = Holders(key) \cup {k}
  BY DEF Holders, Counted, Using
<1> QED BY <1>1, HoldersFinite, FS_AddElement

\* One goroutine performed its Release.
LEMMA HolderLeaves ==
    ASSUME NEW key, NEW k \in Clients, k \in Holders(key),
           client'[k].pc \notin Counted,
           \A j \in Clients : j # k => client'[j] = client[j]
    PROVE  /\ Holders(key)' = Holders(key) \ {k}
           /\ Cardinality(Holders(key)') = Cardinality(Holders(key)) - 1
<1>1. Holders(key)' = Holders(key) \ {k}
  BY DEF Holders, Counted, Using
<1> QED BY <1>1, HoldersFinite, FS_RemoveElement

-----------------------------------------------------------------------------
(* One lemma per action *)

\* Connect starts an Acquire.
LEMMA ConnectStep ==
    ASSUME TypeOK, PoolInv, NEW k \in Clients, NEW p \in Profiles, Connect(k, p)
    PROVE  TypeOK' /\ PoolInv'
<1> USE ManagerAssumption
<1>1. client' = [client EXCEPT ![k] = [pc |-> "acquire", key |-> p, ag |-> NoAgent]]
  BY DEF Connect
<1>2. /\ client' \in [Clients -> ClientState]
      /\ client'[k].pc = "acquire" /\ client'[k].key = p /\ client'[k].ag = NoAgent
      /\ \A j \in Clients : j # k => client'[j] = client[j]
  BY <1>1, Moved DEF TypeOK, Pcs
<1>10. TypeOK'
  BY <1>2 DEF TypeOK, Connect, Idle
<1>11. ClientsPlaced'
  BY <1>2 DEF TypeOK, PoolInv, ClientsPlaced, Connect, Idle
<1>12. MuHeld'
  BY <1>2 DEF TypeOK, PoolInv, MuHeld, Connect, Idle
<1>13. EntriesLive'
  BY <1>2 DEF TypeOK, PoolInv, EntriesLive, Connect, Idle
<1>14. OutOfMap'
  <2>1. \A j \in Clients : client'[j].pc \in {"open", "kill"} => j # k /\ client'[j] = client[j]
    BY <1>2
  <2>2. \A j \in Clients : client[j].pc = "open" => client[j].ag # NoAgent
    BY DEF PoolInv, ClientsPlaced
  <2> QED BY <1>2, <2>1, <2>2 DEF PoolInv, OutOfMap, Connect, Idle
<1>15. RefsExact'
  <2>1. ASSUME NEW key \in Profiles PROVE Holders(key)' = Holders(key)
    BY <1>2, HoldersKept DEF Connect, Idle, Counted, Using
  <2> QED BY <1>2, <2>1 DEF PoolInv, RefsExact, Connect, Holders, Counted, Using
<1> QED BY <1>10, <1>11, <1>12, <1>13, <1>14, <1>15 DEF PoolInv

\* An entry is used once more.
LEMMA AcquireHitStep ==
    ASSUME TypeOK, PoolInv, NEW k \in Clients, AcquireHit(k)
    PROVE  TypeOK' /\ PoolInv'
<1> USE ManagerAssumption
<1>a. PICK p \in Profiles, e \in Agents : p = client[k].key /\ e = procs[p]
  BY DEF AcquireHit, At, PoolInv, ClientsPlaced, TypeOK
<1>0. /\ client[k].pc = "acquire" /\ p = client[k].key /\ e = procs[p] /\ p \in Profiles
      /\ e \in Agents /\ e \notin stopped /\ agent[e] # "none" /\ mu = Free
  BY <1>a DEF AcquireHit, At, PoolInv, ClientsPlaced, EntriesLive, TypeOK
<1>3. refs' = [refs EXCEPT ![e] = refs[e] + 1] /\ UNCHANGED <<mu, procs, agent, stopped, opens>>
  BY <1>a DEF AcquireHit, CountUp
<1>1. client' = [client EXCEPT ![k] = [pc |-> "session", key |-> p, ag |-> e]]
  BY <1>a DEF AcquireHit, Step
<1>2. /\ client' \in [Clients -> ClientState]
      /\ client'[k].pc = "session" /\ client'[k].key = p /\ client'[k].ag = e
      /\ \A j \in Clients : j # k => client'[j] = client[j]
  BY <1>0, <1>1, <1>a, Moved DEF TypeOK, Pcs
<1>10. TypeOK'
  BY <1>0, <1>2, <1>3 DEF TypeOK
<1>11. ClientsPlaced'
  BY <1>0, <1>2, <1>3 DEF TypeOK, PoolInv, ClientsPlaced
<1>12. MuHeld'
  BY <1>0, <1>2, <1>3 DEF PoolInv, MuHeld
<1>13. EntriesLive'
  BY <1>3 DEF PoolInv, EntriesLive
<1>14. OutOfMap'
  <2>1. e = procs[p]
    BY <1>0
  <2> QED BY <1>0, <1>2, <1>3, <2>1 DEF PoolInv, OutOfMap
<1>15. RefsExact'
  <2>0. e = procs[p] /\ k \notin Holders(p)
    BY <1>0 DEF Holders, Counted, Using
  <2>1. /\ Holders(p)' = Holders(p) \cup {k}
        /\ Cardinality(Holders(p)') = Cardinality(Holders(p)) + 1
    BY <1>2, <2>0, HolderJoins DEF Counted, Using
  <2>2. ASSUME NEW q \in Profiles, q # p PROVE Holders(q)' = Holders(q)
    BY <1>0, <1>2, <2>2, HoldersKept DEF Counted, Using
  <2>3. \A q \in Profiles : q # p /\ procs[q] # NoAgent => procs[q] # e
    BY <1>0, <2>0 DEF PoolInv, EntriesLive
  <2>4. ASSUME NEW q \in Profiles
        PROVE  /\ procs'[q] # NoAgent => refs'[procs'[q]] = Cardinality(Holders(q)')
               /\ \A j \in Holders(q)' : client'[j].ag = procs'[q] /\ procs'[q] # NoAgent
    <3>1. CASE q = p
      <4>1. refs[e] = Cardinality(Holders(p)) /\ e # NoAgent
        BY <1>0, <2>0 DEF PoolInv, RefsExact
      <4>2. \A j \in Holders(p) : client[j].ag = e
        BY <1>0, <2>0 DEF PoolInv, RefsExact
      <4>3. \A j \in Holders(p)' : client'[j].ag = e
        BY <1>2, <2>0, <2>1, <4>2 DEF Holders
      <4> QED BY <1>0, <1>3, <2>0, <2>1, <3>1, <4>1, <4>3 DEF TypeOK
    <3>2. CASE q # p
      <4>1. Holders(q)' = Holders(q) /\ k \notin Holders(q)
        BY <1>0, <2>2, <3>2 DEF Holders, Counted, Using
      <4>2. procs[q] # NoAgent => refs[procs[q]] = Cardinality(Holders(q))
        BY DEF PoolInv, RefsExact
      <4>3. \A j \in Holders(q) : client[j].ag = procs[q] /\ procs[q] # NoAgent
        BY DEF PoolInv, RefsExact
      <4>4. \A j \in Holders(q) : client'[j] = client[j]
        BY <1>2, <4>1 DEF Holders
      <4> QED BY <1>0, <1>3, <2>3, <3>2, <4>1, <4>2, <4>3, <4>4 DEF TypeOK
    <3> QED BY <3>1, <3>2
  <2> QED BY <2>4 DEF RefsExact
<1> QED BY <1>10, <1>11, <1>12, <1>13, <1>14, <1>15 DEF PoolInv

\* A process is started under the lock.
LEMMA AcquireMissStep ==
    ASSUME TypeOK, PoolInv, NEW k \in Clients, NEW i \in Agents, AcquireMiss(k, i)
    PROVE  TypeOK' /\ PoolInv'
<1> USE ManagerAssumption
<1>0. /\ client[k].pc = "acquire" /\ client[k].key \in Profiles
      /\ agent[i] = "none" /\ mu = Free /\ procs[client[k].key] = NoAgent
      /\ \A key \in Profiles : procs[key] # i
      /\ \A j \in Clients : client[j].ag # i
      /\ i \notin stopped
  BY DEF AcquireMiss, At, PoolInv, ClientsPlaced, EntriesLive, TypeOK, ClientState, Pcs
<1>3. /\ agent' = [agent EXCEPT ![i] = "up"] /\ mu' = k
      /\ UNCHANGED <<procs, refs, stopped, opens>>
  BY DEF AcquireMiss
<1>1. client' = [client EXCEPT ![k] = [pc |-> "open", key |-> client[k].key, ag |-> i]]
  BY DEF AcquireMiss, Step
<1>2. /\ client' \in [Clients -> ClientState]
      /\ client'[k].pc = "open" /\ client'[k].key = client[k].key /\ client'[k].ag = i
      /\ \A j \in Clients : j # k => client'[j] = client[j]
  BY <1>0, <1>1, Moved DEF TypeOK, Pcs
<1>10. TypeOK'
  BY <1>0, <1>2, <1>3 DEF TypeOK
<1>11. ClientsPlaced'
  BY <1>0, <1>2, <1>3 DEF TypeOK, PoolInv, ClientsPlaced
<1>12. MuHeld'
  BY <1>0, <1>2, <1>3 DEF PoolInv, MuHeld
<1>13. EntriesLive'
  BY <1>0, <1>3 DEF TypeOK, PoolInv, EntriesLive
<1>14. OutOfMap'
  <2>1. \A j \in Clients : client[j].pc # "open"
    BY <1>0 DEF PoolInv, MuHeld
  <2> QED BY <1>0, <1>2, <1>3, <2>1 DEF PoolInv, OutOfMap
<1>15. RefsExact'
  <2>1. ASSUME NEW key \in Profiles PROVE Holders(key)' = Holders(key)
    BY <1>0, <1>2, HoldersKept DEF Counted, Using
  <2>2. \A j \in Clients : client[j].pc \in Counted => client'[j].ag = client[j].ag
    BY <1>0, <1>2 DEF Counted, Using
  <2>3. ASSUME NEW key \in Profiles PROVE \A j \in Holders(key) : client'[j].ag = client[j].ag
    BY <2>2 DEF Holders
  <2> QED BY <1>3, <2>1, <2>3 DEF PoolInv, RefsExact
<1> QED BY <1>10, <1>11, <1>12, <1>13, <1>14, <1>15 DEF PoolInv

\* No process could be started.
LEMMA StartFailsStep ==
    ASSUME TypeOK, PoolInv, NEW k \in Clients, StartFails(k)
    PROVE  TypeOK' /\ PoolInv'
<1> USE ManagerAssumption
<1>0. /\ client[k].pc = "acquire" /\ client[k].key \in Profiles
  BY DEF StartFails, At, PoolInv, ClientsPlaced
<1>1. client' = [client EXCEPT ![k] = [pc |-> "idle", key |-> NoKey, ag |-> NoAgent]]
  BY IdleFacts DEF StartFails, Return
<1>2. /\ client' \in [Clients -> ClientState]
      /\ client'[k].pc = "idle" /\ client'[k].key = NoKey /\ client'[k].ag = NoAgent
      /\ \A j \in Clients : j # k => client'[j] = client[j]
  BY <1>0, <1>1, Fields, Moved DEF TypeOK, Pcs
<1>10. TypeOK'
  BY <1>2 DEF TypeOK, StartFails
<1>11. ClientsPlaced'
  BY <1>2 DEF TypeOK, PoolInv, ClientsPlaced, StartFails
<1>12. MuHeld'
  BY <1>2, <1>0 DEF TypeOK, PoolInv, MuHeld, StartFails
<1>13. EntriesLive'
  BY <1>2 DEF TypeOK, PoolInv, EntriesLive, StartFails
<1>14. OutOfMap'
  <2>1. \A j \in Clients : client'[j].pc \in {"open", "kill"} => j # k /\ client'[j] = client[j]
    BY <1>2
  <2>2. \A j \in Clients : client[j].pc = "open" => client[j].ag # NoAgent
    BY DEF PoolInv, ClientsPlaced
  <2> QED BY <1>2, <2>1, <2>2 DEF PoolInv, OutOfMap, StartFails
<1>15. RefsExact'
  <2>1. ASSUME NEW key \in Profiles PROVE Holders(key)' = Holders(key)
    BY <1>0, <1>2, HoldersKept DEF Counted, Using
  <2>2. \A j \in Clients : client[j].pc \in Counted => client'[j].ag = client[j].ag
    BY <1>0, <1>2 DEF Counted, Using
  <2>3. ASSUME NEW key \in Profiles PROVE \A j \in Holders(key) : client'[j].ag = client[j].ag
    BY <2>2 DEF Holders
  <2> QED BY <1>2, <2>1, <2>3 DEF PoolInv, RefsExact, StartFails
<1> QED BY <1>10, <1>11, <1>12, <1>13, <1>14, <1>15 DEF PoolInv

\* The new process gets its entry and its first reference.
LEMMA HandshakeOKStep ==
    ASSUME TypeOK, PoolInv, NEW k \in Clients, HandshakeOK(k)
    PROVE  TypeOK' /\ PoolInv'
<1> USE ManagerAssumption
<1>a. PICK p \in Profiles, e \in Agents : p = client[k].key /\ e = client[k].ag
  BY DEF HandshakeOK, At, PoolInv, ClientsPlaced
<1>0. /\ client[k].pc = "open" /\ p = client[k].key /\ e = client[k].ag /\ p \in Profiles /\ e \in Agents /\ agent[e] # "none"
      /\ e \notin stopped /\ mu = k
  BY <1>a DEF HandshakeOK, At, PoolInv, ClientsPlaced, OutOfMap, MuHeld
<1>3. /\ \A key \in Profiles : procs[key] # e
      /\ \A j \in Clients : j # k => client[j].ag # e
  BY <1>0 DEF PoolInv, OutOfMap
<1>4. /\ procs' = [procs EXCEPT ![p] = e] /\ refs' = [refs EXCEPT ![e] = 1] /\ mu' = Free
      /\ UNCHANGED <<agent, stopped, opens>>
  BY <1>a DEF HandshakeOK, Unlock
<1>1. client' = [client EXCEPT ![k] = [pc |-> "session", key |-> p, ag |-> e]]
  BY <1>a, GoToMoves DEF HandshakeOK, Pcs
<1>2. /\ client' \in [Clients -> ClientState]
      /\ client'[k].pc = "session" /\ client'[k].key = p /\ client'[k].ag = e
      /\ \A j \in Clients : j # k => client'[j] = client[j]
  BY <1>0, <1>1, <1>a, Moved DEF TypeOK, Pcs
<1>5. procs[p] = NoAgent
  BY <1>0 DEF PoolInv, OutOfMap
<1>10. TypeOK'
  BY <1>0, <1>2, <1>4 DEF TypeOK
<1>11. ClientsPlaced'
  BY <1>0, <1>2, <1>4 DEF TypeOK, PoolInv, ClientsPlaced
<1>12. MuHeld'
  BY <1>0, <1>2, <1>4 DEF PoolInv, MuHeld
<1>13. EntriesLive'
  BY <1>0, <1>3, <1>4 DEF TypeOK, PoolInv, EntriesLive
<1>14. OutOfMap'
  <2>1. \A j \in Clients : client'[j].pc # "open"
    BY <1>0, <1>2 DEF PoolInv, MuHeld
  <2>2. ASSUME NEW j \in Clients, client'[j].pc = "kill", NEW key \in Profiles
        PROVE  procs'[key] # client'[j].ag
    BY <1>0, <1>2, <1>3, <1>4, <2>2 DEF TypeOK, PoolInv, OutOfMap
  <2> QED BY <2>1, <2>2 DEF OutOfMap
<1>15. RefsExact'
  <2>0. k \notin Holders(p) /\ procs[p] = NoAgent
    BY <1>0, <1>5 DEF Holders, Counted, Using
  <2>1. Holders(p) = {}
    BY <1>0, <2>0 DEF PoolInv, RefsExact
  <2>2. Holders(p)' = {k} /\ Cardinality(Holders(p)') = 1
    <3>1. /\ Holders(p)' = Holders(p) \cup {k}
          /\ Cardinality(Holders(p)') = Cardinality(Holders(p)) + 1
      BY <1>2, <2>0, HolderJoins DEF Counted, Using
    <3> QED BY <2>1, <3>1, FS_EmptySet
  <2>3. ASSUME NEW q \in Profiles
        PROVE  /\ procs'[q] # NoAgent => refs'[procs'[q]] = Cardinality(Holders(q)')
               /\ \A j \in Holders(q)' : client'[j].ag = procs'[q] /\ procs'[q] # NoAgent
    <3>1. CASE q = p
      BY <1>0, <1>2, <1>4, <2>2, <3>1 DEF TypeOK
    <3>2. CASE q # p
      <4>1. Holders(q)' = Holders(q) /\ k \notin Holders(q)
        BY <1>0, <1>2, <3>2, HoldersKept DEF Holders, Counted, Using
      <4>2. procs[q] # NoAgent => refs[procs[q]] = Cardinality(Holders(q))
        BY DEF PoolInv, RefsExact
      <4>3. \A j \in Holders(q) : client[j].ag = procs[q] /\ procs[q] # NoAgent
        BY DEF PoolInv, RefsExact
      <4>4. \A j \in Holders(q) : client'[j] = client[j]
        BY <1>2, <4>1 DEF Holders
      <4> QED BY <1>0, <1>3, <1>4, <3>2, <4>1, <4>2, <4>3, <4>4 DEF TypeOK
    <3> QED BY <3>1, <3>2
  <2> QED BY <2>3 DEF RefsExact
<1> QED BY <1>10, <1>11, <1>12, <1>13, <1>14, <1>15 DEF PoolInv

\* The process that did not answer is closed.
LEMMA HandshakeFailsStep ==
    ASSUME TypeOK, PoolInv, NEW k \in Clients, HandshakeFails(k)
    PROVE  TypeOK' /\ PoolInv'
<1> USE ManagerAssumption
<1>0. /\ client[k].pc = "open" /\ client[k].key \in Profiles /\ client[k].ag \in Agents
      /\ agent[client[k].ag] # "none" /\ mu = k
  BY DEF HandshakeFails, At, PoolInv, ClientsPlaced, MuHeld
<1>3. /\ \A key \in Profiles : procs[key] # client[k].ag
      /\ \A j \in Clients : j # k => client[j].ag # client[k].ag
  BY <1>0 DEF PoolInv, OutOfMap
<1>4. /\ stopped' = stopped \cup {client[k].ag} /\ mu' = Free
      /\ UNCHANGED <<procs, refs, agent, opens>>
  BY DEF HandshakeFails, Unlock
<1>1. client' = [client EXCEPT ![k] = [pc |-> "idle", key |-> NoKey, ag |-> NoAgent]]
  BY IdleFacts DEF HandshakeFails, Return
<1>2. /\ client' \in [Clients -> ClientState]
      /\ client'[k].pc = "idle" /\ client'[k].key = NoKey /\ client'[k].ag = NoAgent
      /\ \A j \in Clients : j # k => client'[j] = client[j]
  BY <1>0, <1>1, Fields, Moved DEF TypeOK, Pcs
<1>10. TypeOK'
  BY <1>2, <1>0, <1>4 DEF TypeOK
<1>11. ClientsPlaced'
  BY <1>2, <1>0, <1>4 DEF TypeOK, PoolInv, ClientsPlaced
<1>12. MuHeld'
  BY <1>2, <1>0, <1>4 DEF TypeOK, PoolInv, MuHeld
<1>13. EntriesLive'
  BY <1>2, <1>0, <1>3, <1>4 DEF TypeOK, PoolInv, EntriesLive
<1>14. OutOfMap'
  <2>1. \A j \in Clients : client'[j].pc \in {"open", "kill"} => j # k /\ client'[j] = client[j]
    BY <1>2
  <2>2. \A j \in Clients : client[j].pc = "open" => client[j].ag # NoAgent
    BY DEF PoolInv, ClientsPlaced
  <2> QED BY <1>2, <2>1, <2>2, <1>0, <1>3, <1>4 DEF PoolInv, OutOfMap
<1>15. RefsExact'
  <2>1. ASSUME NEW key \in Profiles PROVE Holders(key)' = Holders(key)
    BY <1>0, <1>2, HoldersKept DEF Counted, Using
  <2>2. \A j \in Clients : client[j].pc \in Counted => client'[j].ag = client[j].ag
    BY <1>0, <1>2 DEF Counted, Using
  <2>3. ASSUME NEW key \in Profiles PROVE \A j \in Holders(key) : client'[j].ag = client[j].ag
    BY <2>2 DEF Holders
  <2> QED BY <1>4, <2>1, <2>3 DEF PoolInv, RefsExact
<1> QED BY <1>10, <1>11, <1>12, <1>13, <1>14, <1>15 DEF PoolInv

\* CONNECT succeeded.
LEMMA SessionOKStep ==
    ASSUME TypeOK, PoolInv, NEW k \in Clients, SessionOK(k)
    PROVE  TypeOK' /\ PoolInv'
<1> USE ManagerAssumption
<1>0. /\ client[k].pc = "session" /\ client[k].key \in Profiles /\ client[k].ag \in Agents
  BY DEF SessionOK, At, PoolInv, ClientsPlaced
<1>1. client' = [client EXCEPT ![k] = [pc |-> "conn", key |-> client[k].key, ag |-> client[k].ag]]
  BY GoToMoves DEF SessionOK, Pcs
<1>2. /\ client' \in [Clients -> ClientState]
      /\ client'[k].pc = "conn" /\ client'[k].key = client[k].key /\ client'[k].ag = client[k].ag
      /\ \A j \in Clients : j # k => client'[j] = client[j]
  BY <1>0, <1>1, Fields, Moved DEF TypeOK, Pcs
<1>10. TypeOK'
  BY <1>2 DEF TypeOK, SessionOK
<1>11. ClientsPlaced'
  BY <1>2, <1>0 DEF TypeOK, PoolInv, ClientsPlaced, SessionOK
<1>12. MuHeld'
  BY <1>2, <1>0 DEF TypeOK, PoolInv, MuHeld, SessionOK
<1>13. EntriesLive'
  BY <1>2 DEF TypeOK, PoolInv, EntriesLive, SessionOK
<1>14. OutOfMap'
  <2>1. \A j \in Clients : client'[j].pc \in {"open", "kill"} => j # k /\ client'[j] = client[j]
    BY <1>2
  <2>2. \A j \in Clients : client[j].pc = "open" => client[j].ag # NoAgent
    BY DEF PoolInv, ClientsPlaced
  <2> QED BY <1>2, <2>1, <2>2, <1>0 DEF PoolInv, OutOfMap, SessionOK
<1>15. RefsExact'
  <2>1. ASSUME NEW key \in Profiles PROVE Holders(key)' = Holders(key)
    BY <1>0, <1>2, HoldersKept DEF Counted, Using
  <2>2. \A j \in Clients : client[j].pc \in Counted => client'[j].ag = client[j].ag
    BY <1>0, <1>2 DEF Counted, Using
  <2>3. ASSUME NEW key \in Profiles PROVE \A j \in Holders(key) : client'[j].ag = client[j].ag
    BY <2>2 DEF Holders
  <2> QED BY <1>2, <2>1, <2>3 DEF PoolInv, RefsExact, SessionOK
<1> QED BY <1>10, <1>11, <1>12, <1>13, <1>14, <1>15 DEF PoolInv

\* CONNECT failed; the reference is still counted.
LEMMA SessionFailsStep ==
    ASSUME TypeOK, PoolInv, NEW k \in Clients, SessionFails(k)
    PROVE  TypeOK' /\ PoolInv'
<1> USE ManagerAssumption
<1>0. /\ client[k].pc = "session" /\ client[k].key \in Profiles /\ client[k].ag \in Agents
  BY DEF SessionFails, At, PoolInv, ClientsPlaced
<1>1. client' = [client EXCEPT ![k] = [pc |-> "release", key |-> client[k].key, ag |-> client[k].ag]]
  BY GoToMoves DEF SessionFails, Pcs
<1>2. /\ client' \in [Clients -> ClientState]
      /\ client'[k].pc = "release" /\ client'[k].key = client[k].key /\ client'[k].ag = client[k].ag
      /\ \A j \in Clients : j # k => client'[j] = client[j]
  BY <1>0, <1>1, Fields, Moved DEF TypeOK, Pcs
<1>10. TypeOK'
  BY <1>2 DEF TypeOK, SessionFails
<1>11. ClientsPlaced'
  BY <1>2, <1>0 DEF TypeOK, PoolInv, ClientsPlaced, SessionFails
<1>12. MuHeld'
  BY <1>2, <1>0 DEF TypeOK, PoolInv, MuHeld, SessionFails
<1>13. EntriesLive'
  BY <1>2 DEF TypeOK, PoolInv, EntriesLive, SessionFails
<1>14. OutOfMap'
  <2>1. \A j \in Clients : client'[j].pc \in {"open", "kill"} => j # k /\ client'[j] = client[j]
    BY <1>2
  <2>2. \A j \in Clients : client[j].pc = "open" => client[j].ag # NoAgent
    BY DEF PoolInv, ClientsPlaced
  <2> QED BY <1>2, <2>1, <2>2, <1>0 DEF PoolInv, OutOfMap, SessionFails
<1>15. RefsExact'
  <2>1. ASSUME NEW key \in Profiles PROVE Holders(key)' = Holders(key)
    BY <1>0, <1>2, HoldersKept DEF Counted, Using
  <2>2. \A j \in Clients : client[j].pc \in Counted => client'[j].ag = client[j].ag
    BY <1>0, <1>2 DEF Counted, Using
  <2>3. ASSUME NEW key \in Profiles PROVE \A j \in Holders(key) : client'[j].ag = client[j].ag
    BY <2>2 DEF Holders
  <2> QED BY <1>2, <2>1, <2>3 DEF PoolInv, RefsExact, SessionFails
<1> QED BY <1>10, <1>11, <1>12, <1>13, <1>14, <1>15 DEF PoolInv

\* The connection is given up; the reference is still counted.
LEMMA CloseConnStep ==
    ASSUME TypeOK, PoolInv, NEW k \in Clients, CloseConn(k)
    PROVE  TypeOK' /\ PoolInv'
<1> USE ManagerAssumption
<1>0. /\ client[k].pc = "conn" /\ client[k].key \in Profiles /\ client[k].ag \in Agents
  BY DEF CloseConn, At, PoolInv, ClientsPlaced
<1>1. client' = [client EXCEPT ![k] = [pc |-> "release", key |-> client[k].key, ag |-> client[k].ag]]
  BY GoToMoves DEF CloseConn, Pcs
<1>2. /\ client' \in [Clients -> ClientState]
      /\ client'[k].pc = "release" /\ client'[k].key = client[k].key /\ client'[k].ag = client[k].ag
      /\ \A j \in Clients : j # k => client'[j] = client[j]
  BY <1>0, <1>1, Fields, Moved DEF TypeOK, Pcs
<1>10. TypeOK'
  BY <1>2 DEF TypeOK, CloseConn
<1>11. ClientsPlaced'
  BY <1>2, <1>0 DEF TypeOK, PoolInv, ClientsPlaced, CloseConn
<1>12. MuHeld'
  BY <1>2, <1>0 DEF TypeOK, PoolInv, MuHeld, CloseConn
<1>13. EntriesLive'
  BY <1>2 DEF TypeOK, PoolInv, EntriesLive, CloseConn
<1>14. OutOfMap'
  <2>1. \A j \in Clients : client'[j].pc \in {"open", "kill"} => j # k /\ client'[j] = client[j]
    BY <1>2
  <2>2. \A j \in Clients : client[j].pc = "open" => client[j].ag # NoAgent
    BY DEF PoolInv, ClientsPlaced
  <2> QED BY <1>2, <2>1, <2>2, <1>0 DEF PoolInv, OutOfMap, CloseConn
<1>15. RefsExact'
  <2>1. ASSUME NEW key \in Profiles PROVE Holders(key)' = Holders(key)
    BY <1>0, <1>2, HoldersKept DEF Counted, Using
  <2>2. \A j \in Clients : client[j].pc \in Counted => client'[j].ag = client[j].ag
    BY <1>0, <1>2 DEF Counted, Using
  <2>3. ASSUME NEW key \in Profiles PROVE \A j \in Holders(key) : client'[j].ag = client[j].ag
    BY <2>2 DEF Holders
  <2> QED BY <1>2, <2>1, <2>3 DEF PoolInv, RefsExact, CloseConn
<1> QED BY <1>10, <1>11, <1>12, <1>13, <1>14, <1>15 DEF PoolInv

\* A Release that leaves references.
LEMMA ReleaseSharedStep ==
    ASSUME TypeOK, PoolInv, NEW k \in Clients, ReleaseShared(k)
    PROVE  TypeOK' /\ PoolInv'
<1> USE ManagerAssumption
<1>a. PICK p \in Profiles, e \in Agents : p = client[k].key /\ e = procs[p]
  BY DEF ReleaseShared, CountDown, At, PoolInv, ClientsPlaced
<1>0. client[k].pc = "release" /\ p = client[k].key /\ p \in Profiles /\ e \in Agents /\ mu = Free /\ e = procs[p]
  BY <1>a DEF ReleaseShared, CountDown, At, PoolInv, ClientsPlaced
<1>3. /\ refs' = [refs EXCEPT ![e] = refs[e] - 1] /\ ~(refs[e] <= 1)
      /\ UNCHANGED <<mu, procs, agent, stopped, opens>>
  BY <1>a DEF ReleaseShared, CountDown, LastRef
<1>1. client' = [client EXCEPT ![k] = [pc |-> "idle", key |-> NoKey, ag |-> NoAgent]]
  BY IdleFacts DEF ReleaseShared, Return
<1>2. /\ client' \in [Clients -> ClientState]
      /\ client'[k].pc = "idle" /\ client'[k].key = NoKey /\ client'[k].ag = NoAgent
      /\ \A j \in Clients : j # k => client'[j] = client[j]
  BY <1>1, Moved DEF TypeOK, Pcs
<1>10. TypeOK'
  BY <1>0, <1>2, <1>3 DEF TypeOK
<1>11. ClientsPlaced'
  BY <1>2, <1>3 DEF PoolInv, ClientsPlaced
<1>12. MuHeld'
  BY <1>0, <1>2, <1>3 DEF PoolInv, MuHeld
<1>13. EntriesLive'
  BY <1>3 DEF PoolInv, EntriesLive
<1>14. OutOfMap'
  <2>1. \A j \in Clients : client'[j].pc # "open"
    BY <1>0, <1>2 DEF PoolInv, MuHeld
  <2>2. \A j \in Clients : client'[j].pc = "kill" => client'[j] = client[j]
    BY <1>2
  <2> QED BY <1>3, <2>1, <2>2 DEF PoolInv, OutOfMap
<1>15. RefsExact'
  <2>0. k \in Holders(p)
    BY <1>0 DEF Holders, Counted, Using
  <2>1. /\ Holders(p)' = Holders(p) \ {k}
        /\ Cardinality(Holders(p)') = Cardinality(Holders(p)) - 1
    BY <1>2, <2>0, HolderLeaves DEF Counted, Using
  <2>2. ASSUME NEW q \in Profiles
        PROVE  /\ procs'[q] # NoAgent => refs'[procs'[q]] = Cardinality(Holders(q)')
               /\ \A j \in Holders(q)' : client'[j].ag = procs'[q] /\ procs'[q] # NoAgent
    <3>1. CASE q = p
      <4>1. refs[e] = Cardinality(Holders(p)) /\ e # NoAgent
        BY <1>0 DEF PoolInv, RefsExact
      <4>2. \A j \in Holders(p) : client[j].ag = e
        BY <1>0 DEF PoolInv, RefsExact
      <4>3. \A j \in Holders(p)' : client'[j].ag = e
        BY <1>2, <2>1, <4>2 DEF Holders
      <4> QED BY <1>0, <1>3, <2>1, <3>1, <4>1, <4>3 DEF TypeOK
    <3>2. CASE q # p
      <4>1. Holders(q)' = Holders(q) /\ k \notin Holders(q)
        BY <1>0, <1>2, <3>2, HoldersKept DEF Holders, Counted, Using
      <4>2. procs[q] # NoAgent => refs[procs[q]] = Cardinality(Holders(q))
        BY DEF PoolInv, RefsExact
      <4>3. \A j \in Holders(q) : client[j].ag = procs[q] /\ procs[q] # NoAgent
        BY DEF PoolInv, RefsExact
      <4>4. \A j \in Holders(q) : client'[j] = client[j]
        BY <1>2, <4>1 DEF Holders
      <4>5. procs[q] # NoAgent => procs[q] # e
        BY <1>0, <3>2 DEF PoolInv, EntriesLive
      <4> QED BY <1>0, <1>3, <3>2, <4>1, <4>2, <4>3, <4>4, <4>5 DEF TypeOK
    <3> QED BY <3>1, <3>2
  <2> QED BY <2>2 DEF RefsExact
<1> QED BY <1>10, <1>11, <1>12, <1>13, <1>14, <1>15 DEF PoolInv

\* The last Release removes the entry; nobody else holds it.
LEMMA ReleaseLastStep ==
    ASSUME TypeOK, PoolInv, NEW k \in Clients, ReleaseLast(k)
    PROVE  TypeOK' /\ PoolInv'
<1> USE ManagerAssumption
<1>a. PICK p \in Profiles, e \in Agents : p = client[k].key /\ e = procs[p]
  BY DEF ReleaseLast, CountDown, At, PoolInv, ClientsPlaced
<1>0. /\ client[k].pc = "release" /\ p = client[k].key /\ p \in Profiles /\ e \in Agents /\ mu = Free /\ e = procs[p]
      /\ refs[e] <= 1 /\ agent[e] # "none"
  BY <1>a DEF ReleaseLast, CountDown, LastRef, At, PoolInv, ClientsPlaced, EntriesLive
<1>3. /\ refs' = [refs EXCEPT ![e] = refs[e] - 1] /\ procs' = [procs EXCEPT ![p] = NoAgent]
      /\ UNCHANGED <<mu, agent, stopped, opens>>
  BY <1>a DEF ReleaseLast, CountDown
<1>1. client' = [client EXCEPT ![k] = [pc |-> "kill", key |-> p, ag |-> e]]
  BY <1>a DEF ReleaseLast, CountDown, Step
<1>2. /\ client' \in [Clients -> ClientState]
      /\ client'[k].pc = "kill" /\ client'[k].key = p /\ client'[k].ag = e
      /\ \A j \in Clients : j # k => client'[j] = client[j]
  BY <1>0, <1>1, <1>a, Moved DEF TypeOK, Pcs
<1>4. refs[e] = 1 /\ refs[e] = Cardinality(Holders(p))
  <2>1. k \in Holders(p) /\ IsFiniteSet(Holders(p)) /\ Cardinality(Holders(p)) \in Nat
    BY <1>0, HoldersFinite DEF Holders, Counted, Using
  <2>2. Cardinality(Holders(p)) # 0
    BY <2>1, FS_EmptySet
  <2>3. refs[e] = Cardinality(Holders(p))
    BY <1>0 DEF PoolInv, RefsExact
  <2> QED BY <1>0, <2>1, <2>2, <2>3
<1>10. TypeOK'
  BY <1>0, <1>2, <1>3, <1>4 DEF TypeOK
<1>11. ClientsPlaced'
  BY <1>0, <1>2, <1>3 DEF PoolInv, ClientsPlaced
<1>12. MuHeld'
  BY <1>0, <1>2, <1>3 DEF PoolInv, MuHeld
<1>13. EntriesLive'
  BY <1>0, <1>3 DEF TypeOK, PoolInv, EntriesLive
<1>14. OutOfMap'
  <2>1. ASSUME NEW q \in Profiles PROVE procs'[q] # e
    BY <1>0, <1>3 DEF TypeOK, PoolInv, EntriesLive
  <2>2. \A j \in Clients : client'[j].pc # "open"
    BY <1>0, <1>2 DEF PoolInv, MuHeld
  <2>3. ASSUME NEW j \in Clients, j # k, client[j].pc = "kill", NEW q \in Profiles
        PROVE  procs'[q] # client[j].ag
    BY <1>0, <1>3, <2>3 DEF TypeOK, PoolInv, OutOfMap, ClientsPlaced
  <2> QED BY <1>2, <2>1, <2>2, <2>3 DEF OutOfMap
<1>15. RefsExact'
  <2>0. k \in Holders(p)
    BY <1>0 DEF Holders, Counted, Using
  <2>1. /\ Holders(p)' = Holders(p) \ {k}
        /\ Cardinality(Holders(p)') = Cardinality(Holders(p)) - 1
    BY <1>2, <2>0, HolderLeaves DEF Counted, Using
  <2>2. ASSUME NEW q \in Profiles
        PROVE  /\ procs'[q] # NoAgent => refs'[procs'[q]] = Cardinality(Holders(q)')
               /\ \A j \in Holders(q)' : client'[j].ag = procs'[q] /\ procs'[q] # NoAgent
    <3>1. CASE q = p
      <4>2. Cardinality(Holders(p)') = 0
        BY <1>4, <2>1
      <4>3. Holders(p)' = {}
        <5>1. IsFiniteSet(Holders(p)')
          BY <2>1, HoldersFinite, FS_RemoveElement
        <5> QED BY <4>2, <5>1, FS_EmptySet
      <4> QED BY <1>0, <1>3, <3>1, <4>3 DEF TypeOK
    <3>2. CASE q # p
      <4>1. Holders(q)' = Holders(q) /\ k \notin Holders(q)
        BY <1>0, <1>2, <3>2, HoldersKept DEF Holders, Counted, Using
      <4>2. procs[q] # NoAgent => refs[procs[q]] = Cardinality(Holders(q))
        BY DEF PoolInv, RefsExact
      <4>3. \A j \in Holders(q) : client[j].ag = procs[q] /\ procs[q] # NoAgent
        BY DEF PoolInv, RefsExact
      <4>4. \A j \in Holders(q) : client'[j] = client[j]
        BY <1>2, <4>1 DEF Holders
      <4>5. procs[q] # NoAgent => procs[q] # e
        BY <1>0, <3>2 DEF PoolInv, EntriesLive
      <4> QED BY <1>0, <1>3, <3>2, <4>1, <4>2, <4>3, <4>4, <4>5 DEF TypeOK
    <3> QED BY <3>1, <3>2
  <2> QED BY <2>2 DEF RefsExact
<1> QED BY <1>10, <1>11, <1>12, <1>13, <1>14, <1>15 DEF PoolInv

\* The process nobody uses any more is closed.
LEMMA KillStep ==
    ASSUME TypeOK, PoolInv, NEW k \in Clients, Kill(k)
    PROVE  TypeOK' /\ PoolInv'
<1> USE ManagerAssumption
<1>0. /\ client[k].pc = "kill" /\ client[k].ag \in Agents /\ agent[client[k].ag] # "none"
  BY DEF Kill, At, PoolInv, ClientsPlaced
<1>3. \A key \in Profiles : procs[key] # client[k].ag
  BY <1>0 DEF PoolInv, OutOfMap
<1>4. /\ stopped' = stopped \cup {client[k].ag}
      /\ UNCHANGED <<mu, procs, refs, agent, opens>>
  BY DEF Kill
<1>5. \A j \in Clients : client[j].pc = "open" => client[j].ag # client[k].ag
  BY <1>0 DEF PoolInv, OutOfMap
<1>1. client' = [client EXCEPT ![k] = [pc |-> "idle", key |-> NoKey, ag |-> NoAgent]]
  BY IdleFacts DEF Kill, Return
<1>2. /\ client' \in [Clients -> ClientState]
      /\ client'[k].pc = "idle" /\ client'[k].key = NoKey /\ client'[k].ag = NoAgent
      /\ \A j \in Clients : j # k => client'[j] = client[j]
  BY <1>0, <1>1, Fields, Moved DEF TypeOK, Pcs
<1>10. TypeOK'
  BY <1>2, <1>0, <1>4 DEF TypeOK
<1>11. ClientsPlaced'
  BY <1>2, <1>0, <1>4 DEF TypeOK, PoolInv, ClientsPlaced
<1>12. MuHeld'
  BY <1>2, <1>0, <1>4 DEF TypeOK, PoolInv, MuHeld
<1>13. EntriesLive'
  BY <1>2, <1>0, <1>3, <1>4 DEF TypeOK, PoolInv, EntriesLive
<1>14. OutOfMap'
  <2>1. \A j \in Clients : client'[j].pc \in {"open", "kill"} => j # k /\ client'[j] = client[j]
    BY <1>2
  <2>2. \A j \in Clients : client[j].pc = "open" => client[j].ag # NoAgent
    BY DEF PoolInv, ClientsPlaced
  <2> QED BY <1>2, <2>1, <2>2, <1>0, <1>3, <1>4, <1>5 DEF PoolInv, OutOfMap
<1>15. RefsExact'
  <2>1. ASSUME NEW key \in Profiles PROVE Holders(key)' = Holders(key)
    BY <1>0, <1>2, HoldersKept DEF Counted, Using
  <2>2. \A j \in Clients : client[j].pc \in Counted => client'[j].ag = client[j].ag
    BY <1>0, <1>2 DEF Counted, Using
  <2>3. ASSUME NEW key \in Profiles PROVE \A j \in Holders(key) : client'[j].ag = client[j].ag
    BY <2>2 DEF Holders
  <2> QED BY <1>4, <2>1, <2>3 DEF PoolInv, RefsExact
<1> QED BY <1>10, <1>11, <1>12, <1>13, <1>14, <1>15 DEF PoolInv

\* A process dies; nothing the pool keeps changes.
LEMMA DieStep ==
    ASSUME TypeOK, PoolInv, NEW i \in Agents, Die(i)
    PROVE  TypeOK' /\ PoolInv'
<1>1. TypeOK'
  BY DEF TypeOK, Die
<1>2. /\ agent' = [agent EXCEPT ![i] = "dead"]
      /\ UNCHANGED <<mu, procs, refs, stopped, opens, client>>
  BY DEF Die
<1>3. \A a \in Agents : agent[a] # "none" => agent'[a] # "none"
  BY <1>2 DEF TypeOK
<1>4. ClientsPlaced' /\ MuHeld' /\ OutOfMap'
  BY <1>2, <1>3 DEF PoolInv, ClientsPlaced, MuHeld, OutOfMap
<1>5. EntriesLive'
  BY <1>2, <1>3 DEF TypeOK, PoolInv, EntriesLive
<1>6. RefsExact'
  BY <1>2 DEF PoolInv, RefsExact, Holders
<1> QED BY <1>1, <1>4, <1>5, <1>6 DEF PoolInv

-----------------------------------------------------------------------------
(* The inductive invariant *)

\* Nothing is open at the start.
LEMMA InitInv == Init => TypeOK /\ PoolInv
<1> SUFFICES ASSUME Init PROVE TypeOK /\ PoolInv
  OBVIOUS
<1> USE ManagerAssumption
<1>1. TypeOK
  BY IdleFacts DEF Init, TypeOK
<1>2. \A k \in Clients : client[k].pc = "idle" /\ client[k].ag = NoAgent
  BY IdleFacts DEF Init
<1>3. ClientsPlaced /\ MuHeld /\ EntriesLive /\ OutOfMap
  BY <1>2 DEF Init, ClientsPlaced, MuHeld, EntriesLive, OutOfMap
<1>4. RefsExact
  BY <1>2 DEF Init, RefsExact, Holders, Counted, Using
<1> QED BY <1>1, <1>3, <1>4 DEF PoolInv

\* Every step keeps it.
LEMMA StepInv == TypeOK /\ PoolInv /\ [Next]_vars => TypeOK' /\ PoolInv'
<1> SUFFICES ASSUME TypeOK, PoolInv, [Next]_vars PROVE TypeOK' /\ PoolInv'
  OBVIOUS
<1>1. CASE \E k \in Clients, p \in Profiles : Connect(k, p)
  BY <1>1, ConnectStep
<1>2. CASE \E k \in Clients : TakeLock(k)
  BY <1>2, AcquireHitStep, AcquireMissStep, StartFailsStep, ReleaseSharedStep, ReleaseLastStep
     DEF TakeLock
<1>3. CASE \E k \in Clients : Proceed(k)
  BY <1>3, HandshakeOKStep, HandshakeFailsStep, SessionOKStep, SessionFailsStep, KillStep
     DEF Proceed
<1>4. CASE \E k \in Clients : CloseConn(k)
  BY <1>4, CloseConnStep
<1>5. CASE \E i \in Agents : Die(i)
  BY <1>5, DieStep
<1>6. CASE Finished \/ UNCHANGED vars
  <2>1. UNCHANGED vars
    BY <1>6 DEF Finished
  <2>2. TypeOK'
    BY <2>1 DEF TypeOK, vars
  <2>3. ClientsPlaced' /\ MuHeld' /\ EntriesLive' /\ OutOfMap'
    BY <2>1 DEF PoolInv, ClientsPlaced, MuHeld, EntriesLive, OutOfMap, vars
  <2>4. RefsExact'
    BY <2>1 DEF PoolInv, RefsExact, Holders, vars
  <2> QED BY <2>2, <2>3, <2>4 DEF PoolInv
<1> QED BY <1>1, <1>2, <1>3, <1>4, <1>5, <1>6 DEF Next

\* The pool's invariant holds throughout.
THEOREM PoolInvariant == Spec => [](TypeOK /\ PoolInv)
BY InitInv, StepInv, PTL DEF Spec

\* The pool's variables stay in their types.
THEOREM PoolTypes == Spec => []TypeOK
BY PoolInvariant, PTL

\* The count Release tests is the number of goroutines that still owe a
\* Release, whatever the interleaving of Acquire, failed CONNECT and Release.
THEOREM ReferencesCounted == Spec => []RefsExact
<1>1. PoolInv => RefsExact
  BY DEF PoolInv
<1> QED BY <1>1, PoolInvariant, PTL

\* A user's process is the one its profile's entry names, and an entry's
\* process was not closed.
LEMMA UsersAreSafe == TypeOK /\ PoolInv => NoLiveKill
<1> SUFFICES ASSUME TypeOK, PoolInv, NEW i \in stopped, NEW k \in Users(i) PROVE FALSE
  BY DEF NoLiveKill
<1>1. k \in Clients /\ client[k].pc \in Using /\ client[k].ag = i
  BY DEF Users
<1>2. client[k].key \in Profiles /\ k \in Holders(client[k].key)
  BY <1>1 DEF PoolInv, ClientsPlaced, Holders, Counted, Using
<1>3. procs[client[k].key] = i /\ procs[client[k].key] # NoAgent
  BY <1>1, <1>2 DEF PoolInv, RefsExact
<1> QED BY <1>2, <1>3 DEF PoolInv, EntriesLive

\* The unlocked kill of manager.go:58 and the close of a failed handshake never
\* hit a process some connection uses or is being opened on.
THEOREM NoKillUnderUser == Spec => []NoLiveKill
BY PoolInvariant, UsersAreSafe, PTL

-----------------------------------------------------------------------------
(* The pool implements AgentLease *)

\* The lease of one goroutine.
Leased(k) == IF client[k].pc \in Using THEN client[k].ag ELSE NoAgent

\* Nobody has a lease at the start.
LEMMA LeaseStart == Init => Lease!LeaseInit
BY IdleFacts DEF Init, Lease!LeaseInit, Using

\* Three of the pool's moves, in the words of the abstract specification: a
\* step that keeps every lease stutters or retires a process nobody has, ...
LEMMA LeaseKept ==
    ASSUME NEW k \in Clients, Leased(k)' = Leased(k),
           \A j \in Clients : j # k => client'[j] = client[j],
           \/ stopped' = stopped
           \/ \E i \in Agents : /\ stopped' = stopped \cup {i}
                                /\ \A j \in Clients : Leased(j) # i
    PROVE  [Lease!LeaseNext]_(Lease!leaseVars)
<1>1. \A j \in Clients : Leased(j)' = Leased(j)
  BY DEF Leased
<1>2. [j \in Clients |-> Leased(j)]' = [j \in Clients |-> Leased(j)]
  BY <1>1
<1>3. CASE stopped' = stopped
  BY <1>2, <1>3 DEF Lease!leaseVars, Leased
<1>4. CASE \E i \in Agents : stopped' = stopped \cup {i} /\ \A j \in Clients : Leased(j) # i
  <2>1. PICK i \in Agents : stopped' = stopped \cup {i} /\ \A j \in Clients : Leased(j) # i
    BY <1>4
  <2>2. Lease!Retire(i)
    BY <1>2, <2>1 DEF Lease!Retire, Leased
  <2> QED BY <2>2 DEF Lease!LeaseNext
<1> QED BY <1>3, <1>4

\* ... one that gives a goroutine a live process takes a lease, ...
LEMMA LeaseTaken ==
    ASSUME NEW k \in Clients, NEW i \in Agents, Leased(k) = NoAgent, Leased(k)' = i,
           i \notin stopped, stopped' = stopped,
           \A j \in Clients : j # k => client'[j] = client[j]
    PROVE  [Lease!LeaseNext]_(Lease!leaseVars)
<1>1. \A j \in Clients : j # k => Leased(j)' = Leased(j)
  BY DEF Leased
<1>2. [j \in Clients |-> Leased(j)]' = [[j \in Clients |-> Leased(j)] EXCEPT ![k] = i]
  BY <1>1
<1>3. Lease!Take(k, i)
  BY <1>2 DEF Lease!Take, Leased
<1> QED BY <1>3 DEF Lease!LeaseNext

\* ... and one that ends a goroutine's use gives its lease back.
LEMMA LeaseGiven ==
    ASSUME NEW k \in Clients, Leased(k) # NoAgent, Leased(k)' = NoAgent, stopped' = stopped,
           \A j \in Clients : j # k => client'[j] = client[j]
    PROVE  [Lease!LeaseNext]_(Lease!leaseVars)
<1>1. \A j \in Clients : j # k => Leased(j)' = Leased(j)
  BY DEF Leased
<1>2. [j \in Clients |-> Leased(j)]' = [[j \in Clients |-> Leased(j)] EXCEPT ![k] = NoAgent]
  BY <1>1
<1>3. Lease!GiveBack(k)
  BY <1>2 DEF Lease!GiveBack, Leased
<1> QED BY <1>3 DEF Lease!LeaseNext

\* Steps of goroutines map to steps of the abstract specification.
LEMMA LeaseStep == TypeOK /\ PoolInv /\ [Next]_vars => [Lease!LeaseNext]_(Lease!leaseVars)
<1> SUFFICES ASSUME TypeOK, PoolInv, [Next]_vars PROVE [Lease!LeaseNext]_(Lease!leaseVars)
  OBVIOUS
<1> USE ManagerAssumption
<1>0. client \in [Clients -> ClientState]
  BY DEF TypeOK
<1>1. ASSUME NEW k \in Clients, NEW p \in Profiles, Connect(k, p)
      PROVE  [Lease!LeaseNext]_(Lease!leaseVars)
  <2>1. Leased(k)' = Leased(k) /\ \A j \in Clients : j # k => client'[j] = client[j]
    BY <1>0, <1>1, IdleFacts DEF Connect, Leased, Using
  <2> QED BY <1>1, <2>1, LeaseKept DEF Connect
<1>2. ASSUME NEW k \in Clients, AcquireHit(k) PROVE [Lease!LeaseNext]_(Lease!leaseVars)
  <2>1. PICK e \in Agents : e = procs[client[k].key] /\ e \notin stopped
    BY <1>2 DEF AcquireHit, At, TypeOK, PoolInv, ClientsPlaced, EntriesLive
  <2>2. /\ Leased(k) = NoAgent /\ Leased(k)' = e
        /\ \A j \in Clients : j # k => client'[j] = client[j]
    BY <1>0, <1>2, <2>1 DEF AcquireHit, At, Step, Leased, Using
  <2> QED BY <1>2, <2>1, <2>2, LeaseTaken DEF AcquireHit
<1>3. ASSUME NEW k \in Clients, NEW i \in Agents, AcquireMiss(k, i)
      PROVE  [Lease!LeaseNext]_(Lease!leaseVars)
  <2>1. Leased(k)' = Leased(k) /\ \A j \in Clients : j # k => client'[j] = client[j]
    BY <1>0, <1>3 DEF AcquireMiss, At, Step, Leased, Using
  <2> QED BY <1>3, <2>1, LeaseKept DEF AcquireMiss
<1>4. ASSUME NEW k \in Clients, StartFails(k) PROVE [Lease!LeaseNext]_(Lease!leaseVars)
  <2>1. Leased(k)' = Leased(k) /\ \A j \in Clients : j # k => client'[j] = client[j]
    BY <1>0, <1>4, IdleFacts DEF StartFails, At, Return, Leased, Using
  <2> QED BY <1>4, <2>1, LeaseKept DEF StartFails
<1>5. ASSUME NEW k \in Clients, HandshakeOK(k) PROVE [Lease!LeaseNext]_(Lease!leaseVars)
  <2>1. PICK e \in Agents : e = client[k].ag /\ e \notin stopped
    BY <1>5 DEF HandshakeOK, At, PoolInv, ClientsPlaced, OutOfMap
  <2>2. /\ Leased(k) = NoAgent /\ Leased(k)' = e
        /\ \A j \in Clients : j # k => client'[j] = client[j]
    BY <1>0, <1>5, <2>1 DEF HandshakeOK, At, GoTo, Step, Leased, Using
  <2> QED BY <1>5, <2>1, <2>2, LeaseTaken DEF HandshakeOK
<1>6. ASSUME NEW k \in Clients, HandshakeFails(k) PROVE [Lease!LeaseNext]_(Lease!leaseVars)
  <2>1. PICK i \in Agents : i = client[k].ag /\ stopped' = stopped \cup {i}
    BY <1>6 DEF HandshakeFails, At, PoolInv, ClientsPlaced
  <2>2. \A j \in Clients : Leased(j) # i
    BY <1>6, <2>1 DEF HandshakeFails, At, PoolInv, OutOfMap, Leased, Using
  <2>3. Leased(k)' = Leased(k) /\ \A j \in Clients : j # k => client'[j] = client[j]
    BY <1>0, <1>6, IdleFacts DEF HandshakeFails, At, Return, Leased, Using
  <2> QED BY <2>1, <2>2, <2>3, LeaseKept
<1>7. ASSUME NEW k \in Clients, SessionOK(k) PROVE [Lease!LeaseNext]_(Lease!leaseVars)
  <2>1. Leased(k)' = Leased(k) /\ \A j \in Clients : j # k => client'[j] = client[j]
    BY <1>0, <1>7 DEF SessionOK, At, GoTo, Step, Leased, Using
  <2> QED BY <1>7, <2>1, LeaseKept DEF SessionOK
<1>8. ASSUME NEW k \in Clients, SessionFails(k) \/ CloseConn(k)
      PROVE  [Lease!LeaseNext]_(Lease!leaseVars)
  <2>1. Leased(k) # NoAgent
    BY <1>8 DEF SessionFails, CloseConn, At, PoolInv, ClientsPlaced, Leased, Using
  <2>2. Leased(k)' = NoAgent /\ \A j \in Clients : j # k => client'[j] = client[j]
    BY <1>0, <1>8 DEF SessionFails, CloseConn, GoTo, Step, Leased, Using
  <2> QED BY <1>8, <2>1, <2>2, LeaseGiven DEF SessionFails, CloseConn
<1>9. ASSUME NEW k \in Clients, ReleaseShared(k) \/ ReleaseLast(k)
      PROVE  [Lease!LeaseNext]_(Lease!leaseVars)
  <2>1. Leased(k) = NoAgent
    BY <1>9 DEF ReleaseShared, ReleaseLast, CountDown, At, Leased, Using
  <2>2. Leased(k)' = NoAgent /\ \A j \in Clients : j # k => client'[j] = client[j]
    <3>1. CASE ReleaseShared(k)
      BY <1>0, <3>1, IdleFacts DEF ReleaseShared, Return, Leased, Using
    <3>2. CASE ReleaseLast(k)
      BY <1>0, <3>2 DEF ReleaseLast, Step, Leased, Using
    <3> QED BY <1>9, <3>1, <3>2
  <2> QED BY <1>9, <2>1, <2>2, LeaseKept DEF ReleaseShared, ReleaseLast, CountDown
<1>10. ASSUME NEW k \in Clients, Kill(k) PROVE [Lease!LeaseNext]_(Lease!leaseVars)
  <2>1. PICK i \in Agents : i = client[k].ag /\ stopped' = stopped \cup {i}
    BY <1>10 DEF Kill, At, PoolInv, ClientsPlaced
  <2>2. \A j \in Clients : Leased(j) # i
    <3> SUFFICES ASSUME NEW j \in Clients, Leased(j) = i PROVE FALSE
      OBVIOUS
    <3>1. client[j].pc \in Using /\ client[j].ag = i
      BY DEF Leased
    <3>2. client[j].key \in Profiles /\ j \in Holders(client[j].key)
      BY <3>1 DEF PoolInv, ClientsPlaced, Holders, Counted, Using
    <3>3. procs[client[j].key] = i
      BY <3>1, <3>2 DEF PoolInv, RefsExact
    <3> QED BY <1>10, <2>1, <3>2, <3>3 DEF Kill, At, PoolInv, OutOfMap
  <2>3. Leased(k)' = Leased(k) /\ \A j \in Clients : j # k => client'[j] = client[j]
    BY <1>0, <1>10, IdleFacts DEF Kill, At, Return, Leased, Using
  <2> QED BY <2>1, <2>2, <2>3, LeaseKept
<1>11. CASE (\E i \in Agents : Die(i)) \/ Finished \/ UNCHANGED vars
  <2>1. UNCHANGED <<client, stopped>>
    BY <1>11 DEF Die, Finished, vars
  <2> QED BY <2>1 DEF Lease!leaseVars
<1> QED BY <1>1, <1>2, <1>3, <1>4, <1>5, <1>6, <1>7, <1>8, <1>9, <1>10, <1>11
        DEF Next, TakeLock, Proceed

\* Manager implements AgentLease: a process is leased only while it was not
\* retired, and retired only while nobody leases it.
THEOREM Implements == Spec => KeepsLease
<1>1. Spec => Lease!LeaseSpec
  BY LeaseStart, LeaseStep, PoolInvariant, PTL DEF Spec, Lease!LeaseSpec
<1> QED BY <1>1 DEF KeepsLease

=============================================================================
