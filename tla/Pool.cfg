SPECIFICATION FairSpec
CONSTANTS
    g1 = g1
    g2 = g2
    g3 = g3
    p1 = p1
    p2 = p2
    a1 = a1
    a2 = a2
    a3 = a3
    a4 = a4
    Free = Free
    NoKey = NoKey
    NoAgent = NoAgent
    Clients <- ThreeClients
    Profiles <- TwoProfiles
    Agents <- ThreeAgents
    MaxOpens = 3
INVARIANTS
    TypeOK
    RefsExact
    NoLiveKill
PROPERTIES
    KeepsLease
    Reclaimed
    AcquireReturns
