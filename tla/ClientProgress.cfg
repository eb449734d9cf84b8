SPECIFICATION FairSpec
CONSTANTS
    g1 = g1
    g2 = g2
    Callers <- TwoCallers
    MaxConn = 2
    MaxReq = 2
    MaxRows = 2
    RowsCap = 1
    PipeCap = 1
    Faults = {}
    Disciplined = TRUE
    Exits = TRUE
    UserOps = {"QUERY", "CLOSE"}
INVARIANTS
    NoChannelPanic
    StreamFaithful
PROPERTIES
    Settles
