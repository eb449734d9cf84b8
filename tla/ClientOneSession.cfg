SPECIFICATION Spec
CONSTANTS
    g1 = g1
    g2 = g2
    Callers <- TwoCallers
    MaxConn = 1
    MaxReq = 3
    MaxRows = 2
    RowsCap = 1
    PipeCap = 1
    Faults = {"badrow", "short", "huge"}
    Disciplined = FALSE
    Exits = TRUE
    UserOps = {"EXEC", "QUERY", "CLOSE"}
SYMMETRY CallerSymmetry
INVARIANTS
    TypeOK
    NoChannelPanic
    StreamFaithful
    BlockedOnlyOnReader
    OneCallPerSession
CHECK_DEADLOCK FALSE
