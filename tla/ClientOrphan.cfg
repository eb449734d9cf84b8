SPECIFICATION FairSpec
CONSTANTS
    g1 = g1
    g2 = g2
    Callers <- OneCaller
    MaxConn = 1
    MaxReq = 3
    MaxRows = 1
    RowsCap = 1
    PipeCap = 1
    Faults = {}
    Disciplined = FALSE
    Exits = TRUE
    UserOps = {"QUERY", "CLOSE"}
PROPERTIES
    StreamsFailOnExit
CHECK_DEADLOCK FALSE
