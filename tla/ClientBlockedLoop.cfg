SPECIFICATION FairSpec
CONSTANTS
    g1 = g1
    g2 = g2
    Callers <- OneCaller
    MaxConn = 2
    MaxReq = 2
    MaxRows = 2
    RowsCap = 1
    PipeCap = 1
    Faults = {}
    Disciplined = FALSE
    Exits = TRUE
    UserOps = {"QUERY"}
PROPERTIES
    CallsFailOnExit
CHECK_DEADLOCK FALSE
