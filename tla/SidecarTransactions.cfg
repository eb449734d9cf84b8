SPECIFICATION FairSpec
CONSTANTS
    MaxReq = 4
    MaxRows = 0
    UserOps <- AnyOp
    Failures = {"tx", "fetch", "error"}
    Cancels = {"EXEC"}
    EarlyClose = FALSE
INVARIANTS
    OnlyAbandonedSurvives
    CommitKeepsUnrefused
    AutoRestored
PROPERTIES
    Answered
