SPECIFICATION Spec
CONSTANTS
    MaxReq = 3
    MaxRows = 1
    UserOps <- AnyOp
    Failures <- Anything
    Cancels = {"EXEC", "QUERY"}
    EarlyClose = TRUE
INVARIANTS
    TypeOK
    ClosedBeforeEnd
    Serial
    CancelAims
    CancelFinds
    
PROPERTIES
    KeepsAnswers
