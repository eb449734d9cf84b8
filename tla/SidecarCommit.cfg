SPECIFICATION Spec
CONSTANTS
    MaxReq = 4
    MaxRows = 1
    UserOps = {"BEGIN", "EXEC", "COMMIT"}
    Failures = {"tx"}
    Cancels = {}
    EarlyClose = FALSE
INVARIANTS
    CommitKeeps
