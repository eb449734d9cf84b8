SPECIFICATION Spec
CONSTANTS
    MaxReq = 4
    MaxRows = 1
    UserOps = {"BEGIN", "EXEC", "ROLLBACK"}
    Failures = {}
    Cancels = {"EXEC"}
    EarlyClose = FALSE
INVARIANTS
    RollbackUndoes
