SPECIFICATION Spec
CONSTANTS
    CTX = ctxA
    OTHER_CTX = ctxB
    NONE = none
    SeedCount = 5
    MaxSeq = 9
    Targets = {"forgetful"}
    MaxLen = 3
INVARIANT RollbackLands
CHECK_DEADLOCK FALSE
