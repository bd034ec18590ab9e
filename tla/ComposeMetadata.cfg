SPECIFICATION Spec
CONSTANTS
    CTX = ctxA
    OTHER_CTX = ctxB
    NONE = none
    SeedCount = 5
    MaxSeq = 9
    Targets = {"plain"}
    MaxLen = 2
INVARIANT ChangedStoreLands
CHECK_DEADLOCK FALSE
