SPECIFICATION Spec
CONSTANTS
    CTX = ctxA
    OTHER_CTX = ctxB
    NONE = none
    SeedCount = 4
    MaxSeq = 6
    Targets = {"plain"}
    Broken = TRUE
    MaxRuns = 2
INVARIANTS
    TypeOK
    VerdictIsEarned
    ErrorMeansMisfire
CHECK_DEADLOCK FALSE
