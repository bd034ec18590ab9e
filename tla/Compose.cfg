SPECIFICATION Spec
CONSTANTS
    CTX = ctxA
    OTHER_CTX = ctxB
    NONE = none
    SeedCount = 5
    MaxSeq = 9
    Targets = {"reference", "forgetful", "openfang", "openfang_strict", "plain"}
    MaxLen = 4
INVARIANTS
    TypeOK
    LandingIsReal
    FindingsNameTheHole
CHECK_DEADLOCK FALSE
