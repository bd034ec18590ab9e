CONSTANTS
    CTX = ctxA
    OTHER_CTX = ctxB
    NONE = none
    REFUSED = refused
    SeedCount = 1
    MaxSeq = 2
    MaxEdits = 3
SPECIFICATION Spec
INVARIANTS
    TypeOK
    ServedIsGenuine
    NoFalseAlarm
PROPERTIES
    NoLaundering
    WitnessMovesForward
    IsTamperEvidentLog
