SPECIFICATION Spec
CONSTANTS
    NONE = NONE
    SeedCount = 2
    MaxSeq = 3
    MaxEdits = 3
INVARIANTS
    TypeOK
    ServedWasWritten
    UneditedIsNewest
PROPERTY OnlyTheTailGoesUnnoticed
