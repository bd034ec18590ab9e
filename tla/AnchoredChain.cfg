SPECIFICATION Spec
CONSTANTS
    Chain = chainA
    OtherChain = chainB
    Texts = {t1, t2}
    Altered = altered
    MaxLines = 4
    MaxSigned = 5
    MaxEdits = 2
INVARIANTS
    TypeOK
    VerifiedIsABranch
    VerifiedIsAnchored
    ReasonsMatchTheCorpus
CHECK_DEADLOCK FALSE
