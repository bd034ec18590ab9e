CONSTANTS
    Labels = {"log", "memory"}
    MaxVersion = 2
    MaxRows = 3
    Edits = 3
SPECIFICATION Spec
INVARIANTS PublishedWasMeasured AgreedCellsAgree PassingJobAcceptsNothing
PROPERTY MergeReplacesInPlace
