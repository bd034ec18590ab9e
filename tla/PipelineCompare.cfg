CONSTANTS
    Labels = {"log", "memory"}
    MaxVersion = 2
    MaxRows = 3
    Edits = 1
SPECIFICATION Spec
INVARIANT ComparedLikeForLike
