\* Four levels, four writes, a deletion and a snapshot.
SPECIFICATION Spec
CONSTANTS
    Key = {1, 2}
    NumLevels = 4
    MaxMemCompactLevel = 2
    L0Trigger = 2
    LevelLimit <- SmallLevels
    MaxFileSize = 2
    GrandparentFactor = 1
    ExpandFactor = 3
    MaxWrites = 4
    MaxDeletes = 1
    MaxSnapshots = 1
    MaxAsked = 1
INVARIANTS
    LevelsWellFormed
    ReadsNewest
CHECK_DEADLOCK FALSE
