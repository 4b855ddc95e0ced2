\* Logs, their records, tables and messages: written, damaged, read; and a database
\* of two writes that is damaged once and repaired, with two failures or crashes.
SPECIFICATION MCSpec
CONSTANTS
    LogBlockSize = 4
    HeaderSize = 2
    Lengths = {0, 5}
    ReuseLogs = TRUE
    MaxRecords = 2
    MaxOpens = 1
    Radix = 4
    Max32 = 2
    Max64 = 3
    Limit32 = 16
    Limit64 = 64
    SequenceSize = 2
    CountSize = 1
    NumLevels = 2
    Slices <- MCSlices
    Edits <- MCEdits
    HeldBefore <- MCBefore
    MaxOps = 2
    MaxByte = 3
    MaxTag = 29
    BlockSize = 10
    RestartInterval = 2
    FilterBase = 6
    Targets <- MCTargets
    Scenarios <- MCScenarios
    GroupBits = 3
    Word = 2
    ShiftWraps = TRUE
    Cases <- MCCases
    ChangedTo = {0, 7, 8}
    Key = {1}
    MaxWrites = 2
    MaxDamages = 1
    MaxFaults = 1
    MaxFailures = 2
INVARIANTS
    RecordsRead
    LookupFindsNewest
    MovesAsCursor
    MessagesRoundTrip
    FramesKept
    NothingDestroyed
    RepairedIsWhole
PROPERTY
    OnlyReplacedIsDestroyed
CHECK_DEADLOCK FALSE
