SPECIFICATION Spec
CONSTANTS
    MemLimit = 1
    L0Trigger = 1
    L0Stop = 2
    MaxWrites = 2
    MaxQueue = 2
    MaxFaults = 1
    MaxCrashes = 1
    MaxAsked = 1
    MaxReaders = 1
    MaxFlushes = 1
INVARIANTS
    TypeOK
    AckedSurviveExit
    SyncedSurvivePower
    ReadersSeeAll
PROPERTY
    WritersReturn
CHECK_DEADLOCK FALSE
