\* A memtable with a reader, a cache with two clients, two processes with threads.
SPECIFICATION MCSpec
CONSTANTS
    Processes = {1, 2}
    Threads <- TwoAndOne
    MaxItems = 3
    UserKeys = {1, 2}
    MaxHeight = 2
    BlockSize = 16
    Align = 2
    EntrySizes <- MCEntrySizes
    MaxEntries = 3
    Tables = {1, 2, 3}
    Charge <- MCCharge
    Capacities = {0, 1, 2, 3}
    Limits <- MCLimits
    Slots = {1, 2, 3, 4, 5}
    Clients = {c1, c2}
    MinLength = 1
INVARIANTS
    SearchesSound
    CacheSound
    OneThreadPerProcess
    OneHolderUnlessCrowded
PROPERTY
    ItemsRun
CHECK_DEADLOCK FALSE
