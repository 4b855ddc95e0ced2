------------------------------ MODULE MCShared ------------------------------
(***************************************************************************)
(* Three things that threads of LevelDB share, none of which touches the   *)
(* state of another: a behaviour is about one of them, its `part'.         *)
(***************************************************************************)
EXTENDS PosixEnv

CONSTANTS UserKeys, MaxHeight, BlockSize, Align, EntrySizes, MaxEntries,
          Tables, Charge, Capacities, Limits, Slots, Clients, MinLength

VARIABLES part,
          entries, stores, published, arena, refs, owned, reader,
          capacity, cache, clients, destroyed

\* An entry that leaves the arena's pointer unaligned, and one of its own block.
MCEntrySizes == [user \in UserKeys |-> 1 + 2 * user]
MCCharge == [t \in Tables |-> IF t = 1 THEN 2 ELSE 1]
MCLimits == [mmap |-> 1, fd |-> 1]
TwoAndOne == [p \in Processes |-> IF p = 1 THEN {11, 12} ELSE {21}]

memtableVars == <<entries, stores, published, arena, refs, owned, reader>>
cacheVars == <<capacity, cache, clients, destroyed>>

M == INSTANCE MemTable
C == INSTANCE TableCache
ASSUME MCMemTableAssumption == M!MemTableAssumption
ASSUME MCTableCacheAssumption == C!TableCacheAssumption

MCInit == /\ part \in {"memtable", "cache", "env"}
          /\ Init /\ M!Init
          /\ C!Init /\ (part # "cache" => \A c \in Capacities : capacity <= c)
MCNext ==
  \/ part = "memtable" /\ M!Next /\ UNCHANGED <<part, vars, cacheVars>>
  \/ part = "cache" /\ C!Next /\ UNCHANGED <<part, vars, memtableVars>>
  \/ part = "env" /\ Next /\ UNCHANGED <<part, memtableVars, cacheVars>>
MCSpec == /\ MCInit /\ [][MCNext]_<<part, vars, memtableVars, cacheVars>>
          /\ WF_vars(part = "env" /\ BGThread /\ UNCHANGED <<part, memtableVars, cacheVars>>)

\* A search of a memtable that is being inserted into misses nothing that was
\* there when it started, finds the newest entry of a key, and never reads what
\* is half written; nothing is allocated twice.  (SkipList, Arena, MemTable::Get;
\* see MemTable.)
SearchesSound == M!TypeOK /\ M!NothingTorn /\ M!SkipsNothing /\ M!GetsNewest /\ M!RegionsApart

\* A table is closed when nobody uses it any more, once and not before; there is
\* one entry for it, on the list that tells whether it is in use; and the limits
\* on descriptors and mapped files hold.  (LRUCache, TableCache, Limiter; see
\* TableCache.)
CacheSound == /\ C!TypeOK /\ C!DeletedWhenUnused /\ C!ListsTellUse /\ C!OneEntryPerTable
              /\ C!LimitsHold

\* What Schedule is given runs, once and in the order in which it was given.
\* (PosixEnv::Schedule, BGThread; see PosixEnv.)
ItemsRun == [](TypeOK /\ RunInOrder) /\ (part = "env" => EveryItemRuns)
=============================================================================
