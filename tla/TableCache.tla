----------------------------- MODULE TableCache -----------------------------
(***************************************************************************)
(* The table cache of LevelDB (Pods/leveldb-library/db/table_cache.cc) on  *)
(* one shard of the LRU cache (util/cache.cc) and on the files of          *)
(* PosixEnv (util/env_posix.cc): threads look tables up, open those that   *)
(* are missing without a lock, insert, use and release them while the      *)
(* background thread evicts the tables that it deletes.  Every call of the *)
(* cache holds its mutex, so each is one step.                             *)
(***************************************************************************)
EXTENDS Naturals, FiniteSets, SequencesExt

CONSTANTS
  Tables,      \* file numbers; a number is its own hash
  Charge,      \* table -> its charge
  Capacities,  \* the capacities to choose from
  Limits,      \* [mmap, fd]: what the two Limiters allow
  Slots,       \* where entries are allocated, and again once they are freed
  Clients,     \* threads that read
  MinLength    \* the least length of the hash table

\* Of the constants.
TableCacheAssumption ==
  /\ Tables \subseteq Nat /\ Capacities \subseteq Nat
  /\ Charge \in [Tables -> Nat]
  /\ Limits \in [{"mmap", "fd"} -> Nat]
  /\ IsFiniteSet(Slots) /\ Slots = 1 .. Cardinality(Slots)
  /\ IsFiniteSet(Clients)
  /\ MinLength \in Nat \ {0}

VARIABLES
  capacity,   \* capacity_
  cache,      \* the entries, the hash table, the two lists, usage_, and what the
              \*   Limiters still allow (their files belong to the entries)
  clients,    \* what each thread does: its table, the file that it opens, its handle
  destroyed   \* the TableCache has been deleted
vars == <<capacity, cache, clients, destroyed>>

NoEntry == [key |-> 0, file |-> "none", refs |-> 0, inCache |-> FALSE, live |-> FALSE]
Without(list, e) ==
  IF e \in Range(list) THEN RemoveAt(list, CHOOSE i \in DOMAIN list : list[i] = e) ELSE list

-----------------------------------------------------------------------------
(* HandleTable: chains of entries. *)

Bucket(buckets, t) == 1 + (t % Len(buckets))
Chained(c) == UNION {Range(c.buckets[b]) : b \in DOMAIN c.buckets}
\* The entry that FindPointer ends at, in a singleton, or nothing.
Found(c, t) ==
  {e \in Range(c.buckets[Bucket(c.buckets, t)]) : c.entries[e].key = t}

Doubled(length, elems) == IF length < elems THEN 2 * length ELSE length
LengthFor(elems) ==
  LET after[n \in 0 .. elems] == IF n = 0 THEN MinLength ELSE Doubled(after[n - 1], elems)
  IN  after[elems]

\* Every chain is read from its front and every entry put in front of its new one.
Moved(c, buckets, e) ==
  [buckets EXCEPT ![Bucket(buckets, c.entries[e].key)] = <<e>> \o @]
Resize(c) ==
  LET handles == FlattenSeq(c.buckets)
      after[n \in 0 .. Len(handles)] ==
        IF n = 0 THEN [b \in 1 .. LengthFor(Cardinality(Chained(c))) |-> << >>]
        ELSE Moved(c, after[n - 1], handles[n])
  IN  [c EXCEPT !.buckets = after[Len(handles)]]

Chain(c, e, old) ==
  [c EXCEPT !.buckets[Bucket(c.buckets, c.entries[e].key)] =
     IF old = {} THEN Append(@, e) ELSE [i \in DOMAIN @ |-> IF @[i] \in old THEN e ELSE @[i]]]

TableInsert(c, e, old) ==
  LET chained == Chain(c, e, old)
  IN  IF old = {} /\ Cardinality(Chained(chained)) > Len(c.buckets)
      THEN Resize(chained) ELSE chained

TableRemove(c, e) ==
  [c EXCEPT !.buckets[Bucket(c.buckets, c.entries[e].key)] = Without(@, e)]

-----------------------------------------------------------------------------
(* References. *)

Release(allowed, file) ==
  IF file \in DOMAIN allowed THEN [allowed EXCEPT ![file] = @ + 1] ELSE allowed

\* DeleteEntry: the table and its file go, and the slot is free again.
DeleteEntry(c, e) ==
  [c EXCEPT !.entries[e] = NoEntry, !.allowed = Release(@, c.entries[e].file)]

Ref(c, e) ==
  LET idle == c.entries[e].refs = 1 /\ c.entries[e].inCache
  IN  [c EXCEPT !.entries[e].refs = @ + 1,
                !.lru   = IF idle THEN Without(@, e) ELSE @,
                !.inUse = IF idle THEN Append(@, e) ELSE @]

Unref(c, e) ==
  LET left == c.entries[e].refs - 1
      idle == left = 1 /\ c.entries[e].inCache
  IN  IF left = 0 THEN DeleteEntry(c, e)
      ELSE [c EXCEPT !.entries[e].refs = left,
                     !.inUse = IF idle THEN Without(@, e) ELSE @,
                     !.lru   = IF idle THEN Append(@, e) ELSE @]

\* With a bug: an erased entry is deleted at once.
EraseAtOnce(c, e) ==
  DeleteEntry([c EXCEPT !.lru = Without(@, e), !.inUse = Without(@, e),
                        !.usage = @ - Charge[c.entries[e].key]], e)
\* The entry is no longer in the hash table.
FinishErase(c, e) ==
  Unref([c EXCEPT !.lru = Without(@, e), !.inUse = Without(@, e),
                  !.entries[e].inCache = FALSE, !.usage = @ - Charge[c.entries[e].key]], e)

EraseTable(c, t) ==
  LET e == CHOOSE found \in Found(c, t) : TRUE
  IN  IF Found(c, t) = {} THEN c ELSE FinishErase(TableRemove(c, e), e)

\* The entry that was not used for longest goes; a loop has at most a turn for each.
EraseOldest(c) == IF c.lru = << >> THEN c ELSE EraseTable(c, c.entries[c.lru[1]].key)
EvictOne(c, limit) == IF c.usage > limit THEN EraseOldest(c) ELSE c
EvictDownTo(c, limit) ==
  LET after[n \in 0 .. Len(c.lru)] == IF n = 0 THEN c ELSE EvictOne(after[n - 1], limit)
  IN  after[Len(c.lru)]
PruneAll(c) ==
  LET after[n \in 0 .. Len(c.lru)] == IF n = 0 THEN c ELSE EraseOldest(after[n - 1])
  IN  after[Len(c.lru)]

\* LRUCache::Insert: the client has one reference, the cache has another.
Insert(c, e, t, file) ==
  LET old   == Found(c, t)
      new   == [key |-> t, file |-> file, refs |-> IF capacity > 0 THEN 2 ELSE 1,
                inCache |-> capacity > 0, live |-> TRUE]
      given == [c EXCEPT !.entries[e] = new]
      kept  == TableInsert([given EXCEPT !.inUse = Append(@, e), !.usage = @ + Charge[t]],
                           e, old)
      erased == IF old = {} THEN kept ELSE FinishErase(kept, CHOOSE o \in old : TRUE)
  IN  EvictDownTo(IF capacity > 0 THEN erased ELSE given, capacity)

-----------------------------------------------------------------------------
(* The clients: FindTable, Get and the iterators of NewIterator. *)

Idle == [phase |-> "idle", table |-> 0, file |-> "none", handle |-> 0]
Becomes(p, client) == clients' = [clients EXCEPT ![p] = client]

Lookup(p, t) ==
  /\ clients[p].phase = "idle" /\ ~destroyed
  /\ IF Found(cache, t) = {}
     THEN /\ Becomes(p, [Idle EXCEPT !.phase = "missed", !.table = t])
          /\ UNCHANGED cache
     ELSE \E e \in Found(cache, t) :
            /\ cache' = Ref(cache, e)
            /\ Becomes(p, [Idle EXCEPT !.phase = "using", !.table = t, !.handle = e])
  /\ UNCHANGED <<capacity, destroyed>>

\* Neither the .ldb file nor the .sst file can be opened.
OpenFails(p) ==
  /\ clients[p].phase = "missed"
  /\ Becomes(p, Idle)
  /\ UNCHANGED <<capacity, cache, destroyed>>

\* NewRandomAccessFile: mapped as long as the Limiter allows it, else with a file
\* descriptor of its own or, beyond that limit, with one per read.
Acquired(allowed) == IF allowed.mmap > 0 THEN "mmap"
                     ELSE IF allowed.fd > 0 THEN "fd" ELSE "temporary"
Acquire(allowed) == IF Acquired(allowed) = "temporary" THEN allowed
                    ELSE [allowed EXCEPT ![Acquired(allowed)] = @ - 1]
OpenFile(p) ==
  /\ clients[p].phase = "missed"
  /\ cache' = [cache EXCEPT !.allowed = Acquire(@)]
  /\ Becomes(p, [clients[p] EXCEPT !.phase = "opened", !.file = Acquired(cache.allowed)])
  /\ UNCHANGED <<capacity, destroyed>>

\* GetFileSize or mmap fails, or Table::Open finds the file unreadable.
OpenTableFails(p) ==
  /\ clients[p].phase = "opened"
  /\ cache' = [cache EXCEPT !.allowed = Release(@, clients[p].file)]
  /\ Becomes(p, Idle)
  /\ UNCHANGED <<capacity, destroyed>>

OpenTable(p) ==
  /\ clients[p].phase = "opened"
  /\ \E e \in {s \in Slots : ~cache.entries[s].live} :
       /\ \A s \in Slots : s < e => cache.entries[s].live
       /\ cache' = Insert(cache, e, clients[p].table, clients[p].file)
       /\ Becomes(p, [clients[p] EXCEPT !.phase = "using", !.file = "none", !.handle = e])
  /\ UNCHANGED <<capacity, destroyed>>

\* The end of Get, or UnrefEntry when the iterator is deleted.
ReleaseHandle(p) ==
  /\ clients[p].phase = "using"
  /\ cache' = Unref(cache, clients[p].handle)
  /\ Becomes(p, Idle)
  /\ UNCHANGED <<capacity, destroyed>>

\* DeleteObsoleteFiles deletes a table.
Evict(t) ==
  /\ ~destroyed
  /\ cache' = EraseTable(cache, t)
  /\ UNCHANGED <<capacity, clients, destroyed>>

Prune ==
  /\ ~destroyed
  /\ cache' = PruneAll(cache)
  /\ UNCHANGED <<capacity, clients, destroyed>>

\* ~TableCache when the database is closed, and with it ~LRUCache.
DropEntry(c, e) == Unref([c EXCEPT !.entries[e].inCache = FALSE], e)
DropAll(c) ==
  LET after[n \in 0 .. Len(c.lru)] == IF n = 0 THEN c ELSE DropEntry(after[n - 1], c.lru[n])
  IN  after[Len(c.lru)]
Destroy ==
  /\ ~destroyed /\ \A p \in Clients : clients[p] = Idle
  /\ destroyed' = TRUE
  /\ cache' = DropAll(cache)
  /\ UNCHANGED <<capacity, clients>>

Init ==
  /\ capacity \in Capacities
  /\ cache = [entries |-> [e \in Slots |-> NoEntry],
              buckets |-> [b \in 1 .. MinLength |-> << >>],
              lru |-> << >>, inUse |-> << >>, usage |-> 0, allowed |-> Limits]
  /\ clients = [p \in Clients |-> Idle]
  /\ destroyed = FALSE

Next ==
  \/ \E p \in Clients, t \in Tables : Lookup(p, t)
  \/ \E p \in Clients : OpenFails(p) \/ OpenFile(p) \/ OpenTableFails(p)
                          \/ OpenTable(p) \/ ReleaseHandle(p)
  \/ \E t \in Tables : Evict(t)
  \/ Prune
  \/ Destroy

Spec == Init /\ [][Next]_vars

-----------------------------------------------------------------------------
(* Properties. *)

Entry == [key : {0} \union Tables, file : {"none", "mmap", "fd", "temporary"},
          refs : 0 .. 1 + Cardinality(Clients), inCache : BOOLEAN, live : BOOLEAN]
\* The type invariant.
TypeOK ==
  /\ capacity \in Capacities /\ destroyed \in BOOLEAN
  /\ cache.entries \in [Slots -> Entry]
  /\ cache.usage \in Nat
  /\ \A p \in Clients : clients[p].handle \in {0} \union Slots

Live == {e \in Slots : cache.entries[e].live}
Holders(e) == {p \in Clients : clients[p].handle = e}

\* A table that a thread is using is not deleted under it, whatever is evicted,
\* replaced or pruned, and a table that nobody needs is deleted (cache.h:40-51).
DeletedWhenUnused ==
  \A e \in Slots :
    /\ Holders(e) # {} => e \in Live
    /\ \A p \in Holders(e) : cache.entries[e].key = clients[p].table
    /\ e \in Live /\ Holders(e) = {} => ~destroyed /\ cache.entries[e].inCache

\* Every entry in the cache is on exactly one list: on lru_ when only the cache
\* refers to it, on in_use_ otherwise, and other entries are on neither; references
\* are those of the holders and the cache (cache.cc:21-38).
ListsTellUse ==
  ~destroyed =>
    /\ IsInjective(cache.lru \o cache.inUse)
    /\ Range(cache.lru) =
         {e \in Live : cache.entries[e].inCache /\ cache.entries[e].refs = 1}
    /\ Range(cache.inUse) =
         {e \in Live : cache.entries[e].inCache /\ cache.entries[e].refs > 1}
    /\ \A e \in Live : cache.entries[e].refs =
         Cardinality(Holders(e)) + IF cache.entries[e].inCache THEN 1 ELSE 0

Charges(entries) ==
  LET upTo[n \in {0} \union Slots] ==
        IF n = 0 THEN 0
        ELSE upTo[n - 1] + IF entries[n].inCache THEN Charge[entries[n].key] ELSE 0
  IN  upTo[Cardinality(Slots)]
\* The hash table has the entries in the cache, one for a table although two threads
\* may open it at once, each in the chain where Lookup searches it; and the charges
\* add up.
OneEntryPerTable ==
  ~destroyed =>
    /\ Chained(cache) = {e \in Live : cache.entries[e].inCache}
    /\ \A e \in Chained(cache) : Found(cache, cache.entries[e].key) = {e}
    /\ IsInjective(FlattenSeq(cache.buckets))
    /\ cache.usage = Charges(cache.entries)

\* No more files are mapped or open than the limits allow, and what a table or a
\* failed open acquired is given back, once.
FilesOpen(kind) == Cardinality({e \in Live : cache.entries[e].file = kind})
                     + Cardinality({p \in Clients : clients[p].file = kind})
LimitsHold == \A kind \in DOMAIN Limits :
                cache.allowed[kind] \in Nat
                  /\ cache.allowed[kind] + FilesOpen(kind) = Limits[kind]
=============================================================================
