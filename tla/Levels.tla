------------------------------- MODULE Levels -------------------------------
(***************************************************************************)
(* The sorted tables of LevelDB and the compactions that move them         *)
(* (Pods/leveldb-library/db/version_set.cc, with the parts of db_impl.cc   *)
(* that decide which entries survive).  The background thread runs one     *)
(* compaction at a time and writes out a full memtable in the middle of    *)
(* it; writes, reads and snapshots go on meanwhile.  Write queue, log      *)
(* files and the lifetime of the table files are in Store.                 *)
(***************************************************************************)
EXTENDS InternalKeys

CONSTANTS
  NumLevels,          \* config::kNumLevels
  MaxMemCompactLevel, \* config::kMaxMemCompactLevel
  L0Trigger,          \* config::kL0_CompactionTrigger
  LevelLimit,         \* MaxBytesForLevel, for the levels from 1 on
  MaxFileSize,        \* Options::max_file_size; an entry has size 1
  GrandparentFactor,  \* a table overlaps at most that many full grandparents
  ExpandFactor,       \* inputs are expanded up to that many full tables
  MaxWrites, MaxDeletes, MaxSnapshots, MaxAsked   \* bounds

LevelsAssumption ==
  /\ {NumLevels, MaxMemCompactLevel, L0Trigger, MaxFileSize, GrandparentFactor,
      ExpandFactor, MaxWrites, MaxDeletes, MaxSnapshots, MaxAsked}
       \subseteq Nat
  /\ NumLevels > 1 /\ MaxMemCompactLevel < NumLevels /\ L0Trigger > 0
  /\ LevelLimit \in [1 .. NumLevels - 2 -> Nat \ {0}]

VARIABLES
  mem,        \* the entries of the memtables
  files,      \* current_->files_: the tables of each level
  pointer,    \* compact_pointer_: {}, or the key that a level is compacted to
  seek,       \* file_to_compact_: {}, or a table that wastes seeks, and its level
  nextNumber, \* next_file_number_
  job,        \* {}, or the compaction under way
  snapshots,  \* sequence numbers of the live snapshots
  history,    \* every entry ever written
  asked,      \* compactions that seeks or manual requests have asked for
  split,      \* user keys that two tables of one level have shared
  lapped      \* a memtable was written out during a manual compaction

vars == <<mem, files, pointer, seek, nextNumber, job, snapshots, history,
          asked, split, lapped>>

Level == 0 .. NumLevels - 1
LastSequence == Cardinality(history)

-----------------------------------------------------------------------------
(* Tables: a number and the entries. *)

Smallest(f) == FirstOf(f.data)
Largest(f)  == LastOf(f.data)
AllData(fs) == UNION {f.data : f \in fs}
TotalFileSize(fs) == Cardinality(UNION {{f} \X f.data : f \in fs})

BySmallestKey(f, g) ==
  \/ Before(Smallest(f), Smallest(g))
  \/ Smallest(f) = Smallest(g) /\ f.number < g.number
FirstFile(fs) == CHOOSE f \in fs : \A g \in fs \ {f} : BySmallestKey(f, g)

\* The tables among fs that have something between two user keys.
InRange(fs, low, high) ==
  {f \in fs : low <= Largest(f).key /\ Smallest(f).key <= high}

\* Version::GetOverlappingInputs.  The tables of level 0 overlap each other: one
\* that reaches beyond the range widens it, and the search starts again, until no
\* table does.  That is the least closed range around the given one, so what is
\* found in it is what is in all of them.
Closed(fs, low, high) ==
  \A f \in InRange(fs, low, high) : low <= Smallest(f).key /\ Largest(f).key <= high
GetOverlappingInputs(fs, level, low, high) ==
  IF level > 0 THEN InRange(fs, low, high)
  ELSE {f \in fs : \A a \in Key, b \in Key :
          a <= low /\ high <= b /\ Closed(fs, a, b) => f \in InRange(fs, a, b)}

Overlapping(level, low, high) ==
  GetOverlappingInputs(files[level], level, low, high)

\* The tables of a level that overlap the range of other tables (GetRange).
OverlappingRange(level, fs) ==
  LET data == AllData(fs)
  IN  Overlapping(level, FirstOf(data).key, LastOf(data).key)

-----------------------------------------------------------------------------
(* Reads. *)

\* FindFile: the first table that ends at or after the key that is sought.
\* One table of each level may have it, all those around it in level 0.
TablesFor(level, k, s) ==
  IF level = 0 THEN InRange(files[0], k, k)
  ELSE LET ends == {f \in files[level] :
                      ~Before(Largest(f), [key |-> k, seq |-> s])}
       IN  IF ends = {} THEN {}
           ELSE {f \in {FirstFile(ends)} : Smallest(f).key <= k}

\* ForEachOverlapping: the tables to search, level by level, and newest first in
\* level 0.
Candidates(k, s) ==
  UNION {{[level |-> l, file |-> f] : f \in TablesFor(l, k, s)} : l \in Level}
SearchedBefore(a, b) ==
  \/ a.level < b.level
  \/ a.level = b.level /\ a.file.number > b.file.number
FirstSearched(tables) ==
  CHOOSE a \in tables : \A b \in tables \ {a} : SearchedBefore(a, b)

\* Version::Get and DBImpl::Get: the first table that has the key decides.
Get(k, s) ==
  LET hits == {a \in Candidates(k, s) : Visible(a.file.data, k, s) # {}}
  IN  IF Visible(mem, k, s) # {} THEN Visible(mem, k, s)
      ELSE IF hits = {} THEN {}
      ELSE Visible(FirstSearched(hits).file.data, k, s)

-----------------------------------------------------------------------------
(* Clients. *)

Write(k, del) ==
  LET e == [key |-> k, seq |-> LastSequence + 1, del |-> del]
  IN  /\ LastSequence < MaxWrites
      /\ del => Cardinality({x \in history : x.del}) < MaxDeletes
      /\ mem' = mem \union {e}
      /\ history' = history \union {e}
      /\ UNCHANGED <<files, pointer, seek, nextNumber, job, snapshots,
                     asked, split, lapped>>

GetSnapshot ==
  /\ Cardinality(snapshots) < MaxSnapshots
  /\ snapshots' = snapshots \union {LastSequence}
  /\ UNCHANGED <<mem, files, pointer, seek, nextNumber, job, history,
                 asked, split, lapped>>

ReleaseSnapshot(s) ==
  /\ snapshots' = snapshots \ {s}
  /\ UNCHANGED <<mem, files, pointer, seek, nextNumber, job, history,
                 asked, split, lapped>>

\* UpdateStats, after a Get or a sampled key of an iterator had to look into two
\* tables: the first of them has used up its seeks.
UpdateStats(k, s) ==
  LET tables == Candidates(k, s)
  IN  /\ asked < MaxAsked
      /\ seek = {} /\ Cardinality(tables) >= 2
      /\ seek' = {FirstSearched(tables)}
      /\ asked' = asked + 1
      /\ UNCHANGED <<mem, files, pointer, nextNumber, job, snapshots, history,
                     split, lapped>>

-----------------------------------------------------------------------------
(* The memtable becomes a table. *)

\* AppendVersion: a new Version has seen no wasted seeks yet.
NewVersion == seek' = {}

\* With a bug: the target level itself is not looked at.
PickLevelOverlapping(low, high) ==
  IF Overlapping(0, low, high) # {} THEN 0 ELSE MaxMemCompactLevel

\* Version::PickLevelForMemTableOutput
PickLevelForMemTableOutput(low, high) ==
  LET free(l) == /\ Overlapping(l, low, high) = {}
                 /\ l + 1 < NumLevels =>
                      TotalFileSize(Overlapping(l + 1, low, high))
                        <= GrandparentFactor * MaxFileSize
  IN  IF Overlapping(0, low, high) # {} THEN 0
      ELSE Max({l \in 0 .. MaxMemCompactLevel : \A m \in 1 .. l : free(m)})

\* CompactMemTable and WriteLevel0Table.
Flush ==
  LET f == [number |-> nextNumber, data |-> mem]
      level == PickLevelForMemTableOutput(Smallest(f).key, Largest(f).key)
  IN  /\ mem # {}
      /\ mem' = {}
      /\ files' = [files EXCEPT ![level] = @ \union {f}]
      /\ nextNumber' = nextNumber + 1
      /\ NewVersion
      /\ lapped' = (lapped \/ \E j \in job : j.manual)
      /\ UNCHANGED <<pointer, job, snapshots, history, asked, split>>

-----------------------------------------------------------------------------
(* Choosing a compaction. *)

\* VersionSet::Finalize: how full a level is, as a fraction.  Level 0 counts its
\* tables, since every read looks at all of them.
Fill(level) == IF level = 0 THEN <<Cardinality(files[0]), L0Trigger>>
               ELSE <<TotalFileSize(files[level]), LevelLimit[level]>>
Fuller(l, m) == Fill(l)[1] * Fill(m)[2] > Fill(m)[1] * Fill(l)[2]
FullestLevel ==
  {l \in 0 .. NumLevels - 2 : \A m \in 0 .. NumLevels - 2 :
     ~Fuller(m, l) /\ (m < l => Fuller(l, m))}
SizeCompaction == \E l \in 0 .. NumLevels - 2 : Fill(l)[1] >= Fill(l)[2]
NeedsCompaction == SizeCompaction \/ seek # {}

\* The first table behind the compaction pointer, or else the first one.
NextFile(level) ==
  LET behind == {f \in files[level] :
                   \A p \in pointer[level] : Before(p, Largest(f))}
  IN  {FirstFile(IF behind # {} THEN behind ELSE files[level])}

\* The tables of both levels that a compaction of `first` has to take, and
\* those of the level below that its output may overlap.
SetupOtherInputs(level, first, manual) ==
  LET second    == OverlappingRange(level + 1, first)
      all       == first \union second
      expanded0 == OverlappingRange(level, all)
      expanded1 == OverlappingRange(level + 1, expanded0)
      grow == /\ second # {}
              /\ Cardinality(expanded0) > Cardinality(first)
              /\ TotalFileSize(second) + TotalFileSize(expanded0)
                   < ExpandFactor * MaxFileSize
              /\ Cardinality(expanded1) = Cardinality(second)
      in0 == IF grow THEN expanded0 ELSE first
      in1 == IF grow THEN expanded1 ELSE second
  IN  [level |-> level, in0 |-> in0, in1 |-> in1,
       grandparents |-> IF level + 2 < NumLevels
                        THEN OverlappingRange(level + 2, in0 \union in1) ELSE {},
       deeper |-> UNION {files[l] : l \in level + 2 .. NumLevels - 1},
       oldest |-> Min(snapshots \union {LastSequence}),
       manual |-> manual]

\* VersionSet::PickCompaction: too much data before wasted seeks.  In level 0 the
\* table drags in every other one that it overlaps.
PickCompaction(level) ==
  LET picked == IF SizeCompaction THEN NextFile(level)
                ELSE {x.file : x \in seek}
  IN  SetupOtherInputs(level, IF level = 0 THEN OverlappingRange(0, picked)
                              ELSE picked, FALSE)

IsTrivialMove(c) ==
  /\ Cardinality(c.in0) = 1 /\ c.in1 = {}
  /\ TotalFileSize(c.grandparents) <= GrandparentFactor * MaxFileSize

\* BackgroundCompaction, without a memtable to write out: a single table without
\* a counterpart moves down as it is, anything else is merged.
PointTo(c) ==
  pointer' = [pointer EXCEPT ![c.level] = {LastOf(AllData(c.in0))}]

StartCompaction ==
  job = {} /\
  \E level \in IF SizeCompaction THEN FullestLevel ELSE {x.level : x \in seek} :
    LET c == PickCompaction(level)
    IN  /\ PointTo(c)
        /\ \/ /\ IsTrivialMove(c)
              /\ files' = [files EXCEPT ![level] = @ \ c.in0,
                                       ![level + 1] = @ \union c.in0]
              /\ NewVersion
              /\ UNCHANGED job
           \/ /\ ~IsTrivialMove(c)
              /\ job' = {c}
              /\ UNCHANGED <<files, seek>>
        /\ UNCHANGED <<mem, nextNumber, snapshots, history, asked,
                       split, lapped>>

\* TEST_CompactRange and VersionSet::CompactRange: a manual compaction of a
\* range of one level (1 .. n of its tables if they are large).
CompactRange(level, low, high) ==
  LET inputs  == Overlapping(level, low, high)
      upTo(f) == {g \in inputs : g = f \/ BySmallestKey(g, f)}
      full(f) == TotalFileSize(upTo(f)) >= MaxFileSize
      enough  == {f \in inputs : full(f)}
      first   == IF level > 0 /\ enough # {} THEN upTo(FirstFile(enough)) ELSE inputs
      c       == SetupOtherInputs(level, first, TRUE)
  IN  /\ asked < MaxAsked
      /\ job = {} /\ inputs # {}
      /\ PointTo(c)
      /\ job' = {c}
      /\ asked' = asked + 1
      /\ UNCHANGED <<mem, files, seek, nextNumber, snapshots, history,
                     split, lapped>>

-----------------------------------------------------------------------------
(* DoCompactionWork. *)

\* With a bug: a table of the level below the output may hold an older version.
BaseLevelIgnored(c, k) == TRUE

\* Compaction::IsBaseLevelForKey
IsBaseLevelForKey(c, k) ==
  \A f \in c.deeper : k \notin Smallest(f).key .. Largest(f).key

\* Rule (A): an entry that a newer one hides from every snapshot.
Hidden(c, data, e) ==
  \E n \in data : n.key = e.key /\ n.seq > e.seq /\ n.seq <= c.oldest

\* A deletion that has nothing left to hide.
Obsolete(c, e) == e.del /\ e.seq <= c.oldest /\ IsBaseLevelForKey(c, e.key)

\* ShouldStopBefore: the output so far overlaps too many grandparents.
PassGrandparents(c, out, e) ==
  LET passed == {g \in c.grandparents : Before(Largest(g), e)}
      bytes  == out.bytes + (IF out.seen THEN TotalFileSize(passed \ out.passed)
                             ELSE 0)
      stop   == bytes > GrandparentFactor * MaxFileSize
  IN  [done   |-> IF stop /\ out.open # {} THEN Append(out.done, out.open) ELSE out.done,
       open   |-> IF stop THEN {} ELSE out.open,
       passed |-> passed, seen |-> TRUE, bytes |-> IF stop THEN 0 ELSE bytes]

\* One entry of the merged input: an output table ends before it or behind it.
AddEntry(c, data, out, e) ==
  LET o    == PassGrandparents(c, out, e)
      open == o.open \union {e}
  IN  IF Hidden(c, data, e) \/ Obsolete(c, e) THEN o
      ELSE IF Cardinality(open) >= MaxFileSize
      THEN [o EXCEPT !.done = Append(@, open), !.open = {}]
      ELSE [o EXCEPT !.open = open]

\* The entries of the output tables, in order.
Outputs(c) ==
  LET data  == AllData(c.in0 \union c.in1)
      input == InOrder(data)
      out[n \in 0 .. Len(input)] ==
        IF n = 0 THEN [done |-> << >>, open |-> {}, passed |-> {}, seen |-> FALSE, bytes |-> 0]
        ELSE AddEntry(c, data, out[n - 1], input[n])
      last  == out[Len(input)]
  IN  IF last.open = {} THEN last.done ELSE Append(last.done, last.open)

SharedKeys(fs) == {k \in Key : \E f \in fs, g \in fs : f # g /\
                     {f, g} \subseteq InRange(fs, k, k)}

\* InstallCompactionResults
FinishCompaction ==
  \E c \in job :
    LET outs   == Outputs(c)
        tables == {[number |-> nextNumber + i - 1, data |-> outs[i]] :
                     i \in DOMAIN outs}
    IN  /\ files' = [files EXCEPT ![c.level] = @ \ c.in0,
                                  ![c.level + 1] = (@ \ c.in1) \union tables]
        /\ nextNumber' = nextNumber + Len(outs)
        /\ split' = split \union SharedKeys(tables)
        /\ job' = {}
        /\ NewVersion
        /\ UNCHANGED <<mem, pointer, snapshots, history, asked, lapped>>

-----------------------------------------------------------------------------
Init ==
  /\ mem = {} /\ history = {} /\ snapshots = {} /\ job = {} /\ seek = {}
  /\ files = [l \in Level |-> {}] /\ pointer = [l \in Level |-> {}]
  /\ nextNumber = 2 /\ asked = 0
  /\ split = {} /\ lapped = FALSE

ReadPoints == snapshots \union {LastSequence}

Next ==
  \/ \E k \in Key, del \in BOOLEAN : Write(k, del)
  \/ GetSnapshot
  \/ \E s \in snapshots : ReleaseSnapshot(s)
  \/ \E k \in Key, s \in ReadPoints : UpdateStats(k, s)
  \/ Flush
  \/ StartCompaction
  \/ \E level \in 0 .. NumLevels - 2, low \in Key, high \in Key :
       low <= high /\ CompactRange(level, low, high)
  \/ FinishCompaction

Spec == Init /\ [][Next]_vars

-----------------------------------------------------------------------------
TypeOK ==
  /\ mem \subseteq history /\ history \subseteq Entry(1 .. LastSequence)
  /\ \A l \in Level : \A f \in files[l] :
       f.data # {} /\ f.data \subseteq history /\ f.number < nextNumber
  /\ \A x \in seek : x.level < NumLevels - 1 /\ x.file \in files[x.level]
  /\ \A c \in job : c.in0 \subseteq files[c.level] /\ c.in1 \subseteq files[c.level + 1]
  /\ snapshots \subseteq 0 .. LastSequence

Disjoint(fs) == \A f \in fs, g \in fs :
  f # g => Before(Largest(f), Smallest(g)) \/ Before(Largest(g), Smallest(f))

\* "Make sure there is no overlap in levels > 0" (version_set.cc:742).
LevelsDisjoint == \A l \in Level \ {0} : Disjoint(files[l])

\* The same, as long as no memtable was written out during a manual compaction.
DisjointUnlessLapped == lapped \/ LevelsDisjoint

\* DoCompactionWork drops a deletion because what lies further down is older:
\* "data in lower levels will have larger sequence numbers" (db_impl.cc:963).
NewerAbove(k) ==
  \A l \in Level, m \in Level : l < m =>
    \A e \in AllData(files[l]), x \in AllData(files[m]) :
      e.key = k /\ x.key = k => e.seq > x.seq
OrderedUnlessSplit == lapped \/ \A k \in Key \ split : NewerAbove(k)

\* What is true of the tables at any time: behind level 0 those of a level are
\* disjoint and what lies above is newer, compaction by compaction, unless the code
\* lets them overlap or share a key; and the type invariant.
\* (version_set.cc, db_impl.cc.)
LevelsWellFormed == TypeOK /\ DisjointUnlessLapped /\ OrderedUnlessSplit

\* Every read point sees the newest write up to it, whichever tables it is in
\* and whatever compactions have merged, moved or dropped.
\* (Version::Get, DoCompactionWork.)
ReadsNewest ==
  lapped \/ \A k \in Key \ split, s \in ReadPoints :
    ValueOf(Get(k, s)) = ValueOf(Visible(history, k, s))
=============================================================================
