---------------------------- MODULE DBIterators -----------------------------
(***************************************************************************)
(* What a reader of a LevelDB database moves (Pods/leveldb-library):       *)
(* DBIter (db/db_iter.cc), which shows the keys of one snapshot, over a    *)
(* MergingIterator (table/merger.cc) over the iterators of tables.  A      *)
(* write is its sequence number, which is also the value it stores.        *)
(***************************************************************************)
EXTENDS Tables

CONSTANTS Scenarios  \* [writes: for each number its user key and type, older: those
                     \* in the level, cut: how many in its first file, snapshot, fault]

VARIABLES scenario, tables, iter
vars == <<scenario, tables, iter>>

-----------------------------------------------------------------------------
(* The tables of a scenario. *)

Deletion == 0
Value == 1
NoType == 2
ValueTypeForSeek == Value

\* AppendInternalKey and ParseInternalKey
InternalKey(user, seq, type) == Append(user, 3 * seq + type)
Sequence(key) == Tag(key) \div 3
TypeOf(key) == Tag(key) % 3
Parses(key) == TypeOf(key) # NoType
\* The key that comes right before the newest version up to a sequence number.
LookupKey(user, seq) == InternalKey(user, seq, ValueTypeForSeek)

KeyOf(s, n) == InternalKey(s.writes[n].user, n, s.writes[n].type)
Entries(s, numbers) ==
  [i \in 1 .. Cardinality(numbers) |->
     LET n == CHOOSE n \in numbers : Cardinality({m \in numbers :
                                        Precedes(KeyOf(s, m), KeyOf(s, n))}) = i - 1
     IN  [key |-> KeyOf(s, n), value |-> n]]

\* A block of a table (0: the one with its filters) cannot be read, or an entry of
\* a block cannot be decoded.
Spoiled(table, fault) ==
  CASE fault.kind = "block" ->
         [table EXCEPT !.unreadable = {fault.block} \intersect ({0} \union DOMAIN table.blocks)]
    [] fault.kind = "entry" ->
         IF fault.block \in DOMAIN table.blocks
              /\ fault.entry \in DOMAIN table.blocks[fault.block].cells
         THEN [table EXCEPT !.blocks[fault.block].cells[fault.entry].bad = TRUE]
         ELSE table
    [] OTHER -> table

\* Version::AddIterators: a table of level 0, and a level with the older writes in
\* two files, one of which may be damaged.
TablesOf(s) ==
  LET entries == Entries(s, s.older)
      files   == <<BuildTable(SubSeq(entries, 1, s.cut)),
                   BuildTable(SubSeq(entries, s.cut + 1, Len(entries)))>>
  IN  [zero |-> BuildTable(Entries(s, DOMAIN s.writes \ s.older)),
       level |-> [files EXCEPT ![s.fault.file] = Spoiled(@, s.fault)]]

-----------------------------------------------------------------------------
(* The concatenating iterator of a level: a TwoLevelIterator over the files  *)
(* and the iterators of their tables.  An index behind the last file is not  *)
(* valid; file 0: there is no data iterator.                                 *)

NewLevelIter(files) ==
  [index |-> Len(files) + 1, file |-> 0, data |-> NewTableIter(files[1]), ok |-> TRUE]

LevelValid(files, l) == l.file # 0 /\ TableValid(files[l.file], l.data)
LevelStatus(l) == l.ok /\ (l.file # 0 => TableStatus(l.data))

\* The first file whose largest key is not before `key'.
FindFile(files, key) ==
  Min({Len(files) + 1} \union {i \in DOMAIN files : ~Precedes(files[i].largest, key)})
Before(files, i) == IF i = 1 THEN Len(files) + 1 ELSE i - 1

\* GetFileIterator; an error of the file before is kept.
GetFile(files, l, i) ==
  [l EXCEPT !.ok = LevelStatus(l), !.file = i, !.data = NewTableIter(files[Max({i, 1})])]
AtFile(files, l, i) ==
  LET to == IF i \in DOMAIN files THEN i ELSE 0
      m  == [l EXCEPT !.index = i]
  IN  IF to = l.file /\ to # 0 THEN m ELSE GetFile(files, m, to)
MoveTable(files, l, Op(_, _)) ==
  IF l.file = 0 THEN l ELSE [l EXCEPT !.data = Op(files[l.file], @)]

RECURSIVE ForwardToFile(_, _)
ForwardToFile(files, l) ==
  IF LevelValid(files, l) THEN l
  ELSE IF l.index \notin DOMAIN files THEN GetFile(files, l, 0)
  ELSE ForwardToFile(files, MoveTable(files, AtFile(files, l, l.index + 1), TableFirst))

RECURSIVE BackToFile(_, _)
BackToFile(files, l) ==
  IF LevelValid(files, l) THEN l
  ELSE IF l.index \notin DOMAIN files THEN GetFile(files, l, 0)
  ELSE BackToFile(files, MoveTable(files, AtFile(files, l, Before(files, l.index)), TableLast))

LevelFirst(files, l) == ForwardToFile(files, MoveTable(files, AtFile(files, l, 1), TableFirst))
LevelLast(files, l) ==
  BackToFile(files, MoveTable(files, AtFile(files, l, Len(files)), TableLast))
LevelNext(files, l) == ForwardToFile(files, MoveTable(files, l, TableNext))
LevelPrev(files, l) == BackToFile(files, MoveTable(files, l, TablePrev))
LevelSeek(files, l, target) ==
  LET Op(table, t) == TableSeek(table, t, target)
  IN  ForwardToFile(files, MoveTable(files, AtFile(files, l, FindFile(files, target)), Op))

-----------------------------------------------------------------------------
(* The two children of the MergingIterator. *)

ChildFirst(c, it) == IF c = 1 THEN TableFirst(tables.zero, it) ELSE LevelFirst(tables.level, it)
ChildLast(c, it) == IF c = 1 THEN TableLast(tables.zero, it) ELSE LevelLast(tables.level, it)
ChildNext(c, it) == IF c = 1 THEN TableNext(tables.zero, it) ELSE LevelNext(tables.level, it)
ChildPrev(c, it) == IF c = 1 THEN TablePrev(tables.zero, it) ELSE LevelPrev(tables.level, it)
ChildSeek(c, it, target) == IF c = 1 THEN TableSeek(tables.zero, it, target)
                            ELSE LevelSeek(tables.level, it, target)
ChildValid(c, it) == IF c = 1 THEN TableValid(tables.zero, it) ELSE LevelValid(tables.level, it)
ChildStatus(c, it) == IF c = 1 THEN TableStatus(it) ELSE LevelStatus(it)
ChildKey(c, it) == IF c = 1 THEN it.data.key ELSE it.data.data.key

\* The value of the entry at which the iterator of a table is.
ValueAt(table, t) == table.blocks[t.block].cells[t.data.at].value
ChildValue(c, it) ==
  IF c = 1 THEN ValueAt(tables.zero, it) ELSE ValueAt(tables.level[it.file], it.data)

-----------------------------------------------------------------------------
(* MergingIterator.  current 0: not valid. *)

NewMerger == [child |-> <<NewTableIter(tables.zero), NewLevelIter(tables.level)>>,
              current |-> 0, forward |-> TRUE]

MValid(m) == m.current # 0
MKey(m) == ChildKey(m.current, m.child[m.current])
MValue(m) == ChildValue(m.current, m.child[m.current])
MStatus(m) == \A c \in DOMAIN m.child : ChildStatus(c, m.child[c])

ValidChildren(m) == {c \in DOMAIN m.child : ChildValid(c, m.child[c])}
FindSmallest(m) ==
  [m EXCEPT !.forward = TRUE,
            !.current = IF ValidChildren(m) = {} THEN 0
                        ELSE CHOOSE c \in ValidChildren(m) : \A d \in ValidChildren(m) \ {c} :
                               Precedes(ChildKey(c, m.child[c]), ChildKey(d, m.child[d]))]
FindLargest(m) ==
  [m EXCEPT !.forward = FALSE,
            !.current = IF ValidChildren(m) = {} THEN 0
                        ELSE CHOOSE c \in ValidChildren(m) : \A d \in ValidChildren(m) \ {c} :
                               Precedes(ChildKey(d, m.child[d]), ChildKey(c, m.child[c]))]

EachChild(m, Op(_, _)) == [m EXCEPT !.child = [c \in DOMAIN @ |-> Op(c, @[c])]]
MFirst(m) == FindSmallest(EachChild(m, ChildFirst))
MLast(m) == FindLargest(EachChild(m, ChildLast))
MSeek(m, target) == LET Op(c, it) == ChildSeek(c, it, target) IN FindSmallest(EachChild(m, Op))

\* The other children go to their first entry behind, or before, the current key.
Others(m, Op(_, _)) ==
  [m EXCEPT !.child = [c \in DOMAIN @ |-> IF c = m.current THEN @[c] ELSE Op(c, @[c])]]
Current(m, Op(_, _)) == [m EXCEPT !.child[m.current] = Op(m.current, @)]

AfterFound(c, at, key) ==
  IF ChildValid(c, at) /\ ChildKey(c, at) = key THEN ChildNext(c, at) ELSE at
MNext(m) ==
  LET After(c, it) == AfterFound(c, ChildSeek(c, it, MKey(m)), MKey(m))
  IN  FindSmallest(Current(IF m.forward THEN m ELSE Others(m, After), ChildNext))

BeforeFound(c, at) == IF ChildValid(c, at) THEN ChildPrev(c, at) ELSE ChildLast(c, at)
MPrev(m) ==
  LET Back(c, it) == BeforeFound(c, ChildSeek(c, it, MKey(m)))
  IN  FindLargest(Current(IF m.forward THEN Others(m, Back) ELSE m, ChildPrev))

-----------------------------------------------------------------------------
(* DBIter. *)

NewIterator == [m |-> NewMerger, forward |-> TRUE, valid |-> FALSE,
                savedKey |-> << >>, savedValue |-> 0, ok |-> TRUE]

\* ParseKey: an entry that does not parse leaves an error and is passed over.
Parsed(d) == IF Parses(MKey(d.m)) THEN d ELSE [d EXCEPT !.ok = FALSE]
Seen(d) == Parses(MKey(d.m)) /\ Sequence(MKey(d.m)) <= scenario.snapshot
NotValid(d) == [d EXCEPT !.valid = FALSE, !.savedKey = << >>]

\* Entries are passed over until there is one to show: `skip' is {}, or the user
\* key up to which they are hidden by a deletion or by what was shown last.
RECURSIVE FindNextUserEntry(_, _)
FindNextUserEntry(d, skip) ==
  LET user    == UserKey(MKey(d.m))
      hidden  == \E k \in skip : ~Less(k, user)
      deleted == Seen(d) /\ TypeOf(MKey(d.m)) = Deletion
  IN  IF ~MValid(d.m) THEN NotValid(d)
      ELSE IF Seen(d) /\ ~deleted /\ ~hidden
      THEN [d EXCEPT !.valid = TRUE, !.savedKey = << >>]
      ELSE FindNextUserEntry([Parsed(d) EXCEPT !.m = MNext(@)],
                             IF deleted THEN {user} ELSE skip)

\* Backwards over all entries of one user key; the last one seen, the newest,
\* decides.  `type' is that of the entry before.
RECURSIVE FindPrevUserEntry(_, _)
FindPrevUserEntry(d, type) ==
  LET key  == MKey(d.m)
      past == type # Deletion /\ Less(UserKey(key), d.savedKey)
      keep == IF TypeOf(key) = Deletion
              THEN [d EXCEPT !.savedKey = << >>, !.savedValue = 0]
              ELSE [d EXCEPT !.savedKey = UserKey(key), !.savedValue = MValue(d.m)]
  IN  IF ~MValid(d.m) \/ (Seen(d) /\ past)
      THEN IF type = Deletion
           THEN [NotValid(d) EXCEPT !.savedValue = 0, !.forward = TRUE]
           ELSE [d EXCEPT !.valid = TRUE]
      ELSE FindPrevUserEntry([(IF Seen(d) THEN keep ELSE Parsed(d)) EXCEPT !.m = MPrev(@)],
                             IF Seen(d) THEN TypeOf(key) ELSE type)

FindFirst(d) == IF MValid(d.m) THEN FindNextUserEntry(d, {}) ELSE [d EXCEPT !.valid = FALSE]

AfterSeek(target) ==
  LET key == InternalKey(target, scenario.snapshot, ValueTypeForSeek)
  IN  FindFirst([iter EXCEPT !.forward = TRUE, !.savedKey = key, !.savedValue = 0,
                             !.m = MSeek(@, key)])
AfterSeekToFirst ==
  FindFirst([iter EXCEPT !.forward = TRUE, !.savedValue = 0, !.m = MFirst(@)])
AfterSeekToLast ==
  FindPrevUserEntry([iter EXCEPT !.forward = FALSE, !.savedValue = 0, !.m = MLast(@)], Deletion)

\* With a bug: after a turn the key that was shown is not skipped.
TurnShowsAgain(d) == IF d.forward THEN {UserKey(MKey(d.m))} ELSE {}
Shown(d) == IF d.forward THEN {UserKey(MKey(d.m))} ELSE {d.savedKey}
AfterNext ==
  LET turned == [iter EXCEPT !.forward = TRUE, !.m = IF MValid(@) THEN MNext(@) ELSE MFirst(@)]
  IN  FindNextUserEntry(IF iter.forward THEN iter ELSE turned, Shown(iter))

RECURSIVE BackBeforeKey(_, _)
BackBeforeKey(m, user) ==
  IF MValid(m) /\ ~Less(UserKey(MKey(m)), user) THEN BackBeforeKey(MPrev(m), user) ELSE m
TurnBack(d) ==
  IF MValid(d.m) THEN FindPrevUserEntry([d EXCEPT !.forward = FALSE], Deletion)
  ELSE [NotValid(d) EXCEPT !.savedValue = 0]
AfterPrev ==
  LET user == UserKey(MKey(iter.m))
  IN  IF iter.forward THEN TurnBack([iter EXCEPT !.savedKey = user, !.m = BackBeforeKey(@, user)])
      ELSE FindPrevUserEntry(iter, Deletion)

Seek(target) == iter' = AfterSeek(target)
SeekToFirst == iter' = AfterSeekToFirst
SeekToLast == iter' = AfterSeekToLast
Next == iter.valid /\ iter' = AfterNext
Prev == iter.valid /\ iter' = AfterPrev

-----------------------------------------------------------------------------
CONSTANT Targets  \* user keys to look for

Init == /\ scenario \in Scenarios
        /\ tables = TablesOf(scenario)
        /\ iter = NewIterator

Move == /\ UNCHANGED <<scenario, tables>>
        /\ \/ SeekToFirst \/ SeekToLast \/ Next \/ Prev
           \/ \E target \in Targets : Seek(target)
Spec == Init /\ [][Move]_vars

-----------------------------------------------------------------------------
(* Properties. *)

Status(d) == d.ok /\ MStatus(d.m)
ShownEntry(d) ==
  IF d.forward THEN [key |-> UserKey(MKey(d.m)), value |-> MValue(d.m)]
  ELSE [key |-> d.savedKey, value |-> d.savedValue]
Position(d) == IF d.valid THEN {ShownEntry(d)} ELSE {}

\* What the snapshot holds: for each user key the newest write up to it.
Written == {n \in DOMAIN scenario.writes : /\ n <= scenario.snapshot
                                           /\ scenario.writes[n].type # NoType}
Visible ==
  {[key |-> scenario.writes[n].user, value |-> n] :
     n \in {m \in Written :
              /\ scenario.writes[m].type = Value
              /\ \A k \in Written :
                   k > m => scenario.writes[k].user # scenario.writes[m].user}}

\* A cursor over a set of entries (include/leveldb/iterator.h).
Least(S)    == {e \in S : \A f \in S : ~Less(f.key, e.key)}
Greatest(S) == {e \in S : \A f \in S : ~Less(e.key, f.key)}
Keeps(d, promised) == Status(d) => Position(d) = promised

\* Through turns, deletions, overwritten values, writes behind the snapshot and
\* damaged blocks, every call moves the iterator as a cursor over what the
\* snapshot holds moves; from the first entry it could not read on, status()
\* reports an error.
MovesAsCursor ==
  /\ Keeps(iter, Position(iter) \intersect Visible)
  /\ Keeps(AfterSeekToFirst, Least(Visible))
  /\ Keeps(AfterSeekToLast, Greatest(Visible))
  /\ \A target \in Targets :
       Keeps(AfterSeek(target), Least({e \in Visible : ~Less(e.key, target)}))
  /\ iter.valid =>
       LET key == ShownEntry(iter).key
       IN  /\ Keeps(AfterNext, Least({e \in Visible : Less(key, e.key)}))
           /\ Keeps(AfterPrev, Greatest({e \in Visible : Less(e.key, key)}))

\* The iterator has what it needs to be moved; the merging iterator is valid
\* whenever an entry of it is shown.
TypeOK ==
  /\ iter.valid /\ iter.forward => MValid(iter.m)
  /\ MValid(iter.m) => iter.m.current \in ValidChildren(iter.m)
  /\ iter.m.child[1].block \in 0 .. Len(tables.zero.blocks)
  /\ iter.m.child[2].file \in 0 .. Len(tables.level)

KeysOf(c) == {KeyOf(scenario, n) : n \in IF c = 2 THEN scenario.older
                                         ELSE DOMAIN scenario.writes \ scenario.older}

\* "Ensure that all children are positioned after key()", or before it (merger.cc:62,
\* 88): each other child is at its first entry behind, or its last before, the
\* current one.
ChildrenPositioned ==
  MValid(iter.m) /\ Status(iter) =>
    \A c \in DOMAIN iter.m.child \ {iter.m.current} :
      LET behind == {k \in KeysOf(c) : Precedes(MKey(iter.m), k)}
          before == {k \in KeysOf(c) : Precedes(k, MKey(iter.m))}
          valid  == c \in ValidChildren(iter.m)
          key    == ChildKey(c, iter.m.child[c])
      IN  IF iter.m.forward
          THEN IF behind = {} THEN ~valid
               ELSE valid /\ key \in behind /\ \A k \in behind : ~Precedes(k, key)
          ELSE IF before = {} THEN ~valid
               ELSE valid /\ key \in before /\ \A k \in before : ~Precedes(key, k)

\* What a Get finds in a child: in the table of level 0, or in the file of the level
\* that FindFile names.
FoundIn(c, key) ==
  LET i == FindFile(tables.level, key)
  IN  IF c = 1 THEN InternalGet(tables.zero, key)
      ELSE IF i \in DOMAIN tables.level THEN InternalGet(tables.level[i], key) ELSE Nothing

\* What Version::Get makes of it.
SaveValue(key, user) ==
  IF key = << >> THEN "not found"
  ELSE IF ~Parses(key) THEN "corrupt"
  ELSE IF UserKey(key) # user THEN "not found"
  ELSE IF TypeOf(key) = Value THEN "found" ELSE "deleted"

\* A lookup that reports no error finds the newest version of the user key up to its
\* sequence number, whatever index keys were shortened to, whichever filter the block
\* belongs to and in whichever file of the level it is: its value, its deletion or,
\* if it has no known type, a corruption.  Where there is no version the lookup may
\* meet the corruption of another key, but never a value or a deletion.
LookupFindsNewest ==
  iter = NewIterator =>
    \A c \in 1 .. 2, target \in Targets, seq \in 0 .. Len(scenario.writes) :
      LET key   == LookupKey(target, seq)
          mine  == {k \in KeysOf(c) : UserKey(k) = target /\ ~Precedes(k, key)}
          found == FoundIn(c, key)
      IN  found.ok =>
            IF mine = {} THEN SaveValue(found.key, target) \in {"not found", "corrupt"}
            ELSE /\ found.key \in mine /\ \A k \in mine : ~Precedes(k, found.key)
                 /\ SaveValue(found.key, target) # "not found"

-----------------------------------------------------------------------------
(* VersionSet::ApproximateOffsetOf, for GetApproximateSizes. *)

OffsetIn(file, key) ==
  IF ~Precedes(key, file.largest) THEN file.size
  ELSE IF Precedes(key, file.smallest) THEN 0 ELSE ApproximateOffsetOf(file, key)
OffsetOf(user) ==
  LET key == Append(user, MaxTag)
  IN  OffsetIn(tables.zero, key)
        + FoldLeft(LAMBDA sum, file : sum + OffsetIn(file, key), 0, tables.level)

\* The size of a range is the difference of two offsets: they grow with the key,
\* from one file to the next too.
OffsetsGrow ==
  iter = NewIterator =>
    \A a \in Targets, b \in Targets : Less(a, b) => OffsetOf(a) <= OffsetOf(b)
=============================================================================
