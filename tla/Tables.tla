------------------------------- MODULE Tables -------------------------------
(***************************************************************************)
(* Sorted tables of LevelDB (Pods/leveldb-library/table): blocks of        *)
(* prefix-compressed entries with restart points, the index block, the     *)
(* filter block, and the iterators over them.  An internal key is a        *)
(* sequence of bytes, the last of which is its tag: 3 * the sequence       *)
(* number + the type (0 deletion, 1 value, 2 none of the two).  Offsets    *)
(* within a block count entries.                                           *)
(***************************************************************************)
EXTENDS Naturals, FiniteSets, FiniteSetsExt, SequencesExt, TLC

CONSTANTS
  MaxByte,          \* 0xff
  MaxTag,           \* the tag of kMaxSequenceNumber and kValueTypeForSeek
  BlockSize,        \* Options::block_size, in cells
  RestartInterval,  \* Options::block_restart_interval
  FilterBase        \* kFilterBase, in cells

\* Of the constants.
TablesAssumption ==
  {MaxByte, MaxTag, BlockSize, RestartInterval, FilterBase} \subseteq Nat \ {0}

-----------------------------------------------------------------------------
(* Keys and comparators. *)

UserKey(key) == Front(key)
Tag(key) == Last(key)

CommonPrefix(a, b) ==
  Max({n \in 0 .. Min({Len(a), Len(b)}) : \A i \in 1 .. n : a[i] = b[i]})

\* BytewiseComparator
Less(a, b) == LET n == CommonPrefix(a, b)
              IN  n < Len(b) /\ (n < Len(a) => a[n + 1] < b[n + 1])
\* InternalKeyComparator: user keys up, tags down.
Precedes(a, b) == \/ Less(UserKey(a), UserKey(b))
                  \/ UserKey(a) = UserKey(b) /\ Tag(a) > Tag(b)

\* BytewiseComparator::FindShortestSeparator
ShortestSeparator(start, limit) ==
  LET n == CommonPrefix(start, limit)
  IN  IF /\ n < Min({Len(start), Len(limit)})
         /\ start[n + 1] < MaxByte /\ start[n + 1] + 1 < limit[n + 1]
      THEN Append(SubSeq(start, 1, n), start[n + 1] + 1) ELSE start

ShortSuccessor(key) ==
  LET low == {i \in DOMAIN key : key[i] # MaxByte}
  IN  IF low = {} THEN key
      ELSE Append(SubSeq(key, 1, Min(low) - 1), key[Min(low)] + 1)

\* InternalKeyComparator: a user key that got shorter and larger comes before
\* all its versions.
Shortened(key, user) ==
  IF Len(user) < Len(key) - 1 /\ Less(UserKey(key), user) THEN Append(user, MaxTag) ELSE key
InternalSeparator(start, limit) ==
  Shortened(start, ShortestSeparator(UserKey(start), UserKey(limit)))
InternalSuccessor(key) == Shortened(key, ShortSuccessor(UserKey(key)))

-----------------------------------------------------------------------------
(* BlockBuilder. *)

EmptyBlock == [cells |-> << >>, restarts |-> <<1>>, counter |-> 0, last |-> << >>]

AddToBlock(interval, block, key, value) ==
  LET restart == block.counter >= interval
      shared  == IF restart THEN 0 ELSE CommonPrefix(block.last, key)
      cell    == [shared |-> shared, delta |-> SubSeq(key, shared + 1, Len(key)),
                  value |-> value, bad |-> FALSE]
  IN  [cells    |-> Append(block.cells, cell),
       restarts |-> IF restart THEN Append(block.restarts, Len(block.cells) + 1)
                    ELSE block.restarts,
       counter  |-> (IF restart THEN 0 ELSE block.counter) + 1,
       last     |-> key]

\* CurrentSizeEstimate
SizeOf(block) == Len(block.restarts) + 1
                   + FoldLeft(LAMBDA n, c : n + 1 + Len(c.delta), 0, block.cells)

-----------------------------------------------------------------------------
(* FilterBlockBuilder and the Bloom filter.  Four probes of a hash of eight *)
(* bits in a filter of eleven; a filter is the set of its bits.             *)

Width == 256
Probes == 4
Bits == 11
Hash(user) == FoldLeft(LAMBDA h, b : (31 * h + 17 * b + 5) % Width, 1, user)
Rotated(h) == h \div 8 + (h % 8) * 32      \* by three bits of eight
BitsOf(user) == {((Hash(user) + j * Rotated(Hash(user))) % Width) % Bits : j \in 0 .. Probes - 1}

BloomFilter(users) == UNION {BitsOf(user) : user \in users}
\* InternalFilterPolicy
CreateFilter(keys) == BloomFilter({UserKey(k) : k \in keys})
Matches(filter, key) == BitsOf(UserKey(key)) \subseteq filter /\ filter # {}

NoFilters == [filters |-> << >>, keys |-> {}]
GenerateFilter(fb) == [filters |-> Append(fb.filters, CreateFilter(fb.keys)), keys |-> {}]

\* FilterBlockBuilder::StartBlock: filters up to the one that the block at
\* `offset' belongs to; those that no block began in stay empty.
RECURSIVE StartBlockPast(_, _)
\* With a bug: one filter too many.
StartBlockPast(fb, offset) == IF offset \div FilterBase >= Len(fb.filters)
                              THEN StartBlockPast(GenerateFilter(fb), offset) ELSE fb
RECURSIVE StartBlock(_, _)
StartBlock(fb, offset) == IF offset \div FilterBase > Len(fb.filters)
                          THEN StartBlock(GenerateFilter(fb), offset) ELSE fb
FinishFilters(fb) == IF fb.keys # {} THEN GenerateFilter(fb) ELSE fb

-----------------------------------------------------------------------------
(* TableBuilder. *)

NewTable == [data |-> EmptyBlock, blocks |-> << >>, offsets |-> << >>, offset |-> 0,
             index |-> EmptyBlock, last |-> << >>, pending |-> FALSE, filter |-> NoFilters]

\* The index entry of the block before: a key between its last and the next one.
AddPending(t, key) ==
  IF t.pending THEN [t EXCEPT !.index = AddToBlock(1, @, key, Len(t.blocks)),
                              !.pending = FALSE] ELSE t

Flush(t) ==
  IF t.data.cells = << >> THEN t
  ELSE LET offset == t.offset + SizeOf(t.data) + 1
       IN  [t EXCEPT !.blocks = Append(@, t.data), !.offsets = Append(@, t.offset),
                     !.offset = offset, !.data = EmptyBlock, !.pending = TRUE,
                     !.filter = StartBlock(@, offset)]

AddToTable(t, entry) ==
  LET u == AddPending(t, InternalSeparator(t.last, entry.key))
      v == [u EXCEPT !.filter.keys = @ \union {entry.key}, !.last = entry.key,
                     !.data = AddToBlock(RestartInterval, @, entry.key, entry.value)]
  IN  IF SizeOf(v.data) >= BlockSize THEN Flush(v) ELSE v

\* Behind the blocks are the filters, the metaindex block and the index.
Finish(t) ==
  LET u       == Flush(t)
      filters == FinishFilters(u.filter).filters
      index   == AddPending(u, InternalSuccessor(u.last)).index
      meta    == u.offset + Len(filters)
  IN  [blocks |-> u.blocks, offsets |-> u.offsets, filters |-> filters, index |-> index,
       meta |-> meta, size |-> meta + SizeOf(index) + 1, unreadable |-> {}]

\* With the smallest and the largest key, for the FileMetaData.
BuildTable(entries) ==
  [smallest |-> entries[1].key, largest |-> Last(entries).key] @@ Finish(FoldLeft(AddToTable, NewTable, entries))

\* Table::ReadMeta: filters that cannot be read are none, without an error.
\* (As an unreadable block, the filter block is number 0.)
ReadMeta(table) == IF 0 \in table.unreadable THEN << >> ELSE table.filters

-----------------------------------------------------------------------------
(* Block::Iter.  Restart index and offset behind the end mean: not valid. *)

BlockEnd(block) == Len(block.cells) + 1
Valid(block, it) == it.at < BlockEnd(block)
NewIter(block) == [at |-> BlockEnd(block), restart |-> Len(block.restarts) + 1,
                   key |-> << >>, next |-> 0, ok |-> TRUE]
Invalid(block, it) == [it EXCEPT !.at = BlockEnd(block), !.restart = Len(block.restarts) + 1]
CorruptionError(block, it) == [Invalid(block, it) EXCEPT !.ok = FALSE, !.key = << >>]

\* DecodeEntry finds the lengths of an entry's parts, within the block.
Decodes(block, i) == ~block.cells[i].bad

SeekToRestartPoint(block, it, i) ==
  [it EXCEPT !.key = << >>, !.restart = i, !.next = block.restarts[i]]

ParseNextKey(block, it) ==
  IF it.next >= BlockEnd(block) THEN Invalid(block, it)
  ELSE LET cell == block.cells[it.next]
       IN  IF ~Decodes(block, it.next) \/ Len(it.key) < cell.shared THEN CorruptionError(block, it)
           ELSE [it EXCEPT !.at = it.next, !.next = it.next + 1,
                           !.key = SubSeq(@, 1, cell.shared) \o cell.delta,
                           !.restart = Max({@} \union {i \in DOMAIN block.restarts :
                                                         block.restarts[i] < it.next})]

\* Entries are parsed until one of them ends at `limit' or there are no more.
RECURSIVE ParseUpTo(_, _, _)
ParseUpTo(block, it, limit) ==
  LET one == ParseNextKey(block, it)
  IN  IF Valid(block, one) /\ one.next < limit THEN ParseUpTo(block, one, limit) ELSE one

BlockFirst(block, it) == ParseNextKey(block, SeekToRestartPoint(block, it, 1))
BlockLast(block, it) ==
  ParseUpTo(block, SeekToRestartPoint(block, it, Len(block.restarts)), BlockEnd(block))
BlockNext(block, it) == ParseNextKey(block, it)

RestartBefore(block, it) == {i \in 1 .. it.restart : block.restarts[i] < it.at}
BlockPrev(block, it) ==
  IF RestartBefore(block, it) = {} THEN Invalid(block, it)
  ELSE ParseUpTo(block, SeekToRestartPoint(block, it, Max(RestartBefore(block, it))), it.at)

\* The last restart point with a key before the target; 0: its entry is damaged.
RECURSIVE Bisect(_, _, _, _)
Bisect(block, target, left, right) ==
  IF left >= right THEN left
  ELSE LET mid  == (left + right + 1) \div 2
           cell == block.cells[block.restarts[mid]]
       IN  IF ~Decodes(block, block.restarts[mid]) \/ cell.shared # 0 THEN 0
           ELSE IF Precedes(cell.delta, target) THEN Bisect(block, target, mid, right)
           ELSE Bisect(block, target, left, mid - 1)

RECURSIVE ParseToTarget(_, _, _)
ParseToTarget(block, it, target) ==
  LET one == ParseNextKey(block, it)
  IN  IF Valid(block, one) /\ Precedes(one.key, target)
      THEN ParseToTarget(block, one, target) ELSE one

BlockSeek(block, it, target) ==
  LET left == Bisect(block, target, 1, Len(block.restarts))
  IN  IF left = 0 THEN CorruptionError(block, it)
      ELSE ParseToTarget(block, SeekToRestartPoint(block, it, left), target)

-----------------------------------------------------------------------------
(* TwoLevelIterator over the index block and the blocks it names; block 0:  *)
(* there is no data iterator.  A block that cannot be read has an iterator  *)
(* that is never valid and carries the error.                               *)

NoData == [at |-> 1, restart |-> 1, key |-> << >>, next |-> 0, ok |-> TRUE]
ErrorIter == [NoData EXCEPT !.ok = FALSE]
NewTableIter(table) ==
  [index |-> NewIter(table.index), block |-> 0, data |-> NoData, ok |-> TRUE]

Readable(table, b) == b \in DOMAIN table.blocks \ table.unreadable
TableValid(table, t) == Readable(table, t.block) /\ Valid(table.blocks[t.block], t.data)
SaveError(t) == t.ok /\ (t.block # 0 => t.data.ok)
TableStatus(t) == t.index.ok /\ t.ok /\ (t.block # 0 => t.data.ok)
IndexValue(table, t) == table.index.cells[t.index.at].value

\* Table::BlockReader
BlockReader(table, b) == IF Readable(table, b) THEN NewIter(table.blocks[b]) ELSE ErrorIter

SetDataIterator(table, t, b) ==
  [t EXCEPT !.ok = SaveError(t), !.block = b,
            !.data = IF b = 0 THEN NoData ELSE BlockReader(table, b)]

InitDataBlock(table, t) ==
  IF ~Valid(table.index, t.index) THEN SetDataIterator(table, t, 0)
  ELSE IF t.block = IndexValue(table, t) THEN t
  ELSE SetDataIterator(table, t, IndexValue(table, t))

\* data_iter_ moves, unless there is none or it carries an error.
MoveData(table, t, Op(_, _)) ==
  IF Readable(table, t.block) THEN [t EXCEPT !.data = Op(table.blocks[t.block], @)] ELSE t
MoveIndex(table, t, Op(_, _)) == InitDataBlock(table, [t EXCEPT !.index = Op(table.index, @)])

RECURSIVE SkipForward(_, _)
SkipForward(table, t) ==
  IF TableValid(table, t) THEN t
  ELSE IF ~Valid(table.index, t.index) THEN SetDataIterator(table, t, 0)
  ELSE SkipForward(table, MoveData(table, MoveIndex(table, t, BlockNext), BlockFirst))

RECURSIVE SkipBackward(_, _)
SkipBackward(table, t) ==
  IF TableValid(table, t) THEN t
  ELSE IF ~Valid(table.index, t.index) THEN SetDataIterator(table, t, 0)
  ELSE SkipBackward(table, MoveData(table, MoveIndex(table, t, BlockPrev), BlockLast))

TableFirst(table, t) ==
  SkipForward(table, MoveData(table, MoveIndex(table, t, BlockFirst), BlockFirst))
TableLast(table, t) ==
  SkipBackward(table, MoveData(table, MoveIndex(table, t, BlockLast), BlockLast))
TableNext(table, t) == SkipForward(table, MoveData(table, t, BlockNext))
TablePrev(table, t) == SkipBackward(table, MoveData(table, t, BlockPrev))
TableSeek(table, t, target) ==
  LET Op(block, it) == BlockSeek(block, it, target)
  IN  SkipForward(table, MoveData(table, MoveIndex(table, t, Op), Op))

-----------------------------------------------------------------------------
(* Table::InternalGet. *)

\* FilterBlockReader::KeyMayMatch
KeyMayMatch(table, b, key) ==
  LET i == table.offsets[b] \div FilterBase + 1
  IN  i \in DOMAIN ReadMeta(table) => Matches(table.filters[i], key)

Nothing == [key |-> << >>, ok |-> TRUE]
BlockGet(block, data) ==
  [key |-> IF Valid(block, data) THEN data.key ELSE << >>, ok |-> data.ok]
IndexGet(table, b, key) ==
  IF ~KeyMayMatch(table, b, key) THEN Nothing
  ELSE IF ~BlockReader(table, b).ok THEN [Nothing EXCEPT !.ok = FALSE]
  ELSE BlockGet(table.blocks[b], BlockSeek(table.blocks[b], NewIter(table.blocks[b]), key))
\* What InternalGet hands to the saver: the key it finds, if any, and its status.
InternalGet(table, key) ==
  LET index == BlockSeek(table.index, NewIter(table.index), key)
  IN  IF Valid(table.index, index) THEN IndexGet(table, table.index.cells[index.at].value, key)
      ELSE [Nothing EXCEPT !.ok = index.ok]

-----------------------------------------------------------------------------
(* Table::ApproximateOffsetOf: where the block of a key begins, or else the *)
(* metaindex block.                                                         *)

ApproximateOffsetOf(table, key) ==
  LET index == BlockSeek(table.index, NewIter(table.index), key)
  IN  IF Valid(table.index, index) THEN table.offsets[table.index.cells[index.at].value]
      ELSE table.meta
=============================================================================
