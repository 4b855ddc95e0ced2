------------------------------ MODULE MemTable ------------------------------
(***************************************************************************)
(* A memtable of LevelDB (Pods/leveldb-library/db/memtable.cc) with its    *)
(* skip list (skiplist.h) and its arena (util/arena.cc): one thread        *)
(* inserts under the mutex while an iterator reads without it.             *)
(*                                                                         *)
(* Memory is the list of the stores, in the order of the inserting thread. *)
(* A reader has a clock: the stores up to it are visible; of a location    *)
(* that was stored to later it may load an old value or a newer one, and   *)
(* loading what a release store wrote moves the clock to that store.  So   *)
(* an insert is one action: a reader sees any part of it.                  *)
(***************************************************************************)
EXTENDS Naturals, FiniteSets, FiniteSetsExt, Sequences

CONSTANTS
  UserKeys,      \* numbers, in the order of the user's comparator
  MaxHeight,     \* kMaxHeight
  BlockSize,     \* kBlockSize of the arena
  Align,         \* the alignment of a node, here the size of a pointer
  EntrySizes,    \* user key -> the bytes of its entries
  MaxEntries     \* bound

\* Of the constants.
MemTableAssumption ==
  /\ UserKeys \subseteq Nat
  /\ MaxHeight \in Nat \ {0} /\ BlockSize \in Nat /\ Align \in Nat \ {0}
  /\ EntrySizes \in [UserKeys -> Nat \ {0}]
  /\ MaxEntries \in Nat

VARIABLES
  entries,    \* sequence number -> the user key of the entry that Add was given
  stores,     \* what was stored: [node, slot, value, release]
  published,  \* what the mutex passes on: LastSequence and the number of stores
  arena,      \* where allocation goes on, the blocks, and what was handed out
  refs,       \* refs_; the database holds one until it has written the table out
  owned,      \*   and this tells whether it still does
  reader      \* a reader, its iterator, and the operation that it performs
vars == <<entries, stores, published, arena, refs, owned, reader>>

HeadNode  == 0               \* other nodes are the sequence numbers of their entries
Null  == MaxEntries + 1
\* What uninitialized or freed memory holds: neither a node nor a height.
Junk  == MaxEntries + MaxHeight + 2

-----------------------------------------------------------------------------
(* The order of internal keys: user keys ascend, sequence numbers descend. *)

Less(a, b) == a.user < b.user \/ (a.user = b.user /\ a.seq > b.seq)
KeyOf(n) == [user |-> entries[n], seq |-> n]
KeyIsAfterNode(key, n) == n # Null /\ Less(KeyOf(n), key)

-----------------------------------------------------------------------------
(* The arena. *)

\* unit is the alignment that was asked for.
Region(block, at, bytes, unit) ==
  [block |-> block, at |-> at, bytes |-> bytes, unit |-> unit]
AllocateNewBlock(a, bytes) ==
  [a EXCEPT !.blocks = Append(@, bytes), !.usage = @ + bytes + Align]

AllocateFallback(a, bytes, unit) ==
  LET number == Len(a.blocks) + 1
      given  == a.given \union {Region(number, 0, bytes, unit)}
  IN  IF bytes > BlockSize \div 4
      THEN [AllocateNewBlock(a, bytes) EXCEPT !.given = given]
      ELSE [AllocateNewBlock(a, BlockSize) EXCEPT
              !.block = number, !.at = bytes, !.left = BlockSize - bytes, !.given = given]

Taken(a, slop, bytes, unit) ==
  [a EXCEPT !.at = @ + slop + bytes, !.left = @ - (slop + bytes),
            !.given = @ \union {Region(a.block, a.at + slop, bytes, unit)}]

Fits(a, bytes) == bytes <= a.left
Slop(a) == (Align - (a.at % Align)) % Align
AllocateAligned(a, bytes) ==
  IF Fits(a, Slop(a) + bytes) THEN Taken(a, Slop(a), bytes, Align)
  ELSE AllocateFallback(a, bytes, Align)

Allocate(a, bytes) ==
  IF Fits(a, bytes) THEN Taken(a, 0, bytes, 1) ELSE AllocateFallback(a, bytes, 1)

NodeSize(height) == Align * (1 + height)
NewArena == [block |-> 0, at |-> 0, left |-> 0, blocks |-> << >>, usage |-> 0, given |-> {}]

-----------------------------------------------------------------------------
(* Stores and loads. *)

Store(node, slot, value, release) ==
  [node |-> node, slot |-> slot, value |-> value, release |-> release]
\* Slot 0 of a node is its key; that of the head stands for max_height_.
Unset(node, slot) == IF node # HeadNode THEN Junk ELSE IF slot = 0 THEN 1 ELSE Null

StoresTo(node, slot) ==
  {i \in DOMAIN stores : stores[i].node = node /\ stores[i].slot = slot}
Latest(node, slot) ==
  IF StoresTo(node, slot) = {} THEN Unset(node, slot)
  ELSE stores[Max(StoresTo(node, slot))].value

\* What a load by the reader may return, with its clock afterwards.
Loads(clock, node, slot) ==
  LET past == {i \in StoresTo(node, slot) : i <= clock}
      seen == {i \in StoresTo(node, slot) : i > clock}
                \union IF past = {} THEN {} ELSE {Max(past)}
  IN  IF refs = 0 THEN {[value |-> Junk, clock |-> clock]}
      ELSE {[value |-> stores[i].value,
             clock |-> IF stores[i].release THEN Max({clock, i}) ELSE clock] : i \in seen}
             \union IF past # {} THEN {}
                    ELSE {[value |-> Unset(node, slot), clock |-> clock]}

\* Whether the key that a loaded pointer leads to is surely there.
Whole(load) ==
  \/ load.value = Null
  \/ load.value # Junk /\ \E i \in StoresTo(load.value, 0) : i <= load.clock

-----------------------------------------------------------------------------
(* Insert. *)

\* FindGreaterOrEqual as the inserting thread runs it: a turn of its loop, which goes
\* on in the list or notes the node in prev and leaves the level; prev afterwards.
Turn(key, at) ==
  LET next == Latest(at.x, at.level)
  IN  IF at.level = 0 THEN at
      ELSE IF KeyIsAfterNode(key, next) THEN [at EXCEPT !.x = next]
      ELSE [x |-> at.x, level |-> at.level - 1,
            prev |-> [at.prev EXCEPT ![at.level] = at.x]]
FindPrev(key, top) ==
  LET turns == Len(entries) + top
      after[n \in 0 .. turns] ==
        IF n = 0 THEN [x |-> HeadNode, level |-> top,
                       prev |-> [level \in 1 .. MaxHeight |-> HeadNode]]
        ELSE Turn(key, after[n - 1])
  IN  after[turns].prev

\* With a bug: a plain store publishes the node.
LinkPlainly(prev, level, x) ==
  <<Store(x, level, Latest(prev, level), FALSE), Store(prev, level, x, FALSE)>>
Link(prev, level, x) ==
  <<Store(x, level, Latest(prev, level), FALSE), Store(prev, level, x, TRUE)>>

\* RandomHeight
Heights == 1 .. MaxHeight

\* What SkipList::Insert stores for the node x.
Insert(user, x, height) ==
  LET top  == Latest(HeadNode, 0)
      prev == FindPrev([user |-> user, seq |-> x], top)
      Level(i) == (i + 1) \div 2
  IN  (IF height > top THEN <<Store(HeadNode, 0, height, FALSE)>> ELSE << >>)
        \o <<Store(x, 0, x, FALSE)>>
        \o [i \in 1 .. 2 * height |->
              Link(prev[Level(i)], Level(i), x)[IF i % 2 = 1 THEN 1 ELSE 2]]

\* MemTable::Add
Add(user, height) ==
  LET x == Len(entries) + 1
  IN  /\ owned /\ x <= MaxEntries
      /\ entries' = Append(entries, user)
      /\ stores' = stores \o Insert(user, x, height)
      /\ arena' = AllocateAligned(Allocate(arena, EntrySizes[user]), NodeSize(height))
      /\ UNCHANGED <<published, refs, owned, reader>>

Now == [last |-> Len(entries), stores |-> Len(stores)]
\* DBImpl::Write takes the mutex again and calls SetLastSequence.
Publish ==
  /\ owned /\ published.last # Len(entries)
  /\ published' = Now
  /\ UNCHANGED <<entries, stores, arena, refs, owned, reader>>

-----------------------------------------------------------------------------
(* References. *)

Unref == refs - 1

\* The database drops a table that it has written out.
Drop ==
  /\ owned /\ published.last = Len(entries)
  /\ owned' = FALSE /\ refs' = Unref
  /\ UNCHANGED <<entries, stores, published, arena, reader>>

Off == [phase |-> "off", op |-> "none", target |-> [user |-> 0, seq |-> 0], from |-> HeadNode,
        node |-> Null, x |-> HeadNode, level |-> 0, clock |-> 0, snapshot |-> 0]

\* DBImpl::Get or NewIterator, under the mutex.
StartReading ==
  /\ reader.phase = "off" /\ owned
  /\ refs' = refs + 1
  /\ reader' = [Off EXCEPT !.phase = "idle", !.clock = published.stores,
                           !.snapshot = published.last]
  /\ UNCHANGED <<entries, stores, published, arena, owned>>

StopReading ==
  /\ reader.phase = "idle"
  /\ refs' = Unref /\ reader' = Off
  /\ UNCHANGED <<entries, stores, published, arena, owned>>

-----------------------------------------------------------------------------
(* The iterator. *)

Read(r) == reader' = r /\ UNCHANGED <<entries, stores, published, arena, refs, owned>>
Torn(r) == [r EXCEPT !.phase = "torn"]
Landed(r, load, n) ==
  IF Whole(load) THEN [r EXCEPT !.phase = "idle", !.node = n, !.clock = load.clock,
                                !.x = HeadNode, !.level = 0]
  ELSE Torn(r)

\* Seek, which Get starts with, Prev, SeekToLast: a search from the highest level.
BeginSearch(op, target) ==
  /\ reader.phase = "idle"
  /\ op = "prev" => reader.node # Null /\ target = KeyOf(reader.node)
  /\ \E load \in Loads(reader.clock, HeadNode, 0) :
       Read(IF load.value = Junk THEN Torn(reader)
            ELSE [reader EXCEPT !.phase = "search", !.op = op, !.target = target,
                                !.from = reader.node, !.x = HeadNode, !.level = load.value])

GoesOn(next) == IF reader.op = "last" THEN next # Null
                ELSE KeyIsAfterNode(reader.target, next)
\* FindGreaterOrEqual returns the next node, FindLessThan and FindLast this one.
Found(next) == IF reader.op = "seek" THEN next
               ELSE IF reader.x = HeadNode THEN Null ELSE reader.x

SearchStep ==
  /\ reader.phase = "search"
  /\ \E load \in Loads(reader.clock, reader.x, reader.level) :
       Read(IF ~Whole(load) THEN Torn(reader)
            ELSE IF GoesOn(load.value)
            THEN [reader EXCEPT !.x = load.value, !.clock = load.clock]
            ELSE IF reader.level > 1
            THEN [reader EXCEPT !.level = @ - 1, !.clock = load.clock]
            ELSE Landed(reader, load, Found(load.value)))

\* SeekToFirst and Next follow one link.
Follow(op, node) ==
  /\ reader.phase = "idle" /\ node \notin {Null, Junk}
  /\ \E load \in Loads(reader.clock, node, 1) :
       Read(Landed([reader EXCEPT !.op = op, !.from = node], load, load.value))

-----------------------------------------------------------------------------
Init ==
  /\ entries = << >> /\ stores = << >>
  /\ published = [last |-> 0, stores |-> 0]
  /\ arena = AllocateAligned(NewArena, NodeSize(MaxHeight))
  /\ refs = 1 /\ owned = TRUE /\ reader = Off

Search ==
  \/ \E user \in UserKeys :
       BeginSearch("seek", [user |-> user, seq |-> reader.snapshot])
  \/ reader.node \notin {Null, Junk} /\ BeginSearch("prev", KeyOf(reader.node))
  \/ BeginSearch("last", Off.target)

Next ==
  \/ \E user \in UserKeys, height \in Heights : Add(user, height)
  \/ Publish
  \/ Drop
  \/ StartReading
  \/ StopReading
  \/ Search
  \/ SearchStep
  \/ Follow("first", HeadNode)
  \/ Follow("next", reader.node)

Spec == Init /\ [][Next]_vars

-----------------------------------------------------------------------------
(* Properties. *)

\* The type invariant.
TypeOK ==
  /\ entries \in Seq(UserKeys) /\ Len(entries) <= MaxEntries
  /\ published.last \in 0 .. Len(entries) /\ published.stores \in 0 .. Len(stores)
  /\ refs \in 0 .. 2 /\ owned \in BOOLEAN
  /\ reader.node \in 1 .. Null /\ reader.clock \in 0 .. Len(stores)
  /\ arena.left \in 0 .. BlockSize

\* A reader without the mutex never follows a link or compares a key that is not
\* initialized or has been freed (the second invariant at the top of skiplist.h).
NothingTorn == reader.phase # "torn"

\* What was published when the reader took the mutex.
Surely == 1 .. reader.snapshot
Between(low, high) == {s \in Surely : ~Less(KeyOf(s), low) /\ Less(KeyOf(s), high)}
UpTo(key, n) == IF n = Null THEN {s \in Surely : ~Less(KeyOf(s), key)}
                ELSE Between(key, KeyOf(n))
Preceding(key) == {s \in Surely : Less(KeyOf(s), key)}
Following(key) == {s \in Surely : Less(key, KeyOf(s))}

\* Whatever is inserted meanwhile, the iterator lands on the right side of where it
\* aimed or came from, and jumps over no entry that was there when reading began.
SkipsNothing ==
  reader.phase = "idle" =>
    CASE reader.op = "seek" ->
           /\ UpTo(reader.target, reader.node) = {}
           /\ reader.node # Null => ~Less(KeyOf(reader.node), reader.target)
      [] reader.op = "first" ->
           IF reader.node = Null THEN Surely = {} ELSE Preceding(KeyOf(reader.node)) = {}
      [] reader.op = "next" ->
           /\ UpTo(KeyOf(reader.from), reader.node) \subseteq {reader.from}
           /\ reader.node # Null => Less(KeyOf(reader.from), KeyOf(reader.node))
      [] reader.op = "prev" ->
           IF reader.node = Null THEN Preceding(reader.target) = {}
           ELSE /\ Less(KeyOf(reader.node), reader.target)
                /\ Between(KeyOf(reader.node), reader.target) \subseteq {reader.node}
      [] reader.op = "last" ->
           IF reader.node = Null THEN Surely = {} ELSE Following(KeyOf(reader.node)) = {}
      [] OTHER -> TRUE

\* MemTable::Get returns the newest entry of the user key that its snapshot
\* covers, and none that a writer adds meanwhile.
Versions(user) == {s \in Surely : entries[s] = user}
GetsNewest ==
  reader.phase = "idle" /\ reader.op = "seek" =>
    LET hit == reader.node # Null /\ entries[reader.node] = reader.target.user
    IN  IF Versions(reader.target.user) = {} THEN ~hit
        ELSE reader.node = Max(Versions(reader.target.user))

\* The arena hands out no byte twice and none outside a block, aligns what it
\* must, and counts every block.
Apart(p, q) == \/ p.block # q.block
               \/ p.at + p.bytes <= q.at
               \/ q.at + q.bytes <= p.at
Used == LET upTo[n \in 0 .. Len(arena.blocks)] ==
              IF n = 0 THEN 0 ELSE upTo[n - 1] + arena.blocks[n] + Align
        IN  upTo[Len(arena.blocks)]
RegionsApart ==
  /\ \A p \in arena.given : /\ p.at + p.bytes <= arena.blocks[p.block]
                            /\ p.at % p.unit = 0
                            /\ \A q \in arena.given \ {p} : Apart(p, q)
  /\ Cardinality(arena.given) = 1 + 2 * Len(entries)
  /\ arena.usage = Used
=============================================================================
