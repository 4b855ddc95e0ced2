----------------------------- MODULE MCFormats -----------------------------
(***************************************************************************)
(* Four formats in which something is written, damaged and read again: the *)
(* records of a log, what is in them, tables, and messages of nanopb; and  *)
(* a database whose damaged files are repaired.  None touches the state of *)
(* another: a behaviour is about one of them, its `part', and the others   *)
(* stay as they are.                                                       *)
(***************************************************************************)
EXTENDS Repair, SequencesExt

CONSTANTS
  LogBlockSize, HeaderSize, Lengths, ReuseLogs, MaxRecords, MaxFaults, MaxOpens,
  Radix, Max32, Max64, Limit32, Limit64, SequenceSize, CountSize, NumLevels,
  Slices, Edits, HeldBefore, MaxOps,
  MaxByte, MaxTag, BlockSize, RestartInterval, FilterBase, Scenarios, Targets,
  GroupBits, Word, ShiftWraps, Cases, ChangedTo

VARIABLES
  part,
  phase, file, blockOffset, added, synced, reader, spent,
  ops, batches, edit, record, fault, defects, read,
  scenario, tables, iter,
  case, wire, sent, last, slips, cut, in, got

logVars == <<phase, file, blockOffset, added, synced, reader, spent>>
recordVars == <<ops, batches, edit, record, fault, defects, read>>
tableVars == <<scenario, tables, iter>>
messageVars == <<case, wire, sent, last, slips, cut, in, got>>

L == INSTANCE RecordLog WITH BlockSize <- LogBlockSize
B == INSTANCE Records WITH faults <- defects
T == INSTANCE DBIterators
M == INSTANCE Messages WITH faults <- slips

ASSUME L!RecordLogAssumption /\ T!TablesAssumption

MCInit ==
  /\ part \in {"log", "records", "tables", "messages", "repair"}
  /\ Init
  /\ L!Init /\ B!Init
  /\ IF part = "tables" THEN T!Init
     ELSE scenario = "none" /\ tables = "none" /\ iter = "none"
  /\ M!Init /\ (part # "messages" => case = 1)
MCNext ==
  /\ part' = part
  /\ \/ part = "log" /\ L!Next /\ UNCHANGED <<recordVars, tableVars, messageVars, vars>>
     \/ part = "records" /\ B!Next /\ UNCHANGED <<logVars, tableVars, messageVars, vars>>
     \/ part = "tables" /\ T!Move /\ UNCHANGED <<logVars, recordVars, messageVars, vars>>
     \/ part = "messages" /\ M!Next /\ UNCHANGED <<logVars, recordVars, tableVars, vars>>
     \/ part = "repair" /\ Next /\ UNCHANGED <<logVars, recordVars, tableVars, messageVars>>
MCSpec == MCInit /\ [][MCNext]_<<part, logVars, recordVars, tableVars, messageVars, vars>>

-----------------------------------------------------------------------------
(* Batches and version edits. *)

MCSlices == {<<>>, <<1, 0>>}
\* Everything, with numbers of one byte and of two; a manifest's first edit; and
\* one of a compaction.
MCEdits ==
  {[once |-> (1 :> <<7>>) @@ (2 :> 1) @@ (9 :> 0) @@ (3 :> 5) @@ (4 :> 9),
    pointers |-> <<<<0, <<1>>>>>>, deleted |-> {<<0, 2>>}, new |-> <<<<1, 6, 4, <<1>>, <<2>>>>>>],
   [once |-> (1 :> <<>>) @@ (2 :> 2) @@ (3 :> 4) @@ (4 :> 0),
    pointers |-> <<>>, deleted |-> {}, new |-> <<>>],
   [once |-> <<>>, pointers |-> <<<<0, <<3>>>>, <<1, <<1>>>>>>,
    deleted |-> {<<0, 3>>, <<0, 5>>, <<1, 2>>},
    new |-> <<<<1, 8, 1, <<1>>, <<1, 2>>>>, <<1, 9, 1, <<3>>, <<5>>>>>>]}
MCBefore == [once |-> (2 :> 3), pointers |-> <<<<1, <<2>>>>>>, deleted |-> {<<1, 1>>},
             new |-> <<<<0, 1, 1, <<1>>, <<1>>>>>>]

-----------------------------------------------------------------------------
(* Tables: five writes to three keys, two to four of them in the two files  *)
(* of a level, with every kind of damage and none.                          *)

MCUsers == {<<1>>, <<1, 1, 2>>, <<3>>}
MCTargets == {<<1>>, <<1, 1, 2>>, <<2>>, <<3>>, <<3, 1>>}

\* The types of a write, numbered as in DBIterators.
MCDeletion == 0
MCValue == 1
MCNoType == 2
\* Each write chooses its key; the third and the fifth may be deletions, the
\* second of no known type.
MCWrites(deletions, odd) ==
  {[n \in 1 .. 5 |-> [user |-> users[n],
                      type |-> IF n \in deleted THEN MCDeletion
                               ELSE IF n = odd THEN MCNoType ELSE MCValue]] :
     users \in [1 .. 5 -> MCUsers], deleted \in deletions}
Fault(kind, f, block, entry) ==
  [kind |-> kind, file |-> f, block |-> block, entry |-> entry]
NoFault == Fault("none", 1, 0, 0)
MCFaults == {Fault("block", f, 1, 0) : f \in {1, 2}} \union {Fault("entry", 1, 1, e) : e \in {1, 2}}
              \union {Fault("block", 1, 0, 0)}
MCScenario(writes, older, first, snapshots, flaws) ==
  {[writes |-> w, older |-> 1 .. older, cut |-> first, snapshot |-> s, fault |-> f] :
     w \in writes, s \in snapshots, f \in flaws}
\* Where the oldest write is to one key.
MCFirst(writes) == {w \in writes : w[1].user = <<1, 1, 2>>}
MCScenarios == MCScenario(MCFirst(MCWrites({{3, 5}}, 0)), 2, 1, {5}, {NoFault})
         \union MCScenario(MCFirst(MCWrites({{}}, 0)), 2, 1, {5}, {NoFault})
         \union MCScenario(MCWrites({{3, 5}}, 0), 3, 2, {4}, {NoFault})
         \union MCScenario(MCFirst(MCWrites({{3, 5}}, 0)), 4, 3, {5}, MCFaults)
         \union MCScenario(MCFirst(MCWrites({{3, 5}}, 2)), 3, 1, {5}, {NoFault})

-----------------------------------------------------------------------------
(* Messages, with varints of three bits a byte and integers of two bytes. *)

Described(tag, ltype, htype, size) ==
  [tag |-> tag, ltype |-> ltype, htype |-> htype, has |-> htype = "optional",
   union |-> IF htype = "oneof" THEN 1 ELSE 0, size |-> size, max |-> 0, sub |-> <<>>]
Repeated(tag, ltype, size, max) == [Described(tag, ltype, "repeated", size) EXCEPT !.max = max]
Implicit(tag, ltype, size) == [Described(tag, ltype, "optional", size) EXCEPT !.has = FALSE]
Of(field, sub) == [field EXCEPT !.sub = sub]

NoGrowth == {<<>>}

\* Numbers, and a reader from before the second field.
NumberFields == <<Described(1, "varint", "required", 1), Described(2, "uvarint", "optional", 2),
                  Repeated(3, "svarint", 1, 2)>>
NumberMessages == {<<a, b, c>> : a \in {-8, 7}, b \in {<<>>, <<200>>}, c \in {<<>>, <<-3>>, <<-8, 2>>}}
NumberCase == [writer |-> NumberFields, reader |-> <<NumberFields[1], NumberFields[3]>>,
               messages |-> NumberMessages, second |-> {<<7, <<>>, <<>>>>}, growth |-> NoGrowth]

\* Messages in messages, and a oneof.
InnerFields == <<Implicit(1, "uvarint", 1), Repeated(2, "string", 3, 2)>>
NestedFields == <<Of(Described(1, "submessage", "optional", 0), InnerFields),
                  Described(2, "fixed32", "oneof", 2),
                  Of(Described(3, "submessage", "oneof", 0), <<Described(1, "bytes", "required", 2)>>)>>
NestedMessages ==
  {<<a, b[1], b[2]>> : a \in {<<>>, <<<<0, <<>>>>>>, <<<<3, <<<<5, 9>>>>>>>>},
                       b \in {<<<<>>, <<>>>>, <<<<77>>, <<>>>>, <<<<>>, <<<<<<4>>>>>>>>}}
NestedCase == [writer |-> NestedFields, reader |-> NestedFields, messages |-> NestedMessages,
               second |-> {<<<<<<0, <<<<>>>>>>>>, <<>>, <<<<<<>>>>>>>>}, growth |-> NoGrowth]

\* A long number, wide arrays, a callback whose data may grow, inline bytes.
WideFields == <<Described(1, "varint", "optional", 4), Repeated(2, "fixed64", 4, 1),
                Described(3, "callback", "repeated", 0), Described(4, "fixedbytes", "required", 2)>>
WideMessages == {<<a, b, c, <<0, 15>>>> : a \in {<<>>, <<-1>>}, b \in {<<>>, <<300>>},
                                          c \in {<<>>, <<<<6>>, <<>>>>}}
WideCase == [writer |-> WideFields, reader |-> WideFields, messages |-> WideMessages,
             second |-> {<<<<>>, <<>>, <<<<1>>>>, <<2, 3>>>>}, growth |-> {<<>>, <<<<8>>>>}]

\* A reader for which the last two fields are extensions.
BaseFields == <<Implicit(1, "string", 3), Described(2, "bytes", "optional", 2),
                Described(3, "svarint", "optional", 2), Described(4, "fixed32", "optional", 2)>>
ExtendedFields == <<BaseFields[1], BaseFields[2],
                    Of(Described(3, "extension", "optional", 0),
                       <<[BaseFields[3] EXCEPT !.htype = "required", !.has = FALSE],
                         [BaseFields[4] EXCEPT !.htype = "required", !.has = FALSE]>>)>>
BaseMessages == {<<a, b, c, d>> : a \in {<<>>, <<5, 6>>}, b \in {<<>>, <<<<>>>>, <<<<7>>>>},
                                  c \in {<<>>, <<-128>>}, d \in {<<>>, <<255>>}}
ExtendedCase == [writer |-> BaseFields, reader |-> ExtendedFields, messages |-> BaseMessages,
                 second |-> {<<<<>>, <<<<1>>>>, <<4>>, <<>>>>}, growth |-> NoGrowth]

\* A writer with extensions, for a reader with none.
PlainCase == [writer |-> ExtendedFields, reader |-> <<BaseFields[1]>>,
              messages |-> {<<<<9>>, <<<<2>>>>, <<c, d>>>> : c \in {<<>>, <<0>>, <<5>>}, d \in {<<>>, <<17>>}},
              second |-> {<<<<>>, <<>>, <<<<1>>, <<>>>>>>}, growth |-> NoGrowth]

MCCases == <<NumberCase, NestedCase, WideCase, ExtendedCase, PlainCase>>

-----------------------------------------------------------------------------
\* What is added to a log is read again, whole and in order, up to where it is
\* damaged or cut, and so are the writes and the edits in it; and a repair finds
\* its files where it looks for them.
\* (log_reader.cc, write_batch.cc, version_edit.cc, repair.cc; see RecordLog, Records
\* and Repair.)
RecordsRead ==
  /\ part = "log" => L!TypeOK /\ L!WholeRecords /\ L!UndamagedAreRead /\ L!TornTailSilent
  /\ part = "records" => /\ B!TypeOK
                         /\ B!BatchesReadBack /\ B!CutBatchNoticed
                         /\ B!EditsReadBack /\ B!BadEditsHarmless
  /\ part = "repair" => TypeOK

\* A lookup in a table finds the newest entry up to its sequence number, filter
\* or no filter, and what a table says of offsets grows with the key.
\* (Table::InternalGet, Table::ApproximateOffsetOf; see DBIterators.)
LookupFindsNewest == part = "tables" => T!LookupFindsNewest /\ T!OffsetsGrow

\* Every call moves a DBIter as a cursor over what its snapshot holds, and its
\* children to where they have to be for the next one.
\* (DBIter, MergingIterator, TwoLevelIterator, Block::Iter; see DBIterators.)
MovesAsCursor == part = "tables" => T!TypeOK /\ T!ChildrenPositioned /\ T!MovesAsCursor

\* A message is read as it was written, and is as long as its writer says.
\* (pb_encode.c, pb_decode.c; see Messages.)
MessagesRoundTrip == part = "messages" => M!TypeOK /\ M!ReadsWhatWasWritten /\ M!SizesAgree

\* A reader of delimited messages stays between them, and of a message without
\* its end takes the fields in front or none.
\* (pb_decode_delimited, pb_make_string_substream; see Messages.)
FramesKept == part = "messages" => M!FramesKeptUnlessOverflow /\ M!CutIsPrefix
=============================================================================
