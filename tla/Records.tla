------------------------------- MODULE Records -------------------------------
(***************************************************************************)
(* What LevelDB writes into the records of its logs: batches of writes     *)
(* (Pods/leveldb-library/db/write_batch.cc), those of several writers in   *)
(* one record, and, in a manifest, version edits (db/version_edit.cc).     *)
(* Each is put together, may be cut or changed on its way, and is taken    *)
(* apart again.  The numbers of util/coding.cc are scaled down: Radix is   *)
(* 128 there, and a uint32_t and a uint64_t are 5 and 10 bytes of a varint *)
(* at most.                                                                *)
(***************************************************************************)
EXTENDS Integers, Sequences, FiniteSets, SequencesExt

CONSTANTS
  Radix, Max32, Max64,   \* see above
  Limit32, Limit64,      \* 2^32 and 2^64
  SequenceSize, CountSize, \* bytes of the two numbers of a batch's header
  NumLevels,             \* config::kNumLevels
  Slices,                \* keys and values, sequences of bytes
  Edits, HeldBefore,     \* version edits, and what the reader's held before
  MaxOps, MaxFaults      \* bounds

Byte == 0 .. 2 * Radix - 1

-----------------------------------------------------------------------------
(* util/coding.cc.  A parser returns what it has read and what is left. *)

Got(value, rest) == [ok |-> TRUE, value |-> value, rest |-> rest]
Bad == [ok |-> FALSE, value |-> 0, rest |-> <<>>]

EncodeFixed(n, size) == [i \in 1 .. size |-> (n \div (2 * Radix) ^ (i - 1)) % (2 * Radix)]
DecodeFixed(bytes) == FoldRight(LAMBDA byte, n : byte + 2 * Radix * n, bytes, 0)

RECURSIVE EncodeVarint(_)
EncodeVarint(n) == IF n < Radix THEN <<n>>
                   ELSE <<Radix + (n % Radix)>> \o EncodeVarint(n \div Radix)

\* At most max bytes, and what does not fit the type is lost.
GetVarint(in, max, limit) ==
  LET ends == {i \in 1 .. Min({max, Len(in)}) : in[i] < Radix}
      n == Min(ends)
      value == FoldRight(LAMBDA byte, v : (byte % Radix) + Radix * v, SubSeq(in, 1, n), 0)
  IN  IF ends = {} THEN Bad ELSE Got(value % limit, SubSeq(in, n + 1, Len(in)))
GetVarint32(in) == GetVarint(in, Max32, Limit32)
GetVarint64(in) == GetVarint(in, Max64, Limit64)

PutLengthPrefixedSlice(slice) == EncodeVarint(Len(slice)) \o slice
GetLengthPrefixedSlice(in) ==
  LET Slice(r) == IF ~r.ok \/ Len(r.rest) < r.value THEN Bad
                  ELSE Got(SubSeq(r.rest, 1, r.value), SubSeq(r.rest, r.value + 1, Len(r.rest)))
  IN  Slice(GetVarint32(in))

-----------------------------------------------------------------------------
(* Batches. *)

Deletion == 0
Value == 1
Header == SequenceSize + CountSize

EmptyBatch == [seq |-> 0, count |-> 0, data |-> <<>>]

Put(b, key, value) ==
  [b EXCEPT !.count = @ + 1,
            !.data = @ \o <<Value>> \o PutLengthPrefixedSlice(key)
                       \o PutLengthPrefixedSlice(value)]
Delete(b, key) ==
  [b EXCEPT !.count = @ + 1, !.data = @ \o <<Deletion>> \o PutLengthPrefixedSlice(key)]

AppendBatch(b, other) ==
  [b EXCEPT !.count = @ + other.count, !.data = @ \o other.data]

Contents(b) ==
  EncodeFixed(b.seq, SequenceSize) \o EncodeFixed(b.count, CountSize) \o b.data

\* One write of a batch, as MemTableInserter numbers it.
NextWrite(in, seq) ==
  LET Write(key, value) ==
        IF ~value.ok THEN Bad
        ELSE Got([seq |-> seq, type |-> in[1], key |-> key, value |-> value.value], value.rest)
      Behind(key) ==
        IF ~key.ok THEN Bad
        ELSE Write(key.value, IF in[1] = Deletion THEN Got(<<>>, key.rest)
                              ELSE GetLengthPrefixedSlice(key.rest))
  IN  IF in[1] \in {Deletion, Value} THEN Behind(GetLengthPrefixedSlice(Tail(in))) ELSE Bad

CountRight(found, count) == found = count

\* Iterate with a MemTableInserter: the writes up to the first bad one are
\* inserted, whatever comes of the rest.
RECURSIVE Iterate(_, _, _, _)
Iterate(in, seq, count, writes) ==
  IF in = <<>> THEN [ok |-> CountRight(Len(writes), count), writes |-> writes]
  ELSE LET Rest(w) == IF w.ok THEN Iterate(w.rest, seq + 1, count, Append(writes, w.value))
                      ELSE [ok |-> FALSE, writes |-> writes]
       IN  Rest(NextWrite(in, seq))

\* A record of a log at recovery: what it inserts, and the last sequence number
\* it is taken for.
ReadBatch(record) ==
  LET seq == DecodeFixed(SubSeq(record, 1, SequenceSize))
      count == DecodeFixed(SubSeq(record, SequenceSize + 1, Header))
  IN  IF Len(record) < Header THEN [ok |-> FALSE, writes |-> <<>>, last |-> 0]
      ELSE [last |-> seq + count - 1]
             @@ Iterate(SubSeq(record, Header + 1, Len(record)), seq, count, <<>>)

-----------------------------------------------------------------------------
(* Version edits.  What follows a tag is a list of numbers, levels and slices; *)
(* some tags may occur once, the others any number of times.                   *)

Once == [comparator |-> 1, log |-> 2, prevLog |-> 9, nextFile |-> 3, lastSequence |-> 4]
CompactPointer == 5
DeletedFile == 6
NewFile == 7
Tags == Range(Once) \union {CompactPointer, DeletedFile, NewFile}

Shape(tag) ==
  CASE tag = Once.comparator -> <<"slice">>
    [] tag \in Range(Once) \ {Once.comparator} -> <<"number">>
    [] tag = CompactPointer -> <<"level", "slice">>
    [] tag = DeletedFile -> <<"level", "number">>
    [] tag = NewFile -> <<"level", "number", "number", "slice", "slice">>

\* With a bug: the files of the edit before stay.
ClearKeepingFiles(edit) == [edit EXCEPT !.once = <<>>, !.deleted = {}]
\* Clear leaves the compaction pointers where they are.
Clear(edit) == [edit EXCEPT !.once = <<>>, !.deleted = {}, !.new = <<>>]
NoEdit == [once |-> <<>>, pointers |-> <<>>, deleted |-> {}, new |-> <<>>]

EncodeItem(kind, value) ==
  IF kind = "slice" THEN PutLengthPrefixedSlice(value) ELSE EncodeVarint(value)
EncodeField(tag, values) ==
  EncodeVarint(tag) \o FlattenSeq([i \in DOMAIN values |-> EncodeItem(Shape(tag)[i], values[i])])

\* In the order of a std::set of pairs.
Pairs(set) == SetToSortSeq(set, LAMBDA p, q : p[1] < q[1] \/ (p[1] = q[1] /\ p[2] < q[2]))

EncodeTo(edit) ==
  LET once(tag) == IF tag \in DOMAIN edit.once THEN EncodeField(tag, <<edit.once[tag]>>) ELSE <<>>
      each(tag, list) == FlattenSeq([i \in DOMAIN list |-> EncodeField(tag, list[i])])
  IN  once(Once.comparator) \o once(Once.log) \o once(Once.prevLog) \o once(Once.nextFile)
      \o once(Once.lastSequence) \o each(CompactPointer, edit.pointers)
      \o each(DeletedFile, Pairs(edit.deleted)) \o each(NewFile, edit.new)

GetLevel(in) == LET r == GetVarint32(in)
                IN  IF r.ok /\ r.value < NumLevels THEN r ELSE Bad

GetItem(in, kind) == CASE kind = "slice" -> GetLengthPrefixedSlice(in)
                       [] kind = "level" -> GetLevel(in)
                       [] kind = "number" -> GetVarint64(in)
GetField(in, tag) ==
  FoldLeft(LAMBDA r, kind :
             IF ~r.ok THEN r
             ELSE LET item == GetItem(r.rest, kind)
                  IN  IF item.ok THEN Got(Append(r.value, item.value), item.rest) ELSE Bad,
           Got(<<>>, in), Shape(tag))

With(edit, tag, values) ==
  CASE tag = CompactPointer -> [edit EXCEPT !.pointers = Append(@, values)]
    [] tag = DeletedFile -> [edit EXCEPT !.deleted = @ \union {values}]
    [] tag = NewFile -> [edit EXCEPT !.new = Append(@, values)]
    [] OTHER -> [edit EXCEPT !.once = (tag :> values[1]) @@ @]

RECURSIVE DecodeFields(_, _)
DecodeFields(in, edit) ==
  LET tag == GetVarint32(in)
      Rest(field) == IF field.ok THEN DecodeFields(field.rest, With(edit, tag.value, field.value))
                     ELSE [ok |-> FALSE, edit |-> edit]
  IN  IF tag.ok THEN Rest(IF tag.value \in Tags THEN GetField(tag.rest, tag.value) ELSE Bad)
      ELSE [ok |-> in = <<>>, edit |-> edit]
DecodeFrom(in, edit) == DecodeFields(in, Clear(edit))

-----------------------------------------------------------------------------
VARIABLES
  ops,      \* what each of two writers has put into its batch
  batches,  \* their batches
  edit,     \* the edit, if that is what is written
  record,   \* the record, once it is written
  fault,    \* "none", or what has happened to it: "cut", "changed"
  faults,   \* how often
  read      \* what its reader has made of it
vars == <<ops, batches, edit, record, fault, faults, read>>

Unread == [kind |-> "none"]

Init == /\ ops = <<<<>>, <<>>>> /\ batches = <<EmptyBatch, EmptyBatch>>
        /\ edit = NoEdit /\ record = <<>> /\ fault = "none" /\ faults = 0 /\ read = Unread

Written == record # <<>> \/ fault # "none"
NumOps == Len(ops[1]) + Len(ops[2])

PutOne == \E i \in 1 .. 2, key \in Slices, value \in Slices :
  /\ ~Written /\ NumOps < MaxOps
  /\ batches' = [batches EXCEPT ![i] = Put(@, key, value)]
  /\ ops' = [ops EXCEPT ![i] = Append(@, [type |-> Value, key |-> key, value |-> value])]
  /\ UNCHANGED <<edit, record, fault, faults, read>>
DeleteOne == \E i \in 1 .. 2, key \in Slices :
  /\ ~Written /\ NumOps < MaxOps
  /\ batches' = [batches EXCEPT ![i] = Delete(@, key)]
  /\ ops' = [ops EXCEPT ![i] = Append(@, [type |-> Deletion, key |-> key, value |-> <<>>])]
  /\ UNCHANGED <<edit, record, fault, faults, read>>

\* Both writers in one group, behind so many earlier writes.
WriteGroup == \E last \in {0, 2 * Radix} :
  LET group == AppendBatch(AppendBatch(EmptyBatch, batches[1]), batches[2])
  IN  /\ ~Written
      /\ record' = Contents([group EXCEPT !.seq = last + 1])
      /\ UNCHANGED <<ops, batches, edit, fault, faults, read>>
WriteEdit == \E e \in Edits :
  /\ ~Written /\ NumOps = 0
  /\ edit' = e /\ record' = EncodeTo(e)
  /\ UNCHANGED <<ops, batches, fault, faults, read>>

Cut == \E n \in 0 .. Len(record) - 1 :
  /\ read = Unread /\ faults < MaxFaults
  /\ record' = SubSeq(record, 1, n)
  /\ fault' = (IF fault = "none" THEN "cut" ELSE fault) /\ faults' = faults + 1
  /\ UNCHANGED <<ops, batches, edit, read>>
Change == \E i \in DOMAIN record, byte \in Byte :
  /\ read = Unread /\ faults < MaxFaults /\ record[i] # byte
  /\ record' = [record EXCEPT ![i] = byte]
  /\ fault' = "changed" /\ faults' = faults + 1
  /\ UNCHANGED <<ops, batches, edit, read>>

ReadAsBatch ==
  /\ Written /\ read = Unread /\ edit = NoEdit
  /\ read' = ReadBatch(record) @@ [kind |-> "batch"]
  /\ UNCHANGED <<ops, batches, edit, record, fault, faults>>
\* Into a new edit, or one that has been used before.
ReadAsEdit == \E before \in {NoEdit, HeldBefore} :
  /\ Written /\ read = Unread /\ edit # NoEdit
  /\ read' = DecodeFrom(record, before) @@ [kind |-> "edit", before |-> before]
  /\ UNCHANGED <<ops, batches, edit, record, fault, faults>>

Next == \/ PutOne \/ DeleteOne \/ WriteGroup \/ WriteEdit
        \/ Cut \/ Change \/ ReadAsBatch \/ ReadAsEdit
Spec == Init /\ [][Next]_vars

-----------------------------------------------------------------------------
\* What the variables hold: a record is bytes, whatever has been put into it.
TypeOK ==
  /\ \A i \in 1 .. 2 : ops[i] \in Seq([type : {Deletion, Value}, key : Slices,
                                      value : Slices \union {<<>>}])
  /\ \A i \in 1 .. 2 : batches[i].count = Len(ops[i])
  /\ record \in Seq(Byte) /\ edit \in Edits \union {NoEdit}
  /\ fault \in {"none", "cut", "changed"} /\ faults \in 0 .. MaxFaults
  /\ read.kind \in {"none", "batch", "edit"}

\* The writes of a group, numbered behind a sequence number.
Numbered(last) == [i \in 1 .. NumOps |->
                     [seq |-> last + i] @@ (ops[1] \o ops[2])[i]]
Plain(writes) == [i \in DOMAIN writes |-> [type |-> writes[i].type, key |-> writes[i].key,
                                           value |-> writes[i].value]]

\* A group comes back as it was written: the writes of the first writer, then
\* those of the second, numbered one after the other, and the last number is
\* that of the last write.
BatchesReadBack ==
  read.kind = "batch" /\ fault = "none" =>
    /\ read.ok
    /\ \E last \in {0, 2 * Radix} : read.writes = Numbered(last) /\ read.last = last + NumOps

\* A group that lacks its end is reported, and only whole writes from its start
\* have been inserted.
CutBatchNoticed ==
  read.kind = "batch" /\ fault = "cut" =>
    ~read.ok /\ IsPrefix(Plain(read.writes), ops[1] \o ops[2])

\* An edit comes back as it was written, into one that has been used before with
\* the compaction pointers that were there.
EditsReadBack ==
  read.kind = "edit" /\ fault = "none" =>
    read.ok /\ read.edit = [edit EXCEPT !.pointers = read.before.pointers \o @]

\* Whatever bytes arrive, an edit never names a level that there is not (the
\* levels index the arrays of a Version), and of one that lacks its end nothing
\* is accepted but the fields in front.
LevelsExist == read.kind = "edit" =>
  /\ \A p \in Range(read.edit.pointers) : p[1] \in 0 .. NumLevels - 1
  /\ \A d \in read.edit.deleted : d[1] \in 0 .. NumLevels - 1
  /\ \A f \in Range(read.edit.new) : f[1] \in 0 .. NumLevels - 1
FieldsInFront == read.kind = "edit" /\ fault = "cut" =>
  /\ \A tag \in DOMAIN read.edit.once : /\ tag \in DOMAIN edit.once
                                        /\ read.edit.once[tag] = edit.once[tag]
  /\ IsPrefix(read.edit.pointers, read.before.pointers \o edit.pointers)
  /\ read.edit.deleted \subseteq edit.deleted
  /\ IsPrefix(read.edit.new, edit.new)
BadEditsHarmless == LevelsExist /\ FieldsInFront
=============================================================================
