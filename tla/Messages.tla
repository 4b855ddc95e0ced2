------------------------------ MODULE Messages ------------------------------
(***************************************************************************)
(* nanopb (Pods/nanopb): a program fills structures, encodes them with     *)
(* their lengths into one buffer (pb_encode_delimited), and another, which *)
(* may know other fields of the type, decodes them (pb_decode_delimited).  *)
(* Between the two the buffer may be cut, or a byte of it changed.         *)
(* Numbers are scaled down: a byte has GroupBits + 1 bits and a uint32_t   *)
(* Word bytes (7 and 4 in the code).                                       *)
(*                                                                         *)
(* Field descriptions come from generated code, which is not part of the   *)
(* repository: [tag, ltype, htype, has, union, size, max, sub].  `has' is  *)
(* "there is a has_ field", `union' tells the oneofs of a type apart (0:   *)
(* none), `sub' is the type of a submessage or the list of extensions.  A  *)
(* structure is a sequence of slots, one for each field: a value for a     *)
(* required field and for an optional one without has_, <<>> or <<value>>  *)
(* for an optional one with has_, a member of a oneof and a registered     *)
(* extension, the items of a repeated field, and for a callback field the  *)
(* payloads that its functions write or have read.                         *)
(***************************************************************************)
EXTENDS Integers, Sequences, SequencesExt

CONSTANTS
  GroupBits,   \* bits of a number in a byte of a varint
  Word,        \* bytes of a uint32_t
  ShiftWraps   \* does the processor take the distance of a shift modulo the width?

Group == 2 ^ GroupBits
ByteBits == GroupBits + 1
Bits32 == ByteBits * Word
Bits64 == 2 * Bits32

Signed(value, bits) == LET v == value % 2 ^ bits
                       IN  IF v < 2 ^ (bits - 1) THEN v ELSE v - 2 ^ bits
Packable == {"varint", "uvarint", "svarint", "fixed32", "fixed64"}

-----------------------------------------------------------------------------
(* Input streams.  A stream is a place in the buffer w: at is its state, left *)
(* its bytes_left, error its errmsg or "none".                                *)

Fail(s, error) == [s EXCEPT !.error = error]
Good(s) == s.error = "none"
Got(s, value) == [s |-> s, v |-> value]

Skip(s, count) == IF s.left < count THEN Fail(s, "end-of-stream")
                  ELSE [s EXCEPT !.at = @ + count, !.left = @ - count]
Read(w, s, count) == LET t == Skip(s, count)
                     IN  Got(t, IF Good(t) THEN SubSeq(w, s.at, s.at + count - 1) ELSE <<>>)

RECURSIVE VarintFrom(_, _, _, _, _)
VarintFrom(w, s, bits, bitpos, value) ==
  IF bitpos >= bits THEN Got(Fail(s, "varint overflow"), value)
  ELSE IF s.left = 0 THEN Got(Fail(s, "end-of-stream"), value)
  ELSE LET byte == w[s.at]
           v == (value + (byte % Group) * 2 ^ bitpos) % 2 ^ bits
       IN  IF byte < Group THEN Got(Skip(s, 1), v)
           ELSE VarintFrom(w, Skip(s, 1), bits, bitpos + GroupBits, v)
DecodeVarint(w, s) == VarintFrom(w, s, Bits64, 0, 0)
DecodeVarint32(w, s) == VarintFrom(w, s, Bits32, 0, 0)
DecodeSvarint(w, s) ==
  LET r == DecodeVarint(w, s)
  IN  [r EXCEPT !.v = IF @ % 2 = 1 THEN -(@ \div 2) - 1 ELSE @ \div 2]

RECURSIVE SkipVarint(_, _)
SkipVarint(w, s) == IF s.left = 0 THEN Fail(s, "end-of-stream")
                    ELSE IF w[s.at] < Group THEN Skip(s, 1)
                    ELSE SkipVarint(w, Skip(s, 1))
SkipString(w, s) == LET r == DecodeVarint32(w, s)
                    IN  IF Good(r.s) THEN Skip(r.s, r.v) ELSE r.s

WireType == [varint |-> 0, fixed64 |-> 1, string |-> 2, fixed32 |-> 5]

\* tag 0: no tag, and end says whether that is the end of the message.
DecodeTag(w, s) ==
  LET r == DecodeVarint32(w, s)
  IN  IF ~Good(r.s)
      THEN [s |-> r.s, tag |-> 0, wire |-> 0, end |-> r.s.left = 0]
      ELSE [s |-> r.s, tag |-> r.v \div 8, wire |-> r.v % 8, end |-> r.v = 0]

SkipField(w, s, wire) ==
  CASE wire = WireType.varint  -> SkipVarint(w, s)
    [] wire = WireType.fixed64 -> Skip(s, 2 * Word)
    [] wire = WireType.string  -> SkipString(w, s)
    [] wire = WireType.fixed32 -> Skip(s, Word)
    [] OTHER -> Fail(s, "invalid wire_type")

\* The raw bytes of a number, for a callback.
ReadRawValue(w, s, wire) ==
  LET end == IF wire = WireType.varint THEN SkipVarint(w, s)
             ELSE IF wire = WireType.fixed64 THEN Skip(s, 2 * Word)
             ELSE IF wire = WireType.fixed32 THEN Skip(s, Word)
             ELSE Fail(s, "invalid wire_type")
      max == (Bits64 + GroupBits - 1) \div GroupBits
      t == IF end.at - s.at > max THEN Fail(Skip(s, max), "too long") ELSE end
  IN  Got(t, IF Good(t) THEN SubSeq(w, s.at, t.at - 1) ELSE <<>>)

\* The parent gives the bytes up at once, and moves only when the substream is
\* closed.
MakeSubstream(w, s) ==
  LET r == DecodeVarint32(w, s)
  IN  IF ~Good(r.s) THEN [s |-> r.s, sub |-> r.s]
      ELSE IF r.s.left < r.v
      THEN [s |-> Fail(r.s, "parent stream too short"), sub |-> r.s]
      ELSE [s |-> [r.s EXCEPT !.left = @ - r.v], sub |-> [r.s EXCEPT !.left = r.v]]
\* With a bug: what the message left unread stays in the stream.
CloseHalfRead(s, sub) == [s EXCEPT !.at = sub.at, !.error = sub.error]
CloseSubstream(s, sub) ==
  [s EXCEPT !.at = sub.at + sub.left, !.error = sub.error]

-----------------------------------------------------------------------------
(* Defaults. *)

Zeros(count) == [i \in 1 .. count |-> 0]

RECURSIVE Defaults(_)
DefaultValue(f) == CASE f.ltype = "submessage" -> Defaults(f.sub)
                     [] f.ltype = "fixedbytes" -> Zeros(f.size)
                     [] f.ltype \in {"bytes", "string"} -> <<>>
                     [] OTHER -> 0
Plain(f) == /\ f.ltype \notin {"callback", "extension"}
            /\ f.htype = "required" \/ (f.htype = "optional" /\ ~f.has)
DefaultSlot(f) == IF Plain(f) THEN DefaultValue(f)
                  ELSE IF f.ltype = "extension" THEN [j \in DOMAIN f.sub |-> <<>>]
                  ELSE <<>>
Defaults(fields) == [i \in DOMAIN fields |-> DefaultSlot(fields[i])]

-----------------------------------------------------------------------------
(* Decoders of one value: the stream behind it and the value.  was is what the *)
(* structure holds, which only a submessage looks at.                          *)

RECURSIVE DecodeFields(_, _, _, _, _)

TooLarge == "integer too large"
Checked(r, clamped, value) == IF ~Good(r.s) \/ clamped = value THEN Got(r.s, clamped)
                              ELSE Got(Fail(r.s, TooLarge), clamped)

\* Into at most 32 bits: the upper half is dropped first, whatever it is.
DecVarint(w, s, f) ==
  LET r == DecodeVarint(w, s)
      value == Signed(r.v, IF f.size = 2 * Word THEN Bits64 ELSE Bits32)
  IN  Checked(r, Signed(value, ByteBits * f.size), value)
DecUvarint(w, s, f) ==
  LET r == DecodeVarint(w, s) IN Checked(r, r.v % 2 ^ (ByteBits * f.size), r.v)
DecSvarint(w, s, f) ==
  LET r == DecodeSvarint(w, s) IN Checked(r, Signed(r.v, ByteBits * f.size), r.v)

Number(bytes) ==
  FoldRight(LAMBDA byte, rest : byte + 2 ^ ByteBits * rest, bytes, 0)
DecFixed(w, s, size) == LET r == Read(w, s, size) IN Got(r.s, Number(r.v))

DecBytes(w, s, f) ==
  LET r == DecodeVarint32(w, s)
  IN  IF ~Good(r.s) THEN Got(r.s, <<>>)
      ELSE IF r.v > f.size THEN Got(Fail(r.s, "bytes overflow"), <<>>)
      ELSE Read(w, r.s, r.v)
\* One byte of the array is for the terminator.
DecString(w, s, f) ==
  LET r == DecodeVarint32(w, s)
  IN  IF ~Good(r.s) THEN Got(r.s, <<>>)
      ELSE IF (r.v + 1) % 2 ^ Bits32 < r.v THEN Got(Fail(r.s, "size too large"), <<>>)
      ELSE IF r.v + 1 > f.size THEN Got(Fail(r.s, "string overflow"), <<>>)
      ELSE Read(w, r.s, r.v)
DecFixedBytes(w, s, f) ==
  LET r == DecodeVarint32(w, s)
  IN  IF ~Good(r.s) THEN Got(r.s, <<>>)
      ELSE IF r.v = 0 THEN Got(r.s, Zeros(f.size))
      ELSE IF r.v # f.size THEN Got(Fail(r.s, "incorrect size"), <<>>)
      ELSE Read(w, r.s, f.size)

\* Decode what a stream has left, unless it could not be made, and close it.
Closed(s, r) == Got(CloseSubstream(s, r.s), r.v)
DecodeSubstream(w, made, fields, m) ==
  IF Good(made.s) THEN Closed(made.s, DecodeFields(w, made.sub, fields, m, {}))
  ELSE Got(made.s, m)
DecSubmessage(w, s, f, was) ==
  DecodeSubstream(w, MakeSubstream(w, s), f.sub,
                  IF f.htype = "repeated" THEN Defaults(f.sub) ELSE was)

Dec(w, s, f, was) ==
  CASE f.ltype = "varint"     -> DecVarint(w, s, f)
    [] f.ltype = "uvarint"    -> DecUvarint(w, s, f)
    [] f.ltype = "svarint"    -> DecSvarint(w, s, f)
    [] f.ltype = "fixed32"    -> DecFixed(w, s, Word)
    [] f.ltype = "fixed64"    -> DecFixed(w, s, 2 * Word)
    [] f.ltype = "bytes"      -> DecBytes(w, s, f)
    [] f.ltype = "string"     -> DecString(w, s, f)
    [] f.ltype = "fixedbytes" -> DecFixedBytes(w, s, f)
    [] f.ltype = "submessage" -> DecSubmessage(w, s, f, was)

-----------------------------------------------------------------------------
(* One field: the stream behind it and its slot. *)

Overflow == "array overflow"

\* Items of a packed array, until the substream ends, the array is full or an
\* item is bad.
RECURSIVE Items(_, _, _, _)
Items(w, s, f, items) ==
  IF s.left = 0 \/ Len(items) >= f.max THEN Got(s, items)
  ELSE LET Rest(r) == IF Good(r.s) THEN Items(w, r.s, f, Append(items, r.v)) ELSE Got(r.s, items)
       IN  Rest(Dec(w, s, f, 0))

\* A substream that is not at its end is an error, and is not closed.
DecodePacked(w, s, f, slot) ==
  LET made == MakeSubstream(w, s)
      End(r) == IF r.s.left # 0 THEN Got(Fail(made.s, Overflow), r.v) ELSE Closed(made.s, r)
  IN  IF Good(made.s) THEN End(Items(w, made.sub, f, slot)) ELSE Got(made.s, slot)

DecodeRepeated(w, s, wire, f, slot) ==
  IF wire = WireType.string /\ f.ltype \in Packable THEN DecodePacked(w, s, f, slot)
  ELSE IF Len(slot) >= f.max THEN Got(Fail(s, Overflow), slot)
  ELSE LET Appended(r) == Got(r.s, Append(slot, r.v)) IN Appended(Dec(w, s, f, DefaultValue(f)))

\* The callback function is called until it has read all: it reads all at once.
\* A callback that refuses (returns false) is left out: pb_decode.c:631-632 then
\* returns without closing the substream.
DecodeCallback(w, s, wire, slot) ==
  LET made == MakeSubstream(w, s)
      raw == ReadRawValue(w, s, wire)
  IN  IF wire # WireType.string
      THEN Got(raw.s, IF Good(raw.s) THEN Append(slot, raw.v) ELSE slot)
      ELSE IF ~Good(made.s) THEN Got(made.s, slot)
      ELSE LET r == Closed(made.s, Read(w, made.sub, made.sub.left))
           IN  Got(r.s, Append(slot, r.v))

\* The rest of decode_static_field: the member of a oneof starts from its
\* defaults, an optional submessage from what is there.
DecodeSingle(w, s, f, slot) ==
  LET was == IF Plain(f) THEN slot
             ELSE IF f.htype = "oneof" \/ slot = <<>> THEN DefaultValue(f) ELSE slot[1]
      Kept(r) == Got(r.s, IF Plain(f) THEN r.v ELSE <<r.v>>)
  IN  Kept(Dec(w, s, f, was))

DecodeField(w, s, wire, f, slot) ==
  IF f.ltype = "callback" THEN DecodeCallback(w, s, wire, slot)
  ELSE IF f.htype = "repeated" THEN DecodeRepeated(w, s, wire, f, slot)
  ELSE DecodeSingle(w, s, f, slot)

\* Storing a member of a oneof makes the others not selected.
Stored(fields, m, i, slot) ==
  [k \in DOMAIN m |-> IF k = i THEN slot
                      ELSE IF fields[i].union # 0 /\ fields[k].union = fields[i].union
                      THEN <<>> ELSE m[k]]

\* The positions of a tag in a list of fields: one or none.
Find(fields, tag) ==
  {i \in DOMAIN fields : fields[i].tag = tag /\ fields[i].ltype # "extension"}
\* The place for extensions that may take a tag: there is at most one.
ExtensionPlace(fields, tag) ==
  {i \in DOMAIN fields : fields[i].ltype = "extension" /\ tag >= fields[i].tag}

\* A field that is not of the type: an extension's, or nobody's.
DecodeUnknown(w, s, tag, wire, fields, m) ==
  LET taken == {<<i, j>> \in ExtensionPlace(fields, tag) \X (1 .. Len(m)) :
                  j \in DOMAIN fields[i].sub /\ fields[i].sub[j].tag = tag}
      p == CHOOSE q \in taken : TRUE
  IN  IF taken = {} THEN Got(SkipField(w, s, wire), m)
      ELSE LET f == fields[p[1]].sub[p[2]]
               slot == m[p[1]][p[2]]
               Kept(r) == Got(r.s, [m EXCEPT ![p[1]][p[2]] = <<r.v>>])
           IN  Kept(DecodeField(w, s, wire, f, IF slot = <<>> THEN DefaultSlot(f) ELSE slot[1]))

-----------------------------------------------------------------------------
(* All fields. *)

Required(fields) == {i \in DOMAIN fields : fields[i].htype = "required" /\ Plain(fields[i])}
IndexIn(set, i) == Cardinality({k \in set : k < i})

\* The words of fields_seen against a count of required fields.  In the last
\* one, a count that fills it shifts by the whole width, which C leaves open.
AllSeen(fields, seen) ==
  LET required == Required(fields)
      count == Cardinality(required)
      rest == count % Bits32
      indices == {IndexIn(required, i) : i \in seen}
      last == {n \in indices : n >= count - rest}
  IN  \/ count = 0
      \/ /\ 0 .. count - rest - 1 \subseteq indices
         /\ IF rest > 0 THEN Cardinality(last) = rest ELSE ~ShiftWraps

DecodeFields(w, s, fields, m, seen) ==
  IF s.left = 0
  THEN Got(IF AllSeen(fields, seen) THEN s ELSE Fail(s, "missing required field"), m)
  ELSE LET t == DecodeTag(w, s)
           found == Find(fields, t.tag)
           i == CHOOSE k \in found : TRUE
           Kept(r) == Got(r.s, Stored(fields, m, i, r.v))
           Rest(r) == IF ~Good(r.s) THEN r
                      ELSE DecodeFields(w, r.s, fields, r.v,
                                        seen \union (found \intersect Required(fields)))
       IN  IF t.end
           THEN LET s1 == [t.s EXCEPT !.error = "none"]
                IN  Got(IF AllSeen(fields, seen) THEN s1
                        ELSE Fail(s1, "missing required field"), m)
           ELSE IF ~Good(t.s) THEN Got(t.s, m)
           ELSE IF found = {} THEN Rest(DecodeUnknown(w, t.s, t.tag, t.wire, fields, m))
           ELSE Rest(Kept(DecodeField(w, t.s, t.wire, fields[i], m[i])))

Decode(w, s, fields) == DecodeFields(w, s, fields, Defaults(fields), {})

\* pb_decode_delimited, or the same by hand without the defaults, which merges
\* the message into what is there.
DecodeDelimitedInto(w, s, fields, m) ==
  DecodeSubstream(w, MakeSubstream(w, s), fields, m)

-----------------------------------------------------------------------------
(* Output streams.  bytes is what has been written, size bytes_written, max     *)
(* max_size; a sizing stream has no callback and only counts.  grown is what   *)
(* the data behind the callback fields has grown by since it was sized.        *)

Stream(max, sizing, grown) ==
  [bytes |-> <<>>, size |-> 0, max |-> max, sizing |-> sizing, ok |-> TRUE, grown |-> grown]
Failed(o) == [o EXCEPT !.ok = FALSE]

Write(o, bytes) ==
  IF ~o.ok THEN o
  ELSE IF o.sizing THEN [o EXCEPT !.size = @ + Len(bytes)]
  ELSE IF o.size + Len(bytes) > o.max THEN Failed(o)
  ELSE [o EXCEPT !.size = @ + Len(bytes), !.bytes = @ \o bytes]
\* pb_write(stream, NULL, size) on a sizing stream.
WriteSize(o, size) == IF o.ok THEN [o EXCEPT !.size = @ + size] ELSE o

RECURSIVE Groups(_)
Groups(value) == IF value < Group THEN <<value>>
                 ELSE <<Group + (value % Group)>> \o Groups(value \div Group)
EncodeVarint(o, value) == Write(o, Groups(value))
EncodeSvarint(o, value) == EncodeVarint(o, IF value < 0 THEN -2 * value - 1 ELSE 2 * value)
EncodeFixed(o, value, size) ==
  Write(o, [i \in 1 .. size |-> (value \div 2 ^ (ByteBits * (i - 1))) % 2 ^ ByteBits])
EncodeTag(o, wire, tag) == EncodeVarint(o, 8 * tag + wire)
WireTypeOf(f) == CASE f.ltype \in {"varint", "uvarint", "svarint"} -> WireType.varint
                   [] f.ltype = "fixed32" -> WireType.fixed32
                   [] f.ltype = "fixed64" -> WireType.fixed64
                   [] OTHER -> WireType.string
EncodeTagForField(o, f) == EncodeTag(o, WireTypeOf(f), f.tag)
EncodeString(o, bytes) == Write(EncodeVarint(o, Len(bytes)), bytes)

RECURSIVE Encode(_, _, _)

\* With a bug: the second pass is not compared with the first.
SecondPassUnchecked(o, fields, m, counted) ==
  LET prefixed == EncodeVarint(o, counted.size)
      Copied(sub) == [prefixed EXCEPT !.size = @ + sub.size, !.bytes = @ \o sub.bytes, !.ok = sub.ok]
  IN  IF ~o.ok \/ ~counted.ok \/ ~prefixed.ok THEN Failed(prefixed)
      ELSE IF o.sizing THEN WriteSize(prefixed, counted.size)
      ELSE Copied(Encode(Stream(o.max - prefixed.size, FALSE, o.grown), fields, m))

\* A first pass counts; the second one must write as much.
SecondPass(o, fields, m, counted) ==
  LET prefixed == EncodeVarint(o, counted.size)
      Copied(sub) == [prefixed EXCEPT !.size = @ + sub.size, !.bytes = @ \o sub.bytes,
                                      !.ok = sub.ok /\ sub.size = counted.size]
  IN  IF ~o.ok \/ ~counted.ok \/ ~prefixed.ok THEN Failed(prefixed)
      ELSE IF o.sizing THEN WriteSize(prefixed, counted.size)
      ELSE IF prefixed.size + counted.size > o.max THEN Failed(prefixed)
      ELSE Copied(Encode(Stream(counted.size, FALSE, o.grown), fields, m))
EncodeSubmessage(o, fields, m) ==
  SecondPass(o, fields, m, Encode(Stream(0, TRUE, o.grown), fields, m))
UpToZero(bytes) == SelectInSeq(bytes, LAMBDA b : b = 0)

Enc(o, f, value) ==
  CASE f.ltype \in {"varint", "uvarint"} -> EncodeVarint(o, value % 2 ^ Bits64)
    [] f.ltype = "svarint" -> EncodeSvarint(o, value)
    [] f.ltype = "fixed32" -> EncodeFixed(o, value, Word)
    [] f.ltype = "fixed64" -> EncodeFixed(o, value, 2 * Word)
    [] f.ltype = "bytes" -> IF Len(value) > f.size THEN Failed(o) ELSE EncodeString(o, value)
    [] f.ltype = "string" ->
         LET zero == UpToZero(value)
         IN  EncodeString(o, IF zero = 0 THEN value ELSE SubSeq(value, 1, zero - 1))
    [] f.ltype = "fixedbytes" -> EncodeString(o, value)
    [] f.ltype = "submessage" -> EncodeSubmessage(o, f.sub, value)

EncodeItems(o, f, items) == FoldLeft(LAMBDA out, item : Enc(out, f, item), o, items)

EncodeArray(o, f, items) ==
  LET size == IF f.ltype = "fixed32" THEN Word * Len(items)
              ELSE IF f.ltype = "fixed64" THEN 2 * Word * Len(items)
              ELSE EncodeItems(Stream(0, TRUE, o.grown), f, items).size
      Prefixed(n) == EncodeVarint(EncodeTag(o, WireType.string, f.tag), n)
      Counted(n) == WriteSize(Prefixed(n), n)
  IN  IF items = <<>> THEN o
      ELSE IF Len(items) > f.max THEN Failed(o)
      ELSE IF f.ltype \notin Packable
      THEN FoldLeft(LAMBDA out, item : Enc(EncodeTagForField(out, f), f, item), o, items)
      ELSE IF o.sizing THEN Counted(size)
      ELSE EncodeItems(Prefixed(size), f, items)

\* pb_check_proto3_default_value, on what the structure holds for a field: of a
\* repeated field the first item, whatever the count, and has_ is not looked at.
RECURSIVE HoldsDefault(_, _)
Held(f, slot) == IF Plain(f) \/ f.ltype \in {"callback", "extension"} THEN slot
                 ELSE IF slot = <<>> THEN DefaultValue(f) ELSE slot[1]
HoldsDefault(f, value) ==
  CASE f.ltype = "bytes" -> value = <<>>
    [] f.ltype = "string" -> UpToZero(value) = 1 \/ value = <<>>
    [] f.ltype \in {"fixedbytes", "callback", "extension"} -> FALSE
    [] f.ltype = "submessage" ->
         \A i \in DOMAIN f.sub : HoldsDefault(f.sub[i], Held(f.sub[i], value[i]))
    [] OTHER -> value = 0

\* One callback writes all its payloads, with their tags.
EncodeCallback(o, f, payloads) ==
  FoldLeft(LAMBDA out, payload : EncodeString(EncodeTag(out, WireType.string, f.tag), payload),
           o, IF o.sizing THEN payloads ELSE payloads \o o.grown)

Present(f, slot) == IF ~Plain(f) THEN slot # <<>>
                    ELSE f.htype = "required" \/ ~HoldsDefault(f, slot)
EncodeField(o, f, slot) ==
  CASE f.ltype = "callback" -> EncodeCallback(o, f, slot)
    [] f.ltype = "extension" ->
         FoldLeftDomain(LAMBDA out, j :
             IF slot[j] = <<>> THEN out
             ELSE Enc(EncodeTagForField(out, f.sub[j]), f.sub[j], slot[j][1]),
           o, slot)
    [] f.htype = "repeated" -> EncodeArray(o, f, slot)
    [] OTHER -> IF Present(f, slot)
                THEN Enc(EncodeTagForField(o, f), f, IF Plain(f) THEN slot ELSE slot[1])
                ELSE o

Encode(o, fields, m) ==
  FoldLeftDomain(LAMBDA out, i : EncodeField(out, fields[i], m[i]), o, fields)
EncodedSize(fields, m) == Encode(Stream(0, TRUE, <<>>), fields, m).size

-----------------------------------------------------------------------------
(* The programs.  A case is what one of them writes, [writer: fields, reader:  *)
(* the fields the other knows, messages, second: the messages that may follow, *)
(* growth: the payloads that may be added while a message is encoded].         *)

CONSTANTS Cases, MaxFaults,
          ChangedTo  \* what a byte of the buffer may be changed to

VARIABLES
  case,     \* the case of this behaviour
  wire,     \* the buffer
  sent,     \* the messages in it, in order
  last,     \* the last call of pb_encode_delimited and what came of it
  faults,   \* how often the buffer has been cut or changed
  cut,      \* has it been cut?
  in,       \* the input stream of the reader
  got       \* what its calls have returned
vars == <<case, wire, sent, last, faults, cut, in, got>>

Writer == Cases[case].writer
Reader == Cases[case].reader

NeverCalled == [m |-> <<>>, room |-> 0, growth |-> <<>>, ok |-> FALSE, size |-> 0]
NotOpen == [at |-> 0, left |-> 0, error |-> "none"]

Init == /\ case \in DOMAIN Cases
        /\ wire = <<>> /\ sent = <<>> /\ last = NeverCalled
        /\ faults = 0 /\ cut = FALSE
        /\ in = NotOpen /\ got = <<>>

Delimited(m) == LET size == EncodedSize(Writer, m) IN Len(Groups(size)) + size

\* pb_encode_delimited into a buffer that is too small by one, just right or
\* larger; the program drops what was written when it fails.
EncodeDelimited ==
  \E m \in IF sent = <<>> THEN Cases[case].messages ELSE Cases[case].second :
  \E room \in {Delimited(m) + d : d \in {-1, 0, 2 * Word}}, growth \in Cases[case].growth :
    LET o == EncodeSubmessage(Stream(room, FALSE, growth), Writer, m)
    IN  /\ in = NotOpen /\ faults = 0 /\ Len(sent) < 2
        /\ last' = [m |-> m, room |-> room, growth |-> growth, ok |-> o.ok, size |-> o.size]
        /\ IF o.ok THEN wire' = wire \o o.bytes /\ sent' = Append(sent, m)
                   ELSE UNCHANGED <<wire, sent>>
        /\ UNCHANGED <<case, faults, cut, in, got>>

\* What the medium does.
Cut == /\ in = NotOpen /\ faults < MaxFaults
       /\ \E n \in 0 .. Len(wire) - 1 : wire' = SubSeq(wire, 1, n)
       /\ faults' = faults + 1 /\ cut' = TRUE
       /\ UNCHANGED <<case, sent, last, in, got>>
Change == /\ in = NotOpen /\ faults < MaxFaults
          /\ \E i \in DOMAIN wire, byte \in ChangedTo :
               wire[i] # byte /\ wire' = [wire EXCEPT ![i] = byte]
          /\ faults' = faults + 1
          /\ UNCHANGED <<case, sent, last, cut, in, got>>

\* pb_istream_from_buffer
Open == /\ in = NotOpen /\ sent # <<>>
        /\ in' = [at |-> 1, left |-> Len(wire), error |-> "none"]
        /\ UNCHANGED <<case, wire, sent, last, faults, cut, got>>

Returned(how, r) ==
  /\ got' = Append(got, [how |-> how, from |-> in.at, error |-> r.s.error, m |-> r.v])
  /\ in' = [r.s EXCEPT !.error = "none"]
  /\ UNCHANGED <<case, wire, sent, last, faults, cut>>

\* pb_decode_delimited into a new structure, or a second message into the first.
DecodeDelimited ==
  /\ in.left > 0 /\ Len(got) < 2
  /\ Returned("new", DecodeDelimitedInto(wire, in, Reader, Defaults(Reader)))
DecodeMerged ==
  /\ in.left > 0 /\ Len(got) = 1 /\ got[1].error = "none"
  /\ Returned("merged", DecodeDelimitedInto(wire, in, Reader, got[1].m))

\* pb_decode of all that has arrived, behind a length that has been read.
DecodeRest ==
  LET prefix == DecodeVarint32(wire, in).s
  IN  /\ in.left > 0 /\ got = <<>> /\ Len(sent) = 1 /\ Good(prefix)
      /\ Returned("rest", Decode(wire, prefix, Reader))

Next == EncodeDelimited \/ Cut \/ Change \/ Open \/ DecodeDelimited \/ DecodeMerged \/ DecodeRest
Spec == Init /\ [][Next]_vars

-----------------------------------------------------------------------------
(* Properties. *)

\* Does a value, and a slot, fit the array or integer it is stored in?
RECURSIVE Fits(_, _)
SlotFits(f, slot) ==
  CASE f.ltype = "callback" -> TRUE
    [] f.ltype = "extension" -> \A j \in DOMAIN slot : slot[j] # <<>> => Fits(f.sub[j], slot[j][1])
    [] f.htype = "repeated" -> Len(slot) <= f.max /\ \A i \in DOMAIN slot : Fits(f, slot[i])
    [] OTHER -> IF Plain(f) THEN Fits(f, slot) ELSE slot # <<>> => Fits(f, slot[1])
Fits(f, value) ==
  CASE f.ltype = "bytes" -> Len(value) <= f.size
    [] f.ltype = "string" -> Len(value) < f.size
    [] f.ltype = "fixedbytes" -> Len(value) \in {0, f.size}
    [] f.ltype = "submessage" -> \A i \in DOMAIN f.sub : SlotFits(f.sub[i], value[i])
    [] f.ltype \in {"varint", "svarint"} ->
         value \in -(2 ^ (ByteBits * f.size - 1)) .. 2 ^ (ByteBits * f.size - 1) - 1
    [] OTHER -> value \in 0 .. 2 ^ Bits64 - 1

\* The type invariant, and with it: whatever bytes arrive, the decoder never
\* stores outside the arrays of the structure, fills no count or length beyond
\* them, and never reads outside the buffer.
TypeOK ==
  /\ faults \in 0 .. MaxFaults
  /\ wire \in Seq(0 .. 2 * Group - 1)
  /\ in.left >= 0 /\ in.at + in.left <= Len(wire) + 1
  /\ \A k \in DOMAIN got : \A i \in DOMAIN Reader : SlotFits(Reader[i], got[k].m[i])

\* What a reader that knows the fields in place of the writer's should see of a
\* message.
RECURSIVE Understood(_, _, _)
UnderstoodValue(f, g, value) ==
  IF f.ltype = "submessage" THEN Understood(f.sub, g.sub, value) ELSE value
UnderstoodSlot(f, g, slot) ==
  CASE f.ltype \in {"callback", "extension"} -> slot
    [] Plain(f) -> UnderstoodValue(f, g, slot)
    [] OTHER -> [j \in DOMAIN slot |-> UnderstoodValue(f, g, slot[j])]
Understood(fields, known, m) ==
  LET SlotFor(g) == LET i == CHOOSE k \in Find(fields, g.tag) : TRUE
                    IN  IF g.ltype = "extension"
                        THEN [j \in DOMAIN g.sub |->
                                LET k == CHOOSE n \in Find(fields, g.sub[j].tag) : TRUE
                                IN  m[k]]
                        ELSE IF Find(fields, g.tag) = {} THEN DefaultSlot(g)
                        ELSE UnderstoodSlot(fields[i], g, m[i])
  IN  [i \in DOMAIN known |-> SlotFor(known[i])]

\* What merging a second message into a first should give: items are added,
\* submessages merged, a member of a oneof and any other value that is present
\* replaces what was there.
RECURSIVE Merged(_, _, _)
MergedSlot(f, a, b) ==
  CASE f.ltype = "callback" \/ f.htype = "repeated" -> a \o b
    [] f.ltype = "extension" -> [j \in DOMAIN a |-> IF b[j] = <<>> THEN a[j] ELSE b[j]]
    [] f.ltype = "submessage" /\ Plain(f) -> Merged(f.sub, a, b)
    [] f.ltype = "submessage" /\ f.htype = "optional" /\ a # <<>> /\ b # <<>> ->
         <<Merged(f.sub, a[1], b[1])>>
    [] OTHER -> IF Present(f, b) THEN b ELSE a
Merged(fields, a, b) ==
  [i \in DOMAIN fields |->
     IF /\ fields[i].union # 0
        /\ \E k \in DOMAIN fields : fields[k].union = fields[i].union /\ b[k] # <<>>
     THEN b[i] ELSE MergedSlot(fields[i], a[i], b[i])]

\* With a whole buffer, every message is read as it was written, by a reader
\* that knows some of its fields or takes them for extensions, into a new
\* structure as into one that holds the message before (pb_decode.h, "This can
\* also be used for merging two messages").
ReadsWhatWasWritten ==
  faults = 0 => \A k \in DOMAIN got :
    LET m == Understood(Writer, Reader, sent[k])
    IN  got[k].how # "rest" =>
          /\ got[k].error = "none"
          /\ got[k].m = IF got[k].how = "new" THEN m ELSE Merged(Reader, got[1].m, m)

\* An encoder that succeeds has written as many bytes as pb_get_encoded_size
\* counted, also when a callback changes its mind between the two passes, and
\* one that fails had too little room or such a callback.
SizesAgree ==
  last # NeverCalled =>
    /\ last.ok => last.size = Delimited(last.m) /\ last.size <= last.room
    /\ ~last.ok => last.room < Delimited(last.m) \/ last.growth # <<>>

\* Where the message ends that starts at a place of the buffer: 0 if it is not
\* all there.
FrameEnd(from) ==
  LET r == DecodeVarint32(wire, [at |-> from, left |-> Len(wire) + 1 - from, error |-> "none"])
  IN  IF Good(r.s) /\ r.v <= r.s.left THEN r.s.at + r.v ELSE 0
InFrames(k) ==
  /\ got[k].how # "rest"
  /\ FrameEnd(got[k].from) # 0
  /\ k = Len(got)
  => in.at = FrameEnd(got[k].from) /\ in.at + in.left = Len(wire) + 1

\* A call that reads a delimited message, well or badly, leaves the stream at
\* its end: one bad message does not take the next ones with it.  A packed array
\* that overflows does (decode_static_field returns without the "Remember to
\* close the substream" of pb_decode.c:320), so that it is left out here; so would
\* a callback that returns false (pb_decode.c:631-632), and none here does.
FramesKeptUnlessOverflow ==
  \A k \in DOMAIN got : (\A j \in 1 .. k : got[j].error # Overflow) => InFrames(k)

\* A message whose end is missing is refused, or read up to a field: the fields
\* before as they were written, none of those behind, and of a repeated one the
\* first items.  No field comes from a part of its bytes.
CutIsPrefix ==
  \A k \in DOMAIN got :
    faults = 1 /\ cut /\ got[k].how = "rest" /\ got[k].error = "none" =>
      LET whole == Understood(Writer, Reader, sent[1])
          m == got[k].m
      IN  \E n \in 0 .. Len(m) : \A i \in DOMAIN m :
            \/ i <= n /\ m[i] = whole[i]
            \/ i > n /\ m[i] = DefaultSlot(Reader[i])
            \/ /\ i = n + 1
               /\ Reader[i].ltype \in {"callback", "extension"} \/ Reader[i].htype = "repeated"
               /\ \E j \in 0 .. Min({Len(m[i]), Len(whole[i])}) :
                    SubSeq(m[i], 1, j) = SubSeq(whole[i], 1, j)
                    /\ \A l \in j + 1 .. Len(m[i]) : Reader[i].ltype = "extension" /\ m[i][l] = <<>>
=============================================================================
