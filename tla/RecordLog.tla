----------------------------- MODULE RecordLog ------------------------------
(***************************************************************************)
(* One log file of LevelDB (Pods/leveldb-library/db/log_writer.cc and      *)
(* log_reader.cc): records cut into fragments that never cross a block,    *)
(* appends that fail half way, exits of the process and losses of power at *)
(* any byte, a damaged byte, and the reader that recovers what it can.     *)
(*                                                                         *)
(* A byte is a cell: cell number `at' of fragment `of'.  A checksum is     *)
(* right exactly when the cells of one fragment follow each other.         *)
(***************************************************************************)
EXTENDS Naturals, FiniteSets, FiniteSetsExt, SequencesExt

CONSTANTS
  BlockSize, HeaderSize,  \* kBlockSize, kHeaderSize
  Lengths,                \* the sizes of records
  ReuseLogs,              \* Options::reuse_logs
  MaxRecords, MaxFaults, MaxOpens   \* bounds: of records; of failed appends and
                                    \* damaged bytes; of reuses of the file

\* Of the constants.
RecordLogAssumption ==
  /\ {HeaderSize, BlockSize} \subseteq Nat /\ 1 < HeaderSize /\ HeaderSize < BlockSize
  /\ Lengths \subseteq Nat /\ IsFiniteSet(Lengths)
  /\ ReuseLogs \in BOOLEAN
  /\ {MaxRecords, MaxFaults, MaxOpens} \subseteq Nat

VARIABLES
  phase,        \* writing, closed, reading, done
  file,         \* the bytes of the file
  blockOffset,  \* block_offset_ of the Writer
  added,        \* per call of AddRecord: size, offset in the file, ok or not
  synced,       \* how much of the file the last Sync covered
  reader,       \* the Reader and what it has returned so far
  spent         \* how much of each bound has been used
vars == <<phase, file, blockOffset, added, synced, reader, spent>>

-----------------------------------------------------------------------------
(* Fragments. *)

Fragment(n, type, from, length) ==
  [record |-> n, type |-> type, from |-> from, length |-> length]
Cell(p, i) == [of |-> p, at |-> i]
Filler == Cell(Fragment(0, "zero", 0, 0), 0)
Zeros(n) == [i \in 1 .. n |-> Filler]
Damaged == Cell(Fragment(0, "damaged", 0, 0), 0)

Cells(p) == [i \in 1 .. HeaderSize + p.length |-> Cell(p, i)]
Payload(cells) == SubSeq(cells, HeaderSize + 1, Len(cells))

Type(begin, end) == IF begin THEN IF end THEN "full" ELSE "first"
                    ELSE IF end THEN "last" ELSE "middle"

\* Writer::EmitPhysicalRecord: one fragment, after the filler of a trailer.
\* The block offset moves on whether the append succeeds or not.
Emit(offset, trailer, p) ==
  [cells |-> trailer \o Cells(p), after |-> offset + HeaderSize + p.length]

\* A header never starts in what is too small for it.
NeedsSwitch(offset) == BlockSize - offset < HeaderSize

\* Writer::AddRecord: what record n, of which `left' bytes are still to come,
\* appends to a file whose block offset is `offset'.
RECURSIVE Appends(_, _, _, _, _)
Appends(offset, n, from, left, begin) ==
  LET switch  == NeedsSwitch(offset)
      start   == IF switch THEN 0 ELSE offset
      trailer == IF switch THEN Zeros(BlockSize - offset) ELSE << >>
      length  == Min({left, BlockSize - start - HeaderSize})
      p       == Fragment(n, Type(begin, length = left), from, length)
      one     == Emit(start, trailer, p)
  IN  <<one>> \o IF length = left THEN << >>
                 ELSE Appends(one.after, n, from + length, left - length, FALSE)

Fault(what) == /\ spent.fails + spent.flips < MaxFaults
               /\ spent' = [spent EXCEPT ![what] = @ + 1]

-----------------------------------------------------------------------------
(* The writer. *)

Written(pieces) == FlattenSeq([i \in DOMAIN pieces |-> pieces[i].cells])
Offset(pieces) == Len(file) + Len(pieces[1].cells) - HeaderSize
                    - Head(Reverse(pieces[1].cells)).of.length

AddRecord(length) ==
  /\ phase = "writing" /\ Len(added) < MaxRecords
  /\ LET pieces == Appends(blockOffset, Len(added) + 1, 0, length, TRUE)
     IN  /\ file' = file \o Written(pieces)
         /\ blockOffset' = Last(pieces).after
         /\ added' = Append(added, [size |-> length, offset |-> Offset(pieces),
                                 end |-> Len(file'), ok |-> TRUE])
  /\ UNCHANGED <<phase, synced, reader, spent>>

\* An append or its flush fails: some of the bytes of one fragment are in the
\* file.  DBImpl::Write reports the error and goes on with the same log.
AddRecordFails(length) ==
  /\ phase = "writing" /\ Len(added) < MaxRecords /\ Fault("fails")
  /\ LET pieces == Appends(blockOffset, Len(added) + 1, 0, length, TRUE)
     IN  \E k \in DOMAIN pieces :
           /\ \E cut \in 0 .. Len(pieces[k].cells) - 1 :
                file' = file \o Written(SubSeq(pieces, 1, k - 1))
                             \o SubSeq(pieces[k].cells, 1, cut)
           /\ blockOffset' = pieces[k].after
           /\ added' = Append(added, [size |-> length, offset |-> Offset(pieces),
                                    end |-> Len(file'), ok |-> FALSE])
  /\ UNCHANGED <<phase, synced, reader>>

\* PosixWritableFile::Sync
Sync == /\ phase = "writing" /\ synced # Len(file)
        /\ synced' = Len(file)
        /\ UNCHANGED <<phase, file, blockOffset, added, reader, spent>>

\* The process ends, or the machine loses what was not synced.  A process that
\* dies within AddRecord leaves one of the same files.
Close ==
  /\ phase = "writing"
  /\ phase' = "closed"
  /\ \E length \in synced .. Len(file) : file' = SubSeq(file, 1, length)
  /\ UNCHANGED <<blockOffset, added, synced, reader, spent>>

\* A byte of the closed file is damaged.
Flip == /\ phase = "closed" /\ Fault("flips")
        /\ \E i \in DOMAIN file : file' = [file EXCEPT ![i] = Damaged]
        /\ UNCHANGED <<phase, blockOffset, added, synced, reader>>

\* DBImpl::RecoverLogFile with reuse_logs: Writer(dest, dest_length).
OpenAgain ==
  /\ phase = "done" /\ reader.initial = 0 /\ ReuseLogs /\ spent.opens < MaxOpens
  /\ spent' = [spent EXCEPT !.opens = @ + 1]
  /\ phase' = "writing"
  /\ blockOffset' = Len(file) % BlockSize
  /\ synced' = Len(file)
  /\ reader' = [reader EXCEPT !.buffer = << >>, !.got = << >>]
  /\ UNCHANGED <<file, added>>

-----------------------------------------------------------------------------
(* The reader. *)

\* Reader::SkipToInitialBlock: where reading starts for an initial offset.
InitialBlock(initial) ==
  LET inBlock == initial % BlockSize
  IN  initial - inBlock
        + IF inBlock > BlockSize - (HeaderSize - 1) THEN BlockSize ELSE 0

NewReader(initial) ==
  [initial |-> initial, at |-> InitialBlock(initial), buffer |-> << >>, eof |-> FALSE,
   resyncing |-> initial > 0, inFragment |-> FALSE, scratch |-> << >>,
   prospective |-> 0, last |-> 0, got |-> << >>, dropped |-> FALSE, failed |-> FALSE]

StartReading ==
  /\ phase = "closed"
  /\ phase' = "reading"
  /\ \E initial \in 0 .. Len(file) : reader' = NewReader(initial)
  /\ UNCHANGED <<file, blockOffset, added, synced, spent>>

\* Reader::ReportDrop: only what lies behind the initial offset.
Report(r, bytes) ==
  LET before == r.at - Len(r.buffer)
  IN  IF bytes > before \/ before - bytes >= r.initial
      THEN [r EXCEPT !.dropped = TRUE] ELSE r

\* ReadRecord starts the next record with an empty scratch.
Returned(r, record, offset) ==
  [r EXCEPT !.got = Append(@, [bytes |-> record, offset |-> offset]), !.last = offset,
            !.scratch = << >>, !.inFragment = FALSE]

\* kBadRecord
Bad(r) == IF r.inFragment
          THEN [Report(r, Len(r.scratch)) EXCEPT !.inFragment = FALSE, !.scratch = << >>,
                                                 !.resyncing = FALSE]
          ELSE [r EXCEPT !.resyncing = FALSE]

\* A record that began before this one never ended.
Unfinished(r) == IF r.inFragment /\ r.scratch # << >>
                 THEN Report(r, Len(r.scratch)) ELSE r

Full(r, p, bytes, offset) ==
  Returned([Unfinished(r) EXCEPT !.resyncing = FALSE], bytes, offset)

First(r, p, bytes, offset) ==
  [Unfinished(r) EXCEPT !.resyncing = FALSE, !.scratch = bytes, !.inFragment = TRUE,
                        !.prospective = offset]
Middle(r, p, bytes, offset) ==
  IF r.resyncing THEN r
  ELSE IF r.inFragment THEN [r EXCEPT !.scratch = @ \o bytes]
  ELSE Report(r, Len(bytes))
End(r, p, bytes, offset) ==
  IF r.resyncing THEN [r EXCEPT !.resyncing = FALSE]
  ELSE IF r.inFragment THEN Returned(r, r.scratch \o bytes, r.prospective)
  ELSE Report(r, Len(bytes))

\* The header that the buffer starts with, if all its bytes are there.
Header(buffer) == buffer[1].of
HeaderIntact(buffer) ==
  /\ Header(buffer).record # 0
  /\ \A i \in 1 .. HeaderSize : buffer[i] = Cell(Header(buffer), i)
Size(buffer) == HeaderSize + Header(buffer).length

ChecksumRight(buffer) == SubSeq(buffer, 1, Size(buffer)) = Cells(Header(buffer))

ReadStep(r) == /\ phase = "reading" /\ reader' = r
               /\ UNCHANGED <<phase, file, blockOffset, added, synced, spent>>
ReadEnds(r) == /\ phase = "reading" /\ phase' = "done" /\ reader' = r
               /\ UNCHANGED <<file, blockOffset, added, synced, spent>>
Cleared(r) == [r EXCEPT !.buffer = << >>]

\* PosixSequentialFile::Read: fewer bytes than asked for at the end of the file.
BytesFrom(at, n) == SubSeq(file, at + 1, Min({at + n, Len(file)}))

\* The next block, once less than a header is left; that rest is a trailer.
NextBlock ==
  /\ Len(reader.buffer) < HeaderSize /\ ~reader.eof
  /\ LET block == BytesFrom(reader.at, BlockSize)
     IN  ReadStep([reader EXCEPT !.buffer = block, !.at = @ + Len(block),
                                 !.eof = Len(block) < BlockSize])

\* The file cannot be read.
ReadFails ==
  /\ Len(reader.buffer) < HeaderSize /\ ~reader.eof
  /\ ReadEnds([Report(Cleared(reader), BlockSize) EXCEPT !.failed = TRUE, !.eof = TRUE])

\* The end of the file, maybe within a header or within a fragmented record.
EndOfFile == /\ Len(reader.buffer) < HeaderSize /\ reader.eof
             /\ ReadEnds([Cleared(reader) EXCEPT !.scratch = << >>])

AtHeader == phase = "reading" /\ Len(reader.buffer) >= HeaderSize

\* The payload ends behind what there is: the writer died, or it is damaged.
CutIsEnd == reader.eof
BadLength ==
  /\ AtHeader /\ HeaderIntact(reader.buffer) /\ Size(reader.buffer) > Len(reader.buffer)
  /\ IF CutIsEnd THEN ReadEnds(Cleared(reader))
     ELSE ReadStep(Bad(Report(Cleared(reader), Len(reader.buffer))))

WrongChecksum ==
  /\ AtHeader /\ HeaderIntact(reader.buffer) /\ Size(reader.buffer) <= Len(reader.buffer)
  /\ ~ChecksumRight(reader.buffer)
  /\ ReadStep(Bad(Report(Cleared(reader), Len(reader.buffer))))

\* A header that nobody wrote: whatever length it shows, the rest of the buffer
\* goes; reported, taken for preallocated space, or taken for a cut record.
BadHeader ==
  /\ AtHeader /\ ~HeaderIntact(reader.buffer)
  /\ \/ ReadStep(Bad(Report(Cleared(reader), Len(reader.buffer))))
     \/ ReadStep(Bad(Cleared(reader)))
     \/ reader.eof /\ ReadEnds(Cleared(reader))

Fragmented ==
  /\ AtHeader /\ HeaderIntact(reader.buffer) /\ Size(reader.buffer) <= Len(reader.buffer)
  /\ ChecksumRight(reader.buffer)
  /\ LET p      == Header(reader.buffer)
         offset == reader.at - Len(reader.buffer)
         bytes  == Payload(SubSeq(reader.buffer, 1, Size(reader.buffer)))
         r      == [reader EXCEPT !.buffer = SubSeq(@, Size(@) + 1, Len(@))]
     IN  ReadStep(IF offset < reader.initial THEN Bad(r)
                  ELSE CASE p.type = "full"   -> Full(r, p, bytes, offset)
                         [] p.type = "first"  -> First(r, p, bytes, offset)
                         [] p.type = "middle" -> Middle(r, p, bytes, offset)
                         [] p.type = "last"   -> End(r, p, bytes, offset))

-----------------------------------------------------------------------------
Init ==
  /\ phase = "writing" /\ file = << >> /\ blockOffset = 0 /\ added = << >> /\ synced = 0
  /\ reader = NewReader(0)
  /\ spent = [fails |-> 0, flips |-> 0, opens |-> 0]

Next ==
  \/ \E length \in Lengths : AddRecord(length) \/ AddRecordFails(length)
  \/ Sync \/ Close \/ Flip \/ OpenAgain \/ StartReading
  \/ NextBlock \/ ReadFails \/ EndOfFile \/ BadLength \/ WrongChecksum \/ BadHeader
  \/ Fragmented

Spec == Init /\ [][Next]_vars

-----------------------------------------------------------------------------
(* Properties. *)

NoFails == spent.fails = 0
NoFlips == spent.flips = 0
NoOpens == spent.opens = 0

\* The variables have their types; the Writer knows where it is in a block as
\* long as no append has failed (log_writer.cc:58).
TypeOK ==
  /\ phase \in {"writing", "closed", "reading", "done"}
  /\ blockOffset \in 0 .. BlockSize
  /\ phase = "writing" /\ NoFails => blockOffset % BlockSize = Len(file) % BlockSize
  /\ synced \in 0 .. Len(file)
  /\ reader.at \in 0 .. Len(file) + BlockSize /\ Len(reader.buffer) <= BlockSize
  /\ spent.fails + spent.flips <= MaxFaults /\ spent.opens <= MaxOpens

Data(cell) == <<cell.of.record, cell.of.from + cell.at - HeaderSize>>
IsRecord(g, n) ==
  /\ g.offset = added[n].offset
  /\ [i \in DOMAIN g.bytes |-> Data(g.bytes[i])] = [i \in 1 .. added[n].size |-> <<n, i>>]
Reads(n) == \E g \in Range(reader.got) : IsRecord(g, n)

\* Whatever failed, was cut off or was damaged, the reader returns only records
\* that were added, each whole and with its offset (log_reader.h:55), and in
\* their order: fragments of two records are never put together.
WholeRecords ==
  /\ \A g \in Range(reader.got) : \E n \in DOMAIN added : IsRecord(g, n)
  /\ \A i, j \in DOMAIN reader.got : i < j => reader.got[i].offset < reader.got[j].offset

BlocksOf(n) == added[n].offset \div BlockSize .. (added[n].end - 1) \div BlockSize
Undamaged(b) == \A i \in b * BlockSize + 1 .. (b + 1) * BlockSize :
                  i \in DOMAIN file => file[i] # Damaged

\* Damage costs the records of its block and no others: every record behind the
\* initial offset that is still all there, in blocks without damage, is returned.
UndamagedAreRead ==
  phase = "done" /\ NoFails /\ NoOpens /\ ~reader.failed =>
    \A n \in DOMAIN added :
      /\ added[n].offset >= reader.initial
      /\ added[n].end <= Len(file)
      /\ \A b \in BlocksOf(n) : Undamaged(b)
      => Reads(n)

\* A file that was only cut off, at any byte, is read without any report of
\* corruption (log_reader.cc:217-220, 239-241).
TornTailSilent ==
  phase = "done" /\ NoFails /\ NoFlips /\ NoOpens /\ ~reader.failed /\ reader.initial = 0
    => ~reader.dropped
=============================================================================
