------------------------- MODULE StoreDurableProofs -------------------------
(***************************************************************************)
(* Proofs about Store: a write that asked for sync survives a loss of      *)
(* power.  The end of a MANIFEST and of every log may go, so whatever part *)
(* of the MANIFEST is left has to find those writes in its tables or in    *)
(* the synced part of the logs that it starts from.  A recovery leaves a   *)
(* new MANIFEST, which is synced before CURRENT names it.                  *)
(***************************************************************************)
EXTENDS StoreProofs

-----------------------------------------------------------------------------
(* What is left of files. *)

SyncedIn(file) == WritesIn(SyncedPart(file))
SyncedFrom(lgs, k) == UNION {SyncedIn(lgs[n]) : n \in {m \in DOMAIN lgs : m >= k}}

\* The edits `edits` find the writes W, after a loss of power.
Finds(ts, lgs, edits, W) ==
  IF edits = << >> THEN W = {}
  ELSE LET r == Replay(edits)
       IN  /\ NumbersOf(r.files) \subseteq DOMAIN ts
           /\ W \subseteq DataIn(ts, NumbersOf(r.files)) \union SyncedFrom(lgs, r.log)

LEMMA SyncedWrites ==
  ASSUME NEW file \in LogType, file.synced <= Len(file.records)
  PROVE  /\ \A s : s \in SyncedIn(file) <=> \E i \in 1 .. file.synced : s \in file.records[i]
         /\ SyncedIn(file) \subseteq WritesIn(file)
<1>1. /\ file.records \in Seq(Numbers) /\ file.synced \in Nat /\ Len(file.records) \in Nat
      /\ DOMAIN file.records = 1 .. Len(file.records)
      /\ \A i \in 1 .. Len(file.records) : file.records[i] \in Numbers
  BY LenProperties, ElementOfSeq DEF LogType
<1> DEFINE part == SubSeq(file.records, 1, file.synced)
<1>2. \A i \in 1 .. file.synced : file.records[i] \in Numbers
  BY <1>1
<1>3. /\ part \in Seq(Numbers) /\ Len(part) = file.synced
      /\ \A i \in 1 .. file.synced : part[i] = file.records[i]
  BY <1>1, <1>2, SubSeqProperties
<1>4. DOMAIN part = 1 .. file.synced
  BY <1>1, <1>3, LenProperties
<1>5. SyncedIn(file) = UNION Range(part)
  BY DEF SyncedIn, SyncedPart, File, WritesIn
<1> HIDE DEF part
<1>6. \A s : s \in SyncedIn(file) <=> \E i \in 1 .. file.synced : s \in file.records[i]
  BY <1>3, <1>4, <1>5 DEF Range
<1>7. \A s : s \in WritesIn(file) <=> \E i \in 1 .. Len(file.records) : s \in file.records[i]
  BY <1>1 DEF WritesIn, Range
<1> QED  BY <1>1, <1>6, <1>7

\* A synced file loses nothing, and records at the end harm nothing.
LEMMA AllSynced ==
  ASSUME NEW file \in LogType, NEW next \in LogType, next.records = file.records,
         next.synced = Len(file.records), file.synced <= Len(file.records)
  PROVE  SyncedIn(next) = WritesIn(file) /\ SyncedIn(file) \subseteq SyncedIn(next)
<1>1. /\ Len(file.records) \in Nat /\ DOMAIN file.records = 1 .. Len(file.records)
      /\ next.synced <= Len(next.records)
  BY LenProperties DEF LogType
<1>2. SyncedIn(next) = WritesIn(file)
  BY <1>1, SyncedWrites DEF WritesIn, Range
<1> QED  BY <1>2, SyncedWrites

LEMMA SyncedStays ==
  ASSUME NEW file \in LogType, file.synced <= Len(file.records), NEW r \in Numbers
  PROVE  SyncedIn(Appended(file, r)) = SyncedIn(file)
<1>1. /\ file.records \in Seq(Numbers) /\ file.synced \in Nat /\ Len(file.records) \in Nat
  BY LenProperties DEF LogType
<1>2. /\ Appended(file, r) \in LogType /\ Appended(file, r).synced = file.synced
      /\ Appended(file, r).records = Append(file.records, r)
      /\ Len(Appended(file, r).records) = Len(file.records) + 1
  BY LogAppended DEF Appended, LogType
<1>3. \A i \in 1 .. file.synced : Append(file.records, r)[i] = file.records[i]
  BY <1>1, AppendProperties
<1>4. Appended(file, r).synced <= Len(Appended(file, r).records)
  BY <1>1, <1>2
<1> QED  BY <1>2, <1>3, <1>4, SyncedWrites

LEMMA SyncedSurvives ==
  ASSUME NEW file \in LogType, file.synced <= Len(file.records), NEW cut \in Truncations(file)
  PROVE  /\ cut \in LogType /\ cut.synced = Len(cut.records)
         /\ SyncedIn(file) \subseteq SyncedIn(cut) /\ SyncedIn(cut) \subseteq WritesIn(cut)
<1>1. PICK left \in file.synced .. Len(file.records) :
             cut = Cut(file, left)
  BY DEF Truncations
<1>2. /\ file.records \in Seq(Numbers) /\ file.synced \in Nat /\ Len(file.records) \in Nat
      /\ left \in Nat /\ file.synced <= left /\ left <= Len(file.records)
  BY LenProperties DEF LogType
<1>3. /\ cut \in LogType /\ cut.records = SubSeq(file.records, 1, left)
      /\ Len(cut.records) = left /\ cut.synced = left
  <2>1. file \in [records : Seq(Numbers), synced : Nat, torn : Nat]
    BY DEF LogType
  <2>2. /\ Cut(file, left) \in [records : Seq(Numbers), synced : Nat, torn : Nat]
        /\ Cut(file, left).records = SubSeq(file.records, 1, left)
        /\ Cut(file, left).synced = left /\ Len(Cut(file, left).records) = left
    BY <1>2, <2>1, CutFile
  <2> QED  BY <1>1, <2>2 DEF LogType
<1>4. \A i \in 1 .. left : cut.records[i] = file.records[i]
  BY <1>2, <1>3, ElementOfSeq, SubSeqProperties
<1>5. cut.synced <= Len(cut.records)
  BY <1>2, <1>3
<1> QED  BY <1>2, <1>3, <1>4, <1>5, SyncedWrites

LEMMA SyncedFromGrows ==
  ASSUME NEW lgs, NEW mgs, NEW k,
         \A n \in DOMAIN lgs : n >= k => n \in DOMAIN mgs /\ SyncedIn(lgs[n]) \subseteq SyncedIn(mgs[n])
  PROVE  SyncedFrom(lgs, k) \subseteq SyncedFrom(mgs, k)
BY DEF SyncedFrom

LEMMA SyncedFromLater ==
  ASSUME NEW lgs, DOMAIN lgs \subseteq Nat, NEW j \in Nat, NEW k \in Nat, j <= k
  PROVE  SyncedFrom(lgs, k) \subseteq SyncedFrom(lgs, j)
BY DEF SyncedFrom

LEMMA SyncedInLogs ==
  ASSUME NEW lgs, NEW n \in DOMAIN lgs, NEW k, n >= k
  PROVE  SyncedIn(lgs[n]) \subseteq SyncedFrom(lgs, k)
BY DEF SyncedFrom

\* A tear does not touch what is synced.
LEMMA SyncedTorn ==
  ASSUME NEW file \in LogType, NEW i \in Nat
  PROVE  SyncedIn(TornAt(file, i)) = SyncedIn(file)
BY TornLog DEF SyncedIn, SyncedPart

LEMMA FindsFewer ==
  ASSUME NEW ts, NEW lgs, NEW edits, NEW W, Finds(ts, lgs, edits, W), NEW V, V \subseteq W
  PROVE  Finds(ts, lgs, edits, V)
BY DEF Finds

\* Tables that grow and synced parts that grow go on finding what was found.
LEMMA FindsMore ==
  ASSUME NEW ts, NEW us, NEW lgs, NEW mgs, NEW edits, NEW W,
         Finds(ts, lgs, edits, W),
         edits # << >> =>
           \A n \in NumbersOf(Replay(edits).files) :
             n \in DOMAIN ts => n \in DOMAIN us /\ ts[n] \subseteq us[n],
         edits # << >> =>
           SyncedFrom(lgs, Replay(edits).log) \subseteq SyncedFrom(mgs, Replay(edits).log)
  PROVE  Finds(us, mgs, edits, W)
<1>1. CASE edits = << >>
  BY <1>1 DEF Finds
<1>2. CASE edits # << >>
  <2> DEFINE ns == NumbersOf(Replay(edits).files)
  <2>1. /\ ns \subseteq DOMAIN ts
        /\ W \subseteq DataIn(ts, ns) \union SyncedFrom(lgs, Replay(edits).log)
    BY <1>2 DEF Finds
  <2>2. \A n \in ns : n \in DOMAIN us /\ ts[n] \subseteq us[n]
    BY <1>2, <2>1
  <2>3. ns \subseteq DOMAIN us /\ DataIn(ts, ns) \subseteq DataIn(us, ns)
    BY <2>2 DEF DataIn
  <2> HIDE DEF ns
  <2>4. W \subseteq DataIn(us, ns) \union SyncedFrom(mgs, Replay(edits).log)
    BY <1>2, <2>1, <2>3
  <2> QED  BY <1>2, <2>3, <2>4 DEF Finds, ns
<1> QED  BY <1>1, <1>2

-----------------------------------------------------------------------------
(* The inductive invariant. *)

\* Every part of the MANIFEST that a loss of power may leave finds them.
PrefixInv ==
  /\ current = 0 => durable = {}
  /\ current # 0 => \A left \in manifests[current].synced .. Len(OnDisk) :
                      Finds(tables, logs, SubSeq(OnDisk, 1, left), durable)

\* While the process runs they are in tables or in what it has synced of logs, also
\* when a memtable has been written out or its log is not needed any more.  Without
\* an error the MANIFEST is synced: nothing that its parts need is deleted.
PlacesInv ==
  Running =>
    /\ 1 <= manifests[current].synced
    /\ manifests[current].synced <= Len(OnDisk)
    /\ ~error => manifests[current].synced = Len(OnDisk)
    /\ \A i \in DOMAIN OnDisk : OnDisk[i].log <= logNumber
    /\ durable \subseteq SyncedIn(logs[logNumber]) \union (UNION imm)
                           \union DataIn(tables, NumbersOf(vset.files))
    /\ durable \subseteq SyncedFrom(logs, vset.log)
                           \union DataIn(tables, NumbersOf(vset.files))

GroupInv ==
  \A w \in writing :
    /\ w.syncs \subseteq w.writes
    /\ w.syncs # {} => w.sync
    /\ w.sync /\ w.step = "insert" => w.writes \subseteq SyncedIn(logs[logNumber])

MergeInv == \A c \in compaction : c.step = "merge" => \A n \in c.out : tables[n] = {}

\* A recovery writes a new MANIFEST and syncs it before CURRENT names it.
FreshManifestInv ==
  \A o \in opening : o.step = "done" =>
    manifests[vset.manifest].synced = 1 /\ Len(manifests[vset.manifest].records) = 1

FoundInv == durable \subseteq acked /\ PrefixInv /\ PlacesInv
DurableInv == FoundInv /\ GroupInv /\ MergeInv /\ FreshManifestInv

-----------------------------------------------------------------------------
(* Steps that leave the MANIFEST alone. *)

\* A part of the MANIFEST names no file that has not been given a number.
LEMMA PrefixFacts ==
  ASSUME StoreInv, NEW left \in 1 .. Len(OnDisk)
  PROVE  /\ SubSeq(OnDisk, 1, left) \in Seq(EditType) /\ SubSeq(OnDisk, 1, left) # << >>
         /\ OnDisk # << >> /\ OnDisk[left] \in EditType
         /\ Replay(SubSeq(OnDisk, 1, left)).files \in Layout
         /\ Replay(SubSeq(OnDisk, 1, left)).log = OnDisk[left].log
         /\ \A n \in NumbersOf(Replay(SubSeq(OnDisk, 1, left)).files) : n < Version.next
<1>1. OnDisk \in Seq(EditType) /\ InOrder(OnDisk)
  BY OnDiskFacts
<1>2. /\ Len(OnDisk) \in Nat /\ DOMAIN OnDisk = 1 .. Len(OnDisk)
      /\ \A i \in DOMAIN OnDisk : OnDisk[i] \in EditType
      /\ left \in Nat /\ 1 <= left /\ left <= Len(OnDisk) /\ left \in 0 .. Len(OnDisk)
  BY <1>1, LenProperties, ElementOfSeq
<1>3. PICK all : all = OnDisk
  OBVIOUS
<1>4. PICK part : part = SubSeq(all, 1, left)
  OBVIOUS
<1>5. /\ part \in Seq(EditType) /\ Len(part) = left /\ part[left] = all[left]
      /\ InOrder(part)
  <2>1. \A i \in 1 .. left : all[i] \in EditType
    BY <1>2, <1>3
  <2>2. Len(part) = left /\ part[left] = all[left]
    BY <1>2, <1>4, <2>1, SubSeqProperties
  <2> QED  BY <1>1, <1>2, <1>3, <1>4, <2>2, InOrderPrefix
<1>6. part # << >>
  BY <1>2, <1>5, EmptySeq
<1>7. Replay(part).log = part[left].log /\ Replay(part).next = part[left].next
  BY <1>5 DEF Replay, Last
<1>8. Version.next = all[Len(all)].next
  BY <1>3 DEF Version, Replay, Last
<1>9. all[left].next <= all[Len(all)].next
  BY <1>1, <1>2, <1>3 DEF InOrder
<1>10. Replay(part).files \in Layout /\ \A n \in NumbersOf(Replay(part).files) : n < Replay(part).next
  BY <1>5, <1>6, ReplayType, ReplayBelowNext
<1>11. \A n \in NumbersOf(Replay(part).files) : n < Version.next
  <2>1. \A n \in NumbersOf(Replay(part).files) : n \in Nat
    BY <1>10 DEF NumbersOf, Layout, Numbers
  <2>2. all[left].next \in Nat /\ all[Len(all)].next \in Nat
    BY <1>2, <1>3 DEF EditType
  <2> QED  BY <1>5, <1>7, <1>8, <1>9, <1>10, <2>1, <2>2
<1>12. OnDisk # << >>
  BY <1>2, EmptySeq
<1> QED  BY <1>2, <1>3, <1>4, <1>5, <1>6, <1>7, <1>10, <1>11, <1>12

\* With the same MANIFEST, tables that it may name and synced parts that only grow,
\* everything is found as before.
LEMMA PrefixKept ==
  ASSUME StoreInv, DurableInv, current' = current, durable' \subseteq durable,
         current # 0 => current \in DOMAIN manifests' /\ manifests'[current] = manifests[current],
         \A n \in DOMAIN tables : OnDisk # << >> /\ n < Version.next =>
           n \in DOMAIN tables' /\ tables[n] \subseteq tables'[n],
         \A n \in DOMAIN logs : n \in DOMAIN logs' /\ SyncedIn(logs[n]) \subseteq SyncedIn(logs'[n])
  PROVE  PrefixInv' /\ OnDisk' = OnDisk
<1>1. OnDisk' = OnDisk
  BY DEF OnDisk, EditsOf
<1>2. PrefixInv
  BY DEF DurableInv, FoundInv
<1>3. ASSUME current # 0, NEW left \in manifests[current].synced .. Len(OnDisk)
      PROVE  Finds(tables', logs', SubSeq(OnDisk, 1, left), durable')
  <2>1. PICK part : part = SubSeq(OnDisk, 1, left)
    OBVIOUS
  <2>2. Finds(tables, logs, part, durable)
    BY <1>2, <1>3, <2>1 DEF PrefixInv
  <2>3. part # << >> => \A n \in NumbersOf(Replay(part).files) :
          n \in DOMAIN tables => n \in DOMAIN tables' /\ tables[n] \subseteq tables'[n]
    <3>1. CASE left = 0
      BY <2>1, <3>1, SubSeqEmpty
    <3>2. CASE left # 0
      <4>1. left \in 1 .. Len(OnDisk)
        <5>1. manifests[current].synced \in Nat /\ Len(OnDisk) \in Nat
          <6>1. ManifestsType(manifests) /\ current \in DOMAIN manifests
            BY <1>3 DEF StoreInv, Types, DiskTypes, Inv, DiskInv
          <6> QED  BY <6>1, OnDiskFacts, LenProperties DEF ManifestsType, ManifestType
        <5> QED  BY <1>3, <3>2, <5>1
      <4> QED  BY <2>1, <4>1, PrefixFacts
    <3> QED  BY <3>1, <3>2
  <2>4. SyncedFrom(logs, Replay(part).log) \subseteq SyncedFrom(logs', Replay(part).log)
    BY SyncedFromGrows
  <2>5. Finds(tables', logs', part, durable)
    BY <2>2, <2>3, <2>4, FindsMore
  <2> QED  BY <2>1, <2>5, FindsFewer
<1>4. PrefixInv'
  BY <1>1, <1>2, <1>3 DEF PrefixInv
<1> QED  BY <1>1, <1>4

\* Nothing that is on the disk and synced goes, and the process keeps its places.
Quiet ==
  /\ UNCHANGED <<manifests, current, durable>> /\ acked \subseteq acked'
  /\ \A n \in DOMAIN tables : n \in DOMAIN tables' /\ tables[n] \subseteq tables'[n]
  /\ \A n \in DOMAIN logs : n \in DOMAIN logs' /\ SyncedIn(logs[n]) \subseteq SyncedIn(logs'[n])
  /\ Running' => /\ Running /\ UNCHANGED <<logNumber, imm>>
                 /\ vset'.files = vset.files /\ vset'.log = vset.log
                 /\ error => error'

LEMMA QuietStep ==
  ASSUME StoreInv, DurableInv, Quiet
  PROVE  FoundInv'
<1>1. /\ UNCHANGED <<manifests, current, durable>> /\ acked \subseteq acked'
      /\ (\A n \in DOMAIN tables : n \in DOMAIN tables' /\ tables[n] \subseteq tables'[n])
      /\ \A n \in DOMAIN logs : n \in DOMAIN logs' /\ SyncedIn(logs[n]) \subseteq SyncedIn(logs'[n])
  BY DEF Quiet
<1>2. PrefixInv' /\ OnDisk' = OnDisk
  <2>1. current # 0 => current \in DOMAIN manifests' /\ manifests'[current] = manifests[current]
    BY <1>1 DEF StoreInv, Inv, DiskInv
  <2> QED  BY <1>1, <2>1, PrefixKept
<1>3. (durable \subseteq acked)'
  BY <1>1 DEF DurableInv, FoundInv
<1>4. ASSUME Running'  PROVE PlacesInv'
  <2>1. /\ Running /\ UNCHANGED <<logNumber, imm>>
        /\ vset'.files = vset.files /\ vset'.log = vset.log /\ (error => error')
    BY <1>4 DEF Quiet
  <2>2. /\ logNumber \in DOMAIN logs /\ NumbersOf(vset.files) \subseteq DOMAIN tables
    BY <2>1, RunningFacts
  <2>3. /\ 1 <= manifests[current].synced
        /\ manifests[current].synced <= Len(OnDisk)
        /\ ~error => manifests[current].synced = Len(OnDisk)
        /\ \A i \in DOMAIN OnDisk : OnDisk[i].log <= logNumber
        /\ durable \subseteq SyncedIn(logs[logNumber]) \union (UNION imm)
                               \union DataIn(tables, NumbersOf(vset.files))
        /\ durable \subseteq SyncedFrom(logs, vset.log)
                               \union DataIn(tables, NumbersOf(vset.files))
    BY <2>1 DEF DurableInv, FoundInv, PlacesInv
  <2>4. DataIn(tables, NumbersOf(vset.files)) \subseteq DataIn(tables', NumbersOf(vset.files))
    BY <1>1, <2>2 DEF DataIn
  <2>5. /\ SyncedIn(logs[logNumber]) \subseteq SyncedIn(logs'[logNumber])
        /\ SyncedFrom(logs, vset.log) \subseteq SyncedFrom(logs', vset.log)
    BY <1>1, <2>2, SyncedFromGrows
  <2>6. /\ durable \subseteq SyncedIn(logs'[logNumber]) \union (UNION imm)
                               \union DataIn(tables', NumbersOf(vset.files))
        /\ durable \subseteq SyncedFrom(logs', vset.log)
                               \union DataIn(tables', NumbersOf(vset.files))
    BY <2>3, <2>4, <2>5
  <2>7. manifests'[current].synced = manifests[current].synced
    BY <1>1
  <2> QED  BY <1>1, <1>2, <2>1, <2>3, <2>6, <2>7 DEF PlacesInv
<1>5. PlacesInv'
  BY <1>4 DEF PlacesInv
<1> QED  BY <1>2, <1>3, <1>5 DEF FoundInv

\* Steps that write no file: nothing is done with a memtable or a version either.
LEMMA QuietIdle ==
  ASSUME StoreInv,
         \/ \E sync \in BOOLEAN : Enqueue(sync, FALSE)
         \/ TEST_CompactMemTable \/ Yield \/ SwitchFails \/ BeginWrite \/ SyncFails
         \/ NothingToDo \/ StartFlush \/ BuildTableFails
         \/ StartCompaction \/ StartMove \/ NothingInRange
         \/ AskManual \/ CancelManual \/ Pin \/ Unpin \/ StartClose
         \/ NullManual \/ Closed \/ Exit \/ RecoverVersions
  PROVE  Quiet
<1>1. CASE (\E sync \in BOOLEAN : Enqueue(sync, FALSE)) \/ TEST_CompactMemTable
  <2>1. UNCHANGED <<disk, phase, memory, vset, control, history>>
    BY <1>1 DEF Enqueue, TEST_CompactMemTable
  <2> QED  BY <2>1 DEF Quiet, disk, memory, control, history, Running
<1>2. CASE Yield \/ SwitchFails \/ BeginWrite
  <2>1. UNCHANGED <<disk, phase, memory, vset, control, history>>
    BY <1>2 DEF Yield, SwitchFails, BeginWrite
  <2> QED  BY <2>1 DEF Quiet, disk, memory, control, history, Running
<1>3. CASE SyncFails
  <2>1. PICK w \in writing : EndOfGroup(w)
    BY <1>3 DEF SyncFails
  <2>2. UNCHANGED <<disk, phase, memory, history>> /\ error'
    BY <1>3 DEF SyncFails, RecordBackgroundError
  <2>3. vset'.files = vset.files /\ vset'.log = vset.log
    BY <2>1, GroupEnds
  <2> QED  BY <2>2, <2>3 DEF Quiet, disk, memory, history, Running
<1>4. CASE NothingToDo \/ NothingInRange \/ AskManual \/ CancelManual
  <2>1. UNCHANGED <<disk, phase, memory, vset, error, history>>
    BY <1>4 DEF NothingToDo, NothingInRange, AskManual, CancelManual
  <2> QED  BY <2>1 DEF Quiet, disk, memory, history, Running
<1>5. CASE StartFlush
  <2>1. UNCHANGED <<disk, phase, memory, control, history>>
        /\ vset' = [vset EXCEPT !.next = @ + 1]
    BY <1>5 DEF StartFlush
  <2>2. vset \in VsetType
    BY DEF StoreInv, Types, ProcessTypes
  <2>3. vset'.files = vset.files /\ vset'.log = vset.log
    BY <2>1, <2>2, NextNumber
  <2> QED  BY <2>1, <2>3 DEF Quiet, disk, memory, control, history, Running
<1>6. CASE BuildTableFails
  <2>1. UNCHANGED <<disk, phase, memory, vset, history>> /\ error'
    BY <1>6 DEF BuildTableFails, RecordBackgroundError
  <2> QED  BY <2>1 DEF Quiet, disk, memory, history, Running
<1>7. CASE StartCompaction \/ StartMove \/ Pin \/ Unpin
  <2>1. UNCHANGED <<disk, phase, memory, vset, control, history>>
    BY <1>7 DEF StartCompaction, StartMove, Pin, Unpin
  <2> QED  BY <2>1 DEF Quiet, disk, memory, control, history, Running
<1>8. CASE StartClose
  <2>1. UNCHANGED <<disk, memory, vset, control, history>> /\ Running
    BY <1>8 DEF StartClose, Running
  <2> QED  BY <2>1 DEF Quiet, disk, memory, control, history
<1>9. CASE NullManual \/ Closed \/ Exit
  <2>1. UNCHANGED <<disk, history>> /\ ProcessEnds
    BY <1>9 DEF NullManual, Closed, Exit
  <2> QED  BY <2>1 DEF Quiet, disk, history, ProcessEnds, Running
<1>10. CASE RecoverVersions
  <2>1. UNCHANGED <<disk, history>> /\ phase' \in {"broken", "opening"}
    BY <1>10 DEF RecoverVersions
  <2> QED  BY <2>1 DEF Quiet, disk, history, Running
<1> QED  BY <1>1, <1>2, <1>3, <1>4, <1>5, <1>6, <1>7, <1>8, <1>9, <1>10

\* A group goes to its log: the synced part of the log only grows.
LEMMA QuietLogs ==
  ASSUME StoreInv, AppendRecord \/ SyncLog \/ AppendFails
  PROVE  Quiet
<1>0. PICK w \in writing :
        \/ logs' = [logs EXCEPT ![logNumber] = Appended(@, w.writes)]
        \/ logs' = [logs EXCEPT ![logNumber].synced = Len(logs[logNumber].records)]
        \/ logs' = logs
        \/ logs' = [logs EXCEPT ![logNumber] = TornAt(Appended(logs[logNumber], w.writes),
                                      Len(Appended(logs[logNumber], w.writes).records))]
  <2>1. CASE AppendRecord \/ SyncLog
    BY <2>1 DEF AppendRecord, SyncLog
  <2>2. CASE AppendFails
    <3>1. PICK w \in writing :
            LET log  == logs[logNumber]
                full == Appended(log, w.writes)
            IN  \E file \in {log, full, TornAt(full, Len(full.records))} :
                  logs' = [logs EXCEPT ![logNumber] = file]
      BY <2>2 DEF AppendFails
    <3>2. PICK full : full = Appended(logs[logNumber], w.writes)
      OBVIOUS
    <3>3. \/ logs' = [logs EXCEPT ![logNumber] = logs[logNumber]]
          \/ logs' = [logs EXCEPT ![logNumber] = full]
          \/ logs' = [logs EXCEPT ![logNumber] = TornAt(full, Len(full.records))]
      BY <3>1, <3>2
    <3>4. LogsType(logs)
      BY DEF StoreInv, Types, DiskTypes
    <3>5. logs' = [logs EXCEPT ![logNumber] = logs[logNumber]] => logs' = logs
      BY <3>4 DEF LogsType
    <3>6. [logs EXCEPT ![logNumber] = full] = [logs EXCEPT ![logNumber] = Appended(@, w.writes)]
      BY <3>2
    <3> QED  BY <3>2, <3>3, <3>5, <3>6
  <2> QED  BY <2>1, <2>2
<1>1. /\ Running /\ LogsType(logs) /\ logNumber \in DOMAIN logs /\ w.writes \in Numbers
  BY GroupFacts, RunningFacts DEF WritingType
<1>2. /\ logs[logNumber] \in LogType
      /\ logs[logNumber].synced <= Len(logs[logNumber].records)
  BY <1>1 DEF LogsType
<1>3. \A n \in DOMAIN logs : n \in DOMAIN logs' /\ SyncedIn(logs[n]) \subseteq SyncedIn(logs'[n])
  <2>1. CASE logs' = [logs EXCEPT ![logNumber] = Appended(@, w.writes)]
    <3>1. SyncedIn(Appended(logs[logNumber], w.writes)) = SyncedIn(logs[logNumber])
      BY <1>1, <1>2, SyncedStays
    <3>2. /\ DOMAIN logs' = DOMAIN logs /\ logs'[logNumber] = Appended(logs[logNumber], w.writes)
          /\ \A n \in DOMAIN logs : n # logNumber => logs'[n] = logs[n]
      BY <1>1, <2>1
    <3> QED  BY <3>1, <3>2
  <2>2. CASE logs' = [logs EXCEPT ![logNumber].synced = Len(logs[logNumber].records)]
    <3>1. PICK file : file = logs'[logNumber]
      OBVIOUS
    <3>2. /\ DOMAIN logs' = DOMAIN logs
          /\ file.records = logs[logNumber].records
          /\ file.synced = Len(logs[logNumber].records)
          /\ \A n \in DOMAIN logs : n # logNumber => logs'[n] = logs[n]
      BY <1>1, <1>2, <2>2, <3>1 DEF LogType
    <3>3. file \in LogType
      <4>1. file = [logs[logNumber] EXCEPT !.synced = Len(logs[logNumber].records)]
        BY <1>1, <2>2, <3>1
      <4> QED  BY <1>2, <4>1, LenProperties DEF LogType
    <3>4. SyncedIn(logs[logNumber]) \subseteq SyncedIn(file)
      BY <1>2, <3>2, <3>3, AllSynced
    <3> QED  BY <3>1, <3>2, <3>4
  <2>3. CASE logs' = logs
    BY <2>3
  <2>4. CASE logs' = [logs EXCEPT ![logNumber] = TornAt(Appended(logs[logNumber], w.writes),
                                      Len(Appended(logs[logNumber], w.writes).records))]
    <3>1. PICK full : full = Appended(logs[logNumber], w.writes)
      OBVIOUS
    <3>2. full \in LogType /\ Len(full.records) \in Nat
      BY <1>1, <1>2, <3>1, LogAppended, LenProperties DEF LogType
    <3>3. SyncedIn(TornAt(full, Len(full.records))) = SyncedIn(logs[logNumber])
      BY <1>1, <1>2, <3>1, <3>2, SyncedTorn, SyncedStays
    <3>4. /\ DOMAIN logs' = DOMAIN logs /\ logs'[logNumber] = TornAt(full, Len(full.records))
          /\ \A n \in DOMAIN logs : n # logNumber => logs'[n] = logs[n]
      BY <1>1, <2>4, <3>1
    <3> QED  BY <3>3, <3>4
  <2> QED  BY <1>0, <2>1, <2>2, <2>3, <2>4
<1>4. UNCHANGED <<tables, manifests, current, acked, durable, phase, mem, imm, logNumber, error>>
  BY DEF AppendRecord, SyncLog, AppendFails, memory, control, history
<1>5. vset'.files = vset.files /\ vset'.log = vset.log
  <2>1. CASE vset' = vset
    BY <2>1
  <2>2. CASE AppendFails
    <3>1. PICK v \in writing : EndOfGroup(v)
      BY <2>2 DEF AppendFails
    <3> QED  BY <3>1, GroupEnds
  <2> QED  BY <2>1, <2>2 DEF AppendRecord, SyncLog
<1> QED  BY <1>1, <1>3, <1>4, <1>5 DEF Quiet

\* Tables are built under numbers that no version has yet.
LEMMA QuietBuildTable ==
  ASSUME StoreInv, BuildTable  PROVE Quiet
<1>1. PICK f \in flush, deep \in BOOLEAN :
        /\ f.step = "build"
        /\ tables' = IF UNION imm = {} THEN tables ELSE With(tables, f.number, UNION imm)
  BY DEF BuildTable
<1>2. Running /\ f.number \notin DOMAIN tables
  BY <1>1, FlushFacts
<1>3. \A n \in DOMAIN tables : n \in DOMAIN tables' /\ tables'[n] = tables[n]
  BY <1>1, <1>2 DEF With
<1>4. UNCHANGED <<logs, manifests, current, phase, imm, logNumber, vset, acked, durable>>
  BY DEF BuildTable, memory, history
<1>5. error => error'
  BY DEF BuildTable, RecordBackgroundError
<1> QED  BY <1>2, <1>3, <1>4, <1>5 DEF Quiet

LEMMA QuietOutput ==
  ASSUME StoreInv, OpenOutput  PROVE Quiet
<1>1. /\ tables' = With(tables, vset.next, {})
      /\ vset' = [vset EXCEPT !.next = @ + 1]
      /\ UNCHANGED <<logs, manifests, current, phase, mem, imm, logNumber, error, acked, durable>>
  BY DEF OpenOutput, memory, control, history
<1>2. Running /\ vset \in VsetType
  BY CompactionFacts, RunningFacts DEF OpenOutput
<1>3. \A n \in DOMAIN tables : n \in Nat /\ n < vset.next
  BY <1>2, RunningFacts DEF TablesType
<1>4. \A n \in DOMAIN tables : n \in DOMAIN tables' /\ tables'[n] = tables[n]
  BY <1>1, <1>3 DEF With
<1>5. vset'.files = vset.files /\ vset'.log = vset.log
  BY <1>1, <1>2, NextNumber
<1> QED  BY <1>1, <1>2, <1>4, <1>5 DEF Quiet

LEMMA QuietMerge ==
  ASSUME StoreInv, DurableInv, FinishOutput  PROVE Quiet
<1>1. PICK c \in compaction :
        /\ Merging(c)
        /\ tables' = [n \in DOMAIN tables |->
                        IF n \in c.out THEN UNION {tables[m] : m \in c.inputs} ELSE tables[n]]
        /\ compaction' = {[c EXCEPT !.step = "log",
                           !.edit = {Completed({}, c.out, c.inputs, vset.log)}]}
  BY DEF FinishOutput
<1>2. UNCHANGED <<logs, manifests, current, phase, mem, imm, logNumber, error, vset, acked, durable>>
  BY DEF FinishOutput, memory, control, history
<1>3. Running /\ c.step = "merge"
  BY <1>1, CompactionFacts DEF Merging
<1>4. \A n \in c.out : tables[n] = {}
  BY <1>3 DEF DurableInv, MergeInv
<1>5. \A n \in DOMAIN tables : n \in DOMAIN tables' /\ tables[n] \subseteq tables'[n]
  BY <1>1, <1>4
<1> QED  BY <1>2, <1>3, <1>5 DEF Quiet

LEMMA QuietAbandon ==
  ASSUME StoreInv, AbandonMerge  PROVE Quiet
<1>1. PICK c \in compaction : EndOfCompaction(c, manifests, vset)
  BY DEF AbandonMerge
<1>2. error' /\ UNCHANGED vset
  BY DEF AbandonMerge, RecordBackgroundError
<1>3. /\ UNCHANGED <<current, phase, imm, logNumber, logs, tables, acked>>
      /\ manifests' = manifests
  BY <1>1, <1>2, FailedEnd
<1>4. durable' = durable
  BY <1>1 DEF EndOfCompaction, history
<1> QED  BY <1>2, <1>3, <1>4 DEF Quiet, Running

\* Recovery creates its log.
LEMMA QuietOpenLog ==
  ASSUME StoreInv, OpenLog
  PROVE  Quiet
<1>1. PICK o \in opening : o.left = {}
  BY DEF OpenLog
<1>2. UNCHANGED <<tables, manifests, current, phase, history>>
  BY DEF OpenLog
<1>3. ~Running /\ LogsType(logs)
  BY OpeningFacts
<1>4. \A n \in DOMAIN logs : n \in DOMAIN logs' /\ SyncedIn(logs[n]) \subseteq SyncedIn(logs'[n])
  <2>1. logs' = With(logs, vset.next, File(<< >>, 0))
    BY DEF OpenLog
  <2>2. /\ \A n \in DOMAIN logs : n \in DOMAIN logs'
        /\ \A n \in DOMAIN logs : n # vset.next => logs'[n] = logs[n]
    BY <2>1 DEF With
  <2>3. ASSUME vset.next \in DOMAIN logs  PROVE FALSE
    <3>1. vset.next >= vset.log => vset.next < vset.next
      BY <1>1, <2>3, OpeningState
    <3>2. vset.next \in Nat /\ vset.log \in Nat /\ vset.log < vset.next
      BY OpeningFacts DEF VsetType
    <3> QED  BY <3>1, <3>2
  <2> QED  BY <2>2, <2>3
<1> QED  BY <1>2, <1>3, <1>4 DEF Quiet, history, Running

-----------------------------------------------------------------------------
(* The process runs: writers. *)

\* What DurableInv says while the process runs.
LEMMA DurableFacts ==
  ASSUME StoreInv, DurableInv, Running
  PROVE  /\ durable \subseteq acked /\ OnDisk = manifests[current].records
         /\ manifests[current].synced \in Nat /\ Len(OnDisk) \in Nat
         /\ 1 <= manifests[current].synced
         /\ manifests[current].synced <= Len(OnDisk)
         /\ ~error => manifests[current].synced = Len(OnDisk)
         /\ \A i \in 1 .. Len(OnDisk) : OnDisk[i] \in EditType /\ OnDisk[i].log <= logNumber
         /\ durable \subseteq SyncedIn(logs[logNumber]) \union (UNION imm)
                                \union DataIn(tables, NumbersOf(vset.files))
         /\ durable \subseteq SyncedFrom(logs, vset.log)
                                \union DataIn(tables, NumbersOf(vset.files))
         /\ \A left \in manifests[current].synced .. Len(OnDisk) :
              Finds(tables, logs, SubSeq(OnDisk, 1, left), durable)
<1>1. FoundInv /\ PlacesInv /\ PrefixInv
  BY DEF DurableInv, FoundInv
<1>2. /\ current # 0 /\ OnDisk # << >> /\ OnDisk \in Seq(EditType)
      /\ current \in DOMAIN manifests /\ ManifestsType(manifests)
  BY RunningFacts
<1>3. /\ Len(OnDisk) \in Nat /\ DOMAIN OnDisk = 1 .. Len(OnDisk)
      /\ \A i \in 1 .. Len(OnDisk) : OnDisk[i] \in EditType
  BY <1>2, LenProperties, ElementOfSeq
<1>4. manifests[current].synced \in Nat /\ OnDisk = manifests[current].records
  BY <1>2 DEF ManifestsType, ManifestType, OnDisk, EditsOf
<1>5. /\ 1 <= manifests[current].synced
      /\ manifests[current].synced <= Len(OnDisk)
      /\ ~error => manifests[current].synced = Len(OnDisk)
      /\ \A i \in 1 .. Len(OnDisk) : OnDisk[i].log <= logNumber
      /\ durable \subseteq SyncedIn(logs[logNumber]) \union (UNION imm)
                             \union DataIn(tables, NumbersOf(vset.files))
      /\ durable \subseteq SyncedFrom(logs, vset.log)
                             \union DataIn(tables, NumbersOf(vset.files))
  BY <1>1, <1>3 DEF PlacesInv
<1>6. \A left \in manifests[current].synced .. Len(OnDisk) :
        Finds(tables, logs, SubSeq(OnDisk, 1, left), durable)
  BY <1>1, <1>2 DEF PrefixInv
<1> QED  BY <1>1, <1>3, <1>4, <1>5, <1>6 DEF FoundInv

LEMMA SwitchMemtableFinds ==
  ASSUME StoreInv, DurableInv, SwitchMemtable  PROVE FoundInv'
<1>1. /\ UNCHANGED <<tables, manifests, current, error, acked, durable>>
      /\ logs' = With(logs, vset.next, File(<< >>, 0))
      /\ logNumber' = vset.next /\ imm' = {mem}
      /\ vset' = [vset EXCEPT !.next = @ + 1] /\ Running /\ imm = {}
  BY DEF SwitchMemtable, AtFront, Running, history
<1>2. /\ vset \in VsetType /\ vset.next \in Nat /\ logNumber \in Nat /\ logNumber < vset.next
      /\ LogsType(logs) /\ (\A n \in DOMAIN logs : n < vset.next)
      /\ current \in DOMAIN manifests
  BY <1>1, RunningFacts DEF VsetType
<1>3. vset'.files = vset.files /\ vset'.log = vset.log
  BY <1>1, <1>2, NextNumber
<1>4. \A n \in DOMAIN logs : n \in DOMAIN logs' /\ logs'[n] = logs[n]
  BY <1>1, <1>2 DEF With
<1>5. PrefixInv' /\ OnDisk' = OnDisk
  BY <1>1, <1>2, <1>4, PrefixKept
<1>6. /\ durable \subseteq acked
      /\ 1 <= manifests[current].synced
      /\ manifests[current].synced <= Len(OnDisk)
      /\ ~error => manifests[current].synced = Len(OnDisk)
      /\ \A i \in 1 .. Len(OnDisk) : OnDisk[i] \in EditType /\ OnDisk[i].log <= logNumber
      /\ durable \subseteq SyncedFrom(logs, vset.log)
                             \union DataIn(tables, NumbersOf(vset.files))
  BY <1>1, DurableFacts
<1>7. DOMAIN OnDisk = 1 .. Len(OnDisk)
  BY <1>1, RunningFacts, LenProperties
<1>8. \A i \in DOMAIN OnDisk : OnDisk[i].log <= vset.next
  BY <1>2, <1>6, <1>7 DEF EditType
<1>9. acked \subseteq mem \union DataIn(tables, NumbersOf(vset.files))
  <2>1. CoverInv
    BY DEF StoreInv, Inv
  <2> QED  BY <1>1, <2>1 DEF CoverInv
<1>10. UNION imm' = mem
  BY <1>1
<1>11. SyncedFrom(logs, vset.log) \subseteq SyncedFrom(logs', vset.log)
  BY <1>4, SyncedFromGrows
<1>12. PlacesInv'
  <2>1. durable \subseteq SyncedIn(logs'[vset.next]) \union (UNION imm')
                            \union DataIn(tables, NumbersOf(vset.files))
    BY <1>6, <1>9, <1>10
  <2>2. durable \subseteq SyncedFrom(logs', vset.log)
                            \union DataIn(tables, NumbersOf(vset.files))
    BY <1>6, <1>11
  <2> QED  BY <1>1, <1>3, <1>5, <1>6, <1>8, <2>1, <2>2 DEF PlacesInv
<1> QED  BY <1>1, <1>5, <1>6, <1>12 DEF FoundInv

\* The writes that asked for sync are in the synced part of the newest log.
LEMMA InsertIntoFinds ==
  ASSUME StoreInv, DurableInv, InsertInto  PROVE FoundInv'
<1>1. PICK w \in writing :
        /\ w.step = "insert" /\ acked' = acked \union w.writes
        /\ durable' = durable \union w.syncs /\ EndOfGroup(w)
  BY DEF InsertInto
<1>2. UNCHANGED <<logs, tables, manifests, current, phase, imm, logNumber, error>>
  BY DEF InsertInto, disk, control
<1>3. Running /\ Running' /\ logNumber \in Nat /\ logNumber \in DOMAIN logs
      /\ vset.log <= logNumber /\ vset \in VsetType
  BY <1>2, GroupFacts, RunningFacts DEF Running
<1>4. vset'.files = vset.files /\ vset'.log = vset.log
  BY <1>1, GroupEnds
<1>5. w.syncs \subseteq w.writes /\ w.syncs \subseteq SyncedIn(logs[logNumber])
  BY <1>1 DEF DurableInv, GroupInv
<1>6. /\ durable \subseteq acked
      /\ manifests[current].synced \in Nat /\ 1 <= manifests[current].synced
      /\ manifests[current].synced <= Len(OnDisk)
      /\ ~error => manifests[current].synced = Len(OnDisk)
      /\ \A i \in 1 .. Len(OnDisk) : OnDisk[i] \in EditType /\ OnDisk[i].log <= logNumber
      /\ durable \subseteq SyncedIn(logs[logNumber]) \union (UNION imm)
                             \union DataIn(tables, NumbersOf(vset.files))
      /\ durable \subseteq SyncedFrom(logs, vset.log)
                             \union DataIn(tables, NumbersOf(vset.files))
      /\ \A left \in manifests[current].synced .. Len(OnDisk) :
           Finds(tables, logs, SubSeq(OnDisk, 1, left), durable)
  BY <1>3, DurableFacts
<1>7. OnDisk' = OnDisk /\ current # 0 /\ DOMAIN OnDisk = 1 .. Len(OnDisk) /\ Len(OnDisk) \in Nat
  <2>1. OnDisk \in Seq(EditType) /\ current # 0
    BY <1>3, RunningFacts
  <2> QED  BY <1>2, <2>1, LenProperties DEF OnDisk, EditsOf
<1>8. ASSUME NEW left \in manifests[current].synced .. Len(OnDisk)
      PROVE  Finds(tables, logs, SubSeq(OnDisk, 1, left), durable')
  <2>1. left \in 1 .. Len(OnDisk)
    BY <1>6, <1>7
  <2>2. PICK part : part = SubSeq(OnDisk, 1, left)
    OBVIOUS
  <2>3. part # << >> /\ Replay(part).log = OnDisk[left].log
    BY <2>1, <2>2, PrefixFacts
  <2>4. logNumber >= Replay(part).log
    BY <1>3, <1>6, <2>1, <2>3 DEF EditType
  <2>5. SyncedIn(logs[logNumber]) \subseteq SyncedFrom(logs, Replay(part).log)
    BY <1>3, <2>4, SyncedInLogs
  <2>6. Finds(tables, logs, part, durable)
    BY <1>6, <2>2
  <2>7. Finds(tables, logs, part, durable')
    BY <1>1, <1>5, <2>3, <2>5, <2>6 DEF Finds
  <2> QED  BY <2>2, <2>7
<1>9. PrefixInv'
  BY <1>2, <1>6, <1>7, <1>8 DEF PrefixInv
<1>10. PlacesInv'
  <2>1. SyncedIn(logs[logNumber]) \subseteq SyncedFrom(logs, vset.log)
    BY <1>3, SyncedInLogs DEF VsetType
  <2>2. /\ durable' \subseteq SyncedIn(logs[logNumber]) \union (UNION imm)
                             \union DataIn(tables, NumbersOf(vset.files))
        /\ durable' \subseteq SyncedFrom(logs, vset.log)
                             \union DataIn(tables, NumbersOf(vset.files))
    BY <1>1, <1>5, <1>6, <2>1
  <2> QED  BY <1>2, <1>4, <1>6, <1>7, <2>2 DEF PlacesInv
<1>11. (durable \subseteq acked)'
  BY <1>1, <1>5, <1>6
<1> QED  BY <1>9, <1>10, <1>11 DEF FoundInv

-----------------------------------------------------------------------------
(* The process runs: edits. *)

LEMMA SubSeqAppend ==
  ASSUME NEW s \in Seq(EditType), NEW e \in EditType
  PROVE  /\ Append(s, e) \in Seq(EditType) /\ Len(Append(s, e)) = Len(s) + 1
         /\ SubSeq(Append(s, e), 1, Len(s) + 1) = Append(s, e)
         /\ \A left \in 0 .. Len(s) : SubSeq(Append(s, e), 1, left) = SubSeq(s, 1, left)
<1>1. /\ Append(s, e) \in Seq(EditType) /\ Len(Append(s, e)) = Len(s) + 1 /\ Len(s) \in Nat
      /\ \A j \in 1 .. Len(s) : Append(s, e)[j] = s[j]
  BY AppendProperties, LenProperties
<1>2. SubSeq(Append(s, e), 1, Len(s) + 1) = Append(s, e)
  BY <1>1, SubSeqFull
<1>3. ASSUME NEW left \in 0 .. Len(s)
      PROVE  SubSeq(Append(s, e), 1, left) = SubSeq(s, 1, left)
  <2> DEFINE a == SubSeq(Append(s, e), 1, left)
             b == SubSeq(s, 1, left)
  <2>1. left \in Nat /\ left \in Int /\ left <= Len(s)
    BY <1>1
  <2>2. \A j \in 1 .. left : s[j] \in EditType /\ Append(s, e)[j] = s[j]
    BY <1>1, <2>1, ElementOfSeq
  <2>3. b \in Seq(EditType) /\ Len(b) = left /\ \A j \in 1 .. left : b[j] = s[j]
    BY <2>1, <2>2, SubSeqProperties
  <2>4. a \in Seq(EditType) /\ Len(a) = left /\ \A j \in 1 .. left : a[j] = s[j]
    BY <2>1, <2>2, SubSeqProperties
  <2> QED  BY <2>3, <2>4, SeqEqual
<1> QED  BY <1>1, <1>2, <1>3

\* What is synced of the MANIFEST when an edit has or has not reached it.
LEMMA EditSynced ==
  ASSUME StoreInv, Running, NEW e \in EditType, current' = current, error => error',
         manifests' = Logged(e) \/ (manifests' \in NotLogged(e) /\ error')
  PROVE  LET old == manifests[current].synced
             new == manifests'[current].synced
         IN  \/ OnDisk' = OnDisk /\ new \in {old, Len(OnDisk)} /\ error'
             \/ /\ OnDisk' = Append(OnDisk, e) /\ ~Torn
                /\ new = Len(OnDisk) + 1 \/ (new = old /\ error')
<1>1. /\ current # 0 /\ current \in DOMAIN manifests /\ current = vset.manifest
      /\ ManifestsType(manifests) /\ (Torn => error)
  BY RunningFacts DEF StoreInv, Inv, CoverInv
<1> DEFINE file == manifests[current]
           tear == Len(file.records) + 1
           cut  == [file EXCEPT !.synced = Len(file.records)]
<1>2. file \in ManifestType /\ tear \in Nat
  BY <1>1, LenProperties DEF ManifestsType, ManifestType
<1>3. /\ Appended(file, e).records = Append(file.records, e)
      /\ Appended(file, e).synced = file.synced
      /\ AppendedSynced(file, e).records = Append(file.records, e)
      /\ AppendedSynced(file, e).synced = Len(file.records) + 1
      /\ cut.records = file.records /\ cut.synced = Len(file.records)
      /\ TornAt(file, tear).records = file.records
      /\ TornAt(file, tear).synced = file.synced
  BY <1>2, ManifestAppended, TornManifestFile DEF ManifestType
<1>4. /\ OnDisk = file.records /\ OnDisk' = manifests'[current].records
      /\ (Torn <=> file.torn # 0) /\ (TornManifest <=> file.torn # 0)
  BY <1>1 DEF OnDisk, EditsOf, Torn, TornManifest
<1>5. /\ Logged(e) = [manifests EXCEPT ![current] = IF Torn THEN cut ELSE AppendedSynced(file, e)]
      /\ NotLogged(e) = IF Torn THEN {manifests}
                        ELSE {manifests, [manifests EXCEPT ![current] = Appended(file, e)],
                              [manifests EXCEPT ![current] = TornAt(file, tear)]}
  BY <1>1, <1>4 DEF Logged, NotLogged
<1>6. \/ manifests'[current] = cut /\ Torn
      \/ manifests'[current] = AppendedSynced(file, e) /\ ~Torn
      \/ manifests'[current] = file /\ error'
      \/ manifests'[current] = Appended(file, e) /\ ~Torn /\ error'
      \/ manifests'[current] = TornAt(file, tear) /\ error'
  <2> HIDE DEF cut, tear
  <2>1. CASE manifests' = Logged(e)
    BY <1>1, <1>5, <2>1
  <2>2. CASE manifests' \in NotLogged(e) /\ error'
    BY <1>1, <1>5, <2>2
  <2> QED  BY <2>1, <2>2
<1> HIDE DEF file, tear, cut
<1>7. file.synced = manifests[current].synced
  BY DEF file
<1> QED  BY <1>1, <1>3, <1>4, <1>6, <1>7

\* The record of an edit reaches the MANIFEST, whole and synced, or an error is left
\* behind: with it or without it, the writes are found.
LEMMA EditLoggedFinds ==
  ASSUME StoreInv, DurableInv, Running, Running', NEW e \in EditType, EditInv(e, "log"),
         DataIn(tables, e.del) \subseteq DataIn(tables, Added(e)),
         e.log <= logNumber,
         durable \subseteq SyncedFrom(logs, e.log) \union DataIn(tables, NumbersOf(vset.files))
                             \union DataIn(tables, Added(e)),
         UNCHANGED <<logs, tables, current, imm, logNumber, vset, acked, durable>>,
         error => error',
         manifests' = Logged(e) \/ (manifests' \in NotLogged(e) /\ error')
  PROVE  FoundInv'
<1>1. /\ current # 0 /\ current \in DOMAIN manifests /\ current = vset.manifest
      /\ ManifestsType(manifests) /\ OnDisk \in Seq(EditType) /\ OnDisk # << >>
      /\ NumbersOf(Version.files) \subseteq DOMAIN tables /\ Version.files \in Layout
      /\ logNumber \in Nat
  BY RunningFacts
<1>2. /\ durable \subseteq acked /\ OnDisk = manifests[current].records
      /\ manifests[current].synced \in Nat /\ Len(OnDisk) \in Nat
      /\ 1 <= manifests[current].synced
      /\ manifests[current].synced <= Len(OnDisk)
      /\ ~error => manifests[current].synced = Len(OnDisk)
      /\ \A i \in 1 .. Len(OnDisk) : OnDisk[i] \in EditType /\ OnDisk[i].log <= logNumber
      /\ durable \subseteq SyncedIn(logs[logNumber]) \union (UNION imm)
                             \union DataIn(tables, NumbersOf(vset.files))
      /\ durable \subseteq SyncedFrom(logs, vset.log)
                             \union DataIn(tables, NumbersOf(vset.files))
      /\ \A left \in manifests[current].synced .. Len(OnDisk) :
           Finds(tables, logs, SubSeq(OnDisk, 1, left), durable)
  BY DurableFacts
<1>3. \/ /\ OnDisk' = OnDisk /\ error'
         /\ manifests'[current].synced \in {manifests[current].synced, Len(OnDisk)}
      \/ /\ OnDisk' = Append(OnDisk, e) /\ ~Torn
         /\ \/ manifests'[current].synced = Len(OnDisk) + 1
            \/ manifests'[current].synced = manifests[current].synced /\ error'
  BY EditSynced
<1>4. CASE OnDisk' = OnDisk
  <2>1. /\ error' /\ 1 <= manifests'[current].synced /\ manifests'[current].synced \in Nat
        /\ manifests'[current].synced <= Len(OnDisk)
        /\ \A left \in manifests'[current].synced .. Len(OnDisk) :
             left \in manifests[current].synced .. Len(OnDisk)
    <3>1. OnDisk # Append(OnDisk, e)
      <4>1. Len(Append(OnDisk, e)) # Len(OnDisk)
        BY <1>1, <1>2, AppendProperties
      <4> QED  BY <4>1
    <3> QED  BY <1>2, <1>3, <1>4, <3>1
  <2>2. PrefixInv'
    BY <1>1, <1>2, <1>4, <2>1 DEF PrefixInv
  <2>3. PlacesInv'
    <3>1. DOMAIN OnDisk = 1 .. Len(OnDisk)
      BY <1>1, LenProperties
    <3> QED  BY <1>2, <1>4, <2>1, <3>1 DEF PlacesInv
  <2> QED  BY <1>2, <2>2, <2>3 DEF FoundInv
<1>5. CASE OnDisk' = Append(OnDisk, e) /\ ~Torn
  <2>1. PICK all : all = Append(OnDisk, e)
    OBVIOUS
  <2>2. /\ all \in Seq(EditType) /\ Len(all) = Len(OnDisk) + 1
        /\ SubSeq(all, 1, Len(OnDisk) + 1) = all
        /\ \A left \in 0 .. Len(OnDisk) : SubSeq(all, 1, left) = SubSeq(OnDisk, 1, left)
    BY <1>1, <2>1, SubSeqAppend
  <2>3. \/ manifests'[current].synced = Len(OnDisk) + 1
        \/ manifests'[current].synced = manifests[current].synced /\ error'
    <3>1. OnDisk' # OnDisk
      <4>1. Len(all) # Len(OnDisk)
        BY <1>2, <2>2
      <4> QED  BY <1>5, <2>1, <4>1
    <3> QED  BY <1>3, <3>1
  <2>4. OnDisk' = all
    BY <1>5, <2>1
  <2>5. DOMAIN all = 1 .. Len(OnDisk) + 1 /\ all[Len(OnDisk) + 1] = e
        /\ \A i \in 1 .. Len(OnDisk) : all[i] = OnDisk[i]
    BY <1>1, <2>1, <2>2, AppendProperties, LenProperties
  <2>6. Finds(tables, logs, all, durable)
    <3>1. all # << >>
      BY <1>1, <2>1, AppendProperties
    <3>2. Replay(all).files = Apply(Version.files, e) /\ Replay(all).log = e.log
      BY <1>1, <2>1, ReplayAppend DEF Version
    <3>3. NumbersOf(Apply(Version.files, e)) \subseteq DOMAIN tables
      <4>1. Added(e) \subseteq DOMAIN tables
        BY DEF EditInv
      <4> QED  BY <1>1, <4>1, ApplyNumbers
    <3>4. /\ DataIn(tables, NumbersOf(Version.files))
               \subseteq DataIn(tables, NumbersOf(Apply(Version.files, e)))
          /\ DataIn(tables, Added(e)) \subseteq DataIn(tables, NumbersOf(Apply(Version.files, e)))
      BY <1>1, DataApplied
    <3>5. DataIn(tables, NumbersOf(vset.files)) \subseteq DataIn(tables, NumbersOf(Version.files))
      BY <1>5 DEF StoreInv, Inv, CoverInv
    <3>6. durable \subseteq DataIn(tables, NumbersOf(Apply(Version.files, e)))
                              \union SyncedFrom(logs, e.log)
      BY <3>4, <3>5
    <3> QED  BY <3>1, <3>2, <3>3, <3>6 DEF Finds
  <2>7. PrefixInv'
    <3>1. ASSUME NEW left \in manifests'[current].synced .. Len(all)
          PROVE  Finds(tables, logs, SubSeq(all, 1, left), durable)
      <4>1. CASE left = Len(OnDisk) + 1
        BY <2>2, <2>6, <4>1
      <4>2. CASE left # Len(OnDisk) + 1
        <5>1. /\ left \in manifests[current].synced .. Len(OnDisk)
              /\ left \in 0 .. Len(OnDisk)
          BY <1>2, <2>2, <2>3, <4>2
        <5> QED  BY <1>2, <2>2, <5>1
      <4> QED  BY <4>1, <4>2
    <3> QED  BY <1>1, <2>4, <3>1 DEF PrefixInv
  <2>8. PlacesInv'
    <3>1. 1 <= manifests'[current].synced /\ manifests'[current].synced <= Len(all)
      BY <1>2, <2>2, <2>3
    <3>2. ~error' => manifests'[current].synced = Len(all)
      BY <2>2, <2>3
    <3>3. \A i \in DOMAIN all : all[i].log <= logNumber
      <4>1. ASSUME NEW i \in 1 .. Len(OnDisk) + 1  PROVE all[i].log <= logNumber
        <5>1. Len(OnDisk) \in Nat
          BY <1>2
        <5>2. CASE i \in 1 .. Len(OnDisk)
          BY <1>2, <2>5, <5>2
        <5>3. CASE i = Len(OnDisk) + 1
          BY <2>5, <5>3
        <5> QED  BY <5>1, <5>2, <5>3
      <4> QED  BY <2>5, <4>1
    <3> QED  BY <1>2, <2>4, <3>1, <3>2, <3>3 DEF PlacesInv
  <2> QED  BY <1>2, <2>7, <2>8 DEF FoundInv
<1> QED  BY <1>3, <1>4, <1>5

LEMMA LogFlushFinds ==
  ASSUME StoreInv, DurableInv, LogFlush  PROVE FoundInv'
<1>1. PICK f \in flush : \E edit \in f.edit : f.step = "log" /\ manifests' = Logged(edit)
  BY DEF LogFlush
<1>2. PICK e \in f.edit : manifests' = Logged(e)
  BY <1>1
<1>3. UNCHANGED <<phase, logs, tables, current, imm, logNumber, vset, acked, durable, error>>
  BY DEF LogFlush, memory, control, history
<1>4. Running /\ Running' /\ logNumber \in DOMAIN logs /\ logNumber \in Nat
  BY <1>3, FlushFacts, RunningFacts DEF Running
<1>5. /\ e \in EditType /\ EditInv(e, "log") /\ e.log = logNumber
      /\ UNION imm \subseteq DataIn(tables, Added(e))
      /\ DataIn(tables, e.del) \subseteq DataIn(tables, Added(e))
  BY <1>1, FlushEdit
<1>6. durable \subseteq SyncedFrom(logs, e.log) \union DataIn(tables, NumbersOf(vset.files))
                          \union DataIn(tables, Added(e))
  <2>1. SyncedIn(logs[logNumber]) \subseteq SyncedFrom(logs, e.log)
    BY <1>4, <1>5, SyncedInLogs
  <2>2. durable \subseteq SyncedIn(logs[logNumber]) \union (UNION imm)
                            \union DataIn(tables, NumbersOf(vset.files))
    BY <1>4, DurableFacts
  <2> QED  BY <1>5, <2>1, <2>2
<1> QED  BY <1>2, <1>3, <1>4, <1>5, <1>6, EditLoggedFinds

LEMMA LogFlushFailsFinds ==
  ASSUME StoreInv, DurableInv, LogFlushFails  PROVE FoundInv'
<1>1. PICK f \in flush : \E edit \in f.edit : f.step = "log" /\ manifests' \in NotLogged(edit)
  BY DEF LogFlushFails
<1>2. PICK e \in f.edit : manifests' \in NotLogged(e)
  BY <1>1
<1>3. UNCHANGED <<phase, logs, tables, current, imm, logNumber, vset, acked, durable>> /\ error'
  BY DEF LogFlushFails, RecordBackgroundError, memory, history
<1>4. Running /\ Running' /\ logNumber \in DOMAIN logs /\ logNumber \in Nat
  BY <1>3, FlushFacts, RunningFacts DEF Running
<1>5. /\ e \in EditType /\ EditInv(e, "log") /\ e.log = logNumber
      /\ UNION imm \subseteq DataIn(tables, Added(e))
      /\ DataIn(tables, e.del) \subseteq DataIn(tables, Added(e))
  BY <1>1, FlushEdit
<1>6. durable \subseteq SyncedFrom(logs, e.log) \union DataIn(tables, NumbersOf(vset.files))
                          \union DataIn(tables, Added(e))
  <2>1. SyncedIn(logs[logNumber]) \subseteq SyncedFrom(logs, e.log)
    BY <1>4, <1>5, SyncedInLogs
  <2>2. durable \subseteq SyncedIn(logs[logNumber]) \union (UNION imm)
                            \union DataIn(tables, NumbersOf(vset.files))
    BY <1>4, DurableFacts
  <2> QED  BY <1>5, <2>1, <2>2
<1> QED  BY <1>2, <1>3, <1>4, <1>5, <1>6, EditLoggedFinds

LEMMA LogCompactionFinds ==
  ASSUME StoreInv, DurableInv, LogCompaction  PROVE FoundInv'
<1>1. PICK c \in compaction : \E edit \in c.edit : c.step = "log" /\ manifests' = Logged(edit)
  BY DEF LogCompaction
<1>2. PICK e \in c.edit : manifests' = Logged(e)
  BY <1>1
<1>3. UNCHANGED <<phase, logs, tables, current, imm, logNumber, vset, acked, durable, error>>
  BY DEF LogCompaction, memory, control, history
<1>4. Running /\ Running' /\ vset.log <= logNumber
  BY <1>3, CompactionFacts, RunningFacts DEF Running
<1>5. /\ e \in EditType /\ EditInv(e, "log") /\ e.log = vset.log
      /\ DataIn(tables, e.del) \subseteq DataIn(tables, Added(e))
  BY <1>1, CompactionFacts
<1>6. durable \subseteq SyncedFrom(logs, e.log) \union DataIn(tables, NumbersOf(vset.files))
                          \union DataIn(tables, Added(e))
  BY <1>4, <1>5, DurableFacts
<1>7. e.log <= logNumber
  BY <1>4, <1>5
<1> QED  BY <1>2, <1>3, <1>4, <1>5, <1>6, <1>7, EditLoggedFinds

LEMMA LogCompactionFailsFinds ==
  ASSUME StoreInv, DurableInv, LogCompactionFails  PROVE FoundInv'
<1>1. PICK c \in compaction : \E edit \in c.edit : \E mfs \in NotLogged(edit) :
        c.step = "log" /\ EndOfCompaction(c, mfs, vset)
  BY DEF LogCompactionFails
<1>2. PICK e \in c.edit : \E mfs \in NotLogged(e) : EndOfCompaction(c, mfs, vset)
  BY <1>1
<1>3. error' /\ vset' = vset
  BY DEF LogCompactionFails, RecordBackgroundError
<1>4. /\ UNCHANGED <<phase, logs, tables, current, imm, logNumber, acked, durable>>
      /\ manifests' \in NotLogged(e)
  <2>1. PICK mfs \in NotLogged(e) : EndOfCompaction(c, mfs, vset)
    BY <1>2
  <2>2. durable' = durable
    BY <2>1 DEF EndOfCompaction, history
  <2> QED  BY <1>3, <2>1, <2>2, FailedEnd
<1>5. Running /\ Running' /\ vset.log <= logNumber
  BY <1>4, CompactionFacts, RunningFacts DEF Running
<1>6. /\ e \in EditType /\ EditInv(e, "log") /\ e.log = vset.log
      /\ DataIn(tables, e.del) \subseteq DataIn(tables, Added(e))
  BY <1>1, CompactionFacts
<1>7. durable \subseteq SyncedFrom(logs, e.log) \union DataIn(tables, NumbersOf(vset.files))
                          \union DataIn(tables, Added(e))
  BY <1>5, <1>6, DurableFacts
<1>8. e.log <= logNumber
  BY <1>5, <1>6
<1> QED  BY <1>3, <1>4, <1>5, <1>6, <1>7, <1>8, EditLoggedFinds

\* An edit is installed.  With an error nothing goes; without one the whole MANIFEST is
\* synced, and what goes is nothing that the whole MANIFEST needs.
LEMMA EditInstalledFinds ==
  ASSUME StoreInv, DurableInv, Running, Running', NEW e \in EditType, EditInv(e, "install"),
         vset' = Installed(e), ~error => Matches(e),
         DataIn(tables, e.del) \subseteq DataIn(tables, Added(e)), e.log <= logNumber,
         UNCHANGED <<opening, current, mem, logNumber, acked, durable, error, writing, readers>>,
         \/ imm' = {} /\ e.log = logNumber /\ UNION imm \subseteq DataIn(tables, Added(e))
         \/ imm' = imm /\ e.log = vset.log,
         pending' \subseteq pending,
         NEW kept, Collected(kept), NumbersOf(vset'.files) \subseteq kept,
         \A r \in Range(readers) : NumbersOf(r.files) \subseteq kept
  PROVE  FoundInv'
<1>1. /\ current # 0 /\ current \in DOMAIN manifests /\ current = vset.manifest /\ current \in Nat
      /\ OnDisk \in Seq(EditType) /\ OnDisk # << >>
      /\ NumbersOf(vset.files) \subseteq DOMAIN tables /\ vset \in VsetType
      /\ logNumber \in Nat /\ logNumber \in DOMAIN logs
  BY RunningFacts DEF StoreInv, Types, DiskTypes
<1>2. /\ durable \subseteq acked
      /\ manifests[current].synced \in Nat /\ Len(OnDisk) \in Nat
      /\ 1 <= manifests[current].synced
      /\ manifests[current].synced <= Len(OnDisk)
      /\ ~error => manifests[current].synced = Len(OnDisk)
      /\ \A i \in 1 .. Len(OnDisk) : OnDisk[i] \in EditType /\ OnDisk[i].log <= logNumber
      /\ durable \subseteq SyncedIn(logs[logNumber]) \union (UNION imm)
                             \union DataIn(tables, NumbersOf(vset.files))
      /\ durable \subseteq SyncedFrom(logs, vset.log)
                             \union DataIn(tables, NumbersOf(vset.files))
      /\ \A left \in manifests[current].synced .. Len(OnDisk) :
           Finds(tables, logs, SubSeq(OnDisk, 1, left), durable)
  BY DurableFacts
<1>3. /\ vset'.files = Apply(vset.files, e) /\ vset'.log = e.log
      /\ vset'.manifest = vset.manifest /\ vset.files \in Layout /\ e.log \in Nat
  BY <1>1, InstalledType DEF VsetType, EditType
<1>4. current \in DOMAIN manifests' /\ manifests'[current] = manifests[current]
  BY <1>1, <1>3 DEF Collected, Keep
<1>5. OnDisk' = OnDisk
  BY <1>4 DEF OnDisk, EditsOf
<1>6. /\ NumbersOf(vset'.files) \subseteq DOMAIN tables
      /\ NumbersOf(vset'.files) \subseteq DOMAIN tables'
      /\ DataIn(tables', NumbersOf(vset'.files)) = DataIn(tables, NumbersOf(vset'.files))
  <2>1. Added(e) \subseteq DOMAIN tables
    BY DEF EditInv
  <2>2. NumbersOf(vset'.files) \subseteq DOMAIN tables
    BY <1>1, <1>3, <2>1, ApplyNumbers
  <2> QED  BY <2>2, KeptTables
<1>7. /\ DataIn(tables, NumbersOf(vset.files)) \subseteq DataIn(tables', NumbersOf(vset'.files))
      /\ DataIn(tables, Added(e)) \subseteq DataIn(tables', NumbersOf(vset'.files))
  BY <1>3, <1>6, DataApplied
<1>8. /\ \A n \in DOMAIN logs : n >= e.log => n \in DOMAIN logs' /\ logs'[n] = logs[n]
      /\ logs'[logNumber] = logs[logNumber] /\ logNumber \in DOMAIN logs'
  BY <1>1, <1>3 DEF Collected, Keep
<1>9. SyncedFrom(logs, e.log) \subseteq SyncedFrom(logs', e.log)
  BY <1>8, SyncedFromGrows
<1>10. durable \subseteq SyncedIn(logs'[logNumber]) \union (UNION imm')
                           \union DataIn(tables', NumbersOf(vset'.files))
  BY <1>2, <1>7, <1>8
<1>11. durable \subseteq SyncedFrom(logs', e.log) \union DataIn(tables', NumbersOf(vset'.files))
  <2>1. CASE imm' = {} /\ e.log = logNumber
    <3>1. SyncedIn(logs'[logNumber]) \subseteq SyncedFrom(logs', e.log)
      BY <1>1, <1>8, <2>1, SyncedInLogs
    <3>2. UNION imm' = {}
      BY <2>1
    <3> QED  BY <1>10, <3>1, <3>2
  <2>2. CASE e.log = vset.log
    BY <1>2, <1>7, <1>9, <2>2
  <2> QED  BY <2>1, <2>2
<1>12. PrefixInv'
  <2>1. CASE UNCHANGED <<logs, tables, manifests>>
    BY <1>2, <1>5, <2>1, PrefixKept, <1>1
  <2>2. CASE ~error
    <3>1. Version.files = vset'.files /\ Version.log = e.log
      BY <1>3, <2>2 DEF Matches
    <3>2. Finds(tables', logs', OnDisk, durable)
      BY <1>1, <1>6, <1>11, <3>1 DEF Finds, Version
    <3>3. SubSeq(OnDisk, 1, Len(OnDisk)) = OnDisk
      BY <1>1, SubSeqFull
    <3>4. manifests'[current].synced = Len(OnDisk)
      BY <1>2, <1>4, <2>2
    <3>5. ASSUME NEW left \in manifests'[current].synced .. Len(OnDisk)
          PROVE  Finds(tables', logs', SubSeq(OnDisk, 1, left), durable)
      <4>1. left = Len(OnDisk)
        BY <1>2, <3>4
      <4> QED  BY <3>2, <3>3, <4>1
    <3> QED  BY <1>1, <1>2, <1>5, <3>5 DEF PrefixInv
  <2> QED  BY <2>1, <2>2 DEF Collected
<1>13. PlacesInv'
  <2>1. DOMAIN OnDisk = 1 .. Len(OnDisk)
    BY <1>1, LenProperties
  <2> QED  BY <1>2, <1>3, <1>4, <1>5, <1>10, <1>11, <2>1 DEF PlacesInv
<1> QED  BY <1>2, <1>12, <1>13 DEF FoundInv

LEMMA InstallFlushFinds ==
  ASSUME StoreInv, DurableInv, InstallFlush  PROVE FoundInv'
<1>0. CompactionInv /\ FlushInv /\ ExactInv
  BY DEF StoreInv, Inv
<1>1. PICK f \in flush : \E edit \in f.edit :
        /\ f.step = "install" /\ vset' = Installed(edit) /\ imm' = {}
        /\ DeleteObsoleteFiles(logs, manifests, vset', compaction, pending, error)
  BY DEF InstallFlush
<1>2. PICK e \in f.edit : vset' = Installed(e)
  BY <1>1
<1>3. UNCHANGED <<phase, current, opening, mem, logNumber, writing, acked, durable, error, readers,
                  pending>>
  BY DEF InstallFlush, history
<1>4. Running /\ Running'
  BY <1>3, FlushFacts DEF Running
<1>5. /\ e \in EditType /\ EditInv(e, "install") /\ e.log = logNumber
      /\ UNION imm \subseteq DataIn(tables, Added(e))
      /\ DataIn(tables, e.del) \subseteq DataIn(tables, Added(e))
  BY <1>1, FlushEdit
<1>6. ~error => Matches(e)
  BY <1>0, <1>1, <1>4 DEF ExactInv
<1>7. e.log <= logNumber
  BY <1>4, <1>5, RunningFacts
<1>8. PICK kept : kept = pending \union LiveFiles(vset'.files, compaction)
  OBVIOUS
<1>9. Collected(kept)
  BY <1>1, <1>8 DEF DeleteObsoleteFiles, MayCollect, Collected
<1>10. /\ NumbersOf(vset'.files) \subseteq kept
       /\ \A r \in Range(readers) : NumbersOf(r.files) \subseteq kept
  BY <1>8 DEF LiveFiles, Pinned
<1>11. imm' = {} /\ pending' \subseteq pending
  BY <1>1, <1>3
<1> QED  BY <1>2, <1>3, <1>4, <1>5, <1>6, <1>7, <1>9, <1>10, <1>11, EditInstalledFinds

LEMMA InstallCompactionFinds ==
  ASSUME StoreInv, DurableInv, InstallCompaction  PROVE FoundInv'
<1>0. CompactionInv /\ ExactInv
  BY DEF StoreInv, Inv
<1>1. PICK c \in compaction : \E edit \in c.edit :
        /\ c.step = "install" /\ vset' = Installed(edit) /\ error' = error
        /\ EndOfCompaction(c, manifests, vset')
  BY DEF InstallCompaction
<1>2. PICK e \in c.edit : vset' = Installed(e)
  BY <1>1
<1>3. /\ UNCHANGED <<phase, current, opening, mem, imm, logNumber, writing, acked, durable, error,
                     readers>>
      /\ pending' \subseteq pending
      /\ \/ UNCHANGED <<logs, tables, manifests>>
         \/ DeleteObsoleteFiles(logs, manifests, vset', {}, pending', error)
  BY <1>1 DEF EndOfCompaction, memory, history
<1>4. Running /\ Running' /\ e \in EditType /\ EditInv(e, "install")
      /\ e.log = vset.log /\ DataIn(tables, e.del) \subseteq DataIn(tables, Added(e))
  BY <1>1, <1>3, CompactionFacts DEF Running
<1>5. e.log <= logNumber
  BY <1>4, RunningFacts
<1>6. ~error => Matches(e)
  BY <1>0, <1>1, <1>4 DEF ExactInv
<1>7. PICK kept : kept = pending' \union LiveFiles(vset'.files, {})
  OBVIOUS
<1>8. Collected(kept)
  BY <1>3, <1>7 DEF DeleteObsoleteFiles, MayCollect, Collected
<1>9. /\ NumbersOf(vset'.files) \subseteq kept
      /\ \A r \in Range(readers) : NumbersOf(r.files) \subseteq kept
  BY <1>7 DEF LiveFiles, Pinned
<1> QED  BY <1>2, <1>3, <1>4, <1>5, <1>6, <1>8, <1>9, EditInstalledFinds

-----------------------------------------------------------------------------
(* DB::Open. *)

\* Creating a database: there was none, so no write asked for anything.
LEMMA NewDBFinds ==
  ASSUME StoreInv, DurableInv, NewDB  PROVE FoundInv'
<1>1. phase = "down" /\ current = 0 /\ durable = {} /\ durable' = {}
  BY DEF NewDB, DurableInv, FoundInv, PrefixInv, history
<1> DEFINE edit == [add0 |-> {}, addDeep |-> {}, del |-> {}, log |-> 0, next |-> 2, seq |-> 0]
<1>2. /\ current' = 1 /\ manifests'[1].synced = 0 /\ OnDisk' = <<edit>> /\ phase' = phase
  BY DEF NewDB, With, File, Edit, OnDisk, EditsOf
<1>3. edit \in EditType /\ edit.add0 = {} /\ edit.addDeep = {} /\ edit.log = 0 /\ edit.next = 2
  BY DEF EditType, Numbers
<1> HIDE DEF edit
<1>4. Len(<<edit>>) = 1 /\ <<edit>> \in Seq(EditType) /\ <<edit>> # << >> /\ <<edit>>[1] = edit
  BY <1>3
<1>5. ASSUME NEW left \in 0 .. 1
      PROVE  Finds(tables', logs', SubSeq(<<edit>>, 1, left), {})
  <2>1. CASE left = 0
    <3>1. SubSeq(<<edit>>, 1, left) = << >>
      BY <2>1, SubSeqEmpty
    <3> QED  BY <3>1 DEF Finds
  <2>2. CASE left = 1
    <3>1. SubSeq(<<edit>>, 1, left) = <<edit>>
      BY <1>4, <2>2, SubSeqFull
    <3>2. NumbersOf(Replay(<<edit>>).files) = {}
      <4>1. Replay(<<edit>>).files = [l0 |-> edit.add0, deep |-> edit.addDeep]
        BY <1>3, ReplayOne
      <4> QED  BY <1>3, <4>1 DEF NumbersOf
    <3>3. Finds(tables', logs', <<edit>>, {})
      BY <1>4, <3>2 DEF Finds
    <3> QED  BY <3>1, <3>3
  <2> QED  BY <2>1, <2>2
<1>6. PrefixInv'
  BY <1>1, <1>2, <1>4, <1>5 DEF PrefixInv
<1>7. PlacesInv' /\ (durable \subseteq acked)'
  BY <1>1, <1>2 DEF PlacesInv, Running
<1> QED  BY <1>6, <1>7 DEF FoundInv

\* While the database is being opened the MANIFEST stays as it was.
LEMMA ReadsALogFinds ==
  ASSUME StoreInv, DurableInv, ReadsALog  PROVE FoundInv'
<1>1. PICK o, n, records, into : ReadsLog(o, n, records, into)
  BY SomeLogIsRead
<1>2. PICK gone : acked' = acked \ gone /\ durable' = durable \ gone
  BY <1>1 DEF ReadsLog, Forget
<1>3. UNCHANGED <<logs, manifests, current, phase>> /\ o \in opening
  BY <1>1 DEF ReadsLog
<1>4. /\ ~Running /\ current \in DOMAIN manifests /\ vset \in VsetType
      /\ Version.next \in Nat /\ Version.next <= vset.next /\ TablesType(tables)
  BY <1>3, OpeningFacts
<1>5. /\ DOMAIN tables' = DOMAIN tables \union NewTables(records, into)
      /\ \A m \in DOMAIN tables : m < vset.next => tables'[m] = tables[m]
  BY <1>1, LogReplayed
<1>6. \A m \in DOMAIN tables : m < Version.next => m \in DOMAIN tables' /\ tables'[m] = tables[m]
  BY <1>4, <1>5 DEF TablesType, VsetType
<1>7. PrefixInv'
  <2>1. durable' \subseteq durable
    BY <1>2
  <2>2. current # 0 => current \in DOMAIN manifests' /\ manifests'[current] = manifests[current]
    BY <1>3, <1>4
  <2>3. \A m \in DOMAIN tables : OnDisk # << >> /\ m < Version.next =>
          m \in DOMAIN tables' /\ tables[m] \subseteq tables'[m]
    BY <1>6
  <2>4. \A m \in DOMAIN logs : m \in DOMAIN logs' /\ SyncedIn(logs[m]) \subseteq SyncedIn(logs'[m])
    BY <1>3
  <2> QED  BY <1>3, <2>1, <2>2, <2>3, <2>4, PrefixKept
<1>8. PlacesInv' /\ (durable \subseteq acked)'
  <2>1. durable \subseteq acked
    BY DEF DurableInv, FoundInv
  <2> QED  BY <1>2, <1>3, <1>4, <2>1 DEF PlacesInv, Running
<1> QED  BY <1>7, <1>8 DEF FoundInv

LEMMA SaveManifestFinds ==
  ASSUME StoreInv, DurableInv, SaveManifest  PROVE FoundInv'
<1>1. PICK o \in opening :
        /\ o.step = "manifest"
        /\ manifests' = With(manifests, vset.manifest, WriteSnapshot(RecoveryEdit(o)))
  BY DEF SaveManifest
<1>2. UNCHANGED <<logs, tables, current, phase, acked, durable>>
  BY DEF SaveManifest, history
<1>3. ~Running /\ current \in DOMAIN manifests /\ vset \in VsetType /\ current \in Nat
  BY OpeningFacts DEF StoreInv, Types, DiskTypes
<1>4. vset.manifest # current
  <2>1. current < vset.manifest
    BY <1>1, OpeningState
  <2> QED  BY <1>3, <2>1
<1>5. current \in DOMAIN manifests' /\ manifests'[current] = manifests[current]
  BY <1>1, <1>3, <1>4 DEF With
<1>6. PrefixInv'
  BY <1>2, <1>5, PrefixKept
<1>7. PlacesInv' /\ (durable \subseteq acked)'
  BY <1>2, <1>3 DEF PlacesInv, Running, DurableInv, FoundInv
<1> QED  BY <1>6, <1>7 DEF FoundInv

\* The new MANIFEST is one synced record, which finds everything in tables.
LEMMA SetCurrentFileFinds ==
  ASSUME StoreInv, DurableInv, SetCurrentFile  PROVE FoundInv'
<1>0. OpeningInv /\ durable \subseteq acked
  BY DEF StoreInv, Inv, DurableInv, FoundInv
<1>1. PICK o \in opening : o.step = "current" /\ current' = vset.manifest
  BY DEF SetCurrentFile
<1>2. UNCHANGED <<logs, tables, manifests, phase, acked, durable>>
  BY DEF SetCurrentFile, history
<1>3. PICK e : e = RecoveryEdit(o)
  OBVIOUS
<1>4. /\ e \in EditType /\ e.del = {} /\ e.log = logNumber /\ e.next = vset.next
      /\ NumbersOf(Apply(vset.files, e)) \subseteq DOMAIN tables
      /\ acked \subseteq DataIn(tables, NumbersOf(Apply(vset.files, e)))
  BY <1>1, <1>3, RecoveryApplied
<1>5. /\ ~Running /\ o \in OpeningType /\ vset \in VsetType /\ vset.manifest # 0
      /\ logNumber \in Nat /\ current \in Nat
  BY OpeningFacts DEF StoreInv, Types, DiskTypes
<1>6. /\ vset.manifest < vset.next
      /\ manifests[vset.manifest] = WriteSnapshot(e)
  BY <1>0, <1>1, <1>3 DEF OpeningInv
<1>7. manifests[vset.manifest].synced = 1
  BY <1>6 DEF WriteSnapshot, File
<1>8. PICK s : s = [add0 |-> o.add \union vset.files.l0, addDeep |-> vset.files.deep,
                    del |-> {}, log |-> logNumber, next |-> vset.next, seq |-> vset.seq]
  OBVIOUS
<1>9. OnDisk' = <<s>>
  <2>1. OnDisk' = manifests[vset.manifest].records
    BY <1>1, <1>2, <1>5 DEF OnDisk, EditsOf
  <2> QED  BY <1>3, <1>5, <1>6, <1>8, <2>1, SnapshotType
<1>10. s \in EditType
  BY <1>5, <1>8 DEF OpeningType, EditType, VsetType, Layout, Numbers
<1>11. s.next = vset.next /\ s.log = logNumber /\ Apply(vset.files, e) = [l0 |-> s.add0, deep |-> s.addDeep]
  <2>1. /\ s.add0 = o.add \union vset.files.l0 /\ s.addDeep = vset.files.deep
        /\ s.log = logNumber /\ s.next = vset.next
    BY <1>8
  <2>2. e.add0 = o.add /\ e.addDeep = {}
    <3>1. e = [add0 |-> o.add, addDeep |-> {}, del |-> {},
               log |-> logNumber, next |-> vset.next, seq |-> vset.seq]
      BY <1>3 DEF RecoveryEdit, Completed, Edit
    <3> QED  BY <3>1
  <2> QED  BY <1>4, <2>1, <2>2 DEF Apply
<1>12. Len(<<s>>) = 1 /\ <<s>> \in Seq(EditType) /\ <<s>> # << >> /\ <<s>>[1] = s
  BY <1>10
<1>13. Finds(tables, logs, <<s>>, durable)
  <2>1. Replay(<<s>>).files = Apply(vset.files, e)
    BY <1>10, <1>11, ReplayOne
  <2>2. durable \subseteq DataIn(tables, NumbersOf(Apply(vset.files, e)))
    BY <1>0, <1>4
  <2> QED  BY <1>4, <1>12, <2>1, <2>2 DEF Finds
<1>14. PrefixInv'
  <2>1. ASSUME NEW left \in 1 .. 1
        PROVE  Finds(tables, logs, SubSeq(<<s>>, 1, left), durable)
    <3>1. left = Len(<<s>>)
      BY <1>12
    <3> QED  BY <1>12, <1>13, <3>1, SubSeqFull
  <2> QED  BY <1>1, <1>2, <1>5, <1>7, <1>9, <1>12, <2>1 DEF PrefixInv
<1>15. PlacesInv' /\ (durable \subseteq acked)'
  BY <1>0, <1>2, <1>5 DEF PlacesInv, Running
<1> QED  BY <1>14, <1>15 DEF FoundInv

\* The database is open: the MANIFEST is new and synced, and everything is in tables.
LEMMA OpenDoneFinds ==
  ASSUME StoreInv, DurableInv, OpenDone  PROVE FoundInv'
<1>0. OpeningInv /\ FreshManifestInv /\ durable \subseteq acked /\ PrefixInv
  BY DEF StoreInv, Inv, DurableInv, FoundInv
<1>1. PICK o \in opening :
        o.step = "done" /\ DeleteObsoleteFiles(logs, manifests, vset, {}, pending, error)
  BY DEF OpenDone
<1>2. UNCHANGED <<current, mem, imm, logNumber, vset, acked, durable>>
  BY DEF OpenDone, memory, history
<1>3. /\ vset \in VsetType /\ LogsType(logs) /\ logNumber \in Nat
      /\ current # 0 /\ current \in DOMAIN manifests /\ current \in Nat
      /\ OnDisk \in Seq(EditType) /\ OnDisk # << >>
      /\ NumbersOf(vset.files) \subseteq DOMAIN tables
      /\ (logNumber # 0 => logNumber \in DOMAIN logs /\ vset.log <= logNumber)
      /\ imm = {} /\ readers = << >> /\ pending = {} /\ ~error
  BY OpeningFacts DEF StoreInv, Types, DiskTypes
<1>4. /\ logNumber # 0
      /\ acked \subseteq DataIn(tables, NumbersOf(vset.files)) \union DataIn(tables, o.add)
      /\ Version.files = vset.files /\ Version.log = vset.log
  BY <1>1, OpeningState
<1>5. /\ vset.manifest = current
      /\ DataIn(tables, o.add) \subseteq DataIn(tables, NumbersOf(vset.files))
      /\ manifests[current].synced = 1 /\ Len(manifests[current].records) = 1
  BY <1>0, <1>1 DEF OpeningInv, FreshManifestInv
<1>6. Range(readers) = {} /\ LiveFiles(vset.files, {}) = NumbersOf(vset.files)
  BY <1>3 DEF Range, LiveFiles, Pinned
<1>7. /\ tables' = Keep(tables, NumbersOf(vset.files))
      /\ manifests' = Keep(manifests, {n \in DOMAIN manifests : n >= vset.manifest})
  BY <1>1, <1>3, <1>6 DEF DeleteObsoleteFiles, MayCollect
<1>8. /\ NumbersOf(vset.files) \subseteq DOMAIN tables'
      /\ \A n \in NumbersOf(vset.files) : tables'[n] = tables[n]
  BY <1>3, <1>7 DEF Keep
<1>9. DataIn(tables', NumbersOf(vset.files)) = DataIn(tables, NumbersOf(vset.files))
  BY <1>8, DataSame
<1>10. durable \subseteq DataIn(tables', NumbersOf(vset.files))
  BY <1>0, <1>4, <1>5, <1>9
<1>11. current \in DOMAIN manifests' /\ manifests'[current] = manifests[current]
  BY <1>3, <1>5, <1>7 DEF Keep, VsetType
<1>12. OnDisk' = OnDisk /\ Len(OnDisk) = 1 /\ DOMAIN OnDisk = {1}
  <2>1. OnDisk' = OnDisk /\ Len(OnDisk) = 1
    BY <1>2, <1>3, <1>5, <1>11 DEF OnDisk, EditsOf
  <2> QED  BY <1>3, <2>1, LenProperties
<1>13. OnDisk[1].log <= logNumber
  <2>1. OnDisk[1].log = Version.log
    BY <1>12 DEF Version, Replay, Last
  <2> QED  BY <1>3, <1>4, <2>1
<1>14. PrefixInv'
  <2>1. Finds(tables', logs', OnDisk, durable)
    BY <1>3, <1>4, <1>8, <1>10 DEF Finds, Version
  <2>2. SubSeq(OnDisk, 1, 1) = OnDisk
    BY <1>3, <1>12, SubSeqFull
  <2>3. \A left \in 1 .. 1 : left = 1
    OBVIOUS
  <2>4. manifests'[current].synced = 1
    BY <1>5, <1>11
  <2> QED  BY <1>2, <1>3, <1>12, <2>1, <2>2, <2>3, <2>4 DEF PrefixInv
<1>15. PlacesInv'
  <2>1. manifests'[current].synced = 1
    BY <1>5, <1>11
  <2> QED  BY <1>2, <1>10, <1>12, <1>13, <2>1 DEF PlacesInv
<1> QED  BY <1>0, <1>2, <1>14, <1>15 DEF FoundInv

-----------------------------------------------------------------------------
(* A loss of power. *)

LEMMA LosePowerFinds ==
  ASSUME StoreInv, DurableInv, LosePower  PROVE FoundInv'
<1>0. /\ PrefixInv /\ durable \subseteq acked
      /\ LogsType(logs) /\ ManifestsType(manifests) /\ OnDisk \in Seq(EditType)
      /\ (current # 0 => current \in DOMAIN manifests)
  BY OnDiskFacts DEF DurableInv, FoundInv, StoreInv, Types, DiskTypes, Inv, DiskInv
<1>1. /\ logs' \in Truncated(logs) /\ manifests' \in Truncated(manifests)
      /\ acked' = acked \intersect Recovered(logs', EditsOf(manifests'))
      /\ UNCHANGED <<tables, current, durable>> /\ phase' = "down"
  BY DEF LosePower, ProcessEnds
<1>2. \A n \in DOMAIN logs :
        /\ n \in DOMAIN logs' /\ SyncedIn(logs[n]) \subseteq SyncedIn(logs'[n])
        /\ SyncedIn(logs'[n]) \subseteq WritesIn(logs'[n])
  <2>1. \A n \in DOMAIN logs : n \in DOMAIN logs' /\ logs'[n] \in Truncations(logs[n])
    BY <1>1 DEF Truncated
  <2>2. \A n \in DOMAIN logs : logs[n] \in LogType /\ logs[n].synced <= Len(logs[n].records)
    BY <1>0 DEF LogsType
  <2> QED  BY <2>1, <2>2, SyncedSurvives
<1>3. DOMAIN logs' = DOMAIN logs
  BY <1>1 DEF Truncated
<1>4. CASE current = 0
  <2>1. durable = {} /\ OnDisk' = << >> /\ current' = 0
    BY <1>0, <1>1, <1>4 DEF PrefixInv, OnDisk, EditsOf
  <2>2. PrefixInv' /\ (durable \subseteq acked)'
    BY <1>1, <2>1 DEF PrefixInv
  <2> QED  BY <1>1, <2>2 DEF FoundInv, PlacesInv, Running
<1>5. CASE current # 0
  <2>1. OnDisk = manifests[current].records
    BY <1>5 DEF OnDisk, EditsOf
  <2>2. PICK left \in manifests[current].synced .. Len(OnDisk) :
          manifests'[current] = Cut(manifests[current], left)
    <3>1. manifests'[current] \in Truncations(manifests[current])
      BY <1>0, <1>1, <1>5 DEF Truncated
    <3> QED  BY <2>1, <3>1 DEF Truncations
  <2>3. PICK part : part = SubSeq(OnDisk, 1, left)
    OBVIOUS
  <2>4. left \in 0 .. Len(OnDisk) /\ left \in Nat /\ Len(OnDisk) \in Nat
    <3>1. manifests[current].synced \in Nat /\ Len(OnDisk) \in Nat
      BY <1>0, <1>5, LenProperties DEF ManifestsType, ManifestType
    <3> QED  BY <3>1
  <2>5. /\ manifests'[current].records = part /\ manifests'[current].synced = left
        /\ part \in Seq(EditType) /\ Len(part) = left
    <3>1. PICK file : file = manifests[current]
      OBVIOUS
    <3>2. file \in [records : Seq(EditType), synced : Nat, torn : Nat]
      BY <1>0, <1>5, <3>1 DEF ManifestsType, ManifestType
    <3>3. left <= Len(file.records)
      BY <2>1, <2>4, <3>1
    <3>4. /\ Cut(file, left) \in [records : Seq(EditType), synced : Nat, torn : Nat]
          /\ Cut(file, left).records = SubSeq(file.records, 1, left)
          /\ Cut(file, left).synced = left /\ Len(Cut(file, left).records) = left
      BY <2>4, <3>2, <3>3, CutFile
    <3> QED  BY <2>1, <2>2, <2>3, <3>1, <3>4
  <2>6. OnDisk' = part /\ EditsOf(manifests') = part /\ EditsOf(manifests)' = part
    BY <1>1, <1>5, <2>5 DEF OnDisk, EditsOf
  <2>7. Finds(tables, logs', part, durable)
    <3>1. Finds(tables, logs, part, durable)
      BY <1>0, <1>5, <2>2, <2>3 DEF PrefixInv
    <3>2. SyncedFrom(logs, Replay(part).log) \subseteq SyncedFrom(logs', Replay(part).log)
      BY <1>2, SyncedFromGrows
    <3> QED  BY <3>1, <3>2, FindsMore
  <2>8. PrefixInv'
    <3>1. SubSeq(part, 1, left) = part
      BY <2>5, SubSeqFull
    <3>2. \A k \in left .. left : k = left
      BY <2>4
    <3> QED  BY <1>1, <1>5, <2>5, <2>6, <2>7, <3>1, <3>2 DEF PrefixInv
  <2>9. durable \subseteq Recovered(logs', part)
    <3>1. CASE part = << >>
      BY <2>7, <3>1 DEF Finds
    <3>2. CASE part # << >>
      <4>1. PICK k : k = Replay(part).log
        OBVIOUS
      <4>2. /\ NumbersOf(Replay(part).files) \subseteq DOMAIN tables
            /\ durable \subseteq DataIn(tables, NumbersOf(Replay(part).files))
                                   \union SyncedFrom(logs', k)
        BY <2>7, <3>2, <4>1 DEF Finds
      <4>3. SyncedFrom(logs', k) \subseteq LogsFrom(logs', k)
        BY <1>2, <1>3 DEF SyncedFrom, LogsFrom
      <4>4. durable \subseteq DataIn(tables, NumbersOf(Replay(part).files))
                                \union LogsFrom(logs', k)
        BY <4>2, <4>3
      <4> QED  BY <3>2, <4>1, <4>2, <4>4 DEF Recovered, DataIn, LogsFrom
    <3> QED  BY <3>1, <3>2
  <2>10. (durable \subseteq acked)'
    BY <1>0, <1>1, <2>6, <2>9
  <2> QED  BY <1>1, <2>8, <2>10 DEF FoundInv, PlacesInv, Running
<1> QED  BY <1>4, <1>5

LEMMA FoundKept ==
  ASSUME StoreInv, DurableInv, Next  PROVE FoundInv'
<1>1. CASE \/ \E sync \in BOOLEAN : Enqueue(sync, FALSE)
           \/ TEST_CompactMemTable \/ AskManual \/ CancelManual \/ Pin \/ Unpin
           \/ StartClose \/ Closed \/ Exit
  BY <1>1, QuietIdle, QuietStep
<1>2. CASE Writer
  BY <1>2, QuietIdle, QuietLogs, QuietStep, SwitchMemtableFinds, InsertIntoFinds DEF Writer
<1>3. CASE Background
  BY <1>3, QuietIdle, QuietBuildTable, QuietOutput, QuietMerge, QuietAbandon, QuietStep,
     LogFlushFinds, LogFlushFailsFinds, LogCompactionFinds, LogCompactionFailsFinds,
     InstallFlushFinds, InstallCompactionFinds DEF Background
<1>4. CASE Open
  BY <1>4, QuietIdle, QuietOpenLog, QuietStep, NewDBFinds, ReadsALogFinds, SaveManifestFinds,
     SetCurrentFileFinds, OpenDoneFinds DEF Open, ReadsALog
<1>5. CASE LosePower
  BY <1>5, LosePowerFinds
<1> QED  BY <1>1, <1>2, <1>3, <1>4, <1>5 DEF Next

-----------------------------------------------------------------------------
(* The group that is being written. *)

\* A group takes nobody along who asked for sync if its first writer did not.
LEMMA GroupBegins ==
  ASSUME StoreInv, BeginWrite
  PROVE  GroupInv'
<1>0. queue \in Seq(WriterType) /\ vset \in VsetType
  BY DEF StoreInv, Types, ProcessTypes
<1>1. PICK size \in 1 .. Len(queue) :
        /\ \A i \in 1 .. size : Joins(i)
        /\ LET batches == {i \in 1 .. size : ~queue[i].force}
               count == Cardinality(batches)
           IN  writing' = {[size |-> size, step |-> "append",
                            writes |-> vset.seq + 1 .. vset.seq + count,
                            sync |-> queue[1].sync,
                            syncs |-> {vset.seq + Cardinality({j \in batches : j <= i}) :
                                         i \in {j \in batches : queue[j].sync}}]}
  BY DEF BeginWrite
<1> DEFINE batches == {i \in 1 .. size : ~queue[i].force}
           upto(i) == Cardinality({j \in batches : j <= i})
           count   == Cardinality(batches)
           writes  == vset.seq + 1 .. vset.seq + count
           syncs   == {vset.seq + upto(i) : i \in {j \in batches : queue[j].sync}}
<1>2. size \in Nat /\ vset.seq \in Nat
  BY <1>0, LenProperties DEF VsetType
<1>3. IsFiniteSet(batches) /\ count \in Nat
  <2>1. IsFiniteSet(1 .. size)
    BY <1>2, FS_Interval
  <2>2. batches \in SUBSET (1 .. size)
    OBVIOUS
  <2> HIDE DEF batches
  <2> QED  BY <2>1, <2>2, FS_Subset, FS_CardinalityType
<1>4. \A i \in batches : upto(i) \in 1 .. count
  <2> TAKE i \in batches
  <2> DEFINE before == {j \in batches : j <= i}
  <2>1. before \in SUBSET batches /\ i \in before
    BY <1>2
  <2> HIDE DEF batches, before
  <2>2. IsFiniteSet(before) /\ Cardinality(before) <= count /\ Cardinality(before) \in Nat
    BY <1>3, <2>1, FS_Subset, FS_CardinalityType
  <2>3. Cardinality(before) # 0
    BY <2>1, <2>2, FS_EmptySet
  <2>4. Cardinality(before) \in 1 .. count
    BY <1>3, <2>2, <2>3
  <2> QED  BY <2>4 DEF before
<1>5. syncs \subseteq writes
  <2> HIDE DEF upto, count, batches
  <2> QED  BY <1>2, <1>3, <1>4
<1>6. syncs # {} => queue[1].sync
  <2>1. \A i \in batches : queue[i].sync => queue[1].sync
    BY <1>1 DEF Joins
  <2> HIDE DEF upto, batches
  <2> QED  BY <2>1
<1>7. writing' = {[size |-> size, step |-> "append", writes |-> writes,
                   sync |-> queue[1].sync, syncs |-> syncs]}
  BY <1>1
<1> HIDE DEF writes, syncs
<1>8. PICK g : g = [size |-> size, step |-> "append", writes |-> writes,
                    sync |-> queue[1].sync, syncs |-> syncs]
  OBVIOUS
<1>9. /\ writing' = {g} /\ g.step = "append" /\ g.syncs = syncs /\ g.writes = writes
      /\ g.sync = queue[1].sync
  BY <1>7, <1>8
<1>10. g.syncs \subseteq g.writes /\ (g.syncs # {} => g.sync)
  BY <1>5, <1>6, <1>9
<1> QED  BY <1>9, <1>10 DEF GroupInv

\* SyncLog syncs the record of the group along with those before it.
LEMMA GroupSynced ==
  ASSUME StoreInv, DurableInv, AppendRecord \/ SyncLog
  PROVE  GroupInv'
<1>1. PICK w \in writing :
        \/ /\ w.step = "append"
           /\ writing' = {[w EXCEPT !.step = IF w.sync THEN "sync" ELSE "insert"]}
        \/ /\ w.step = "sync"
           /\ logs' = [logs EXCEPT ![logNumber].synced = Len(logs[logNumber].records)]
           /\ writing' = {[w EXCEPT !.step = "insert"]}
  BY DEF AppendRecord, SyncLog
<1>2. /\ Running /\ w \in WritingType /\ LogsType(logs) /\ logNumber \in DOMAIN logs
      /\ w.step # "append" => w.writes \subseteq WritesIn(logs[logNumber])
  BY GroupFacts, RunningFacts
<1>3. w.syncs \subseteq w.writes /\ (w.syncs # {} => w.sync) /\ w.sync \in BOOLEAN
  BY <1>2 DEF DurableInv, GroupInv, WritingType
<1>4. logNumber' = logNumber
  BY DEF AppendRecord, SyncLog, memory
<1>5. CASE w.step = "append"
  <2>1. PICK g : g = [w EXCEPT !.step = IF w.sync THEN "sync" ELSE "insert"]
    OBVIOUS
  <2>2. /\ writing' = {g} /\ g.syncs = w.syncs /\ g.writes = w.writes /\ g.sync = w.sync
        /\ g.step = IF w.sync THEN "sync" ELSE "insert"
    BY <1>1, <1>2, <1>5, <2>1 DEF WritingType
  <2>3. ~(g.sync /\ g.step = "insert")
    BY <2>2
  <2>4. g.syncs \subseteq g.writes /\ (g.syncs # {} => g.sync)
    BY <1>3, <2>2
  <2> QED  BY <2>2, <2>3, <2>4 DEF GroupInv
<1>6. CASE w.step = "sync"
  <2>1. PICK g : g = [w EXCEPT !.step = "insert"]
    OBVIOUS
  <2>2. writing' = {g} /\ g.syncs = w.syncs /\ g.writes = w.writes /\ g.sync = w.sync
    BY <1>1, <1>2, <1>6, <2>1 DEF WritingType
  <2>3. PICK file : file = logs'[logNumber]
    OBVIOUS
  <2>4. file = [logs[logNumber] EXCEPT !.synced = Len(logs[logNumber].records)]
    BY <1>1, <1>2, <1>6, <2>3
  <2>5. /\ logs[logNumber] \in LogType
        /\ logs[logNumber].synced <= Len(logs[logNumber].records)
    BY <1>2 DEF LogsType
  <2>6. /\ file \in LogType /\ file.records = logs[logNumber].records
        /\ file.synced = Len(logs[logNumber].records)
    BY <2>4, <2>5, LenProperties DEF LogType
  <2>7. SyncedIn(file) = WritesIn(logs[logNumber])
    BY <2>5, <2>6, AllSynced
  <2>8. g.writes \subseteq SyncedIn(logs'[logNumber])
    BY <1>2, <1>6, <2>2, <2>3, <2>7
  <2>9. g.syncs \subseteq g.writes /\ (g.syncs # {} => g.sync)
    BY <1>3, <2>2
  <2> QED  BY <1>4, <2>2, <2>8, <2>9 DEF GroupInv
<1> QED  BY <1>1, <1>5, <1>6

LEMMA GroupStays ==
  ASSUME GroupInv, writing' = writing,
         writing # {} => /\ logNumber' = logNumber
                         /\ SyncedIn(logs[logNumber]) \subseteq SyncedIn(logs'[logNumber])
  PROVE  GroupInv'
<1>1. \A w \in writing :
        /\ w.syncs \subseteq w.writes
        /\ w.syncs # {} => w.sync
        /\ w.sync /\ w.step = "insert" => w.writes \subseteq SyncedIn(logs'[logNumber])
  BY DEF GroupInv
<1>2. \A w \in writing : logNumber' = logNumber
  OBVIOUS
<1> QED  BY <1>1, <1>2 DEF GroupInv

\* The log of the memtable is not deleted when an edit is installed.
LEMMA GroupInstalled ==
  ASSUME StoreInv, DurableInv, InstallFlush \/ InstallCompaction
  PROVE  GroupInv'
<1>1. UNCHANGED <<writing, logNumber>>
  BY DEF InstallFlush, InstallCompaction, EndOfCompaction, memory
<1>2. PICK e, kept, vs : e \in EditType /\ vs = Installed(e) /\ e.log <= logNumber
                         /\ \/ logs' = logs
                            \/ logs' = Keep(logs, {n \in DOMAIN logs : n >= vs.log})
  <2>1. CASE InstallFlush
    <3>1. PICK f \in flush : \E edit \in f.edit :
            /\ vset' = Installed(edit)
            /\ DeleteObsoleteFiles(logs, manifests, vset', compaction, pending, error)
      BY <2>1 DEF InstallFlush
    <3>2. PICK e \in f.edit : vset' = Installed(e)
      BY <3>1
    <3>3. e \in EditType /\ e.log = logNumber /\ logNumber \in Nat
      BY FlushEdit, FlushFacts, RunningFacts
    <3>4. logs' = logs \/ logs' = Keep(logs, {n \in DOMAIN logs : n >= vset'.log})
      BY <3>1 DEF DeleteObsoleteFiles
    <3>5. e.log <= logNumber
      BY <3>3
    <3> QED  BY <3>2, <3>3, <3>4, <3>5
  <2>2. CASE InstallCompaction
    <3>1. PICK c \in compaction : \E edit \in c.edit :
            /\ vset' = Installed(edit) /\ EndOfCompaction(c, manifests, vset')
      BY <2>2 DEF InstallCompaction
    <3>2. PICK e \in c.edit : vset' = Installed(e)
      BY <3>1
    <3>3. e \in EditType /\ e.log = vset.log /\ vset.log <= logNumber
      BY CompactionFacts, RunningFacts
    <3>4. logs' = logs \/ logs' = Keep(logs, {n \in DOMAIN logs : n >= vset'.log})
      BY <3>1 DEF EndOfCompaction, DeleteObsoleteFiles
    <3> QED  BY <3>2, <3>3, <3>4
  <2> QED  BY <2>1, <2>2
<1>3. ASSUME writing # {}
      PROVE  SyncedIn(logs[logNumber]) \subseteq SyncedIn(logs'[logNumber])
  <2>1. logNumber \in DOMAIN logs /\ logNumber \in Nat /\ vset \in VsetType
    BY <1>3, GroupFacts, RunningFacts
  <2>2. vs.log = e.log
    BY <1>2, <2>1 DEF Installed, VsetType
  <2>3. logs'[logNumber] = logs[logNumber]
    BY <1>2, <2>1, <2>2 DEF Keep, EditType
  <2> QED  BY <2>3
<1> QED  BY <1>1, <1>3, GroupStays DEF DurableInv

LEMMA GroupKept ==
  ASSUME StoreInv, DurableInv, Next  PROVE GroupInv'
<1>1. CASE writing' = {}
  BY <1>1 DEF GroupInv
<1>2. CASE UNCHANGED <<logs, logNumber, writing>>
  BY <1>2, GroupStays DEF DurableInv
<1>3. CASE \/ (\E sync \in BOOLEAN : Enqueue(sync, FALSE)) \/ TEST_CompactMemTable
           \/ AskManual \/ CancelManual \/ Pin \/ Unpin \/ StartClose
  <2>1. UNCHANGED <<logs, logNumber, writing>>
    BY <1>3 DEF Enqueue, TEST_CompactMemTable, AskManual, CancelManual, Pin, Unpin, StartClose,
       disk, memory
  <2> QED  BY <1>2, <2>1
<1>4. CASE Closed \/ Exit \/ LosePower
  BY <1>1, <1>4 DEF Closed, Exit, LosePower, ProcessEnds
<1>5. CASE Writer
  <2>1. CASE Yield \/ SwitchFails
    BY <1>2, <2>1 DEF Yield, SwitchFails, disk, memory
  <2>2. CASE SwitchMemtable
    BY <1>1, <2>2 DEF SwitchMemtable, AtFront
  <2>3. CASE InsertInto \/ AppendFails \/ SyncFails
    BY <1>1, <2>3 DEF InsertInto, AppendFails, SyncFails, EndOfGroup
  <2> QED  BY <1>5, <2>1, <2>2, <2>3, GroupBegins, GroupSynced DEF Writer
<1>6. CASE Background
  <2>1. CASE NullManual
    BY <1>1, <2>1 DEF NullManual, ProcessEnds
  <2>2. CASE \/ NothingToDo \/ StartFlush \/ BuildTableFails
             \/ LogFlush \/ LogFlushFails \/ StartCompaction \/ StartMove \/ NothingInRange
             \/ OpenOutput
    <3>1. UNCHANGED <<logs, logNumber, writing>>
      BY <2>2 DEF NothingToDo, StartFlush, BuildTableFails, LogFlush, LogFlushFails,
         StartCompaction, StartMove, NothingInRange, OpenOutput, disk, memory
    <3> QED  BY <1>2, <3>1
  <2>3. CASE BuildTable
    BY <1>2, <2>3 DEF BuildTable, memory
  <2>4. CASE FinishOutput
    BY <1>2, <2>4 DEF FinishOutput, memory
  <2>5. CASE LogCompaction
    BY <1>2, <2>5 DEF LogCompaction, memory
  <2>6. CASE LogCompactionFails \/ AbandonMerge
    <3>1. error' /\ \E c, mfs : EndOfCompaction(c, mfs, vset)
      BY <2>6 DEF LogCompactionFails, AbandonMerge, RecordBackgroundError
    <3>2. UNCHANGED <<logs, logNumber, writing>>
      BY <3>1, FailedEnd
    <3> QED  BY <1>2, <3>2
  <2> QED  BY <1>6, <2>1, <2>2, <2>3, <2>4, <2>5, <2>6, GroupInstalled DEF Background
<1>7. CASE Open
  <2>1. phase \in {"down", "opening"} /\ UNCHANGED writing
    <3>1. CASE NewDB \/ RecoverVersions
      BY <3>1 DEF NewDB, RecoverVersions
    <3>2. CASE RecoverLogFile \/ ReadLogFails
      BY <3>2, OpeningFacts DEF RecoverLogFile, ReadLogFails
    <3>3. CASE OpenLog \/ SaveManifest \/ SetCurrentFile \/ OpenDone
      BY <3>3, OpeningFacts DEF OpenLog, SaveManifest, SetCurrentFile, OpenDone
    <3> QED  BY <1>7, <3>1, <3>2, <3>3 DEF Open
  <2>2. writing = {}
    BY <2>1 DEF StoreInv, Inv, PhaseInv, Running
  <2> QED  BY <1>1, <2>1, <2>2
<1> QED  BY <1>3, <1>4, <1>5, <1>6, <1>7 DEF Next

-----------------------------------------------------------------------------
(* The output of a merge. *)

LEMMA MergeStays ==
  ASSUME MergeInv,
         \A d \in compaction' : d.step = "merge" =>
           \E c \in compaction : /\ c.step = "merge" /\ d.out = c.out
                                 /\ \A n \in c.out : tables'[n] = tables[n]
  PROVE  MergeInv'
BY DEF MergeInv

\* When a memtable is written out meanwhile, the output stays as it is.
LEMMA MergeDuringFlush ==
  ASSUME StoreInv, DurableInv, StartFlush \/ BuildTable \/ InstallFlush
  PROVE  MergeInv'
<1>0. MergeInv
  BY DEF DurableInv
<1>1. \A c \in compaction : /\ c \in CompactionType /\ compaction = {c}
                            /\ c.out \subseteq DOMAIN tables /\ c.out \subseteq pending
  BY CompactionFacts
<1>2. CASE StartFlush
  <2>1. tables' = tables
    BY <1>2 DEF StartFlush, disk
  <2>2. \/ compaction' = compaction
        \/ \E c \in compaction : compaction' = {[c EXCEPT !.flushes = @ + 1]}
    BY <1>2 DEF StartFlush
  <2>3. ASSUME NEW c \in compaction, compaction' = {[c EXCEPT !.flushes = @ + 1]}
        PROVE  \A d \in compaction' : d.step = c.step /\ d.out = c.out
    BY <1>1, <2>3 DEF CompactionType
  <2> QED  BY <1>0, <2>1, <2>2, <2>3, MergeStays
<1>3. CASE BuildTable
  <2>1. PICK f \in flush :
          /\ f.step = "build"
          /\ tables' = IF UNION imm = {} THEN tables ELSE With(tables, f.number, UNION imm)
    BY <1>3 DEF BuildTable
  <2>2. compaction' = compaction
    BY <1>3 DEF BuildTable
  <2>3. \A c \in compaction : f.number \notin c.out
    BY FlushFacts
  <2>4. \A c \in compaction : \A n \in c.out : tables'[n] = tables[n]
    BY <1>1, <2>1, <2>3 DEF With
  <2> QED  BY <1>0, <2>2, <2>4, MergeStays
<1>4. CASE InstallFlush
  <2>1. DeleteObsoleteFiles(logs, manifests, vset', compaction, pending, error)
    BY <1>4 DEF InstallFlush
  <2>2. compaction' = compaction
    BY <1>4 DEF InstallFlush
  <2>3. \A n \in DOMAIN tables : n \in pending => tables'[n] = tables[n]
    BY <2>1 DEF DeleteObsoleteFiles, Keep
  <2> QED  BY <1>0, <1>1, <2>2, <2>3, MergeStays
<1> QED  BY <1>2, <1>3, <1>4

LEMMA MergeKept ==
  ASSUME StoreInv, DurableInv, Next  PROVE MergeInv'
<1>0. MergeInv
  BY DEF DurableInv
<1>1. CASE \A d \in compaction' : d.step # "merge" \/ d.out = {}
  BY <1>1 DEF MergeInv
<1>2. CASE UNCHANGED <<tables, compaction>>
  BY <1>0, <1>2, MergeStays
<1>3. CASE \/ (\E sync \in BOOLEAN : Enqueue(sync, FALSE)) \/ TEST_CompactMemTable
           \/ AskManual \/ CancelManual \/ Pin \/ Unpin \/ StartClose
  <2>1. UNCHANGED <<tables, compaction>>
    BY <1>3 DEF Enqueue, TEST_CompactMemTable, AskManual, CancelManual, Pin, Unpin, StartClose, disk
  <2> QED  BY <1>2, <2>1
<1>4. CASE Closed \/ Exit \/ LosePower
  BY <1>1, <1>4 DEF Closed, Exit, LosePower, ProcessEnds
<1>5. CASE Writer
  <2>1. UNCHANGED <<tables, compaction>>
    BY <1>5 DEF Writer, Yield, SwitchMemtable, SwitchFails, BeginWrite, AppendRecord, SyncLog,
       InsertInto, AppendFails, SyncFails, disk
  <2> QED  BY <1>2, <2>1
<1>6. CASE Background
  <2>1. CASE NullManual
    BY <1>1, <2>1 DEF NullManual, ProcessEnds
  <2>2. CASE NothingToDo \/ BuildTableFails \/ LogFlush \/ LogFlushFails \/ NothingInRange
    <3>1. UNCHANGED <<tables, compaction>>
      BY <2>2 DEF NothingToDo, BuildTableFails, LogFlush, LogFlushFails, NothingInRange, disk
    <3> QED  BY <1>2, <3>1
  <2>3. CASE StartCompaction
    <3>1. \A d \in compaction' : d.out = {}
      BY <2>3 DEF StartCompaction
    <3> QED  BY <1>1, <3>1
  <2>4. CASE StartMove
    <3>1. \A d \in compaction' : d.out = {}
      BY <2>4 DEF StartMove
    <3> QED  BY <1>1, <3>1
  <2>5. CASE OpenOutput
    <3>1. PICK c \in compaction : compaction' = {[c EXCEPT !.out = {vset.next}]}
      BY <2>5 DEF OpenOutput
    <3>2. tables' = With(tables, vset.next, {})
      BY <2>5 DEF OpenOutput
    <3>3. c \in CompactionType
      BY CompactionFacts
    <3>4. \A d \in compaction' : d.out = {vset.next}
      BY <3>1, <3>3 DEF CompactionType
    <3>5. tables'[vset.next] = {}
      BY <3>2 DEF With
    <3>6. vset' = [vset EXCEPT !.next = @ + 1]
      BY <2>5 DEF OpenOutput
    <3> QED  BY <3>4, <3>5 DEF MergeInv
  <2>6. CASE FinishOutput \/ LogCompaction
    <3>1. PICK c \in compaction, to \in {"log", "install"} :
            \/ compaction' = {[c EXCEPT !.step = to]}
            \/ \E e : compaction' = {[c EXCEPT !.step = to, !.edit = e]}
      BY <2>6 DEF FinishOutput, LogCompaction
    <3>2. c \in CompactionType
      BY CompactionFacts
    <3>3. \A d \in compaction' : d.step = to
      BY <3>1, <3>2 DEF CompactionType
    <3> QED  BY <1>1, <3>3
  <2>7. CASE InstallCompaction \/ LogCompactionFails \/ AbandonMerge
    <3>1. compaction' = {}
      BY <2>7 DEF InstallCompaction, LogCompactionFails, AbandonMerge, EndOfCompaction
    <3> QED  BY <1>1, <3>1
  <2> QED  BY <1>6, <2>1, <2>2, <2>3, <2>4, <2>5, <2>6, <2>7, MergeDuringFlush DEF Background
<1>7. CASE Open
  <2>1. phase \in {"down", "opening"} /\ UNCHANGED compaction
    <3>1. CASE NewDB \/ RecoverVersions
      BY <3>1 DEF NewDB, RecoverVersions
    <3>2. CASE RecoverLogFile \/ ReadLogFails
      BY <3>2, OpeningFacts DEF RecoverLogFile, ReadLogFails
    <3>3. CASE OpenLog \/ SaveManifest \/ SetCurrentFile \/ OpenDone
      BY <3>3, OpeningFacts DEF OpenLog, SaveManifest, SetCurrentFile, OpenDone
    <3> QED  BY <1>7, <3>1, <3>2, <3>3 DEF Open
  <2>2. compaction' = {}
    BY <2>1 DEF StoreInv, Inv, PhaseInv, Running
  <2> QED  BY <1>1, <2>2
<1> QED  BY <1>3, <1>4, <1>5, <1>6, <1>7 DEF Next

-----------------------------------------------------------------------------
(* The MANIFEST that a recovery writes. *)

LEMMA SetCurrentFileFresh ==
  ASSUME StoreInv, DurableInv, SetCurrentFile
  PROVE  FreshManifestInv'
<1>0. OpeningInv
  BY DEF StoreInv, Inv
<1>1. PICK o \in opening : o.step = "current" /\ vset' = Installed(RecoveryEdit(o))
  BY DEF SetCurrentFile
<1>2. manifests' = manifests
  BY DEF SetCurrentFile
<1>3. o \in OpeningType /\ vset \in VsetType /\ logNumber \in Nat
  BY <1>1, OpeningFacts
<1>4. manifests[vset.manifest] = WriteSnapshot(RecoveryEdit(o))
  BY <1>0, <1>1 DEF OpeningInv
<1>5. PICK e : manifests[vset.manifest].records = <<e>>
  BY <1>3, <1>4, SnapshotType
<1>6. Len(<<e>>) = 1
  OBVIOUS
<1>7. manifests[vset.manifest].synced = 1
  BY <1>4 DEF WriteSnapshot, File
<1>8. vset'.manifest = vset.manifest
  BY <1>1, <1>3 DEF Installed, VsetType
<1> QED  BY <1>2, <1>5, <1>6, <1>7, <1>8 DEF FreshManifestInv

\* No other step of a recovery comes to an end with it.
LEMMA NotYetFresh ==
  ASSUME StoreInv, RecoverVersions \/ ReadsALog \/ OpenLog \/ SaveManifest
  PROVE  FreshManifestInv'
<1>1. \A o \in opening : o \in OpeningType
  BY OpeningFacts
<1>2. CASE RecoverVersions
  <2>1. phase = "down"
    BY <1>2 DEF RecoverVersions
  <2>2. opening = {}
    BY <2>1 DEF StoreInv, Inv, PhaseInv
  <2>3. \A o \in opening' : o.step = "logs"
    BY <1>2, <2>2 DEF RecoverVersions
  <2> QED  BY <2>3 DEF FreshManifestInv
<1>3. CASE ReadsALog
  <2>1. PICK o, n, records, into : ReadsLog(o, n, records, into)
    BY <1>3, SomeLogIsRead
  <2>2. \E add, left : opening' = {[o EXCEPT !.left = left, !.add = add]}
    BY <2>1 DEF ReadsLog, RecoverLog
  <2>3. o \in OpeningType /\ o.step = "logs"
    BY <1>1, <2>1 DEF ReadsLog
  <2>4. \A p \in opening' : p.step = "logs"
    BY <2>2, <2>3 DEF OpeningType
  <2> QED  BY <2>4 DEF FreshManifestInv
<1>4. CASE OpenLog \/ SaveManifest
  <2>1. PICK o \in opening, step \in {"manifest", "current"} :
          opening' = {[o EXCEPT !.step = step]}
    BY <1>4 DEF OpenLog, SaveManifest
  <2>2. \A p \in opening' : p.step = step
    BY <1>1, <2>1 DEF OpeningType
  <2> QED  BY <2>1, <2>2 DEF FreshManifestInv
<1> QED  BY <1>2, <1>3, <1>4

LEMMA FreshManifestKept ==
  ASSUME StoreInv, DurableInv, Next  PROVE FreshManifestInv'
<1>1. CASE opening' = {}
  BY <1>1 DEF FreshManifestInv
<1>2. CASE phase # "opening" /\ UNCHANGED opening
  <2>1. opening = {}
    BY <1>2, OpeningFacts
  <2> QED  BY <1>1, <1>2, <2>1
<1>3. CASE \/ (\E sync \in BOOLEAN : Enqueue(sync, FALSE)) \/ TEST_CompactMemTable
           \/ AskManual \/ Pin \/ StartClose
  BY <1>2, <1>3 DEF Enqueue, TEST_CompactMemTable, AskManual, Pin, StartClose
<1>4. CASE Closed \/ Exit \/ LosePower \/ NullManual
  BY <1>1, <1>4 DEF Closed, Exit, LosePower, NullManual, ProcessEnds
<1>5. CASE CancelManual \/ Unpin
  <2>1. PhaseInv
    BY DEF StoreInv, Inv
  <2>2. Running
    BY <1>5, <2>1 DEF CancelManual, Unpin, PhaseInv
  <2> QED  BY <1>2, <1>5, <2>2 DEF CancelManual, Unpin, Running
<1>6. CASE Writer
  <2>1. Running /\ UNCHANGED opening
    BY <1>6, GroupFacts DEF Writer, Yield, SwitchMemtable, SwitchFails, BeginWrite, AppendRecord,
       SyncLog, InsertInto, AppendFails, SyncFails, AtFront, Running
  <2> QED  BY <1>2, <2>1 DEF Running
<1>7. CASE Background /\ ~NullManual
  <2>1. UNCHANGED opening
    BY <1>7 DEF Background, NothingToDo, StartFlush, BuildTable, BuildTableFails, LogFlush,
       LogFlushFails, InstallFlush, StartCompaction, StartMove, NothingInRange, OpenOutput,
       FinishOutput, LogCompaction, LogCompactionFails, InstallCompaction, AbandonMerge,
       EndOfCompaction
  <2>2. Running
    <3>1. \/ imm # {} \/ flush # {} \/ compaction # {} \/ error \/ Running
      BY <1>7 DEF Background, NothingToDo, StartFlush, BuildTable, BuildTableFails, LogFlush,
         LogFlushFails, InstallFlush, StartCompaction, StartMove, NothingInRange, MayStart,
         OpenOutput, FinishOutput, LogCompaction, LogCompactionFails, InstallCompaction,
         AbandonMerge, Running
    <3>2. PhaseInv
      BY DEF StoreInv, Inv
    <3> QED  BY <3>1, <3>2 DEF PhaseInv
  <2> QED  BY <1>2, <2>1, <2>2 DEF Running
<1>8. CASE Open
  <2>1. CASE NewDB
    BY <1>2, <2>1 DEF NewDB
  <2>2. CASE OpenDone
    BY <1>1, <2>2 DEF OpenDone
  <2> QED  BY <1>8, <2>1, <2>2, NotYetFresh, SetCurrentFileFresh DEF Open, ReadsALog
<1> QED  BY <1>3, <1>4, <1>5, <1>6, <1>7, <1>8 DEF Next, Background

-----------------------------------------------------------------------------
(* Synced writes survive. *)

LEMMA InitDurable ==
  ASSUME Init  PROVE DurableInv
<1>1. OnDisk = << >> /\ ~Running
  BY DEF Init, OnDisk, EditsOf, Running
<1>2. FoundInv
  BY <1>1 DEF Init, FoundInv, PrefixInv, PlacesInv
<1> QED  BY <1>2 DEF Init, DurableInv, GroupInv, MergeInv, FreshManifestInv

LEMMA DurableStutters ==
  ASSUME DurableInv, UNCHANGED vars  PROVE DurableInv'
<1>1. UNCHANGED <<logs, tables, manifests, current, phase, opening, writing, mem, imm,
                  logNumber, vset, error, compaction, acked, durable>>
  BY DEF vars, disk, memory, control, history
<1>2. OnDisk' = OnDisk /\ Running' = Running
  BY <1>1 DEF OnDisk, EditsOf, Running
<1>3. PrefixInv' /\ PlacesInv'
  BY <1>1, <1>2 DEF DurableInv, FoundInv, PrefixInv, PlacesInv
<1>4. GroupInv' /\ MergeInv' /\ FreshManifestInv'
  BY <1>1 DEF DurableInv, GroupInv, MergeInv, FreshManifestInv
<1> QED  BY <1>1, <1>3, <1>4 DEF DurableInv, FoundInv

LEMMA DurableStep ==
  ASSUME StoreInv, DurableInv, [Next]_vars  PROVE DurableInv'
<1>1. CASE Next
  BY <1>1, FoundKept, GroupKept, MergeKept, FreshManifestKept DEF DurableInv
<1>2. CASE UNCHANGED vars
  BY <1>2, DurableStutters
<1> QED  BY <1>1, <1>2

\* Every part of the MANIFEST finds the writes in what is synced.
LEMMA FoundAfterPower ==
  ASSUME StoreInv, DurableInv  PROVE SyncedSurvivePower
<1>1. PrefixInv /\ ManifestsType(manifests) /\ (current # 0 => current \in DOMAIN manifests)
  BY DEF DurableInv, FoundInv, StoreInv, Types, DiskTypes, Inv, DiskInv
<1> DEFINE lgs == [n \in DOMAIN logs |-> SyncedPart(logs[n])]
<1> SUFFICES ASSUME NEW mfs \in Truncated(manifests)
             PROVE  durable \ Astray \subseteq Recovered(lgs, EditsOf(mfs))
  BY DEF SyncedSurvivePower
<1>2. \A k : LogsFrom(lgs, k) = SyncedFrom(logs, k)
  <2>1. DOMAIN lgs = DOMAIN logs /\ \A n \in DOMAIN logs : WritesIn(lgs[n]) = SyncedIn(logs[n])
    BY DEF SyncedIn
  <2> HIDE DEF lgs
  <2> QED  BY <2>1 DEF LogsFrom, SyncedFrom
<1> HIDE DEF lgs
<1>3. CASE current = 0
  BY <1>1, <1>3 DEF PrefixInv
<1>4. CASE current # 0
  <2>1. mfs[current] \in Truncations(manifests[current])
    BY <1>1, <1>4 DEF Truncated
  <2>2. PICK left \in manifests[current].synced .. Len(manifests[current].records) :
               mfs[current].records = SubSeq(manifests[current].records, 1, left)
    <3>1. PICK left \in manifests[current].synced .. Len(manifests[current].records) :
            mfs[current] = Cut(manifests[current], left)
      BY <2>1 DEF Truncations
    <3>2. PICK file : file = manifests[current]
      OBVIOUS
    <3>3. file \in [records : Seq(EditType), synced : Nat, torn : Nat]
      BY <1>1, <1>4, <3>2 DEF ManifestsType, ManifestType
    <3>4. left \in Nat /\ left <= Len(file.records)
      BY <3>1, <3>2, <3>3, LenProperties
    <3>5. Cut(file, left).records = SubSeq(file.records, 1, left)
      BY <3>3, <3>4, CutFile
    <3> QED  BY <3>1, <3>2, <3>5
  <2>3. PICK edits : edits = EditsOf(mfs)
    OBVIOUS
  <2>4. Finds(tables, logs, edits, durable)
    BY <1>1, <1>4, <2>2, <2>3 DEF PrefixInv, OnDisk, EditsOf
  <2>5. CASE edits = << >>
    BY <2>4, <2>5 DEF Finds
  <2>6. CASE edits # << >>
    <3>1. /\ NumbersOf(Replay(edits).files) \subseteq DOMAIN tables
          /\ durable \subseteq DataIn(tables, NumbersOf(Replay(edits).files))
                                 \union SyncedFrom(logs, Replay(edits).log)
      BY <2>4, <2>6 DEF Finds
    <3>2. Recovered(lgs, edits) = DataIn(tables, NumbersOf(Replay(edits).files))
                                    \union LogsFrom(lgs, Replay(edits).log)
      BY <2>6, <3>1 DEF Recovered, DataIn, LogsFrom
    <3> QED  BY <1>2, <2>3, <3>1, <3>2
  <2> QED  BY <2>5, <2>6
<1> QED  BY <1>3, <1>4

\* "the write will be flushed from the operating system buffer cache [...] before
\* the write is considered complete" (include/leveldb/options.h:187): whenever power
\* is lost, between any two steps of writers, flushes, compactions, deletions of
\* files and recoveries and after any of their errors, and whichever unsynced edits
\* the MANIFEST loses with it, a write that asked for sync is in a table or in the
\* synced part of a log that a recovery reads.  The theorem does not speak of a write
\* behind an append that failed in the same log (Astray), of one that a recovery
\* could not read (ReadLogFails), of a recovery that stops at a torn MANIFEST with a
\* corruption, and of reuse_logs, which is off unless a program asks for it.
THEOREM SyncedWritesSurvive == Spec => []SyncedSurvivePower
<1>1. Init => DurableInv
  BY InitDurable
<1>2. StoreInv /\ DurableInv /\ [Next]_vars => DurableInv'
  BY DurableStep
<1>3. StoreInv /\ DurableInv => SyncedSurvivePower
  BY FoundAfterPower
<1> QED  BY <1>1, <1>2, <1>3, InvHolds, PTL DEF Spec

=============================================================================
