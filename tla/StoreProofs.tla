---------------------------- MODULE StoreProofs -----------------------------
(***************************************************************************)
(* Proofs about Store: whatever is written, flushed, merged, read, killed  *)
(* and opened again, in every order, the types stay, an acknowledged write *)
(* survives the end of the process (but for those behind a failed append,  *)
(* and those that a recovery could not read), and a reader's tables are    *)
(* not deleted, for any numbers of calls, readers, writes and failures.    *)
(***************************************************************************)
EXTENDS Store, SequenceTheorems, FiniteSetTheorems, TLAPS

-----------------------------------------------------------------------------
(* Tables, logs and edits. *)

Numbers == SUBSET Nat
Layout == [l0 : Numbers, deep : Numbers]
EditType == [add0 : Numbers, addDeep : Numbers, del : Numbers,
             log : Nat, next : Nat, seq : Nat]

\* What the tables `ns` hold, and what the logs from `k` on hold.
DataIn(ts, ns) == UNION {ts[n] : n \in ns}
LogsFrom(lgs, k) == UNION {WritesIn(lgs[n]) : n \in {m \in DOMAIN lgs : m >= k}}

Added(edit) == edit.add0 \union edit.addDeep

\* The edits of a MANIFEST: each gives out numbers beyond those that it names.
InOrder(edits) ==
  \A i \in DOMAIN edits :
    /\ edits[i].log < edits[i].next
    /\ \A n \in Added(edits[i]) : n < edits[i].next
    /\ \A j \in DOMAIN edits : i <= j => edits[i].next <= edits[j].next

\* Deleted tables go, added ones come, as in VersionSet::Builder.
LEMMA ReplayAppend ==
  ASSUME NEW edits \in Seq(EditType), NEW e \in EditType
  PROVE  /\ Replay(Append(edits, e)).files = Apply(Replay(edits).files, e)
         /\ Replay(Append(edits, e)).log = e.log
         /\ Replay(Append(edits, e)).next = e.next
         /\ Replay(Append(edits, e)).seq = e.seq
<1> DEFINE all == Append(edits, e)
<1>1. /\ all \in Seq(EditType) /\ Len(all) = Len(edits) + 1
      /\ DOMAIN all = 1 .. Len(edits) + 1 /\ DOMAIN edits = 1 .. Len(edits)
      /\ all[Len(edits) + 1] = e /\ Len(edits) \in Nat
      /\ \A i \in DOMAIN edits : all[i] = edits[i]
  BY AppendProperties, LenProperties
<1>2. Last(all) = e
  BY <1>1 DEF Last
<1> HIDE DEF all
<1>3. \A i \in DOMAIN edits : \A ns : Kept(all, i, ns) = Kept(edits, i, ns) \ e.del
  <2> SUFFICES ASSUME NEW i \in DOMAIN edits, NEW ns, NEW n
               PROVE  n \in Kept(all, i, ns) <=> n \in Kept(edits, i, ns) \ e.del
    OBVIOUS
  <2>1. n \in Kept(all, i, ns) => n \in Kept(edits, i, ns) \ e.del
    BY <1>1 DEF Kept
  <2>2. n \in Kept(edits, i, ns) \ e.del => n \in Kept(all, i, ns)
    BY <1>1 DEF Kept
  <2> QED  BY <2>1, <2>2
<1>4. \A ns : Kept(all, Len(edits) + 1, ns) = ns
  BY <1>1 DEF Kept
<1>5. UNION {Kept(all, i, all[i].add0) : i \in DOMAIN all}
        = ((UNION {Kept(edits, i, edits[i].add0) : i \in DOMAIN edits}) \ e.del)
             \union e.add0
  <2>1. \A n : n \in UNION {Kept(all, i, all[i].add0) : i \in DOMAIN all}
                <=> \/ \E i \in DOMAIN edits : n \in Kept(all, i, all[i].add0)
                    \/ n \in Kept(all, Len(edits) + 1, all[Len(edits) + 1].add0)
    BY <1>1
  <2> QED  BY <1>1, <1>3, <1>4, <2>1
<1>6. UNION {Kept(all, i, all[i].addDeep) : i \in DOMAIN all}
        = ((UNION {Kept(edits, i, edits[i].addDeep) : i \in DOMAIN edits}) \ e.del)
             \union e.addDeep
  <2>1. \A n : n \in UNION {Kept(all, i, all[i].addDeep) : i \in DOMAIN all}
                <=> \/ \E i \in DOMAIN edits : n \in Kept(all, i, all[i].addDeep)
                    \/ n \in Kept(all, Len(edits) + 1, all[Len(edits) + 1].addDeep)
    BY <1>1
  <2> QED  BY <1>1, <1>3, <1>4, <2>1
<1> QED  BY <1>2, <1>5, <1>6 DEF Replay, Apply, all

LEMMA ReplayOne ==
  ASSUME NEW e \in EditType
  PROVE  /\ Replay(<<e>>).files = [l0 |-> e.add0, deep |-> e.addDeep]
         /\ Replay(<<e>>).log = e.log
         /\ Replay(<<e>>).next = e.next
         /\ Replay(<<e>>).seq = e.seq
<1>1. /\ Len(<<e>>) = 1 /\ DOMAIN <<e>> = {1} /\ <<e>>[1] = e
  OBVIOUS
<1>2. Last(<<e>>) = e
  BY <1>1 DEF Last
<1>3. \A ns : Kept(<<e>>, 1, ns) = ns
  BY <1>1 DEF Kept
<1>4. /\ UNION {Kept(<<e>>, i, <<e>>[i].add0) : i \in {1}} = e.add0
      /\ UNION {Kept(<<e>>, i, <<e>>[i].addDeep) : i \in {1}} = e.addDeep
  BY <1>1, <1>3
<1> QED  BY <1>1, <1>2, <1>4 DEF Replay

LEMMA ReplayType ==
  ASSUME NEW edits \in Seq(EditType)
  PROVE  /\ Replay(edits).files \in Layout
         /\ edits # << >> => /\ Replay(edits).log \in Nat
                             /\ Replay(edits).next \in Nat
                             /\ Replay(edits).seq \in Nat
<1>1. /\ Len(edits) \in Nat /\ DOMAIN edits = 1 .. Len(edits)
      /\ \A i \in DOMAIN edits : edits[i] \in EditType
      /\ edits # << >> => Len(edits) \in DOMAIN edits
  BY LenProperties, ElementOfSeq, EmptySeq
<1>2. \A i \in DOMAIN edits : /\ Kept(edits, i, edits[i].add0) \subseteq Nat
                              /\ Kept(edits, i, edits[i].addDeep) \subseteq Nat
  BY <1>1 DEF Kept, EditType, Numbers
<1>3. /\ UNION {Kept(edits, i, edits[i].add0) : i \in DOMAIN edits} \subseteq Nat
      /\ UNION {Kept(edits, i, edits[i].addDeep) : i \in DOMAIN edits} \subseteq Nat
  BY <1>2
<1>4. edits # << >> => Last(edits) \in EditType
  BY <1>1 DEF Last
<1> QED  BY <1>3, <1>4 DEF Replay, Layout, Numbers, EditType

\* No file of the version has a number that may be given out again.
LEMMA ReplayBelowNext ==
  ASSUME NEW edits \in Seq(EditType), InOrder(edits), edits # << >>
  PROVE  /\ \A n \in NumbersOf(Replay(edits).files) : n < Replay(edits).next
         /\ Replay(edits).log < Replay(edits).next
<1>1. /\ Len(edits) \in Nat /\ DOMAIN edits = 1 .. Len(edits)
      /\ \A i \in DOMAIN edits : edits[i] \in EditType
      /\ Len(edits) \in DOMAIN edits
  BY LenProperties, ElementOfSeq, EmptySeq
<1>2. Replay(edits).log = edits[Len(edits)].log /\ Replay(edits).next = edits[Len(edits)].next
  BY DEF Replay, Last
<1>3. ASSUME NEW n \in NumbersOf(Replay(edits).files)
      PROVE  n < Replay(edits).next
  <2>1. PICK i \in DOMAIN edits : n \in Added(edits[i])
    BY <1>3 DEF NumbersOf, Replay, Kept, Added
  <2>2. n < edits[i].next /\ edits[i].next <= edits[Len(edits)].next
    BY <1>1, <2>1 DEF InOrder
  <2>3. n \in Nat /\ edits[i].next \in Nat /\ edits[Len(edits)].next \in Nat
    BY <1>1, <2>1 DEF EditType, Added, Numbers
  <2> QED  BY <1>2, <2>2, <2>3
<1> QED  BY <1>1, <1>2, <1>3 DEF InOrder

LEMMA InOrderAppend ==
  ASSUME NEW edits \in Seq(EditType), InOrder(edits), NEW e \in EditType,
         e.log < e.next, \A n \in Added(e) : n < e.next,
         edits # << >> => Replay(edits).next <= e.next
  PROVE  InOrder(Append(edits, e))
<1> DEFINE all == Append(edits, e)
<1>1. /\ Len(all) = Len(edits) + 1 /\ Len(edits) \in Nat
      /\ DOMAIN all = 1 .. Len(edits) + 1 /\ DOMAIN edits = 1 .. Len(edits)
      /\ all[Len(edits) + 1] = e
      /\ \A i \in DOMAIN edits : all[i] = edits[i] /\ edits[i].next \in Nat
  <2>1. /\ Len(all) = Len(edits) + 1 /\ Len(edits) \in Nat /\ all \in Seq(EditType)
        /\ DOMAIN edits = 1 .. Len(edits)
        /\ \A i \in DOMAIN edits : edits[i] \in EditType
    BY AppendProperties, LenProperties, ElementOfSeq
  <2>2. DOMAIN all = 1 .. Len(edits) + 1
    BY <2>1, LenProperties
  <2>3. all[Len(edits) + 1] = e /\ \A i \in DOMAIN edits : all[i] = edits[i]
    BY <2>1, AppendProperties
  <2> QED  BY <2>1, <2>2, <2>3 DEF EditType
<1> HIDE DEF all
<1>2. \A i \in DOMAIN edits : edits[i].next <= e.next
  <2> TAKE i \in DOMAIN edits
  <2>1. Len(edits) \in DOMAIN edits /\ i <= Len(edits) /\ edits # << >>
    BY <1>1
  <2>2. edits[i].next <= edits[Len(edits)].next
    BY <2>1 DEF InOrder
  <2>3. Replay(edits).next = edits[Len(edits)].next
    BY DEF Replay, Last
  <2>4. e.next \in Nat /\ edits[Len(edits)].next \in Nat
    BY <1>1, <2>1 DEF EditType
  <2> QED  BY <1>1, <2>1, <2>2, <2>3, <2>4
<1>3. ASSUME NEW i \in DOMAIN all, NEW j \in DOMAIN all, i <= j
      PROVE  all[i].next <= all[j].next
  <2>1. CASE j \in DOMAIN edits
    BY <1>1, <1>3, <2>1 DEF InOrder
  <2>2. CASE j = Len(edits) + 1 /\ i \in DOMAIN edits
    BY <1>1, <1>2, <2>2
  <2>3. CASE j = Len(edits) + 1 /\ i = Len(edits) + 1
    BY <1>1, <2>3 DEF EditType
  <2> QED  BY <1>1, <2>1, <2>2, <2>3
<1>4. \A i \in DOMAIN all : all[i].log < all[i].next /\ \A n \in Added(all[i]) : n < all[i].next
  BY <1>1 DEF InOrder
<1> QED  BY <1>3, <1>4 DEF InOrder, all

LEMMA InOrderPrefix ==
  ASSUME NEW edits \in Seq(EditType), InOrder(edits), NEW k \in 0 .. Len(edits)
  PROVE  SubSeq(edits, 1, k) \in Seq(EditType) /\ InOrder(SubSeq(edits, 1, k))
<1>1. /\ Len(edits) \in Nat /\ DOMAIN edits = 1 .. Len(edits)
      /\ \A i \in DOMAIN edits : edits[i] \in EditType
  BY LenProperties, ElementOfSeq
<1>2. /\ SubSeq(edits, 1, k) \in Seq(EditType)
      /\ Len(SubSeq(edits, 1, k)) = k
      /\ \A i \in 1 .. k : SubSeq(edits, 1, k)[i] = edits[i]
  BY <1>1, SubSeqProperties
<1>3. DOMAIN SubSeq(edits, 1, k) = 1 .. k
  BY <1>2, LenProperties
<1> QED  BY <1>1, <1>2, <1>3 DEF InOrder


\* What some tables hold, when others come, go or change.
LEMMA DataUnion ==
  ASSUME NEW ts, NEW ms, NEW ns
  PROVE  DataIn(ts, ms \union ns) = DataIn(ts, ms) \union DataIn(ts, ns)
BY DEF DataIn

LEMMA DataGrows ==
  ASSUME NEW ts, NEW ms, NEW ns, ms \subseteq ns
  PROVE  DataIn(ts, ms) \subseteq DataIn(ts, ns)
BY DEF DataIn

LEMMA DataSame ==
  ASSUME NEW ts, NEW us, NEW ns, \A n \in ns : us[n] = ts[n]
  PROVE  DataIn(us, ns) = DataIn(ts, ns)
BY DEF DataIn

\* An edit whose new tables hold what the deleted ones held takes nothing away.
LEMMA DataApplied ==
  ASSUME NEW ts, NEW v \in Layout, NEW e \in EditType,
         DataIn(ts, e.del) \subseteq DataIn(ts, Added(e))
  PROVE  /\ DataIn(ts, NumbersOf(v)) \subseteq DataIn(ts, NumbersOf(Apply(v, e)))
         /\ DataIn(ts, Added(e)) \subseteq DataIn(ts, NumbersOf(Apply(v, e)))
<1>1. /\ Added(e) \subseteq NumbersOf(Apply(v, e))
      /\ NumbersOf(v) \subseteq NumbersOf(Apply(v, e)) \union e.del
  BY DEF Added, NumbersOf, Apply, Layout, EditType
<1>2. DataIn(ts, Added(e)) \subseteq DataIn(ts, NumbersOf(Apply(v, e)))
  BY <1>1, DataGrows
<1>3. DataIn(ts, NumbersOf(v))
        \subseteq DataIn(ts, NumbersOf(Apply(v, e))) \union DataIn(ts, e.del)
  BY <1>1 DEF DataIn
<1> QED  BY <1>2, <1>3

LEMMA ApplyNumbers ==
  ASSUME NEW v \in Layout, NEW e \in EditType
  PROVE  /\ Apply(v, e) \in Layout
         /\ NumbersOf(Apply(v, e)) \subseteq NumbersOf(v) \union Added(e)
         /\ Added(e) \subseteq NumbersOf(Apply(v, e))
         /\ NumbersOf(v) \ e.del \subseteq NumbersOf(Apply(v, e))
BY DEF Added, NumbersOf, Apply, Layout, EditType, Numbers

\* A later start of the logs means less; logs that only grow, and that go only
\* below the start, mean more.
LEMMA LogsFromLater ==
  ASSUME NEW lgs, DOMAIN lgs \subseteq Nat, NEW j \in Nat, NEW k \in Nat, j <= k
  PROVE  LogsFrom(lgs, k) \subseteq LogsFrom(lgs, j)
BY DEF LogsFrom

LEMMA LogsFromGrows ==
  ASSUME NEW lgs, NEW mgs, NEW k,
         \A n \in DOMAIN lgs : n >= k => n \in DOMAIN mgs /\ WritesIn(lgs[n]) \subseteq WritesIn(mgs[n])
  PROVE  LogsFrom(lgs, k) \subseteq LogsFrom(mgs, k)
BY DEF LogsFrom

LEMMA LogInLogs ==
  ASSUME NEW lgs, NEW n \in DOMAIN lgs, NEW k, n >= k
  PROVE  WritesIn(lgs[n]) \subseteq LogsFrom(lgs, k)
BY DEF LogsFrom

LogType == [records : Seq(Numbers), synced : Nat, torn : Nat]
ManifestType == [records : Seq(EditType), synced : Nat, torn : Nat]

LEMMA RangeAppend ==
  ASSUME NEW T, NEW s \in Seq(T), NEW x \in T
  PROVE  Range(Append(s, x)) = Range(s) \union {x}
<1>1. /\ Append(s, x) \in Seq(T)
      /\ Len(Append(s, x)) = Len(s) + 1 /\ Len(s) \in Nat
      /\ \A i \in 1 .. Len(s) : Append(s, x)[i] = s[i]
      /\ Append(s, x)[Len(s) + 1] = x
  BY AppendProperties, LenProperties
<1>2. DOMAIN s = 1 .. Len(s) /\ DOMAIN Append(s, x) = 1 .. Len(s) + 1
  BY <1>1, LenProperties
<1> QED  BY <1>1, <1>2 DEF Range

LEMMA LogAppended ==
  ASSUME NEW file \in LogType, NEW r \in Numbers
  PROVE  /\ Appended(file, r) \in LogType
         /\ Appended(file, r).synced = file.synced
         /\ Len(Appended(file, r).records) = Len(file.records) + 1
         /\ WritesIn(Appended(file, r)) = WritesIn(file) \union r
<1>1. /\ Append(file.records, r) \in Seq(Numbers)
      /\ Len(Append(file.records, r)) = Len(file.records) + 1
  BY AppendProperties DEF LogType
<1>2. Range(Append(file.records, r)) = Range(file.records) \union {r}
  BY RangeAppend DEF LogType
<1>3. Appended(file, r).records = Append(file.records, r)
  BY DEF Appended, LogType
<1>4. UNION Range(Append(file.records, r)) = (UNION Range(file.records)) \union r
  BY <1>2
<1> QED  BY <1>1, <1>3, <1>4 DEF Appended, LogType, WritesIn

LEMMA ManifestAppended ==
  ASSUME NEW file \in ManifestType, NEW e \in EditType
  PROVE  /\ Appended(file, e) \in ManifestType
         /\ AppendedSynced(file, e) \in ManifestType
         /\ Appended(file, e).records = Append(file.records, e)
         /\ Appended(file, e).synced = file.synced
         /\ AppendedSynced(file, e).records = Append(file.records, e)
         /\ AppendedSynced(file, e).synced = Len(file.records) + 1
         /\ Len(Append(file.records, e)) = Len(file.records) + 1
<1>1. /\ Append(file.records, e) \in Seq(EditType)
      /\ Len(Append(file.records, e)) = Len(file.records) + 1
      /\ Len(file.records) \in Nat
  BY AppendProperties, LenProperties DEF ManifestType
<1> QED  BY <1>1 DEF Appended, AppendedSynced, File, ManifestType

\* A tear does nothing to what stands in front of it.
LEMMA TornLog ==
  ASSUME NEW file \in LogType, NEW i \in Nat
  PROVE  /\ TornAt(file, i) \in LogType
         /\ TornAt(file, i).records = file.records
         /\ TornAt(file, i).synced = file.synced
         /\ WritesIn(TornAt(file, i)) = WritesIn(file)
BY DEF TornAt, LogType, WritesIn

LEMMA TornManifestFile ==
  ASSUME NEW file \in ManifestType, NEW i \in Nat
  PROVE  /\ TornAt(file, i) \in ManifestType
         /\ TornAt(file, i).records = file.records
         /\ TornAt(file, i).synced = file.synced
BY DEF TornAt, ManifestType

LEMMA NothingWritten ==
  WritesIn(File(<< >>, 0)) = {} /\ File(<< >>, 0) \in LogType
BY EmptySeq DEF WritesIn, File, Range, LogType

LEMMA WritesType ==
  ASSUME NEW file \in LogType
  PROVE  WritesIn(file) \subseteq Nat
<1>1. \A i \in DOMAIN file.records : file.records[i] \subseteq Nat
  BY ElementOfSeq, LenProperties DEF LogType, Numbers
<1> QED  BY <1>1 DEF WritesIn, Range

-----------------------------------------------------------------------------
(* The type invariant. *)

VsetType == [files : Layout, log : Nat, next : Nat, seq : Nat, manifest : Nat]
OpeningType == [step : {"logs", "manifest", "current", "done"}, add : Numbers,
                left : Numbers]
WriterType == [sync : BOOLEAN, force : BOOLEAN]
WritingType == [size : Nat, step : {"append", "sync", "insert"}, writes : Numbers,
                sync : BOOLEAN, syncs : Numbers]
FlushType == [number : Nat, step : {"build", "log", "install"}, edit : SUBSET EditType]
CompactionType == [inputs : Numbers, step : {"merge", "log", "install"}, base : Layout,
                   manual : BOOLEAN, out : Numbers, edit : SUBSET EditType, flushes : Nat]
ReaderType == [seq : Nat, files : Layout, held : Numbers]

AtMostOne(S) == \A x, y \in S : x = y

LogsType(lgs) ==
  /\ DOMAIN lgs \subseteq Nat \ {0}
  /\ lgs \in [DOMAIN lgs -> LogType]
  /\ \A n \in DOMAIN lgs : lgs[n].synced <= Len(lgs[n].records)
TablesType(ts) == DOMAIN ts \subseteq Nat /\ ts \in [DOMAIN ts -> Numbers]
ManifestsType(mfs) == DOMAIN mfs \subseteq Nat /\ mfs \in [DOMAIN mfs -> ManifestType]

DiskTypes == LogsType(logs) /\ TablesType(tables) /\ ManifestsType(manifests) /\ current \in Nat
ProcessTypes ==
  /\ phase \in {"down", "opening", "open", "closing", "broken"}
  /\ opening \subseteq OpeningType /\ AtMostOne(opening)
  /\ queue \in Seq(WriterType)
  /\ writing \subseteq WritingType /\ AtMostOne(writing)
  /\ mem \in Numbers /\ imm \subseteq Numbers /\ AtMostOne(imm) /\ logNumber \in Nat
  /\ vset \in VsetType
  /\ error \in BOOLEAN /\ manual \in BOOLEAN
ThreadTypes ==
  /\ pending \in Numbers
  /\ flush \subseteq FlushType /\ AtMostOne(flush)
  /\ compaction \subseteq CompactionType /\ AtMostOne(compaction)
  /\ readers \in Seq(ReaderType)
HistoryTypes == acked \in Numbers /\ durable \in Numbers
Types == DiskTypes /\ ProcessTypes /\ ThreadTypes /\ HistoryTypes

-----------------------------------------------------------------------------
(* The inductive invariant. *)

Running == phase \in {"open", "closing"}
OnDisk == EditsOf(manifests)
Version == Replay(OnDisk)
Torn == manifests[current].torn # 0

\* Files that CURRENT and the MANIFEST name exist, the MANIFEST has a number that it
\* does not give out, and nothing acknowledged is missing from the files while no
\* process keeps it in mind.
NumberInv == OnDisk # << >> => current < OnDisk[1].next
DiskInv ==
  /\ current # 0 => current \in DOMAIN manifests
  /\ InOrder(OnDisk) /\ NumberInv
  /\ ~Running => acked \subseteq Recovered(logs, OnDisk)

\* What there is in each phase.
PhaseInv ==
  /\ phase \in {"down", "broken"} => opening = {} /\ mem = {} /\ logNumber = 0
  /\ ~Running => /\ writing = {} /\ imm = {} /\ flush = {} /\ compaction = {}
                 /\ readers = << >> /\ pending = {} /\ ~error
  /\ Running => opening = {}

\* A process that reads the database: what the MANIFEST and it know of files.
Loaded == Running \/ phase = "opening"
LoadedInv ==
  Loaded =>
    /\ current # 0 /\ vset.manifest # 0 /\ OnDisk # << >>
    /\ NumbersOf(Version.files) \subseteq DOMAIN tables
    /\ NumbersOf(vset.files) \subseteq DOMAIN tables
    /\ \A n \in NumbersOf(vset.files) : n < vset.next
    /\ Version.next <= vset.next /\ vset.log < vset.next
    /\ IF logNumber = 0 THEN mem = {}
       ELSE /\ logNumber \in DOMAIN logs /\ vset.log <= logNumber /\ logNumber < vset.next
            /\ mem \subseteq WritesIn(logs[logNumber])

\* Recovery: what was acknowledged is in tables or in logs to come.
OpeningInv ==
  \A o \in opening :
    /\ \A n \in o.left : n \in DOMAIN logs /\ n >= vset.log
    /\ \A n \in DOMAIN logs : n >= vset.log /\ n \notin o.left => n < vset.next
    /\ o.left # {} => o.step = "logs"
    /\ o.step = "logs" <=> logNumber = 0
    /\ mem = {}
    /\ o.add \subseteq DOMAIN tables /\ \A n \in o.add : n < vset.next
    /\ acked \subseteq DataIn(tables, NumbersOf(vset.files)) \union DataIn(tables, o.add)
                         \union UNION {WritesIn(logs[n]) : n \in o.left}
    /\ vset.manifest < vset.next /\ (o.step # "done" => current < vset.manifest)
    /\ o.step # "current" => Version.files = vset.files /\ Version.log = vset.log
    /\ o.step = "current" =>
         /\ vset.manifest \in DOMAIN manifests
         /\ manifests[vset.manifest] = WriteSnapshot(RecoveryEdit(o))
    /\ o.step = "done" => /\ vset.manifest = current /\ ~Torn
                          /\ DataIn(tables, o.add) \subseteq DataIn(tables, NumbersOf(vset.files))

\* What was acknowledged is in memory or in tables, and what is in memory is in
\* logs that neither the process nor the MANIFEST has given up.  When the end of the
\* MANIFEST is torn, new versions do not get there any more: the files that it had
\* in mind stay, and have everything.
CoverInv ==
  Running =>
    /\ current = vset.manifest /\ logNumber # 0 /\ Version.log <= logNumber
    /\ acked \subseteq mem \union (UNION imm) \union DataIn(tables, NumbersOf(vset.files))
    /\ ~Torn => DataIn(tables, NumbersOf(vset.files))
                  \subseteq DataIn(tables, NumbersOf(Version.files))
    /\ Torn => error /\ acked \subseteq DataIn(tables, NumbersOf(Version.files))
                                        \union LogsFrom(logs, Version.log)
    /\ UNION imm \subseteq LogsFrom(logs, vset.log)
    /\ UNION imm \subseteq DataIn(tables, NumbersOf(Version.files)) \union LogsFrom(logs, Version.log)

\* Without an error the MANIFEST says what the process thinks, except for an edit
\* that is logged and not yet installed.
Matches(edit) == Version.files = Apply(vset.files, edit) /\ Version.log = edit.log
ExactInv ==
  Running /\ ~error =>
    /\ \/ \E f \in flush : f.step = "install"
       \/ \E c \in compaction : c.step = "install"
       \/ Version.files = vset.files /\ Version.log = vset.log
    /\ \A f \in flush : f.step = "install" => \A e \in f.edit : Matches(e)
    /\ \A c \in compaction : c.step = "install" => \A e \in c.edit : Matches(e)

\* New numbers are new.
FreshInv ==
  Running => \A n \in DOMAIN logs \union DOMAIN tables \union pending : n < vset.next

WritingInv ==
  \A w \in writing :
    /\ IsFiniteSet(w.writes)
    /\ \A s \in w.writes : vset.seq < s
    /\ w.step # "append" => w.writes \subseteq WritesIn(logs[logNumber])

\* An edit that a background thread has completed.
EditInv(edit, step) ==
  /\ edit.log < edit.next /\ edit.next <= vset.next
  /\ \A n \in Added(edit) : n < edit.next
  /\ Added(edit) \subseteq DOMAIN tables
  /\ step = "log" => Version.next <= edit.next
  /\ step = "install" /\ ~Torn => Added(edit) \subseteq NumbersOf(Version.files)

FlushInv ==
  \A f \in flush :
    /\ imm # {} /\ f.number < vset.next /\ AtMostOne(f.edit)
    /\ IF f.step = "build" THEN f.number \notin DOMAIN tables /\ f.edit = {} ELSE f.edit # {}
    /\ \A c \in compaction : c.step = "merge" /\ f.number \notin c.out
    /\ \A e \in f.edit :
         /\ EditInv(e, f.step)
         /\ e.del = {} /\ e.log = logNumber
         /\ Added(e) \subseteq {f.number}
         /\ UNION imm \subseteq DataIn(tables, Added(e))

\* Nobody counts on the output of a merge before it is finished.
Unused(n) ==
  /\ n \notin NumbersOf(Version.files) /\ n \notin NumbersOf(vset.files)
  /\ \A r \in Range(readers) : n \notin NumbersOf(r.files)
CompactionInv ==
  \A c \in compaction :
    /\ c.inputs \subseteq NumbersOf(c.base) /\ NumbersOf(c.base) \subseteq DOMAIN tables
    /\ c.out \subseteq DOMAIN tables /\ c.out \subseteq pending /\ AtMostOne(c.edit)
    /\ IF c.step = "merge"
       THEN c.edit = {} /\ \A n \in c.out : Unused(n) /\ n \notin NumbersOf(c.base)
       ELSE c.edit # {} /\ flush = {}
    /\ \A e \in c.edit :
         /\ EditInv(e, c.step)
         /\ e.log = vset.log /\ e.del = c.inputs
         /\ DataIn(tables, c.inputs) \subseteq DataIn(tables, Added(e))

ReadersInv ==
  \A r \in Range(readers) :
    /\ NumbersOf(r.files) \subseteq DOMAIN tables
    /\ r.seq <= vset.seq
    /\ {s \in acked : s <= r.seq} \subseteq r.held \union DataIn(tables, NumbersOf(r.files))

Inv == /\ DiskInv /\ PhaseInv /\ LoadedInv /\ OpeningInv /\ CoverInv /\ ExactInv
       /\ FreshInv /\ WritingInv /\ FlushInv /\ CompactionInv /\ ReadersInv
StoreInv == Types /\ Inv

-----------------------------------------------------------------------------
(* Types. *)

LEMMA WithLog ==
  ASSUME NEW lgs, LogsType(lgs), NEW n \in Nat \ {0}
  PROVE  LogsType(With(lgs, n, File(<< >>, 0)))
<1>1. File(<< >>, 0) \in LogType /\ Len(File(<< >>, 0).records) = 0 /\ File(<< >>, 0).synced = 0
  BY EmptySeq DEF File, LogType
<1> QED  BY <1>1 DEF LogsType, With

LEMMA WithTable ==
  ASSUME NEW ts, TablesType(ts), NEW n \in Nat, NEW ws \in Numbers
  PROVE  TablesType(With(ts, n, ws))
BY DEF TablesType, With

LEMMA WithManifest ==
  ASSUME NEW mfs, ManifestsType(mfs), NEW n \in Nat, NEW file \in ManifestType
  PROVE  ManifestsType(With(mfs, n, file))
BY DEF ManifestsType, With

LEMMA KeepTypes ==
  ASSUME NEW ns
  PROVE  /\ \A lgs : LogsType(lgs) => LogsType(Keep(lgs, ns))
         /\ \A ts : TablesType(ts) => TablesType(Keep(ts, ns))
         /\ \A mfs : ManifestsType(mfs) => ManifestsType(Keep(mfs, ns))
<1>1. ASSUME NEW lgs, LogsType(lgs)  PROVE LogsType(Keep(lgs, ns))
  BY <1>1 DEF LogsType, Keep
<1>2. ASSUME NEW ts, TablesType(ts)  PROVE TablesType(Keep(ts, ns))
  BY <1>2 DEF TablesType, Keep
<1>3. ASSUME NEW mfs, ManifestsType(mfs)  PROVE ManifestsType(Keep(mfs, ns))
  BY <1>3 DEF ManifestsType, Keep
<1> QED  BY <1>1, <1>2, <1>3

\* The record of an edit, in the file or not, or a part of it.
LEMMA LoggedTypes ==
  ASSUME ManifestsType(manifests), NEW e \in EditType
  PROVE  /\ ManifestsType(Logged(e))
         /\ \A mfs \in NotLogged(e) : ManifestsType(mfs)
<1>1. \A n \in DOMAIN manifests :
        /\ Len(manifests[n].records) \in Nat
        /\ Appended(manifests[n], e) \in ManifestType
        /\ AppendedSynced(manifests[n], e) \in ManifestType
        /\ TornAt(manifests[n], Len(manifests[n].records) + 1) \in ManifestType
  <2>1. ASSUME NEW n \in DOMAIN manifests
        PROVE  manifests[n] \in ManifestType /\ Len(manifests[n].records) \in Nat
    BY LenProperties DEF ManifestsType, ManifestType
  <2> QED  BY <2>1, ManifestAppended, TornManifestFile
<1>2. \A n \in DOMAIN manifests :
        [manifests[n] EXCEPT !.synced = Len(manifests[n].records)] \in ManifestType
  BY <1>1 DEF ManifestsType, ManifestType
<1>3. ManifestsType(Logged(e))
  <2> DEFINE file == IF TornManifest
               THEN [manifests[vset.manifest] EXCEPT !.synced = Len(manifests[vset.manifest].records)]
               ELSE AppendedSynced(manifests[vset.manifest], e)
  <2>1. Logged(e) = [manifests EXCEPT ![vset.manifest] = file]
    BY DEF Logged
  <2>2. vset.manifest \in DOMAIN manifests => file \in ManifestType
    BY <1>1, <1>2
  <2> HIDE DEF file
  <2> QED  BY <2>1, <2>2 DEF ManifestsType
<1>4. ManifestsType([manifests EXCEPT ![vset.manifest] = Appended(@, e)])
  BY <1>1 DEF ManifestsType
<1>5. ManifestsType([manifests EXCEPT ![vset.manifest] = TornAt(@, Len(@.records) + 1)])
  BY <1>1 DEF ManifestsType
<1> QED  BY <1>3, <1>4, <1>5 DEF NotLogged

LEMMA DeleteTypes ==
  ASSUME NEW lgs, LogsType(lgs), NEW mfs, ManifestsType(mfs), TablesType(tables),
         NEW vs, NEW comp, NEW pend, NEW err,
         DeleteObsoleteFiles(lgs, mfs, vs, comp, pend, err)
  PROVE  LogsType(logs') /\ ManifestsType(manifests') /\ TablesType(tables')
<1>1. CASE MayCollect(err)
  BY <1>1, KeepTypes DEF DeleteObsoleteFiles
<1>2. CASE ~MayCollect(err)
  BY <1>2 DEF DeleteObsoleteFiles
<1> QED  BY <1>1, <1>2

LEMMA CompletedType ==
  ASSUME vset \in VsetType, NEW add0 \in Numbers, NEW addDeep \in Numbers,
         NEW del \in Numbers, NEW log \in Nat
  PROVE  /\ Completed(add0, addDeep, del, log) \in EditType
         /\ Completed(add0, addDeep, del, log).add0 = add0
         /\ Completed(add0, addDeep, del, log).addDeep = addDeep
         /\ Completed(add0, addDeep, del, log).del = del
         /\ Completed(add0, addDeep, del, log).log = log
         /\ Completed(add0, addDeep, del, log).next = vset.next
         /\ Completed(add0, addDeep, del, log).seq = vset.seq
BY DEF Completed, Edit, EditType, VsetType

LEMMA OnDiskType ==
  ASSUME ManifestsType(manifests), current # 0 => current \in DOMAIN manifests
  PROVE  OnDisk \in Seq(EditType)
<1>1. CASE current = 0
  BY <1>1, EmptySeq DEF OnDisk, EditsOf
<1>2. CASE current # 0
  BY <1>2 DEF OnDisk, EditsOf, ManifestsType, ManifestType
<1> QED  BY <1>1, <1>2

LEMMA CutFile ==
  ASSUME NEW S, NEW file \in [records : Seq(S), synced : Nat, torn : Nat],
         NEW left \in Nat, left <= Len(file.records)
  PROVE  /\ Cut(file, left) \in [records : Seq(S), synced : Nat, torn : Nat]
         /\ Cut(file, left).records = SubSeq(file.records, 1, left)
         /\ Cut(file, left).synced = left /\ Len(Cut(file, left).records) = left
<1>1. file.records \in Seq(S) /\ Len(file.records) \in Nat /\ file.torn \in Nat
  BY LenProperties
<1>2. \A i \in 1 .. left : file.records[i] \in S
  BY <1>1, ElementOfSeq
<1>3. PICK part : part = SubSeq(file.records, 1, left)
  OBVIOUS
<1>4. part \in Seq(S) /\ Len(part) = left
  BY <1>1, <1>2, <1>3, SubSeqProperties
<1>5. (IF file.torn <= left + 1 THEN file.torn ELSE 0) \in Nat
  BY <1>1
<1>6. Cut(file, left) = [file EXCEPT !.records = part, !.synced = left,
                           !.torn = IF @ <= left + 1 THEN @ ELSE 0]
  BY <1>3 DEF Cut
<1> QED  BY <1>3, <1>4, <1>5, <1>6

LEMMA TruncatedLogs ==
  ASSUME NEW lgs, LogsType(lgs), NEW cut \in Truncated(lgs)
  PROVE  /\ DOMAIN cut = DOMAIN lgs /\ LogsType(cut)
<1>1. DOMAIN cut = DOMAIN lgs /\ \A n \in DOMAIN lgs : cut[n] \in Truncations(lgs[n])
  BY DEF Truncated
<1>2. ASSUME NEW n \in DOMAIN lgs
      PROVE  cut[n] \in LogType /\ cut[n].synced <= Len(cut[n].records)
  <2>1. PICK left \in lgs[n].synced .. Len(lgs[n].records) : cut[n] = Cut(lgs[n], left)
    BY <1>1 DEF Truncations
  <2>2. /\ lgs[n] \in LogType
        /\ lgs[n].records \in Seq(Numbers) /\ lgs[n].synced \in Nat
        /\ Len(lgs[n].records) \in Nat
    BY LenProperties DEF LogsType, LogType
  <2>3. left \in Nat /\ left <= Len(lgs[n].records) /\ left \in 0 .. Len(lgs[n].records)
    BY <2>2
  <2>4. /\ cut[n] \in LogType /\ cut[n].records = SubSeq(lgs[n].records, 1, left)
        /\ cut[n].synced = left /\ Len(cut[n].records) = left
    BY <2>1, <2>2, <2>3, CutFile DEF LogType
  <2> QED  BY <2>3, <2>4
<1>3. cut \in [DOMAIN lgs -> LogType]
  <2>1. cut \in [DOMAIN lgs -> UNION {Truncations(lgs[n]) : n \in DOMAIN lgs}]
    BY DEF Truncated
  <2> QED  BY <2>1, <1>2
<1> QED  BY <1>1, <1>2, <1>3 DEF LogsType

LEMMA TruncatedManifests ==
  ASSUME NEW mfs, ManifestsType(mfs), NEW cut \in Truncated(mfs)
  PROVE  /\ DOMAIN cut = DOMAIN mfs /\ ManifestsType(cut)
         /\ \A n \in DOMAIN mfs : \E left \in 0 .. Len(mfs[n].records) :
              cut[n].records = SubSeq(mfs[n].records, 1, left)
<1>1. DOMAIN cut = DOMAIN mfs /\ \A n \in DOMAIN mfs : cut[n] \in Truncations(mfs[n])
  BY DEF Truncated
<1>2. ASSUME NEW n \in DOMAIN mfs
      PROVE  /\ cut[n] \in ManifestType
             /\ \E left \in 0 .. Len(mfs[n].records) :
                  cut[n].records = SubSeq(mfs[n].records, 1, left)
  <2>1. PICK left \in mfs[n].synced .. Len(mfs[n].records) : cut[n] = Cut(mfs[n], left)
    BY <1>1 DEF Truncations
  <2>2. /\ mfs[n] \in ManifestType
        /\ mfs[n].records \in Seq(EditType) /\ mfs[n].synced \in Nat
        /\ Len(mfs[n].records) \in Nat
    BY LenProperties DEF ManifestsType, ManifestType
  <2>3. left \in Nat /\ left <= Len(mfs[n].records) /\ left \in 0 .. Len(mfs[n].records)
    BY <2>2
  <2>4. /\ cut[n] \in ManifestType /\ cut[n].records = SubSeq(mfs[n].records, 1, left)
        /\ cut[n].synced = left /\ Len(cut[n].records) = left
    BY <2>1, <2>2, <2>3, CutFile DEF ManifestType
  <2> QED  BY <2>3, <2>4
<1>3. cut \in [DOMAIN mfs -> ManifestType]
  <2>1. cut \in [DOMAIN mfs -> UNION {Truncations(mfs[n]) : n \in DOMAIN mfs}]
    BY DEF Truncated
  <2> QED  BY <2>1, <1>2
<1> QED  BY <1>1, <1>2, <1>3 DEF ManifestsType

\* A recovery reads a log, well or badly: what is missing is not counted any more.
ReadsALog == RecoverLogFile \/ ReadLogFails
ReadsLog(o, n, records, into) ==
  /\ o \in opening /\ o.step = "logs" /\ n \in o.left /\ \A m \in o.left : n <= m
  /\ records \in Seq(Numbers) /\ into \in Refill(records)
  /\ RecoverLog(o, n, records, into)
  /\ UNION Range(records) \subseteq WritesIn(logs[n])
  /\ \E gone : Forget(gone) /\ WritesIn(logs[n]) \subseteq gone \union UNION Range(records)
  /\ UNCHANGED <<logs, manifests, current, phase, queue, writing, memory, pending,
                 control, flush, compaction, readers>>

LEMMA ReadingFacts ==
  ASSUME NEW file \in LogType, NEW sure, NEW rs \in Readings(file.records, sure)
  PROVE  /\ rs \in Seq(Numbers) /\ UNION Range(rs) \subseteq WritesIn(file)
         /\ sure \subseteq DOMAIN file.records =>
              \A i \in sure : file.records[i] \subseteq UNION Range(rs)
<1>1. PICK k \in 0 .. Len(file.records) : \E pick \in [1 .. k -> DOMAIN file.records] :
             sure \subseteq Range(pick) /\ rs = [j \in DOMAIN pick |-> file.records[pick[j]]]
  BY DEF Readings
<1>a. PICK pick \in [1 .. k -> DOMAIN file.records] :
             sure \subseteq Range(pick) /\ rs = [j \in DOMAIN pick |-> file.records[pick[j]]]
  BY <1>1
<1>2. /\ file.records \in Seq(Numbers) /\ Len(file.records) \in Nat
      /\ \A i \in DOMAIN file.records : file.records[i] \in Numbers
  BY ElementOfSeq, LenProperties DEF LogType
<1>3. k \in Nat /\ DOMAIN pick = 1 .. k /\ \A j \in 1 .. k : pick[j] \in DOMAIN file.records
  BY <1>1, <1>a, <1>2
<1>4. rs = [j \in 1 .. k |-> file.records[pick[j]]]
  BY <1>a, <1>3
<1>5. \A j \in 1 .. k : rs[j] \in Numbers /\ rs[j] = file.records[pick[j]]
  BY <1>2, <1>3, <1>4
<1>6. rs \in Seq(Numbers)
  <2>1. rs \in [1 .. k -> Numbers]
    BY <1>4, <1>5
  <2> QED  BY <1>3, <2>1, SeqDef
<1>7. UNION Range(rs) \subseteq WritesIn(file)
  BY <1>3, <1>4, <1>5 DEF WritesIn, Range
<1>8. ASSUME sure \subseteq DOMAIN file.records, NEW i \in sure
      PROVE  file.records[i] \subseteq UNION Range(rs)
  <2>1. PICK j \in 1 .. k : pick[j] = i
    BY <1>a, <1>3, <1>8 DEF Range
  <2>2. rs[j] = file.records[i] /\ j \in DOMAIN rs
    BY <1>4, <1>5, <2>1
  <2> QED  BY <2>2 DEF Range
<1> QED  BY <1>6, <1>7, <1>8

LEMMA SomeLogIsRead ==
  ASSUME StoreInv, ReadsALog
  PROVE  \E o, n, records, into : ReadsLog(o, n, records, into)
<1>0. LogsType(logs) /\ OpeningInv
  BY DEF StoreInv, Types, DiskTypes, Inv
<1>1. CASE RecoverLogFile
  <2>1. PICK o, n, rs, into :
          /\ o \in opening /\ n \in o.left
          /\ rs \in Readings(logs[n].records, Sound(logs[n])) /\ into \in Refill(rs)
          /\ o.step = "logs" /\ \A m \in o.left : n <= m
          /\ RecoverLog(o, n, rs, into)
          /\ Forget(AstrayIn(logs[n]) \ UNION Range(rs))
          /\ UNCHANGED <<logs, manifests, current, phase, queue, writing, memory, pending,
                         control, flush, compaction, readers>>
    BY <1>1, Zenon DEF RecoverLogFile
  <2>2. logs[n] \in LogType
    BY <1>0, <2>1 DEF OpeningInv, LogsType
  <2>3. /\ rs \in Seq(Numbers) /\ UNION Range(rs) \subseteq WritesIn(logs[n])
        /\ \A i \in Sound(logs[n]) : logs[n].records[i] \subseteq UNION Range(rs)
    <3>1. PICK sure : sure = Sound(logs[n])
      OBVIOUS
    <3>2. sure \subseteq DOMAIN logs[n].records /\ rs \in Readings(logs[n].records, sure)
      BY <2>1, <3>1 DEF Sound
    <3> QED  BY <2>2, <3>1, <3>2, ReadingFacts
  <2>4. WritesIn(logs[n]) \subseteq (AstrayIn(logs[n]) \ UNION Range(rs)) \union UNION Range(rs)
    BY <2>3 DEF WritesIn, AstrayIn, Range
  <2> QED  BY <2>1, <2>3, <2>4 DEF ReadsLog
<1>2. CASE ReadLogFails
  <2>1. PICK o, n, rs, into :
          /\ o \in opening /\ n \in o.left
          /\ rs \in Readings(logs[n].records, {}) /\ into \in Refill(rs)
          /\ o.step = "logs" /\ \A m \in o.left : n <= m
          /\ RecoverLog(o, n, rs, into)
          /\ Forget(WritesIn(logs[n]) \ UNION Range(rs))
          /\ UNCHANGED <<logs, manifests, current, phase, queue, writing, memory, pending,
                         control, flush, compaction, readers>>
    BY <1>2, Zenon DEF ReadLogFails
  <2>2. logs[n] \in LogType
    BY <1>0, <2>1 DEF OpeningInv, LogsType
  <2>3. rs \in Seq(Numbers) /\ UNION Range(rs) \subseteq WritesIn(logs[n])
    BY <2>1, <2>2, ReadingFacts
  <2>4. WritesIn(logs[n]) \subseteq (WritesIn(logs[n]) \ UNION Range(rs)) \union UNION Range(rs)
    OBVIOUS
  <2> QED  BY <2>1, <2>3, <2>4 DEF ReadsLog
<1> QED  BY <1>1, <1>2 DEF ReadsALog

\* The steps that write files; no other step touches the disk.
WritesFiles ==
  \/ SwitchMemtable \/ AppendRecord \/ SyncLog \/ AppendFails
  \/ BuildTable \/ LogFlush \/ LogFlushFails \/ InstallFlush
  \/ OpenOutput \/ FinishOutput \/ LogCompaction \/ LogCompactionFails
  \/ InstallCompaction \/ AbandonMerge
  \/ NewDB \/ ReadsALog \/ OpenLog \/ SaveManifest \/ SetCurrentFile \/ OpenDone
  \/ LosePower

LEMMA OthersWriteNothing ==
  ASSUME Next  PROVE  WritesFiles \/ UNCHANGED disk
<1>1. CASE (\E sync \in BOOLEAN : Enqueue(sync, FALSE)) \/ TEST_CompactMemTable
  BY <1>1 DEF Enqueue, TEST_CompactMemTable
<1>2. CASE Writer
  BY <1>2 DEF Writer, WritesFiles, Yield, SwitchFails, BeginWrite, InsertInto, SyncFails, disk
<1>3. CASE Background
  BY <1>3 DEF Background, WritesFiles, NothingToDo, StartFlush, BuildTableFails,
     StartCompaction, StartMove, NothingInRange, NullManual, disk
<1>4. CASE Open
  BY <1>4 DEF Open, WritesFiles, ReadsALog, RecoverVersions, disk
<1>5. CASE AskManual \/ CancelManual \/ Pin \/ Unpin
  BY <1>5 DEF AskManual, CancelManual, Pin, Unpin
<1>6. CASE StartClose \/ Closed \/ Exit \/ LosePower
  BY <1>6 DEF StartClose, Closed, Exit, WritesFiles
<1> QED  BY <1>1, <1>2, <1>3, <1>4, <1>5, <1>6 DEF Next

LEMMA LogTypesKept ==
  ASSUME StoreInv, WritesFiles
  PROVE  LogsType(logs')
<1>0. /\ LogsType(logs) /\ TablesType(tables) /\ ManifestsType(manifests)
      /\ writing \subseteq WritingType /\ vset \in VsetType /\ LoadedInv /\ PhaseInv
      /\ phase \in {"down", "opening", "open", "closing", "broken"}
  BY DEF StoreInv, Types, DiskTypes, ProcessTypes, Inv
<1>1. CASE UNCHANGED logs
  BY <1>0, <1>1
<1>2. CASE SwitchMemtable
  <2>1. vset.next \in Nat \ {0}
    BY <1>0, <1>2 DEF SwitchMemtable, AtFront, LoadedInv, Loaded, Running, VsetType
  <2> QED  BY <1>0, <1>2, <2>1, WithLog DEF SwitchMemtable
<1>3. CASE AppendRecord \/ AppendFails
  <2>1. PICK w \in writing :
          \/ logs' = logs
          \/ logs' = [logs EXCEPT ![logNumber] = Appended(@, w.writes)]
          \/ logs' = [logs EXCEPT ![logNumber] =
                        TornAt(Appended(@, w.writes), Len(Appended(@, w.writes).records))]
    <3>1. [logs EXCEPT ![logNumber] = logs[logNumber]] = logs
      BY <1>0 DEF LogsType
    <3>2. CASE AppendRecord
      BY <3>2 DEF AppendRecord
    <3>3. CASE AppendFails
      <4>1. PICK w \in writing :
              LET log  == logs[logNumber]
                  full == Appended(log, w.writes)
              IN  \E file \in {log, full, TornAt(full, Len(full.records))} :
                    logs' = [logs EXCEPT ![logNumber] = file]
        BY <3>3 DEF AppendFails
      <4> QED  BY <3>1, <4>1
    <3> QED  BY <1>3, <3>2, <3>3
  <2>2. w.writes \in Numbers
    BY <1>0 DEF WritingType
  <2>3. ASSUME NEW n \in DOMAIN logs, NEW full, full = Appended(logs[n], w.writes)
        PROVE  /\ full \in LogType /\ full.synced <= Len(full.records)
               /\ TornAt(full, Len(full.records)) \in LogType
               /\ TornAt(full, Len(full.records)).synced = full.synced
               /\ TornAt(full, Len(full.records)).records = full.records
    <3>1. logs[n] \in LogType /\ logs[n].synced <= Len(logs[n].records)
      BY <1>0 DEF LogsType
    <3>2. logs[n].synced \in Nat /\ Len(logs[n].records) \in Nat
      BY <3>1, LenProperties DEF LogType
    <3>3. /\ full \in LogType /\ full.synced = logs[n].synced
          /\ Len(full.records) = Len(logs[n].records) + 1
      BY <2>2, <2>3, <3>1, LogAppended
    <3>4. Len(full.records) \in Nat /\ full.synced <= Len(full.records)
      BY <3>1, <3>2, <3>3
    <3> QED  BY <3>3, <3>4, TornLog
  <2>4. \A n \in DOMAIN logs : /\ logs'[n] \in LogType
                               /\ logs'[n].synced <= Len(logs'[n].records)
    BY <1>0, <2>1, <2>3 DEF LogsType
  <2> QED  BY <1>0, <2>1, <2>4 DEF LogsType
<1>4. CASE SyncLog
  <2>1. logs' = [logs EXCEPT ![logNumber].synced = Len(logs[logNumber].records)]
    BY <1>4 DEF SyncLog
  <2>2. \A n \in DOMAIN logs : Len(logs[n].records) \in Nat
    BY <1>0, LenProperties DEF LogsType, LogType
  <2>3. \A n \in DOMAIN logs :
          /\ logs'[n] \in LogType
          /\ logs'[n].records = logs[n].records
          /\ logs'[n].synced \in {logs[n].synced, Len(logs[n].records)}
    BY <1>0, <2>1, <2>2 DEF LogsType, LogType
  <2>4. logs' \in [DOMAIN logs -> LogType]
    BY <1>0, <2>1, <2>3 DEF LogsType
  <2>5. \A n \in DOMAIN logs : logs'[n].synced <= Len(logs'[n].records)
    BY <1>0, <2>2, <2>3 DEF LogsType
  <2> QED  BY <1>0, <2>4, <2>5 DEF LogsType
<1>5. CASE InstallFlush
  BY <1>0, <1>5, DeleteTypes DEF InstallFlush
<1>6. CASE InstallCompaction \/ LogCompactionFails \/ AbandonMerge
  <2>1. PICK c \in compaction : \E mfs, vs : EndOfCompaction(c, mfs, vs)
    BY <1>6 DEF InstallCompaction, LogCompactionFails, AbandonMerge
  <2> QED  BY <1>0, <2>1, KeepTypes DEF EndOfCompaction, DeleteObsoleteFiles
<1>7. CASE OpenLog
  <2>1. logs' = With(logs, vset.next, File(<< >>, 0)) /\ phase = "opening"
    BY <1>0, <1>7 DEF OpenLog, PhaseInv, Running
  <2>2. vset.next \in Nat \ {0}
    BY <1>0, <2>1 DEF LoadedInv, Loaded, VsetType
  <2> QED  BY <1>0, <2>1, <2>2, WithLog
<1>8. CASE OpenDone
  BY <1>0, <1>8, DeleteTypes DEF OpenDone
<1>9. CASE LosePower
  BY <1>0, <1>9, TruncatedLogs DEF LosePower
<1>10. CASE \/ BuildTable \/ LogFlush \/ LogFlushFails \/ OpenOutput \/ FinishOutput
            \/ LogCompaction \/ NewDB \/ ReadsALog \/ SaveManifest \/ SetCurrentFile
  BY <1>1, <1>10 DEF BuildTable, LogFlush, LogFlushFails, OpenOutput, FinishOutput,
     LogCompaction, NewDB, ReadsALog, RecoverLogFile, ReadLogFails, SaveManifest,
     SetCurrentFile
<1> QED
  BY <1>2, <1>3, <1>4, <1>5, <1>6, <1>7, <1>8, <1>9, <1>10 DEF WritesFiles

LEMMA TableTypesKept ==
  ASSUME StoreInv, WritesFiles
  PROVE  TablesType(tables')
<1>0. /\ LogsType(logs) /\ TablesType(tables) /\ ManifestsType(manifests)
      /\ imm \subseteq Numbers /\ vset \in VsetType /\ flush \subseteq FlushType
      /\ OpeningInv /\ CompactionInv
  BY DEF StoreInv, Types, DiskTypes, ProcessTypes, ThreadTypes, Inv
<1>1. CASE UNCHANGED tables
  BY <1>0, <1>1
<1>2. CASE BuildTable
  <2>1. PICK f \in flush : tables' = tables \/ tables' = With(tables, f.number, UNION imm)
    BY <1>2 DEF BuildTable
  <2>2. f.number \in Nat /\ UNION imm \in Numbers
    BY <1>0 DEF FlushType, Numbers
  <2> QED  BY <1>0, <2>1, <2>2, WithTable
<1>3. CASE InstallFlush
  BY <1>0, <1>3, DeleteTypes DEF InstallFlush
<1>4. CASE OpenOutput
  BY <1>0, <1>4, WithTable DEF OpenOutput, VsetType, Numbers
<1>5. CASE FinishOutput
  <2>1. PICK c \in compaction :
          tables' = [n \in DOMAIN tables |->
                       IF n \in c.out THEN UNION {tables[m] : m \in c.inputs} ELSE tables[n]]
    BY <1>5 DEF FinishOutput
  <2>2. c.inputs \subseteq DOMAIN tables
    BY <1>0 DEF CompactionInv
  <2>3. UNION {tables[m] : m \in c.inputs} \in Numbers
    BY <1>0, <2>2 DEF TablesType, Numbers
  <2> QED  BY <1>0, <2>1, <2>3 DEF TablesType
<1>6. CASE InstallCompaction \/ LogCompactionFails \/ AbandonMerge
  <2>1. PICK c \in compaction : \E mfs, vs : EndOfCompaction(c, mfs, vs)
    BY <1>6 DEF InstallCompaction, LogCompactionFails, AbandonMerge
  <2> QED  BY <1>0, <2>1, KeepTypes DEF EndOfCompaction, DeleteObsoleteFiles
<1>7. CASE ReadsALog
  <2>1. PICK o, n, records, into : ReadsLog(o, n, records, into)
    BY <1>7, SomeLogIsRead
  <2>2. records \in Seq(Numbers) /\ RecoverLog(o, n, records, into)
    BY <2>1 DEF ReadsLog
  <2>3. \A i \in DOMAIN records : records[i] \subseteq Nat
    BY <2>2, ElementOfSeq, LenProperties DEF Numbers
  <2>4. \A m : UNION {records[i] : i \in {j \in DOMAIN records :
                                          into[j] = m - vset.next}} \in Numbers
    BY <2>3 DEF Numbers
  <2>5. vset.next .. vset.next + Made(records, into) - 1 \subseteq Nat
    BY <1>0 DEF VsetType
  <2>6. tables' = [m \in DOMAIN tables \union (vset.next .. vset.next + Made(records, into) - 1) |->
                     IF m \in vset.next .. vset.next + Made(records, into) - 1
                     THEN UNION {records[i] : i \in {j \in DOMAIN records : into[j] = m - vset.next}}
                     ELSE tables[m]]
    BY <2>2 DEF RecoverLog
  <2> QED  BY <1>0, <2>4, <2>5, <2>6 DEF TablesType
<1>8. CASE OpenDone
  BY <1>0, <1>8, DeleteTypes DEF OpenDone
<1>9. CASE \/ SwitchMemtable \/ AppendRecord \/ SyncLog \/ AppendFails
           \/ LogFlush \/ LogFlushFails \/ LogCompaction \/ NewDB \/ OpenLog
           \/ SaveManifest \/ SetCurrentFile \/ LosePower
  BY <1>1, <1>9 DEF SwitchMemtable, AppendRecord, SyncLog, AppendFails, LogFlush,
     LogFlushFails, LogCompaction, NewDB, OpenLog, SaveManifest, SetCurrentFile,
     LosePower, disk
<1> QED
  BY <1>2, <1>3, <1>4, <1>5, <1>6, <1>7, <1>8, <1>9 DEF WritesFiles

\* The MANIFEST that a recovery writes, in one record.
LEMMA SnapshotType ==
  ASSUME vset \in VsetType, NEW o \in OpeningType, logNumber \in Nat
  PROVE  /\ RecoveryEdit(o) = [add0 |-> o.add, addDeep |-> {}, del |-> {},
                               log |-> logNumber, next |-> vset.next, seq |-> vset.seq]
         /\ RecoveryEdit(o) \in EditType
         /\ WriteSnapshot(RecoveryEdit(o)) \in ManifestType
         /\ WriteSnapshot(RecoveryEdit(o)).records =
              <<[add0 |-> o.add \union vset.files.l0, addDeep |-> vset.files.deep,
                 del |-> {}, log |-> logNumber, next |-> vset.next, seq |-> vset.seq]>>
<1>1. RecoveryEdit(o) = [add0 |-> o.add, addDeep |-> {}, del |-> {},
                         log |-> logNumber, next |-> vset.next, seq |-> vset.seq]
  BY DEF RecoveryEdit, Completed, Edit
<1> DEFINE e == [add0 |-> o.add \union vset.files.l0, addDeep |-> vset.files.deep,
                 del |-> {}, log |-> logNumber, next |-> vset.next, seq |-> vset.seq]
<1>2. RecoveryEdit(o) \in EditType
  BY <1>1 DEF OpeningType, EditType, VsetType, Numbers
<1>3. e \in EditType
  BY DEF OpeningType, EditType, VsetType, Layout, Numbers
<1>4. WriteSnapshot(RecoveryEdit(o)) = [records |-> <<e>>, synced |-> 1, torn |-> 0]
  BY <1>1 DEF WriteSnapshot, File, Edit
<1>5. <<e>> \in Seq(EditType)
  BY <1>3
<1> HIDE DEF e
<1>6. WriteSnapshot(RecoveryEdit(o)).records = <<e>>
  BY <1>4
<1>7. WriteSnapshot(RecoveryEdit(o)) \in ManifestType
  BY <1>4, <1>5 DEF ManifestType
<1> QED  BY <1>1, <1>2, <1>6, <1>7 DEF e

LEMMA FirstManifestType ==
  /\ Edit({}, {}, {}, 0, 2, 0) \in EditType
  /\ File(<<Edit({}, {}, {}, 0, 2, 0)>>, 0) \in ManifestType
<1>1. Edit({}, {}, {}, 0, 2, 0) \in EditType
  BY DEF Edit, EditType, Numbers
<1>2. <<Edit({}, {}, {}, 0, 2, 0)>> \in Seq(EditType)
  BY <1>1
<1> QED  BY <1>1, <1>2 DEF File, ManifestType

LEMMA ManifestTypesKept ==
  ASSUME StoreInv, WritesFiles
  PROVE  ManifestsType(manifests') /\ current' \in Nat
<1>0. /\ LogsType(logs) /\ TablesType(tables) /\ ManifestsType(manifests) /\ current \in Nat
      /\ vset \in VsetType /\ flush \subseteq FlushType /\ compaction \subseteq CompactionType
      /\ opening \subseteq OpeningType /\ logNumber \in Nat
  BY DEF StoreInv, Types, DiskTypes, ProcessTypes, ThreadTypes
<1>1. CASE UNCHANGED <<manifests, current>>
  BY <1>0, <1>1
<1>2. CASE LogFlush \/ LogFlushFails
  <2>1. PICK f \in flush : \E edit \in f.edit :
               manifests' = Logged(edit) \/ manifests' \in NotLogged(edit)
    BY <1>2 DEF LogFlush, LogFlushFails
  <2>2. \A edit \in f.edit : edit \in EditType
    BY <1>0 DEF FlushType
  <2>3. UNCHANGED current
    BY <1>2 DEF LogFlush, LogFlushFails
  <2> QED  BY <1>0, <2>1, <2>2, <2>3, LoggedTypes
<1>3. CASE InstallFlush
  BY <1>0, <1>3, DeleteTypes DEF InstallFlush
<1>4. CASE LogCompaction
  <2>1. PICK c \in compaction : \E edit \in c.edit : manifests' = Logged(edit)
    BY <1>4 DEF LogCompaction
  <2>2. \A edit \in c.edit : edit \in EditType
    BY <1>0 DEF CompactionType
  <2>3. UNCHANGED current
    BY <1>4 DEF LogCompaction
  <2> QED  BY <1>0, <2>1, <2>2, <2>3, LoggedTypes
<1>5. CASE InstallCompaction \/ AbandonMerge
  <2>1. PICK c \in compaction : \E vs : EndOfCompaction(c, manifests, vs)
    BY <1>5 DEF InstallCompaction, AbandonMerge
  <2> QED  BY <1>0, <2>1, KeepTypes DEF EndOfCompaction, DeleteObsoleteFiles
<1>6. CASE LogCompactionFails
  <2>1. PICK c \in compaction : \E edit \in c.edit : \E mfs \in NotLogged(edit) : \E vs :
               EndOfCompaction(c, mfs, vs)
    BY <1>6 DEF LogCompactionFails
  <2>2. PICK edit \in c.edit : \E mfs, vs : mfs \in NotLogged(edit) /\ EndOfCompaction(c, mfs, vs)
    BY <2>1
  <2>3. PICK mfs, vs : mfs \in NotLogged(edit) /\ EndOfCompaction(c, mfs, vs)
    BY <2>2
  <2>4. edit \in EditType
    BY <1>0 DEF CompactionType
  <2>5. ManifestsType(mfs)
    BY <1>0, <2>3, <2>4, LoggedTypes
  <2> QED  BY <1>0, <2>3, <2>5, KeepTypes DEF EndOfCompaction, DeleteObsoleteFiles
<1>7. CASE NewDB
  BY <1>0, <1>7, FirstManifestType, WithManifest DEF NewDB
<1>8. CASE SaveManifest
  <2>1. PICK o \in opening :
          manifests' = With(manifests, vset.manifest, WriteSnapshot(RecoveryEdit(o)))
    BY <1>8 DEF SaveManifest
  <2>2. RecoveryEdit(o) \in EditType /\ WriteSnapshot(RecoveryEdit(o)) \in ManifestType
    BY <1>0, SnapshotType
  <2>3. vset.manifest \in Nat /\ UNCHANGED current
    BY <1>0, <1>8 DEF VsetType, SaveManifest
  <2> QED  BY <1>0, <2>1, <2>2, <2>3, WithManifest
<1>9. CASE SetCurrentFile
  BY <1>0, <1>9 DEF SetCurrentFile, VsetType
<1>10. CASE OpenDone
  BY <1>0, <1>10, DeleteTypes DEF OpenDone
<1>11. CASE LosePower
  BY <1>0, <1>11, TruncatedManifests DEF LosePower
<1>12. CASE \/ SwitchMemtable \/ AppendRecord \/ SyncLog \/ AppendFails \/ BuildTable
            \/ OpenOutput \/ FinishOutput \/ ReadsALog \/ OpenLog
  BY <1>1, <1>12 DEF SwitchMemtable, AppendRecord, SyncLog, AppendFails, BuildTable,
     OpenOutput, FinishOutput, ReadsALog, RecoverLogFile, ReadLogFails, OpenLog, disk
<1> QED
  BY <1>2, <1>3, <1>4, <1>5, <1>6, <1>7, <1>8, <1>9, <1>10, <1>11, <1>12 DEF WritesFiles

LEMMA DiskTypesKept ==
  ASSUME StoreInv, Next  PROVE  DiskTypes'
<1>1. CASE WritesFiles
  BY <1>1, LogTypesKept, TableTypesKept, ManifestTypesKept DEF DiskTypes
<1>2. CASE UNCHANGED disk
  BY <1>2 DEF disk, DiskTypes, StoreInv, Types
<1> QED  BY <1>1, <1>2, OthersWriteNothing

LEMMA QueueLeft ==
  ASSUME queue \in Seq(WriterType), NEW n \in Nat, Leave(n)
  PROVE  queue' \in Seq(WriterType)
<1>1. Len(queue) \in Nat /\ \A i \in 1 .. Len(queue) : queue[i] \in WriterType
  BY LenProperties, ElementOfSeq
<1>2. \A i \in n + 1 .. Len(queue) : queue[i] \in WriterType
  BY <1>1
<1> QED  BY <1>1, <1>2, SubSeqProperties DEF Leave

\* A group of `size` writers: its sequence numbers follow the last one.
LEMMA GroupType ==
  ASSUME queue \in Seq(WriterType), vset \in VsetType, WritingInv, BeginWrite
  PROVE  /\ writing' \subseteq WritingType /\ AtMostOne(writing')
         /\ \A w \in writing' : /\ IsFiniteSet(w.writes) /\ w.step = "append"
                                /\ \A s \in w.writes : vset.seq < s
<1>1. PICK size \in 1 .. Len(queue) :
        LET batches == {i \in 1 .. size : ~queue[i].force}
            count == Cardinality(batches)
        IN  writing' = {[size |-> size, step |-> "append",
                         writes |-> vset.seq + 1 .. vset.seq + count,
                         sync |-> queue[1].sync,
                         syncs |-> {vset.seq + Cardinality({j \in batches : j <= i}) :
                                      i \in {j \in batches : queue[j].sync}}]}
  BY DEF BeginWrite
<1> DEFINE batches == {i \in 1 .. size : ~queue[i].force}
<1>2. size \in Nat /\ Len(queue) \in Nat /\ 1 \in 1 .. Len(queue)
  BY LenProperties
<1>3. queue[1] \in WriterType
  BY <1>2, ElementOfSeq
<1>4. IsFiniteSet(1 .. size)
  BY <1>2, FS_Interval
<1>5. \A S : S \subseteq 1 .. size => Cardinality(S) \in Nat
  BY <1>4, FS_Subset, FS_CardinalityType
<1>6. \A i : Cardinality({j \in batches : j <= i}) \in Nat
  <2> TAKE i
  <2>1. {j \in batches : j <= i} \subseteq 1 .. size
    OBVIOUS
  <2> HIDE DEF batches
  <2> QED  BY <1>5, <2>1
<1> DEFINE count  == Cardinality(batches)
           writes == vset.seq + 1 .. vset.seq + count
           upto(i) == Cardinality({j \in batches : j <= i})
           syncs  == {vset.seq + upto(i) : i \in {j \in batches : queue[j].sync}}
<1>7. count \in Nat /\ vset.seq \in Nat
  <2>1. batches \subseteq 1 .. size
    OBVIOUS
  <2> HIDE DEF batches
  <2> QED  BY <1>5, <2>1 DEF VsetType
<1>8. writes \subseteq Nat /\ IsFiniteSet(writes) /\ (\A s \in writes : vset.seq < s)
      /\ syncs \subseteq Nat
  <2>1. \A i : upto(i) \in Nat
    BY <1>6
  <2> HIDE DEF count, upto, batches
  <2>2. writes \subseteq Nat /\ \A s \in writes : vset.seq < s
    BY <1>7
  <2>3. IsFiniteSet(writes)
    BY <1>7, FS_Interval
  <2>4. syncs \subseteq Nat
    BY <1>7, <2>1
  <2> QED  BY <2>2, <2>3, <2>4
<1>9. writing' = {[size |-> size, step |-> "append", writes |-> writes,
                   sync |-> queue[1].sync, syncs |-> syncs]}
  BY <1>1
<1>10. queue[1].sync \in BOOLEAN
  BY <1>3 DEF WriterType
<1> HIDE DEF writes, syncs, batches
<1> QED  BY <1>2, <1>8, <1>9, <1>10 DEF WritingType, AtMostOne, Numbers

LEMMA GroupEnds ==
  ASSUME StoreInv, NEW w \in writing, EndOfGroup(w)
  PROVE  /\ writing' = {} /\ queue' \in Seq(WriterType)
         /\ vset' \in VsetType
         /\ vset'.files = vset.files /\ vset'.log = vset.log /\ vset'.next = vset.next
         /\ vset'.manifest = vset.manifest /\ vset.seq <= vset'.seq
<1>1. /\ w \in WritingType /\ vset \in VsetType /\ queue \in Seq(WriterType)
      /\ IsFiniteSet(w.writes)
  BY DEF StoreInv, Types, ProcessTypes, Inv, WritingInv
<1>2. Cardinality(w.writes) \in Nat
  BY <1>1, FS_CardinalityType
<1>3. queue' \in Seq(WriterType)
  BY <1>1, QueueLeft DEF EndOfGroup, WritingType
<1>4. vset' = [vset EXCEPT !.seq = @ + Cardinality(w.writes)]
  BY DEF EndOfGroup
<1>5. vset.seq + Cardinality(w.writes) \in Nat /\ vset.seq <= vset.seq + Cardinality(w.writes)
  BY <1>1, <1>2 DEF VsetType
<1> QED  BY <1>1, <1>3, <1>4, <1>5 DEF EndOfGroup, VsetType

QueueTypes == /\ queue \in Seq(WriterType) /\ writing \subseteq WritingType
              /\ AtMostOne(writing) /\ mem \in Numbers

LEMMA QueueTypesKept ==
  ASSUME StoreInv, Next  PROVE  QueueTypes'
<1>0. /\ QueueTypes /\ vset \in VsetType /\ WritingInv
  BY DEF StoreInv, Types, ProcessTypes, Inv, QueueTypes
<1>1. CASE UNCHANGED <<queue, writing, mem>>
  BY <1>0, <1>1 DEF QueueTypes
<1>2. CASE (\E sync \in BOOLEAN : Enqueue(sync, FALSE)) \/ TEST_CompactMemTable
  <2>1. PICK q \in WriterType : queue' = Append(queue, q)
    BY <1>2 DEF Enqueue, TEST_CompactMemTable, WriterType
  <2>2. queue' \in Seq(WriterType)
    BY <1>0, <2>1, AppendProperties DEF QueueTypes
  <2> QED  BY <1>0, <1>2, <2>2 DEF Enqueue, TEST_CompactMemTable, QueueTypes, memory
<1>3. CASE Yield \/ SwitchFails
  <2>1. queue' \in Seq(WriterType)
    BY <1>0, <1>3, QueueLeft DEF Yield, SwitchFails, QueueTypes
  <2> QED  BY <1>0, <1>3, <2>1 DEF Yield, SwitchFails, QueueTypes, memory
<1>4. CASE SwitchMemtable
  <2>1. queue' \in Seq(WriterType)
    BY <1>0, <1>4, QueueLeft DEF SwitchMemtable, QueueTypes
  <2> QED  BY <1>0, <1>4, <2>1 DEF SwitchMemtable, QueueTypes, Numbers
<1>5. CASE BeginWrite
  <2>1. UNCHANGED <<queue, mem>>
    BY <1>5 DEF BeginWrite, memory
  <2> QED  BY <1>0, <1>5, <2>1, GroupType DEF QueueTypes
<1>6. CASE AppendRecord \/ SyncLog
  <2>1. UNCHANGED <<queue, mem>>
    BY <1>6 DEF AppendRecord, SyncLog, memory
  <2>2. PICK w \in writing, step \in {"sync", "insert"} : writing' = {[w EXCEPT !.step = step]}
    BY <1>6 DEF AppendRecord, SyncLog
  <2>3. [w EXCEPT !.step = step] \in WritingType
    BY <1>0 DEF QueueTypes, WritingType
  <2> QED  BY <1>0, <2>1, <2>2, <2>3 DEF QueueTypes, AtMostOne
<1>7. CASE InsertInto \/ AppendFails \/ SyncFails
  <2>1. PICK w \in writing : EndOfGroup(w) /\ mem' \in {mem, mem \union w.writes}
    BY <1>7 DEF InsertInto, AppendFails, SyncFails, memory
  <2>2. w.writes \in Numbers
    BY <1>0 DEF QueueTypes, WritingType
  <2>3. mem' \in Numbers
    BY <1>0, <2>1, <2>2 DEF QueueTypes, Numbers
  <2> QED  BY <2>1, <2>3, GroupEnds DEF QueueTypes, AtMostOne
<1>8. CASE Background \/ Open \/ AskManual \/ CancelManual \/ Pin \/ Unpin \/ StartClose
  <2>1. CASE RecoverLogFile \/ ReadLogFails
    BY <1>1, <2>1 DEF RecoverLogFile, ReadLogFails, memory
  <2>2. CASE NullManual
    BY <2>2, EmptySeq DEF NullManual, ProcessEnds, QueueTypes, AtMostOne, Numbers
  <2>3. CASE InstallCompaction \/ LogCompactionFails \/ AbandonMerge
    BY <1>1, <2>3 DEF InstallCompaction, LogCompactionFails, AbandonMerge, EndOfCompaction, memory
  <2>4. CASE \/ NothingToDo \/ StartFlush \/ BuildTable \/ BuildTableFails \/ LogFlush
             \/ LogFlushFails \/ InstallFlush \/ StartCompaction \/ StartMove
             \/ NothingInRange \/ OpenOutput \/ FinishOutput \/ LogCompaction
    BY <1>1, <2>4 DEF NothingToDo, StartFlush, BuildTable, BuildTableFails, LogFlush,
       LogFlushFails, InstallFlush, StartCompaction, StartMove, NothingInRange,
       OpenOutput, FinishOutput, LogCompaction, memory
  <2>5. CASE NewDB \/ RecoverVersions \/ OpenLog \/ SaveManifest \/ SetCurrentFile \/ OpenDone
    BY <1>1, <2>5 DEF NewDB, RecoverVersions, OpenLog, SaveManifest, SetCurrentFile,
       OpenDone, memory
  <2>6. CASE AskManual \/ CancelManual \/ Pin \/ Unpin \/ StartClose
    BY <1>1, <2>6 DEF AskManual, CancelManual, Pin, Unpin, StartClose, memory
  <2> QED  BY <1>8, <2>1, <2>2, <2>3, <2>4, <2>5, <2>6 DEF Background, Open
<1>9. CASE Closed \/ Exit \/ LosePower
  BY <1>9, EmptySeq DEF Closed, Exit, LosePower, ProcessEnds, QueueTypes, AtMostOne, Numbers
<1> QED
  BY <1>2, <1>3, <1>4, <1>5, <1>6, <1>7, <1>8, <1>9 DEF Next, Writer

LEMMA NextNumber ==
  ASSUME vset \in VsetType, vset' = [vset EXCEPT !.next = @ + 1]
  PROVE  /\ vset' \in VsetType
         /\ vset'.next = vset.next + 1 /\ vset'.files = vset.files
         /\ vset'.log = vset.log /\ vset'.seq = vset.seq /\ vset'.manifest = vset.manifest
BY DEF VsetType

LEMMA InstalledType ==
  ASSUME vset \in VsetType, NEW edit \in EditType, vset' = Installed(edit)
  PROVE  /\ vset' \in VsetType
         /\ vset'.files = Apply(vset.files, edit) /\ vset'.log = edit.log
         /\ vset'.next = vset.next /\ vset'.seq = vset.seq
         /\ vset'.manifest = vset.manifest
<1>1. Apply(vset.files, edit) \in Layout /\ edit.log \in Nat
  BY ApplyNumbers DEF VsetType, EditType
<1> QED  BY <1>1 DEF Installed, VsetType

\* What a log leaves behind when it has been recovered.
LEMMA RecoveredLogType ==
  ASSUME StoreInv, NEW o, NEW n, NEW records, NEW into, ReadsLog(o, n, records, into)
  PROVE  /\ n \in Nat \ {0} /\ n \in DOMAIN logs /\ logs[n] \in LogType
         /\ UNION Range(records) \subseteq Nat
         /\ Made(records, into) \in Nat
         /\ vset' \in VsetType
         /\ vset.next + Made(records, into) <= vset'.next /\ n < vset'.next
         /\ vset'.files = vset.files /\ vset'.log = vset.log
         /\ vset'.manifest = vset.manifest
         /\ vset.seq <= vset'.seq
<1>1. /\ LogsType(logs) /\ vset \in VsetType
      /\ records \in Seq(Numbers) /\ into \in Refill(records)
      /\ RecoverLog(o, n, records, into) /\ n \in DOMAIN logs
      /\ UNION Range(records) \subseteq WritesIn(logs[n])
  BY DEF StoreInv, Types, DiskTypes, ProcessTypes, Inv, OpeningInv, ReadsLog
<1>2. /\ n \in Nat \ {0} /\ logs[n] \in LogType
      /\ UNION Range(records) \subseteq Nat
  <2>1. n \in Nat \ {0} /\ logs[n] \in LogType
    BY <1>1 DEF LogsType
  <2> QED  BY <1>1, <2>1, WritesType
<1>3. Made(records, into) \in Nat
  <2>1. CASE records = << >>
    BY <2>1 DEF Made
  <2>2. CASE records # << >>
    <3>1. Len(records) \in Nat \ {0} /\ DOMAIN records = 1 .. Len(records)
      BY <1>1, <2>2, EmptySeq, LenProperties
    <3>2. into \in [1 .. Len(records) -> 0 .. Len(records)]
      BY <1>1, <3>1 DEF Refill
    <3>3. into \in Seq(Nat) /\ Len(into) = Len(records)
      BY <3>1, <3>2
    <3>4. Last(into) \in Nat
      BY <3>1, <3>2, <3>3 DEF Last
    <3> QED  BY <3>4 DEF Made
  <2> QED  BY <2>1, <2>2
<1> DEFINE writes == UNION Range(records)
<1>4. PICK top \in writes \union {vset.seq} :
        /\ \A s \in writes \union {vset.seq} : s <= top
        /\ vset' = [vset EXCEPT !.next = MarkFileNumberUsed(@ + Made(records, into), n),
                                !.seq = top]
  BY <1>1 DEF RecoverLog
<1>5. top \in Nat /\ vset.seq <= top
  BY <1>1, <1>2, <1>4 DEF VsetType
<1>6. LET next == MarkFileNumberUsed(vset.next + Made(records, into), n)
      IN  next \in Nat /\ vset.next + Made(records, into) <= next /\ n < next
  BY <1>1, <1>2, <1>3 DEF MarkFileNumberUsed, VsetType
<1> QED  BY <1>1, <1>2, <1>3, <1>4, <1>5, <1>6 DEF VsetType

MemoryTypes == /\ imm \subseteq Numbers /\ AtMostOne(imm) /\ logNumber \in Nat
               /\ vset \in VsetType

LEMMA MemoryTypesKept ==
  ASSUME StoreInv, Next  PROVE  MemoryTypes'
<1>0. /\ MemoryTypes /\ mem \in Numbers /\ current \in Nat
      /\ flush \subseteq FlushType /\ compaction \subseteq CompactionType
      /\ opening \subseteq OpeningType
      /\ ManifestsType(manifests) /\ DiskInv
  BY DEF StoreInv, Types, DiskTypes, ProcessTypes, ThreadTypes, MemoryTypes, Inv
<1>1. CASE UNCHANGED <<imm, logNumber, vset>>
  BY <1>0, <1>1 DEF MemoryTypes
<1>2. CASE \/ (\E sync \in BOOLEAN : Enqueue(sync, FALSE)) \/ TEST_CompactMemTable
           \/ Yield \/ SwitchFails \/ BeginWrite \/ AppendRecord \/ SyncLog
           \/ AskManual \/ CancelManual \/ Pin \/ Unpin \/ StartClose
  BY <1>1, <1>2 DEF Enqueue, TEST_CompactMemTable, Yield, SwitchFails, BeginWrite,
     AppendRecord, SyncLog, AskManual, CancelManual, Pin, Unpin, StartClose, memory
<1>3. CASE SwitchMemtable
  <2>1. /\ vset' = [vset EXCEPT !.next = @ + 1]
        /\ logNumber' = vset.next /\ imm' = {mem}
    BY <1>3 DEF SwitchMemtable
  <2>2. vset' \in VsetType /\ vset.next \in Nat
    BY <1>0, <2>1, NextNumber DEF MemoryTypes, VsetType
  <2> QED  BY <1>0, <2>1, <2>2 DEF MemoryTypes, AtMostOne
<1>4. CASE InsertInto \/ AppendFails \/ SyncFails
  <2>1. (\E w \in writing : EndOfGroup(w)) /\ UNCHANGED <<imm, logNumber>>
    BY <1>4 DEF InsertInto, AppendFails, SyncFails, memory
  <2> QED  BY <1>0, <2>1, GroupEnds DEF MemoryTypes
<1>5. CASE StartFlush \/ OpenOutput
  <2>1. vset' = [vset EXCEPT !.next = @ + 1] /\ UNCHANGED <<imm, logNumber>>
    BY <1>5 DEF StartFlush, OpenOutput, memory
  <2> QED  BY <1>0, <2>1, NextNumber DEF MemoryTypes
<1>6. CASE InstallFlush
  <2>1. PICK f \in flush : \E edit \in f.edit : vset' = Installed(edit)
    BY <1>6 DEF InstallFlush
  <2>2. \A edit \in f.edit : edit \in EditType
    BY <1>0 DEF FlushType
  <2>3. imm' = {} /\ UNCHANGED logNumber
    BY <1>6 DEF InstallFlush
  <2>4. vset' \in VsetType
    BY <1>0, <2>1, <2>2, InstalledType DEF MemoryTypes
  <2> QED  BY <1>0, <2>3, <2>4 DEF MemoryTypes, AtMostOne
<1>7. CASE InstallCompaction
  <2>1. PICK c \in compaction : \E edit \in c.edit : vset' = Installed(edit)
    BY <1>7 DEF InstallCompaction
  <2>2. \A edit \in c.edit : edit \in EditType
    BY <1>0 DEF CompactionType
  <2>3. UNCHANGED <<imm, logNumber>>
    BY <1>7 DEF InstallCompaction, EndOfCompaction, memory
  <2>4. vset' \in VsetType
    BY <1>0, <2>1, <2>2, InstalledType DEF MemoryTypes
  <2> QED  BY <1>0, <2>3, <2>4 DEF MemoryTypes
<1>8. CASE LogCompactionFails \/ AbandonMerge
  BY <1>1, <1>8 DEF LogCompactionFails, AbandonMerge, EndOfCompaction, memory
<1>9. CASE \/ NothingToDo \/ BuildTable \/ BuildTableFails \/ LogFlush \/ LogFlushFails
           \/ StartCompaction \/ StartMove \/ NothingInRange \/ FinishOutput \/ LogCompaction
  BY <1>1, <1>9 DEF NothingToDo, BuildTable, BuildTableFails, LogFlush, LogFlushFails,
     StartCompaction, StartMove, NothingInRange, FinishOutput, LogCompaction, memory
<1>10. CASE NewDB \/ SaveManifest \/ OpenDone
  BY <1>1, <1>10 DEF NewDB, SaveManifest, OpenDone, memory
<1>11. CASE RecoverVersions
  <2>1. UNCHANGED <<imm, logNumber>>
    BY <1>11 DEF RecoverVersions, memory
  <2>2. CASE UNCHANGED vset
    BY <1>0, <2>1, <2>2 DEF MemoryTypes
  <2>3. CASE vset' # vset
    <3>1. /\ OnDisk # << >>
          /\ vset' = [files |-> Version.files, log |-> Version.log, seq |-> Version.seq,
                      next |-> Version.next + 1, manifest |-> Version.next]
      BY <1>11, <2>3 DEF RecoverVersions, OnDisk, Version
    <3>2. OnDisk \in Seq(EditType)
      BY <1>0, OnDiskType DEF DiskInv
    <3>3. /\ Version.files \in Layout /\ Version.log \in Nat /\ Version.seq \in Nat
          /\ Version.next \in Nat
      BY <3>1, <3>2, ReplayType DEF Version
    <3>5. vset' \in VsetType
      BY <3>1, <3>3 DEF VsetType
    <3> QED  BY <1>0, <2>1, <3>5 DEF MemoryTypes
  <2> QED  BY <2>2, <2>3
<1>12. CASE ReadsALog
  <2>1. PICK o, n, records, into : ReadsLog(o, n, records, into)
    BY <1>12, SomeLogIsRead
  <2>2. vset' \in VsetType /\ UNCHANGED <<imm, logNumber>>
    BY <2>1, RecoveredLogType DEF ReadsLog, memory
  <2> QED  BY <1>0, <2>2 DEF MemoryTypes
<1>13. CASE OpenLog
  <2>1. UNCHANGED imm /\ logNumber' = vset.next /\ vset' = [vset EXCEPT !.next = @ + 1]
    BY <1>13 DEF OpenLog
  <2>2. vset' \in VsetType /\ vset.next \in Nat
    BY <1>0, <2>1, NextNumber DEF MemoryTypes, VsetType
  <2> QED  BY <1>0, <2>1, <2>2 DEF MemoryTypes
<1>14. CASE SetCurrentFile
  <2>1. PICK o \in opening : vset' = Installed(RecoveryEdit(o))
    BY <1>14 DEF SetCurrentFile
  <2>2. RecoveryEdit(o) \in EditType
    BY <1>0, SnapshotType DEF MemoryTypes
  <2>3. UNCHANGED <<imm, logNumber>>
    BY <1>14 DEF SetCurrentFile, memory
  <2> QED  BY <1>0, <2>1, <2>2, <2>3, InstalledType DEF MemoryTypes
<1>15. CASE Closed \/ Exit \/ LosePower \/ NullManual
  <2>1. NoVersions \in VsetType
    BY DEF NoVersions, NoFiles, VsetType, Layout, Numbers
  <2> QED  BY <1>15, <2>1 DEF Closed, Exit, LosePower, NullManual, ProcessEnds, MemoryTypes, AtMostOne
<1> QED
  BY <1>2, <1>3, <1>4, <1>5, <1>6, <1>7, <1>8, <1>9, <1>10, <1>11, <1>12, <1>13, <1>14, <1>15
  DEF Next, Writer, Background, Open, ReadsALog

ControlTypes ==
  /\ phase \in {"down", "opening", "open", "closing", "broken"}
  /\ opening \subseteq OpeningType /\ AtMostOne(opening)
  /\ error \in BOOLEAN /\ manual \in BOOLEAN

LEMMA ControlTypesKept ==
  ASSUME StoreInv, Next  PROVE  ControlTypes'
<1>0. /\ ControlTypes /\ vset \in VsetType /\ LogsType(logs) /\ compaction \subseteq CompactionType
      /\ OpeningInv
  BY DEF StoreInv, Types, DiskTypes, ProcessTypes, ThreadTypes, ControlTypes, Inv
<1>1. CASE UNCHANGED <<phase, opening>> /\ error' \in BOOLEAN /\ manual' \in BOOLEAN
  BY <1>0, <1>1 DEF ControlTypes
<1>2. CASE \/ (\E sync \in BOOLEAN : Enqueue(sync, FALSE)) \/ TEST_CompactMemTable
           \/ Yield \/ SwitchMemtable \/ SwitchFails \/ BeginWrite \/ AppendRecord
           \/ SyncLog \/ InsertInto \/ AppendFails
  BY <1>0, <1>1, <1>2 DEF Enqueue, TEST_CompactMemTable, Yield, SwitchMemtable, SwitchFails,
     BeginWrite, AppendRecord, SyncLog, InsertInto, AppendFails, control, ControlTypes
<1>3. CASE SyncFails \/ AskManual \/ CancelManual \/ Pin \/ Unpin
  BY <1>0, <1>1, <1>3 DEF SyncFails, RecordBackgroundError, AskManual, CancelManual, Pin,
     Unpin, control, ControlTypes
<1>4. CASE \/ NothingToDo \/ StartFlush \/ BuildTable \/ BuildTableFails \/ LogFlush
           \/ LogFlushFails \/ InstallFlush
  BY <1>0, <1>1, <1>4 DEF NothingToDo, StartFlush, BuildTable, BuildTableFails, LogFlush,
     LogFlushFails, InstallFlush, RecordBackgroundError, control, ControlTypes
<1>5. CASE \/ StartCompaction \/ StartMove \/ NothingInRange \/ OpenOutput \/ FinishOutput
           \/ LogCompaction
  BY <1>0, <1>1, <1>5 DEF StartCompaction, StartMove, NothingInRange, OpenOutput,
     FinishOutput, LogCompaction, control, ControlTypes
<1>6. CASE InstallCompaction \/ LogCompactionFails \/ AbandonMerge
  <2>1. /\ error' \in BOOLEAN /\ UNCHANGED <<phase, opening>>
        /\ \E c : manual' = (manual /\ ~c.manual)
    BY <1>0, <1>6 DEF InstallCompaction, LogCompactionFails, AbandonMerge,
       EndOfCompaction, RecordBackgroundError, ControlTypes
  <2>2. manual' \in BOOLEAN
    BY <2>1
  <2> QED  BY <1>1, <2>1, <2>2
<1>7. CASE NewDB \/ StartClose
  BY <1>0, <1>7 DEF NewDB, StartClose, control, ControlTypes
<1>8. CASE RecoverVersions
  <2>1. UNCHANGED <<error, manual>>
    BY <1>8 DEF RecoverVersions, control
  <2>2. CASE phase' = "broken" /\ UNCHANGED opening
    BY <1>0, <2>1, <2>2 DEF ControlTypes
  <2>3. CASE ~(phase' = "broken" /\ UNCHANGED opening)
    <3> DEFINE left == {n \in DOMAIN logs : n >= Replay(EditsOf(manifests)).log}
    <3>1. /\ phase' = "opening"
          /\ opening' = {[step |-> "logs", add |-> {}, left |-> left]}
      BY <1>8, <2>3 DEF RecoverVersions
    <3>2. left \subseteq Nat
      BY <1>0 DEF LogsType
    <3> HIDE DEF left
    <3>3. [step |-> "logs", add |-> {}, left |-> left] \in OpeningType
      BY <3>2 DEF OpeningType, Numbers
    <3> QED  BY <1>0, <2>1, <3>1, <3>3 DEF ControlTypes, AtMostOne
  <2> QED  BY <2>2, <2>3
<1>9. CASE ReadsALog
  <2>1. PICK o, n, records, into : ReadsLog(o, n, records, into)
    BY <1>9, SomeLogIsRead
  <2> DEFINE names == vset.next .. vset.next + Made(records, into) - 1
  <2>2. /\ opening' = {[o EXCEPT !.left = @ \ {n}, !.add = @ \union names]}
        /\ o \in opening
    BY <2>1 DEF ReadsLog, RecoverLog
  <2>3. names \subseteq Nat
    BY <1>0 DEF VsetType
  <2> HIDE DEF names
  <2>4. o \in OpeningType
    BY <1>0, <2>2 DEF ControlTypes
  <2>5. [o EXCEPT !.left = @ \ {n}, !.add = @ \union names] \in OpeningType
    BY <2>3, <2>4 DEF OpeningType, Numbers
  <2>6. UNCHANGED <<phase, error, manual>>
    BY <2>1 DEF ReadsLog, control
  <2> QED  BY <1>0, <2>2, <2>5, <2>6 DEF ControlTypes, AtMostOne
<1>10. CASE OpenLog \/ SaveManifest \/ SetCurrentFile
  <2>1. PICK o \in opening, step \in {"manifest", "current", "done"} :
               opening' = {[o EXCEPT !.step = step]}
    BY <1>10 DEF OpenLog, SaveManifest, SetCurrentFile
  <2>2. [o EXCEPT !.step = step] \in OpeningType
    BY <1>0 DEF ControlTypes, OpeningType
  <2>3. UNCHANGED <<phase, error, manual>>
    BY <1>10 DEF OpenLog, SaveManifest, SetCurrentFile, control
  <2> QED  BY <1>0, <2>1, <2>2, <2>3 DEF ControlTypes, AtMostOne
<1>11. CASE OpenDone
  BY <1>0, <1>11 DEF OpenDone, ControlTypes, AtMostOne
<1>12. CASE Closed \/ Exit \/ LosePower \/ NullManual
  BY <1>12 DEF Closed, Exit, LosePower, NullManual, ProcessEnds, ControlTypes, AtMostOne
<1> QED
  BY <1>2, <1>3, <1>4, <1>5, <1>6, <1>7, <1>8, <1>9, <1>10, <1>11, <1>12
  DEF Next, Writer, Background, Open, ReadsALog

LEMMA HistoryTypesKept ==
  ASSUME StoreInv, Next  PROVE  HistoryTypes'
<1>0. HistoryTypes /\ writing \subseteq WritingType
  BY DEF StoreInv, Types, ProcessTypes
<1>1. CASE UNCHANGED history
  BY <1>0, <1>1 DEF HistoryTypes, history
<1>2. CASE InsertInto
  <2>1. PICK w \in writing : acked' = acked \union w.writes /\ durable' = durable \union w.syncs
    BY <1>2 DEF InsertInto
  <2>2. w.writes \in Numbers /\ w.syncs \in Numbers
    BY <1>0 DEF WritingType
  <2> QED  BY <1>0, <2>1, <2>2 DEF HistoryTypes, Numbers
<1>3. CASE LosePower
  BY <1>0, <1>3 DEF LosePower, HistoryTypes, Numbers
<1>4. CASE \/ (\E sync \in BOOLEAN : Enqueue(sync, FALSE)) \/ TEST_CompactMemTable
           \/ Yield \/ SwitchMemtable \/ SwitchFails \/ BeginWrite \/ AppendRecord
           \/ SyncLog \/ AppendFails \/ SyncFails \/ AskManual \/ CancelManual \/ Pin \/ Unpin
  BY <1>1, <1>4 DEF Enqueue, TEST_CompactMemTable, Yield, SwitchMemtable, SwitchFails,
     BeginWrite, AppendRecord, SyncLog, AppendFails, SyncFails, AskManual, CancelManual, Pin, Unpin
<1>5. CASE Background
  BY <1>1, <1>5 DEF Background, NothingToDo, StartFlush, BuildTable, BuildTableFails, LogFlush,
     LogFlushFails, InstallFlush, StartCompaction, StartMove, NothingInRange, OpenOutput,
     FinishOutput, LogCompaction, LogCompactionFails, InstallCompaction, AbandonMerge,
     EndOfCompaction, NullManual
<1>6. CASE ReadsALog
  <2>1. PICK gone : Forget(gone)
    BY <1>6, SomeLogIsRead DEF ReadsLog
  <2> QED  BY <1>0, <2>1 DEF Forget, HistoryTypes, Numbers
<1>7. CASE (Open /\ ~ReadsALog) \/ StartClose \/ Closed \/ Exit
  BY <1>1, <1>7 DEF Open, ReadsALog, NewDB, RecoverVersions, OpenLog, SaveManifest,
     SetCurrentFile, OpenDone, StartClose, Closed, Exit
<1> QED
  BY <1>2, <1>3, <1>4, <1>5, <1>6, <1>7 DEF Next, Writer

\* A reader that lets go.
LEMMA ReadersLeft ==
  ASSUME readers \in Seq(ReaderType), NEW i \in DOMAIN readers
  PROVE  /\ RemoveAt(readers, i) \in Seq(ReaderType)
         /\ Range(RemoveAt(readers, i)) \subseteq Range(readers)
<1> DEFINE before == SubSeq(readers, 1, i - 1)
           after  == SubSeq(readers, i + 1, Len(readers))
<1>1. /\ Len(readers) \in Nat /\ DOMAIN readers = 1 .. Len(readers) /\ i \in 1 .. Len(readers)
      /\ \A j \in 1 .. Len(readers) : readers[j] \in ReaderType
  BY LenProperties, ElementOfSeq
<1>2. /\ before \in Seq(ReaderType) /\ Len(before) = i - 1
      /\ \A j \in 1 .. i - 1 : before[j] = readers[j]
  <2>1. \A j \in 1 .. i - 1 : readers[j] \in ReaderType
    BY <1>1
  <2>2. i - 1 \in Nat
    BY <1>1
  <2>3. before \in Seq(ReaderType)
    BY <2>1, <2>2, SubSeqProperties
  <2>4. Len(before) = i - 1 /\ \A j \in 1 .. i - 1 : before[j] = readers[j]
    BY <1>1, <2>2
  <2> QED  BY <2>3, <2>4
<1>3. /\ after \in Seq(ReaderType) /\ Len(after) = Len(readers) - i
      /\ \A j \in 1 .. Len(readers) - i : after[j] = readers[i + j]
  <2>1. \A j \in i + 1 .. Len(readers) : readers[j] \in ReaderType
    BY <1>1
  <2>2. after \in Seq(ReaderType)
    BY <1>1, <2>1, SubSeqProperties
  <2>3. Len(after) = Len(readers) - i /\ \A j \in 1 .. Len(readers) - i : after[j] = readers[i + j]
    BY <1>1
  <2> QED  BY <2>2, <2>3
<1>4. RemoveAt(readers, i) = before \o after
  BY DEF RemoveAt
<1> HIDE DEF before, after
<1>5. before \o after \in Seq(ReaderType) /\ Len(before \o after) = Len(readers) - 1
  <2>1. before \in Seq(ReaderType) /\ after \in Seq(ReaderType)
    BY <1>2, <1>3
  <2>2. /\ before \o after \in Seq(ReaderType)
        /\ Len(before \o after) = Len(before) + Len(after)
    BY <2>1, ConcatProperties
  <2> QED  BY <1>1, <1>2, <1>3, <2>2
<1>6. ASSUME NEW j \in DOMAIN (before \o after)
      PROVE  (before \o after)[j] \in Range(readers)
  <2>1. j \in 1 .. Len(readers) - 1
    BY <1>5, LenProperties
  <2>2. CASE j <= i - 1
    BY <1>1, <1>2, <1>3, <2>1, <2>2, ConcatProperties DEF Range
  <2>3. CASE j > i - 1
    <3>1. (before \o after)[j] = after[j - (i - 1)]
      BY <1>1, <1>2, <1>3, <2>1, <2>3, ConcatProperties
    <3>2. after[j - (i - 1)] = readers[j + 1]
      BY <1>1, <1>3, <2>1, <2>3
    <3>3. j + 1 \in DOMAIN readers
      BY <1>1, <2>1
    <3> QED  BY <3>1, <3>2, <3>3 DEF Range
  <2> QED  BY <1>1, <2>1, <2>2, <2>3
<1> QED  BY <1>4, <1>5, <1>6 DEF Range

\* The background thread's edits are EditTypes.
LEMMA EditsTyped ==
  ASSUME flush \subseteq FlushType, compaction \subseteq CompactionType
  PROVE  /\ \A f \in flush : f.number \in Nat /\ \A e \in f.edit : e \in EditType
         /\ \A c \in compaction : /\ c.inputs \in Numbers /\ c.out \in Numbers
                                  /\ c.base \in Layout
                                  /\ \A e \in c.edit : e \in EditType
BY DEF FlushType, CompactionType

LEMMA ThreadTypesKept ==
  ASSUME StoreInv, Next  PROVE  ThreadTypes'
<1>0. /\ ThreadTypes /\ vset \in VsetType /\ logNumber \in Nat /\ mem \in Numbers
      /\ imm \subseteq Numbers
  BY DEF StoreInv, Types, ProcessTypes
<1>1. /\ pending \in Numbers /\ flush \subseteq FlushType /\ AtMostOne(flush)
      /\ compaction \subseteq CompactionType /\ AtMostOne(compaction)
      /\ readers \in Seq(ReaderType)
      /\ vset.next \in Nat /\ vset.files \in Layout /\ vset.log \in Nat /\ vset.seq \in Nat
  BY <1>0 DEF ThreadTypes, VsetType
<1>2. AtMostOne({}) /\ \A x : AtMostOne({x})
  BY DEF AtMostOne
<1>3. CASE UNCHANGED <<pending, flush, compaction, readers>>
  BY <1>0, <1>3 DEF ThreadTypes
<1>4. CASE \/ (\E sync \in BOOLEAN : Enqueue(sync, FALSE)) \/ TEST_CompactMemTable
           \/ Writer \/ AskManual \/ CancelManual \/ NothingToDo \/ NothingInRange
           \/ StartClose
  BY <1>3, <1>4 DEF Enqueue, TEST_CompactMemTable, Writer, Yield, SwitchMemtable, SwitchFails,
     BeginWrite, AppendRecord, SyncLog, InsertInto, AppendFails, SyncFails, AskManual,
     CancelManual, NothingToDo, NothingInRange, StartClose
<1>5. CASE Open
  BY <1>3, <1>5 DEF Open, NewDB, RecoverVersions, RecoverLogFile, ReadLogFails, OpenLog,
     SaveManifest, SetCurrentFile, OpenDone
<1>6. CASE StartFlush
  <2>1. [number |-> vset.next, step |-> "build", edit |-> {}] \in FlushType
    BY <1>1 DEF FlushType
  <2>2. UNCHANGED compaction \/ \E c \in compaction : compaction' = {[c EXCEPT !.flushes = @ + 1]}
    BY <1>6 DEF StartFlush
  <2>3. \A c \in compaction : [c EXCEPT !.flushes = @ + 1] \in CompactionType
    BY <1>1 DEF CompactionType
  <2>4. compaction' \subseteq CompactionType /\ AtMostOne(compaction')
    BY <1>1, <1>2, <2>2, <2>3
  <2>5. pending' \in Numbers
    BY <1>1, <1>6 DEF StartFlush, Numbers
  <2> QED  BY <1>1, <1>2, <1>6, <2>1, <2>4, <2>5 DEF StartFlush, ThreadTypes
<1>7. CASE BuildTable
  <2>1. PICK f \in flush, deep \in BOOLEAN :
          LET new  == IF UNION imm = {} THEN {} ELSE {f.number}
              edit == Completed(IF deep THEN {} ELSE new, IF deep THEN new ELSE {}, {}, logNumber)
          IN  /\ pending' = pending \ {f.number}
              /\ \/ flush' = {}
                 \/ flush' = {[f EXCEPT !.step = "log", !.edit = {edit}]}
    BY <1>7 DEF BuildTable, EndOfFlush
  <2> DEFINE new  == IF UNION imm = {} THEN {} ELSE {f.number}
             edit == Completed(IF deep THEN {} ELSE new, IF deep THEN new ELSE {}, {}, logNumber)
  <2>2. new \in Numbers /\ {} \in Numbers
    BY <1>1 DEF FlushType, Numbers
  <2>3. edit \in EditType
    <3> HIDE DEF new
    <3> QED  BY <1>0, <2>2, CompletedType
  <2>4. flush' = {} \/ flush' = {[f EXCEPT !.step = "log", !.edit = {edit}]}
    BY <2>1
  <2> HIDE DEF edit, new
  <2>5. [f EXCEPT !.step = "log", !.edit = {edit}] \in FlushType
    BY <1>1, <2>3 DEF FlushType
  <2>6. UNCHANGED <<compaction, readers>> /\ pending' \in Numbers
    BY <1>1, <1>7, <2>1 DEF BuildTable, Numbers
  <2> QED  BY <1>1, <1>2, <2>4, <2>5, <2>6 DEF ThreadTypes
<1>8. CASE BuildTableFails
  BY <1>1, <1>2, <1>8 DEF BuildTableFails, EndOfFlush, ThreadTypes, Numbers
<1>9. CASE LogFlush
  <2>1. PICK f \in flush : flush' = {[f EXCEPT !.step = "install"]}
    BY <1>9 DEF LogFlush
  <2>2. [f EXCEPT !.step = "install"] \in FlushType
    BY <1>1 DEF FlushType
  <2> QED  BY <1>1, <1>2, <1>9, <2>1, <2>2 DEF LogFlush, ThreadTypes
<1>10. CASE LogFlushFails \/ InstallFlush
  BY <1>1, <1>2, <1>10 DEF LogFlushFails, InstallFlush, EndOfFlush, ThreadTypes
<1>11. CASE StartCompaction
  <2>1. PICK ns \in SUBSET NumbersOf(vset.files) :
          compaction' = {[inputs |-> ns, step |-> "merge", base |-> vset.files,
                          manual |-> manual, out |-> {}, edit |-> {}, flushes |-> 0]}
    BY <1>11 DEF StartCompaction
  <2>2. ns \in Numbers /\ manual \in BOOLEAN
    BY <1>1 DEF NumbersOf, Layout, Numbers, StoreInv, Types, ProcessTypes
  <2>3. compaction' \subseteq CompactionType
    BY <1>1, <2>1, <2>2 DEF CompactionType, Numbers
  <2> QED  BY <1>1, <1>2, <1>11, <2>1, <2>3 DEF StartCompaction, ThreadTypes
<1>12. CASE StartMove
  <2>1. PICK n \in vset.files.l0 :
          compaction' = {[inputs |-> {n}, step |-> "log", base |-> vset.files,
                          manual |-> FALSE, out |-> {}, flushes |-> 0,
                          edit |-> {Completed({}, {n}, {n}, vset.log)}]}
    BY <1>12 DEF StartMove
  <2>2. {n} \in Numbers /\ {} \in Numbers
    BY <1>1 DEF Layout, Numbers
  <2>3. Completed({}, {n}, {n}, vset.log) \in EditType
    BY <1>0, <1>1, <2>2, CompletedType
  <2>4. ASSUME NEW e \in EditType
        PROVE  [inputs |-> {n}, step |-> "log", base |-> vset.files, manual |-> FALSE,
                out |-> {}, flushes |-> 0, edit |-> {e}] \in CompactionType
    BY <1>1, <2>2 DEF CompactionType
  <2>5. compaction' \subseteq CompactionType
    BY <2>1, <2>3, <2>4
  <2> QED  BY <1>1, <1>2, <1>12, <2>1, <2>5 DEF StartMove, ThreadTypes
<1>13. CASE OpenOutput
  <2>1. PICK c \in compaction : compaction' = {[c EXCEPT !.out = {vset.next}]}
    BY <1>13 DEF OpenOutput
  <2>2. [c EXCEPT !.out = {vset.next}] \in CompactionType
    BY <1>1 DEF CompactionType, Numbers
  <2>3. pending' \in Numbers
    BY <1>1, <1>13 DEF OpenOutput, Numbers
  <2> QED  BY <1>1, <1>2, <1>13, <2>1, <2>2, <2>3 DEF OpenOutput, ThreadTypes
<1>14. CASE FinishOutput
  <2>1. PICK c \in compaction :
          compaction' = {[c EXCEPT !.step = "log",
                          !.edit = {Completed({}, c.out, c.inputs, vset.log)}]}
    BY <1>14 DEF FinishOutput
  <2>2. Completed({}, c.out, c.inputs, vset.log) \in EditType
    <3>1. c.out \in Numbers /\ c.inputs \in Numbers /\ {} \in Numbers
      BY <1>1 DEF CompactionType, Numbers
    <3> QED  BY <1>0, <1>1, <3>1, CompletedType
  <2>3. \A e \in EditType : [c EXCEPT !.step = "log", !.edit = {e}] \in CompactionType
    BY <1>1 DEF CompactionType
  <2>4. compaction' \subseteq CompactionType
    BY <2>1, <2>2, <2>3
  <2> QED  BY <1>1, <1>2, <1>14, <2>1, <2>4 DEF FinishOutput, ThreadTypes
<1>15. CASE LogCompaction
  <2>1. PICK c \in compaction : compaction' = {[c EXCEPT !.step = "install"]}
    BY <1>15 DEF LogCompaction
  <2>2. [c EXCEPT !.step = "install"] \in CompactionType
    BY <1>1 DEF CompactionType
  <2> QED  BY <1>1, <1>2, <1>15, <2>1, <2>2 DEF LogCompaction, ThreadTypes
<1>16. CASE InstallCompaction \/ LogCompactionFails \/ AbandonMerge
  <2>1. PICK c \in compaction : \E mfs, vs : EndOfCompaction(c, mfs, vs)
    BY <1>16 DEF InstallCompaction, LogCompactionFails, AbandonMerge
  <2> QED  BY <1>1, <1>2, <2>1 DEF EndOfCompaction, ThreadTypes, Numbers
<1>17. CASE Pin
  <2>1. [seq |-> vset.seq, files |-> vset.files, held |-> mem \union UNION imm] \in ReaderType
    BY <1>0, <1>1 DEF ReaderType, Numbers
  <2>2. readers' \in Seq(ReaderType)
    BY <1>1, <1>17, <2>1, AppendProperties DEF Pin
  <2> QED  BY <1>1, <1>17, <2>2 DEF Pin, ThreadTypes
<1>18. CASE Unpin
  BY <1>1, <1>18, ReadersLeft DEF Unpin, ThreadTypes
<1>19. CASE Closed \/ Exit \/ LosePower \/ NullManual
  <2>1. << >> \in Seq(ReaderType)
    BY EmptySeq
  <2> QED  BY <1>2, <1>19, <2>1 DEF Closed, Exit, LosePower, NullManual, ProcessEnds,
           ThreadTypes, Numbers
<1> QED
  BY <1>4, <1>5, <1>6, <1>7, <1>8, <1>9, <1>10, <1>11, <1>12, <1>13, <1>14, <1>15, <1>16,
     <1>17, <1>18, <1>19
  DEF Next, Writer, Background

LEMMA TypesKept ==
  ASSUME StoreInv, Next  PROVE  Types'
BY DiskTypesKept, QueueTypesKept, MemoryTypesKept, ControlTypesKept, ThreadTypesKept,
   HistoryTypesKept
DEF Types, ProcessTypes, QueueTypes, MemoryTypes, ControlTypes

-----------------------------------------------------------------------------
(* What the invariant says of the disk. *)

LEMMA OnDiskFacts ==
  ASSUME StoreInv
  PROVE  /\ OnDisk \in Seq(EditType) /\ InOrder(OnDisk) /\ Version.files \in Layout
         /\ OnDisk # << >> =>
              /\ Version.log \in Nat /\ Version.next \in Nat /\ Version.seq \in Nat
              /\ Version.log < Version.next
              /\ \A n \in NumbersOf(Version.files) : n < Version.next
<1>1. ManifestsType(manifests) /\ DiskInv
  BY DEF StoreInv, Types, DiskTypes, Inv
<1>2. OnDisk \in Seq(EditType) /\ InOrder(OnDisk)
  BY <1>1, OnDiskType DEF DiskInv
<1> QED  BY <1>2, ReplayType, ReplayBelowNext DEF Version

LEMMA RecoveredIs ==
  ASSUME NEW lgs, OnDisk # << >>, NumbersOf(Version.files) \subseteq DOMAIN tables
  PROVE  Recovered(lgs, OnDisk)
           = DataIn(tables, NumbersOf(Version.files)) \union LogsFrom(lgs, Version.log)
BY DEF Recovered, Version, DataIn, LogsFrom

\* Wherever the process may end, what was acknowledged can be recovered.
LEMMA AckedFound ==
  ASSUME StoreInv, Running
  PROVE  acked \subseteq DataIn(tables, NumbersOf(Version.files)) \union LogsFrom(logs, Version.log)
<1>1. LoadedInv /\ CoverInv
  BY DEF StoreInv, Inv
<1>2. /\ logNumber # 0 /\ logNumber \in DOMAIN logs
      /\ mem \subseteq WritesIn(logs[logNumber]) /\ Version.log <= logNumber
  BY <1>1 DEF LoadedInv, CoverInv, Loaded
<1>3. mem \subseteq LogsFrom(logs, Version.log)
  BY <1>2, LogInLogs
<1>4. CASE Torn
  BY <1>1, <1>4 DEF CoverInv
<1>5. CASE ~Torn
  BY <1>1, <1>3, <1>5 DEF CoverInv
<1> QED  BY <1>4, <1>5

LEMMA CoveredOnDisk ==
  ASSUME StoreInv  PROVE  acked \subseteq Recovered(logs, OnDisk)
<1>1. CASE ~Running
  BY <1>1 DEF StoreInv, Inv, DiskInv
<1>2. CASE Running
  <2>1. OnDisk # << >> /\ NumbersOf(Version.files) \subseteq DOMAIN tables
    BY <1>2 DEF StoreInv, Inv, LoadedInv, Loaded
  <2> QED  BY <1>2, <2>1, AckedFound, RecoveredIs
<1> QED  BY <1>1, <1>2

LEMMA InitInv == Init => StoreInv
<1> SUFFICES ASSUME Init PROVE StoreInv
  OBVIOUS
<1>1. /\ << >> \in Seq(WriterType) /\ << >> \in Seq(ReaderType)
      /\ DOMAIN << >> = {} /\ NoVersions \in VsetType
  BY EmptySeq DEF NoVersions, NoFiles, VsetType, Layout, Numbers
<1>2. LogsType(<< >>) /\ TablesType(<< >>) /\ ManifestsType(<< >>)
  BY <1>1 DEF LogsType, TablesType, ManifestsType
<1>3. Types
  BY <1>1, <1>2 DEF Init, Types, DiskTypes, ProcessTypes, ThreadTypes, HistoryTypes, AtMostOne, Numbers
<1>4. OnDisk = << >> /\ InOrder(OnDisk)
  BY <1>1 DEF Init, OnDisk, EditsOf, InOrder
<1>5. Range(readers) = {}
  BY <1>1 DEF Init, Range
<1>6. DiskInv /\ PhaseInv /\ ~Running /\ ~Loaded
  BY <1>4 DEF Init, DiskInv, NumberInv, PhaseInv, Running, Loaded
<1> QED
  BY <1>3, <1>5, <1>6 DEF Init, StoreInv, Inv, LoadedInv, OpeningInv, CoverInv, ExactInv, FreshInv,
     WritingInv, FlushInv, CompactionInv, ReadersInv

-----------------------------------------------------------------------------
(* The end of the process. *)

LEMMA DownInv ==
  ASSUME ProcessEnds, DiskInv'  PROVE Inv'
<1>1. readers' = << >> /\ Range(readers') = {}
  BY DEF ProcessEnds, Range
<1>2. PhaseInv' /\ ~Running' /\ ~Loaded'
  BY DEF ProcessEnds, PhaseInv, Running, Loaded
<1>3. LoadedInv' /\ OpeningInv' /\ CoverInv' /\ ExactInv'
  BY <1>2 DEF ProcessEnds, LoadedInv, OpeningInv, CoverInv, ExactInv
<1>4. FreshInv' /\ WritingInv' /\ FlushInv' /\ CompactionInv' /\ ReadersInv'
  BY <1>1, <1>2 DEF ProcessEnds, FreshInv, WritingInv, FlushInv, CompactionInv, ReadersInv
<1> QED  BY <1>2, <1>3, <1>4 DEF Inv

LEMMA ExitKeeps ==
  ASSUME StoreInv, Closed \/ NullManual \/ Exit  PROVE  Inv'
<1>1. ProcessEnds /\ UNCHANGED <<logs, tables, manifests, current, acked>>
  BY DEF Closed, NullManual, Exit, disk, history
<1>2. /\ current # 0 => current \in DOMAIN manifests
      /\ InOrder(OnDisk) /\ NumberInv /\ acked \subseteq Recovered(logs, OnDisk)
  BY CoveredOnDisk DEF StoreInv, Inv, DiskInv
<1>3. OnDisk' = OnDisk
  BY <1>1 DEF OnDisk, EditsOf
<1>4. Recovered(logs, OnDisk)' = Recovered(logs, OnDisk)
  BY <1>1, <1>3 DEF Recovered
<1>5. DiskInv'
  BY <1>1, <1>2, <1>3, <1>4 DEF DiskInv, NumberInv, InOrder
<1> QED  BY <1>1, <1>5, DownInv

LEMMA LosePowerKeeps ==
  ASSUME StoreInv, LosePower  PROVE  Inv'
<1>0. /\ ManifestsType(manifests) /\ (current # 0 => current \in DOMAIN manifests)
      /\ OnDisk \in Seq(EditType) /\ InOrder(OnDisk) /\ NumberInv
  BY OnDiskFacts DEF StoreInv, Types, DiskTypes, Inv, DiskInv
<1>1. /\ manifests' \in Truncated(manifests) /\ current' = current /\ ProcessEnds
      /\ acked' = acked \intersect Recovered(logs', EditsOf(manifests'))
      /\ tables' = tables
  BY DEF LosePower
<1>2. /\ DOMAIN manifests' = DOMAIN manifests
      /\ \A n \in DOMAIN manifests : \E left \in 0 .. Len(manifests[n].records) :
           manifests'[n].records = SubSeq(manifests[n].records, 1, left)
  BY <1>0, <1>1, TruncatedManifests
<1>3. InOrder(OnDisk') /\ NumberInv'
  <2>1. CASE current = 0
    BY <1>1, <2>1, EmptySeq DEF OnDisk, EditsOf, InOrder, NumberInv
  <2>2. CASE current # 0
    <3>1. PICK left \in 0 .. Len(OnDisk) : OnDisk' = SubSeq(OnDisk, 1, left)
      BY <1>0, <1>1, <1>2, <2>2 DEF OnDisk, EditsOf
    <3>2. InOrder(OnDisk')
      BY <1>0, <3>1, InOrderPrefix
    <3>3. CASE left = 0
      <4>1. OnDisk' = << >>
        BY <1>0, <3>1, <3>3, EmptySeq, SubSeqProperties
      <4> QED  BY <3>2, <4>1 DEF NumberInv
    <3>4. CASE left # 0
      <4>1. Len(OnDisk) \in Nat \ {0} /\ OnDisk # << >> /\ left \in 1 .. Len(OnDisk)
        BY <1>0, <3>4, LenProperties, EmptySeq
      <4>2. OnDisk'[1] = OnDisk[1]
        BY <1>0, <3>1, <4>1
      <4> QED  BY <1>0, <1>1, <3>2, <4>1, <4>2 DEF NumberInv
    <3> QED  BY <3>2, <3>3, <3>4
  <2> QED  BY <2>1, <2>2
<1>4. acked' \subseteq Recovered(logs, OnDisk)'
  BY <1>1 DEF OnDisk, EditsOf, Recovered
<1>5. DiskInv'
  BY <1>0, <1>1, <1>2, <1>3, <1>4 DEF DiskInv, InOrder, NumberInv
<1> QED  BY <1>1, <1>5, DownInv

\* Creating a database: there was none, so nothing was acknowledged.
LEMMA NewDBKeeps ==
  ASSUME StoreInv, NewDB  PROVE  Inv'
<1>0. /\ DiskInv /\ PhaseInv /\ phase = "down" /\ current = 0 /\ ~Running /\ ~Loaded
  BY DEF StoreInv, Inv, NewDB, Running, Loaded
<1>1. acked = {}
  BY <1>0, EmptySeq DEF DiskInv, OnDisk, EditsOf, Recovered
<1> DEFINE edit == [add0 |-> {}, addDeep |-> {}, del |-> {}, log |-> 0, next |-> 2, seq |-> 0]
<1>2. /\ current' = 1 /\ 1 \in DOMAIN manifests' /\ acked' = {}
      /\ OnDisk' = <<edit>>
  BY <1>1 DEF NewDB, With, File, Edit, OnDisk, EditsOf, history
<1>3. InOrder(<<edit>>) /\ <<edit>>[1].next = 2
  BY DEF InOrder, Added
<1> HIDE DEF edit
<1>4. InOrder(OnDisk') /\ NumberInv'
  BY <1>2, <1>3 DEF NumberInv
<1>5. DiskInv'
  BY <1>2, <1>4 DEF DiskInv, InOrder, NumberInv
<1>6. /\ UNCHANGED <<phase, opening, writing, memory, pending, error, flush, compaction, readers>>
  BY DEF NewDB, control
<1>7. PhaseInv' /\ ~Running' /\ ~Loaded'
  BY <1>0, <1>6 DEF PhaseInv, Running, Loaded, memory
<1>8. /\ opening' = {} /\ writing' = {} /\ flush' = {} /\ compaction' = {} /\ Range(readers') = {}
  BY <1>0, <1>6 DEF PhaseInv, Range
<1> QED
  BY <1>5, <1>7, <1>8 DEF Inv, LoadedInv, OpeningInv, CoverInv, ExactInv, FreshInv, WritingInv,
     FlushInv, CompactionInv, ReadersInv

-----------------------------------------------------------------------------
(* The process runs: the writers. *)

\* What there is while the process runs.
LEMMA RunningFacts ==
  ASSUME StoreInv, Running
  PROVE  /\ vset \in VsetType /\ LogsType(logs) /\ TablesType(tables)
         /\ ManifestsType(manifests) /\ acked \in Numbers /\ mem \in Numbers
         /\ logNumber \in Nat /\ logNumber # 0 /\ logNumber \in DOMAIN logs
         /\ vset.log <= logNumber /\ logNumber < vset.next
         /\ mem \subseteq WritesIn(logs[logNumber])
         /\ current # 0 /\ current \in DOMAIN manifests /\ current = vset.manifest
         /\ OnDisk # << >> /\ InOrder(OnDisk) /\ OnDisk \in Seq(EditType) /\ NumberInv
         /\ Version.files \in Layout /\ Version.log \in Nat /\ Version.next \in Nat
         /\ NumbersOf(Version.files) \subseteq DOMAIN tables
         /\ NumbersOf(vset.files) \subseteq DOMAIN tables
         /\ (\A n \in NumbersOf(vset.files) : n < vset.next)
         /\ Version.next <= vset.next /\ Version.log <= logNumber
         /\ opening = {}
         /\ \A n \in DOMAIN logs \union DOMAIN tables \union pending : n < vset.next
<1>1. DiskInv /\ LoadedInv /\ CoverInv /\ PhaseInv /\ FreshInv /\ DiskTypes /\ ProcessTypes /\ HistoryTypes
  BY DEF StoreInv, Types, Inv
<1>2. Loaded
  BY DEF Loaded
<1>3. /\ vset \in VsetType /\ LogsType(logs) /\ TablesType(tables) /\ ManifestsType(manifests)
      /\ acked \in Numbers /\ mem \in Numbers /\ logNumber \in Nat
  BY <1>1 DEF DiskTypes, ProcessTypes, HistoryTypes
<1>4. /\ current # 0 /\ OnDisk # << >>
      /\ NumbersOf(Version.files) \subseteq DOMAIN tables
      /\ NumbersOf(vset.files) \subseteq DOMAIN tables
      /\ (\A n \in NumbersOf(vset.files) : n < vset.next)
      /\ Version.next <= vset.next
      /\ logNumber # 0 /\ Version.log <= logNumber /\ current = vset.manifest
  BY <1>1, <1>2 DEF LoadedInv, CoverInv
<1>5. /\ logNumber \in DOMAIN logs /\ vset.log <= logNumber /\ logNumber < vset.next
      /\ mem \subseteq WritesIn(logs[logNumber])
  BY <1>1, <1>2, <1>4 DEF LoadedInv
<1>6. current \in DOMAIN manifests /\ opening = {} /\ NumberInv
  BY <1>1, <1>4 DEF DiskInv, PhaseInv
<1>7. \A n \in DOMAIN logs \union DOMAIN tables \union pending : n < vset.next
  BY <1>1 DEF FreshInv
<1> QED  BY <1>3, <1>4, <1>5, <1>6, <1>7, OnDiskFacts

LEMMA RunningStep ==
  ASSUME Running', opening' = {}, current' \in DOMAIN manifests', InOrder(OnDisk'), NumberInv',
         LoadedInv', CoverInv', ExactInv', FreshInv', WritingInv', FlushInv', CompactionInv',
         ReadersInv'
  PROVE  Inv'
<1>1. PhaseInv' /\ OpeningInv'
  BY DEF PhaseInv, OpeningInv, Running
<1>2. DiskInv'
  BY DEF DiskInv, InOrder, NumberInv
<1> QED  BY <1>1, <1>2 DEF Inv

\* Logs grow and a group of writes moves from its log to the memtable.
LEMMA WriterStep ==
  ASSUME StoreInv, Running, Running',
         UNCHANGED <<opening, tables, manifests, current, imm, logNumber, pending, flush,
                     compaction, readers>>,
         error => error',
         DOMAIN logs' = DOMAIN logs,
         \A n \in DOMAIN logs : WritesIn(logs[n]) \subseteq WritesIn(logs'[n]),
         vset' \in VsetType,
         vset'.files = vset.files, vset'.log = vset.log, vset'.next = vset.next,
         vset'.manifest = vset.manifest, vset.seq <= vset'.seq,
         mem \subseteq mem', mem' \subseteq WritesIn(logs'[logNumber]),
         acked' \subseteq acked \union mem',
         \A s \in acked' \ acked : s \in Nat /\ vset.seq < s,
         WritingInv'
  PROVE  Inv'
<1>0. /\ LoadedInv /\ CoverInv /\ ExactInv /\ FreshInv /\ FlushInv /\ CompactionInv /\ ReadersInv
      /\ readers \in Seq(ReaderType)
  BY DEF StoreInv, Inv, Types, ThreadTypes
<1>1. OnDisk' = OnDisk /\ Version' = Version /\ Torn' = Torn
  BY DEF OnDisk, EditsOf, Version, Torn
<1>2. \A k : LogsFrom(logs, k) \subseteq LogsFrom(logs', k)
  BY LogsFromGrows
<1>3. LoadedInv'
  <2>1. /\ current # 0 /\ vset.manifest # 0 /\ OnDisk # << >>
        /\ NumbersOf(Version.files) \subseteq DOMAIN tables
        /\ NumbersOf(vset.files) \subseteq DOMAIN tables
        /\ \A n \in NumbersOf(vset.files) : n < vset.next
        /\ Version.next <= vset.next /\ logNumber # 0 /\ logNumber \in DOMAIN logs
        /\ vset.log <= logNumber /\ logNumber < vset.next /\ vset.log < vset.next
    BY <1>0, RunningFacts DEF LoadedInv, Loaded
  <2> QED  BY <1>1, <2>1 DEF LoadedInv
<1>4. CoverInv'
  <2>1. /\ current' = vset'.manifest /\ logNumber' # 0 /\ Version'.log <= logNumber'
        /\ ~Torn' => DataIn(tables', NumbersOf(vset'.files))
                        \subseteq DataIn(tables', NumbersOf(Version'.files))
    BY <1>0, <1>1 DEF CoverInv
  <2>2. acked' \subseteq mem' \union (UNION imm') \union DataIn(tables', NumbersOf(vset'.files))
    BY <1>0 DEF CoverInv
  <2>3. /\ UNION imm' \subseteq LogsFrom(logs', vset'.log)
        /\ UNION imm' \subseteq DataIn(tables', NumbersOf(Version'.files)) \union LogsFrom(logs', Version'.log)
    BY <1>0, <1>1, <1>2 DEF CoverInv
  <2>4. ASSUME Torn'
        PROVE  error' /\ acked' \subseteq DataIn(tables', NumbersOf(Version'.files))
                                            \union LogsFrom(logs', Version'.log)
    <3>1. /\ error /\ acked \subseteq DataIn(tables, NumbersOf(Version.files))
                                          \union LogsFrom(logs, Version.log)
      BY <1>0, <1>1, <2>4 DEF CoverInv
    <3>2. mem' \subseteq LogsFrom(logs', Version.log)
      <4>1. logNumber \in DOMAIN logs' /\ Version.log <= logNumber
        BY RunningFacts
      <4>2. WritesIn(logs'[logNumber]) \subseteq LogsFrom(logs', Version.log)
        BY <4>1, LogInLogs
      <4> QED  BY <4>2
    <3> QED  BY <1>1, <1>2, <3>1, <3>2
  <2> QED  BY <2>1, <2>2, <2>3, <2>4 DEF CoverInv
<1>5. ExactInv'
  BY <1>0, <1>1 DEF ExactInv, Matches
<1>6. FreshInv'
  BY <1>0 DEF FreshInv
<1>7. \A e, step : EditInv(e, step) => EditInv(e, step)'
  BY <1>1 DEF EditInv
<1>8. FlushInv'
  BY <1>0, <1>7 DEF FlushInv
<1>9. \A n : Unused(n) => Unused(n)'
  BY <1>1 DEF Unused
<1>10. CompactionInv'
  BY <1>0, <1>7, <1>9 DEF CompactionInv
<1>11. ReadersInv'
  <2> SUFFICES ASSUME NEW r \in Range(readers)
               PROVE  /\ NumbersOf(r.files) \subseteq DOMAIN tables
                      /\ r.seq <= vset'.seq
                      /\ {s \in acked' : s <= r.seq}
                            \subseteq r.held \union DataIn(tables, NumbersOf(r.files))
    BY DEF ReadersInv
  <2>1. /\ NumbersOf(r.files) \subseteq DOMAIN tables
        /\ r.seq <= vset.seq
        /\ {s \in acked : s <= r.seq} \subseteq r.held \union DataIn(tables, NumbersOf(r.files))
    BY <1>0 DEF ReadersInv
  <2>2. r.seq \in Nat /\ vset.seq \in Nat /\ vset'.seq \in Nat
    <3>1. r \in ReaderType
      BY <1>0, ElementOfSeq, LenProperties DEF Range
    <3> QED  BY <3>1, RunningFacts DEF ReaderType, VsetType
  <2>3. \A s \in acked' : s <= r.seq => s \in acked
    BY <2>1, <2>2
  <2> QED  BY <2>1, <2>2, <2>3
<1>12. opening' = {} /\ current' \in DOMAIN manifests' /\ InOrder(OnDisk') /\ NumberInv'
  BY <1>1, RunningFacts DEF NumberInv
<1> QED
  BY <1>3, <1>4, <1>5, <1>6, <1>8, <1>10, <1>11, <1>12, RunningStep

\* Steps that touch nothing that the invariant is about.
LEMMA IdleStep ==
  ASSUME StoreInv, Running, Running',
         UNCHANGED <<disk, opening, writing, memory, vset, pending, flush, compaction,
                     readers, history>>,
         error => error'
  PROVE  Inv'
<1>1. /\ UNCHANGED <<logs, tables, manifests, current, mem, imm, logNumber, acked, writing>>
  BY DEF disk, memory, history
<1>2. WritingInv'
  <2>1. WritingInv
    BY DEF StoreInv, Inv
  <2> QED  BY <1>1, <2>1 DEF WritingInv
<1>3. mem \subseteq WritesIn(logs[logNumber]) /\ vset \in VsetType
  BY RunningFacts
<1> QED  BY <1>1, <1>2, <1>3, WriterStep DEF VsetType

LEMMA IdleKeeps ==
  ASSUME StoreInv,
         \/ \E sync \in BOOLEAN : Enqueue(sync, FALSE)
         \/ TEST_CompactMemTable \/ Yield \/ SwitchFails \/ AskManual \/ CancelManual
         \/ NothingToDo \/ NothingInRange \/ StartClose
  PROVE  Inv'
<1>0. PhaseInv
  BY DEF StoreInv, Inv
<1>1. CASE (\E sync \in BOOLEAN : Enqueue(sync, FALSE)) \/ TEST_CompactMemTable
  <2>1. PICK sync \in BOOLEAN, force \in BOOLEAN : Enqueue(sync, force)
    BY <1>1 DEF TEST_CompactMemTable
  <2> QED  BY <2>1, IdleStep DEF Enqueue, control, Running
<1>2. CASE Yield \/ SwitchFails
  BY <1>2, IdleStep DEF Yield, SwitchFails, AtFront, control, Running
<1>3. CASE AskManual
  BY <1>3, IdleStep DEF AskManual, Running
<1>4. CASE CancelManual \/ NothingToDo
  <2>1. Running
    BY <1>0, <1>4 DEF CancelManual, NothingToDo, PhaseInv, Running
  <2>2. Running'
    BY <1>4, <2>1 DEF CancelManual, NothingToDo, Running
  <2> QED  BY <1>4, <2>1, <2>2, IdleStep DEF CancelManual, NothingToDo
<1>5. CASE NothingInRange
  BY <1>5, IdleStep DEF NothingInRange, MayStart, Running
<1>6. CASE StartClose
  BY <1>6, IdleStep DEF StartClose, control, Running
<1> QED  BY <1>1, <1>2, <1>3, <1>4, <1>5, <1>6

\* What a group that is being written has.
LEMMA GroupFacts ==
  ASSUME StoreInv, NEW w \in writing
  PROVE  /\ Running /\ w \in WritingType
         /\ IsFiniteSet(w.writes) /\ \A s \in w.writes : s \in Nat /\ vset.seq < s
         /\ w.step # "append" => w.writes \subseteq WritesIn(logs[logNumber])
<1>1. /\ PhaseInv /\ WritingInv /\ writing \subseteq WritingType
  BY DEF StoreInv, Inv, Types, ProcessTypes
<1>2. Running
  BY <1>1 DEF PhaseInv
<1>3. w \in WritingType /\ \A s \in w.writes : s \in Nat
  BY <1>1 DEF WritingType, Numbers
<1> QED  BY <1>1, <1>2, <1>3 DEF WritingInv

\* The log of the memtable with one more record, or a part of it.
LEMMA LogGrows ==
  ASSUME StoreInv, Running, NEW ws \in Numbers,
         NEW full, full = Appended(logs[logNumber], ws),
         NEW i \in Nat, logs' \in {[logs EXCEPT ![logNumber] = full],
                                  [logs EXCEPT ![logNumber] = TornAt(full, i)]}
  PROVE  /\ DOMAIN logs' = DOMAIN logs
         /\ \A n \in DOMAIN logs : WritesIn(logs[n]) \subseteq WritesIn(logs'[n])
         /\ ws \subseteq WritesIn(logs'[logNumber])
<1>1. logNumber \in DOMAIN logs /\ logs[logNumber] \in LogType
  BY RunningFacts DEF LogsType
<1>2. full \in LogType /\ WritesIn(full) = WritesIn(logs[logNumber]) \union ws
  BY <1>1, LogAppended
<1>3. WritesIn(TornAt(full, i)) = WritesIn(full)
  BY <1>2, TornLog
<1>4. logs'[logNumber] \in {full, TornAt(full, i)}
  BY <1>1
<1>5. WritesIn(logs'[logNumber]) = WritesIn(logs[logNumber]) \union ws
  BY <1>2, <1>3, <1>4
<1>6. \A n \in DOMAIN logs : n # logNumber => logs'[n] = logs[n]
  OBVIOUS
<1> QED  BY <1>1, <1>5, <1>6

LEMMA BeginWriteKeeps ==
  ASSUME StoreInv, BeginWrite  PROVE  Inv'
<1>1. Running /\ Running'
  BY DEF BeginWrite, AtFront, Running
<1>2. UNCHANGED <<logs, tables, manifests, current, opening, mem, imm, logNumber, vset,
                  pending, error, flush, compaction, readers, acked>>
  BY DEF BeginWrite, disk, memory, control, history
<1>3. queue \in Seq(WriterType) /\ vset \in VsetType /\ WritingInv
  BY DEF StoreInv, Inv, Types, ProcessTypes
<1>4. WritingInv'
  BY <1>2, <1>3, GroupType DEF WritingInv
<1> QED  BY <1>1, <1>2, <1>3, <1>4, WriterStep, RunningFacts DEF VsetType

LEMMA AppendRecordKeeps ==
  ASSUME StoreInv, AppendRecord  PROVE  Inv'
<1>1. PICK w \in writing :
        /\ w.step = "append"
        /\ logs' = [logs EXCEPT ![logNumber] = Appended(@, w.writes)]
        /\ writing' = {[w EXCEPT !.step = IF w.sync THEN "sync" ELSE "insert"]}
  BY DEF AppendRecord
<1>2. UNCHANGED <<tables, manifests, current, phase, opening, mem, imm, logNumber, vset,
                  pending, error, flush, compaction, readers, acked>>
  BY DEF AppendRecord, memory, control, history
<1>3. /\ Running /\ w \in WritingType /\ w.writes \in Numbers
      /\ IsFiniteSet(w.writes) /\ \A s \in w.writes : s \in Nat /\ vset.seq < s
  BY GroupFacts DEF WritingType
<1>4. /\ DOMAIN logs' = DOMAIN logs
      /\ \A n \in DOMAIN logs : WritesIn(logs[n]) \subseteq WritesIn(logs'[n])
      /\ w.writes \subseteq WritesIn(logs'[logNumber])
  <2>1. PICK full : /\ full = Appended(logs[logNumber], w.writes)
                    /\ logs' = [logs EXCEPT ![logNumber] = full]
    BY <1>1
  <2> QED  BY <1>3, <2>1, LogGrows
<1>5. WritingInv'
  <2>1. \A v \in writing' : v.writes = w.writes
    BY <1>1, <1>3 DEF WritingType
  <2> QED  BY <1>2, <1>3, <1>4, <2>1 DEF WritingInv
<1>6. Running' /\ vset \in VsetType /\ logNumber \in DOMAIN logs
      /\ mem \subseteq WritesIn(logs[logNumber])
  BY <1>2, <1>3, RunningFacts DEF Running
<1> QED  BY <1>2, <1>3, <1>4, <1>5, <1>6, WriterStep DEF VsetType

LEMMA SyncLogKeeps ==
  ASSUME StoreInv, SyncLog  PROVE  Inv'
<1>1. PICK w \in writing :
        /\ w.step = "sync"
        /\ logs' = [logs EXCEPT ![logNumber].synced = Len(logs[logNumber].records)]
        /\ writing' = {[w EXCEPT !.step = "insert"]}
  BY DEF SyncLog
<1>2. UNCHANGED <<tables, manifests, current, phase, opening, mem, imm, logNumber, vset,
                  pending, error, flush, compaction, readers, acked>>
  BY DEF SyncLog, memory, control, history
<1>3. /\ Running /\ w \in WritingType
      /\ IsFiniteSet(w.writes) /\ (\A s \in w.writes : s \in Nat /\ vset.seq < s)
      /\ w.writes \subseteq WritesIn(logs[logNumber])
  BY <1>1, GroupFacts
<1>4. /\ Running' /\ LogsType(logs) /\ vset \in VsetType /\ logNumber \in DOMAIN logs
      /\ mem \subseteq WritesIn(logs[logNumber])
  BY <1>2, <1>3, RunningFacts DEF Running
<1>5. /\ DOMAIN logs' = DOMAIN logs
      /\ \A n \in DOMAIN logs : WritesIn(logs'[n]) = WritesIn(logs[n])
  <2>1. \A n \in DOMAIN logs : logs'[n].records = logs[n].records
    BY <1>1, <1>4 DEF LogsType, LogType
  <2> QED  BY <1>1, <2>1 DEF WritesIn
<1>6. WritingInv'
  <2>1. \A v \in writing' : v.writes = w.writes
    BY <1>1, <1>3 DEF WritingType
  <2> QED  BY <1>2, <1>3, <1>4, <1>5, <2>1 DEF WritingInv
<1> QED  BY <1>2, <1>3, <1>4, <1>5, <1>6, WriterStep DEF VsetType

\* The end of a group leaves nobody who writes.
LEMMA NobodyWrites ==
  ASSUME writing' = {}  PROVE  WritingInv'
BY DEF WritingInv

LEMMA InsertIntoKeeps ==
  ASSUME StoreInv, InsertInto  PROVE  Inv'
<1>1. PICK w \in writing :
        /\ w.step = "insert" /\ mem' = mem \union w.writes
        /\ acked' = acked \union w.writes /\ EndOfGroup(w)
  BY DEF InsertInto
<1>2. UNCHANGED <<logs, tables, manifests, current, phase, opening, imm, logNumber,
                  pending, error, flush, compaction, readers>>
  BY DEF InsertInto, disk, control
<1>3. /\ Running /\ (\A s \in w.writes : s \in Nat /\ vset.seq < s)
      /\ w.writes \subseteq WritesIn(logs[logNumber])
  BY <1>1, GroupFacts
<1>4. Running' /\ mem \subseteq WritesIn(logs[logNumber])
  BY <1>2, <1>3, RunningFacts DEF Running
<1>5. /\ writing' = {} /\ vset' \in VsetType
      /\ vset'.files = vset.files /\ vset'.log = vset.log /\ vset'.next = vset.next
      /\ vset'.manifest = vset.manifest /\ vset.seq <= vset'.seq
  BY <1>1, GroupEnds
<1> QED  BY <1>1, <1>2, <1>3, <1>4, <1>5, NobodyWrites, WriterStep

LEMMA AppendFailsKeeps ==
  ASSUME StoreInv, AppendFails  PROVE  Inv'
<1>1. PICK w \in writing :
        /\ LET log  == logs[logNumber]
               full == Appended(log, w.writes)
           IN  \E file \in {log, full, TornAt(full, Len(full.records))} :
                 logs' = [logs EXCEPT ![logNumber] = file]
        /\ EndOfGroup(w)
  BY DEF AppendFails
<1>2. UNCHANGED <<tables, manifests, current, phase, opening, mem, imm, logNumber,
                  pending, error, flush, compaction, readers, acked>>
  BY DEF AppendFails, memory, control, history
<1>3. Running /\ w.writes \in Numbers
  BY GroupFacts DEF WritingType
<1>4. /\ Running' /\ mem \subseteq WritesIn(logs[logNumber]) /\ logNumber \in DOMAIN logs
      /\ LogsType(logs)
  BY <1>2, <1>3, RunningFacts DEF Running
<1>5. /\ DOMAIN logs' = DOMAIN logs
      /\ \A n \in DOMAIN logs : WritesIn(logs[n]) \subseteq WritesIn(logs'[n])
  <2>1. PICK full : full = Appended(logs[logNumber], w.writes)
    OBVIOUS
  <2>2. Len(full.records) \in Nat
    <3>1. logs[logNumber] \in LogType
      BY <1>4 DEF LogsType
    <3>2. full \in LogType
      BY <1>3, <2>1, <3>1, LogAppended
    <3> QED  BY <3>2, LenProperties DEF LogType
  <2>3. \/ logs' = [logs EXCEPT ![logNumber] = logs[logNumber]]
        \/ logs' \in {[logs EXCEPT ![logNumber] = full],
                      [logs EXCEPT ![logNumber] = TornAt(full, Len(full.records))]}
    BY <1>1, <2>1
  <2>4. CASE logs' = [logs EXCEPT ![logNumber] = logs[logNumber]]
    BY <1>4, <2>4
  <2> QED  BY <1>3, <2>1, <2>2, <2>3, <2>4, LogGrows
<1>6. /\ writing' = {} /\ vset' \in VsetType
      /\ vset'.files = vset.files /\ vset'.log = vset.log /\ vset'.next = vset.next
      /\ vset'.manifest = vset.manifest /\ vset.seq <= vset'.seq
  BY <1>1, GroupEnds
<1> QED  BY <1>2, <1>3, <1>4, <1>5, <1>6, NobodyWrites, WriterStep

LEMMA SyncFailsKeeps ==
  ASSUME StoreInv, SyncFails  PROVE  Inv'
<1>1. PICK w \in writing : EndOfGroup(w)
  BY DEF SyncFails
<1>2. UNCHANGED <<logs, tables, manifests, current, phase, opening, mem, imm, logNumber,
                  pending, flush, compaction, readers, acked>> /\ error'
  BY DEF SyncFails, RecordBackgroundError, disk, memory, history
<1>3. Running
  BY GroupFacts
<1>4. Running' /\ mem \subseteq WritesIn(logs[logNumber])
  BY <1>2, <1>3, RunningFacts DEF Running
<1>5. /\ writing' = {} /\ vset' \in VsetType
      /\ vset'.files = vset.files /\ vset'.log = vset.log /\ vset'.next = vset.next
      /\ vset'.manifest = vset.manifest /\ vset.seq <= vset'.seq
  BY <1>1, GroupEnds
<1> QED  BY <1>2, <1>3, <1>4, <1>5, NobodyWrites, WriterStep

\* A new memtable: the log of the old one stays as long as it is needed.
LEMMA SwitchMemtableKeeps ==
  ASSUME StoreInv, SwitchMemtable  PROVE  Inv'
<1>0. /\ LoadedInv /\ CoverInv /\ ExactInv /\ FreshInv /\ FlushInv /\ CompactionInv /\ ReadersInv
  BY DEF StoreInv, Inv
<1>1. Running /\ Running' /\ writing = {} /\ imm = {}
  BY DEF SwitchMemtable, AtFront, Running
<1>2. /\ UNCHANGED <<tables, manifests, current, opening, writing, pending, error, flush,
                     compaction, readers, acked>>
      /\ logs' = With(logs, vset.next, File(<< >>, 0))
      /\ logNumber' = vset.next /\ imm' = {mem} /\ mem' = {}
      /\ vset' = [vset EXCEPT !.next = @ + 1]
  BY DEF SwitchMemtable, history
<1>3. /\ vset \in VsetType /\ LogsType(logs) /\ logNumber \in DOMAIN logs
      /\ vset.log <= logNumber /\ logNumber < vset.next /\ logNumber \in Nat
      /\ mem \subseteq WritesIn(logs[logNumber]) /\ Version.log <= logNumber /\ Version.log \in Nat
      /\ (\A n \in DOMAIN logs \union DOMAIN tables \union pending : n \in Nat /\ n < vset.next)
      /\ Version.next <= vset.next /\ Version.next \in Nat
  <2>1. pending \subseteq Nat /\ DOMAIN tables \subseteq Nat /\ DOMAIN logs \subseteq Nat
    BY DEF StoreInv, Types, ThreadTypes, DiskTypes, Numbers, TablesType, LogsType
  <2> QED  BY <1>1, <2>1, RunningFacts
<1>4. /\ vset.next \in Nat /\ vset.log \in Nat /\ vset'.next = vset.next + 1
      /\ vset'.files = vset.files /\ vset'.log = vset.log /\ vset'.seq = vset.seq
      /\ vset'.manifest = vset.manifest
  BY <1>2, <1>3, NextNumber DEF VsetType
<1>5. OnDisk' = OnDisk /\ Version' = Version /\ Torn' = Torn
  BY <1>2 DEF OnDisk, EditsOf, Version, Torn
<1>6. /\ DOMAIN logs' = DOMAIN logs \union {vset.next}
      /\ \A n \in DOMAIN logs : logs'[n] = logs[n]
  BY <1>2, <1>3 DEF With
<1>7. \A k : LogsFrom(logs, k) \subseteq LogsFrom(logs', k)
  BY <1>6, LogsFromGrows
<1>8. LoadedInv'
  <2>1. /\ current # 0 /\ vset.manifest # 0 /\ OnDisk # << >>
        /\ NumbersOf(Version.files) \subseteq DOMAIN tables
        /\ NumbersOf(vset.files) \subseteq DOMAIN tables
        /\ \A n \in NumbersOf(vset.files) : n \in DOMAIN tables /\ n < vset.next
    BY <1>0, <1>1 DEF LoadedInv, Loaded
  <2>2. \A n \in NumbersOf(vset.files) : n < vset.next + 1
    BY <1>3, <1>4, <2>1
  <2>3. /\ logNumber' # 0 /\ logNumber' \in DOMAIN logs' /\ vset.log <= vset.next
        /\ Version.next <= vset.next + 1 /\ vset.log < vset.next + 1 /\ vset.next < vset.next + 1
    BY <1>2, <1>3, <1>4, <1>6
  <2> QED  BY <1>2, <1>4, <1>5, <2>1, <2>2, <2>3 DEF LoadedInv
<1>9. CoverInv'
  <2>1. /\ current = vset.manifest
        /\ acked \subseteq mem \union DataIn(tables, NumbersOf(vset.files))
        /\ ~Torn => DataIn(tables, NumbersOf(vset.files))
                      \subseteq DataIn(tables, NumbersOf(Version.files))
        /\ Torn => error
    BY <1>0, <1>1 DEF CoverInv
  <2>2. mem \subseteq LogsFrom(logs', vset.log) /\ mem \subseteq LogsFrom(logs', Version.log)
    BY <1>3, <1>7, LogInLogs
  <2>3. vset.next # 0 /\ Version.log <= vset.next
    BY <1>3, <1>4
  <2>4. UNION imm' = mem
    BY <1>2
  <2>5. /\ acked \subseteq DataIn(tables, NumbersOf(Version.files)) \union LogsFrom(logs, Version.log)
        /\ LogsFrom(logs, Version.log) \subseteq LogsFrom(logs', Version.log)
    BY <1>1, <1>7, AckedFound
  <2> QED  BY <1>2, <1>4, <1>5, <2>1, <2>2, <2>3, <2>4, <2>5 DEF CoverInv
<1>10. ExactInv'
  BY <1>0, <1>1, <1>2, <1>4, <1>5 DEF ExactInv, Matches
<1>11. FreshInv'
  BY <1>2, <1>3, <1>4, <1>6 DEF FreshInv
<1>12. WritingInv' /\ FlushInv'
  BY <1>0, <1>1, <1>2 DEF WritingInv, FlushInv
<1>13. CompactionInv'
  <2>1. ASSUME NEW e, NEW step, e.next \in Nat, EditInv(e, step)  PROVE EditInv(e, step)'
    BY <1>2, <1>4, <1>5, <2>1 DEF EditInv
  <2>2. \A n : Unused(n) => Unused(n)'
    BY <1>2, <1>4, <1>5 DEF Unused
  <2>3. \A c \in compaction : \A e \in c.edit : e.next \in Nat
    BY DEF StoreInv, Types, ThreadTypes, CompactionType, EditType
  <2> QED  BY <1>0, <1>2, <1>4, <2>1, <2>2, <2>3 DEF CompactionInv
<1>14. ReadersInv'
  BY <1>0, <1>2, <1>4 DEF ReadersInv
<1>15. opening' = {} /\ current' \in DOMAIN manifests' /\ InOrder(OnDisk') /\ NumberInv'
  BY <1>1, <1>2, <1>5, RunningFacts DEF NumberInv
<1> QED
  BY <1>1, <1>8, <1>9, <1>10, <1>11, <1>12, <1>13, <1>14, <1>15, RunningStep

-----------------------------------------------------------------------------
(* The process runs: tables are written. *)

\* Tables come, or change when nobody reads them yet; numbers are given out.
TablesGrow ==
  /\ UNCHANGED <<opening, logs, manifests, current, mem, imm, logNumber, acked, writing>>
  /\ vset'.files = vset.files /\ vset'.log = vset.log /\ vset'.seq = vset.seq
  /\ vset'.manifest = vset.manifest
  /\ vset'.next \in Nat /\ vset.next <= vset'.next
  /\ DOMAIN tables \subseteq DOMAIN tables'
  /\ \A n \in DOMAIN tables : tables'[n] = tables[n] \/ Unused(n)

LEMMA DataKept ==
  ASSUME StoreInv, Running, TablesGrow
  PROVE  /\ OnDisk' = OnDisk /\ Version' = Version /\ Torn' = Torn
         /\ DataIn(tables', NumbersOf(vset.files)) = DataIn(tables, NumbersOf(vset.files))
         /\ DataIn(tables', NumbersOf(Version.files)) = DataIn(tables, NumbersOf(Version.files))
         /\ \A r \in Range(readers) :
              DataIn(tables', NumbersOf(r.files)) = DataIn(tables, NumbersOf(r.files))
<1>1. OnDisk' = OnDisk /\ Version' = Version /\ Torn' = Torn
  BY DEF TablesGrow, OnDisk, EditsOf, Version, Torn
<1>2. /\ NumbersOf(Version.files) \subseteq DOMAIN tables
      /\ NumbersOf(vset.files) \subseteq DOMAIN tables
      /\ \A r \in Range(readers) : NumbersOf(r.files) \subseteq DOMAIN tables
  BY RunningFacts DEF StoreInv, Inv, ReadersInv
<1>3. /\ \A n \in NumbersOf(vset.files) : tables'[n] = tables[n]
      /\ \A n \in NumbersOf(Version.files) : tables'[n] = tables[n]
      /\ \A r \in Range(readers) : \A n \in NumbersOf(r.files) : tables'[n] = tables[n]
  BY <1>2 DEF TablesGrow, Unused
<1> QED  BY <1>1, <1>3, DataSame

LEMMA TablesStep ==
  ASSUME StoreInv, Running, Running', TablesGrow, error => error',
         ExactInv', FreshInv', FlushInv', CompactionInv', ReadersInv'
  PROVE  Inv'
<1>0. /\ CoverInv /\ WritingInv
  BY DEF StoreInv, Inv
<1>1. /\ UNCHANGED <<opening, logs, manifests, current, mem, imm, logNumber, acked, writing>>
      /\ vset'.files = vset.files /\ vset'.log = vset.log /\ vset'.seq = vset.seq
      /\ vset'.manifest = vset.manifest
      /\ vset'.next \in Nat /\ vset.next <= vset'.next
      /\ DOMAIN tables \subseteq DOMAIN tables'
  BY DEF TablesGrow
<1>2. LoadedInv'
  <2>1. /\ current # 0 /\ vset.manifest # 0 /\ OnDisk # << >>
        /\ NumbersOf(Version.files) \subseteq DOMAIN tables'
        /\ NumbersOf(vset.files) \subseteq DOMAIN tables'
    BY <1>1, RunningFacts
  <2>2. /\ logNumber # 0 /\ logNumber \in DOMAIN logs /\ logNumber \in Nat
        /\ vset.log <= logNumber /\ logNumber < vset.next
        /\ mem \subseteq WritesIn(logs[logNumber])
        /\ Version.next <= vset.next /\ Version.next \in Nat /\ vset.next \in Nat /\ vset.log \in Nat
        /\ \A n \in NumbersOf(vset.files) : n \in Nat /\ n < vset.next
    BY RunningFacts DEF VsetType, TablesType
  <2>3. /\ Version.next <= vset'.next /\ vset.log < vset'.next /\ logNumber < vset'.next
        /\ \A n \in NumbersOf(vset.files) : n < vset'.next
    BY <1>1, <2>2
  <2> QED  BY <1>1, <2>1, <2>2, <2>3, DataKept DEF LoadedInv
<1>3. CoverInv'
  BY <1>0, <1>1, DataKept DEF CoverInv
<1>4. WritingInv'
  BY <1>0, <1>1 DEF WritingInv
<1>5. opening' = {} /\ current' \in DOMAIN manifests' /\ InOrder(OnDisk') /\ NumberInv'
  BY <1>1, DataKept, RunningFacts DEF NumberInv
<1> QED  BY <1>2, <1>3, <1>4, <1>5, RunningStep

LEMMA ReadersKept ==
  ASSUME StoreInv, Running, TablesGrow, readers' = readers
  PROVE  ReadersInv'
<1>1. ReadersInv
  BY DEF StoreInv, Inv
<1>2. acked' = acked /\ vset'.seq = vset.seq /\ DOMAIN tables \subseteq DOMAIN tables'
  BY DEF TablesGrow
<1> QED  BY <1>1, <1>2, DataKept DEF ReadersInv

\* Edits stay good, and what no one uses stays unused.
LEMMA EditsKept ==
  ASSUME StoreInv, Running, TablesGrow
  PROVE  /\ \A e \in EditType : \A step : EditInv(e, step) => EditInv(e, step)'
         /\ readers' = readers => \A n : Unused(n) => Unused(n)'
         /\ \A e : Matches(e)' = Matches(e)
<1>1. /\ vset'.files = vset.files /\ vset'.log = vset.log
      /\ vset'.next \in Nat /\ vset.next <= vset'.next
      /\ DOMAIN tables \subseteq DOMAIN tables'
  BY DEF TablesGrow
<1>2. vset.next \in Nat
  BY RunningFacts DEF VsetType
<1>3. ASSUME NEW e \in EditType, NEW step, EditInv(e, step)  PROVE EditInv(e, step)'
  BY <1>1, <1>2, <1>3, DataKept DEF EditInv, EditType
<1>4. readers' = readers => \A n : Unused(n) => Unused(n)'
  BY <1>1, DataKept DEF Unused
<1>5. \A e : Matches(e)' = Matches(e)
  BY <1>1, DataKept DEF Matches
<1> QED  BY <1>3, <1>4, <1>5

LEMMA PinKeeps ==
  ASSUME StoreInv, Pin \/ Unpin  PROVE  Inv'
<1>0. /\ ExactInv /\ FreshInv /\ FlushInv /\ CompactionInv /\ ReadersInv /\ PhaseInv
      /\ CoverInv /\ readers \in Seq(ReaderType)
  BY DEF StoreInv, Inv, Types, ThreadTypes
<1>1. /\ UNCHANGED <<phase, opening, logs, tables, manifests, current, mem, imm, logNumber,
                     acked, writing, vset, pending, flush, compaction, error>>
  BY DEF Pin, Unpin, disk, memory, control, history
<1>2. Running /\ Running'
  <2>1. CASE Pin
    BY <2>1 DEF Pin, Running
  <2>2. CASE Unpin
    BY <1>0, <1>1, <2>2 DEF Unpin, PhaseInv, Running
  <2> QED  BY <2>1, <2>2
<1>3. TablesGrow
  BY <1>1, <1>2, RunningFacts DEF TablesGrow, VsetType
<1>4. OnDisk' = OnDisk /\ Version' = Version /\ Torn' = Torn
  BY <1>2, <1>3, DataKept
<1>5. ExactInv' /\ FreshInv'
  BY <1>0, <1>1, <1>2, <1>4 DEF ExactInv, Matches, FreshInv
<1>6. FlushInv'
  BY <1>0, <1>1, <1>4 DEF FlushInv, EditInv
<1>7. /\ ReadersInv'
      /\ \A r \in Range(readers') : r \in Range(readers) \/ r.files = vset.files
  <2>1. CASE Pin
    <3> DEFINE r == [seq |-> vset.seq, files |-> vset.files, held |-> mem \union UNION imm]
    <3>1. readers' = Append(readers, r)
      BY <2>1 DEF Pin
    <3>2. r \in ReaderType
      BY DEF ReaderType, StoreInv, Types, ProcessTypes, VsetType, Numbers
    <3>3. Range(readers') = Range(readers) \union {r}
      <4>1. \A x \in ReaderType : Range(Append(readers, x)) = Range(readers) \union {x}
        BY <1>0, RangeAppend
      <4> HIDE DEF r
      <4> QED  BY <3>1, <3>2, <4>1
    <3>4. /\ r.files = vset.files /\ r.seq = vset.seq /\ r.held = mem \union UNION imm
          /\ vset.seq \in Nat
      BY <1>2, RunningFacts DEF VsetType
    <3>5. acked \subseteq r.held \union DataIn(tables, NumbersOf(r.files))
      BY <1>0, <1>2, <3>4 DEF CoverInv
    <3>6. NumbersOf(r.files) \subseteq DOMAIN tables
      BY <1>2, <3>4, RunningFacts
    <3> HIDE DEF r
    <3> QED  BY <1>0, <1>1, <3>3, <3>4, <3>5, <3>6 DEF ReadersInv
  <2>2. CASE Unpin
    <3>1. Range(readers') \subseteq Range(readers)
      BY <1>0, <2>2, ReadersLeft DEF Unpin
    <3> QED  BY <1>0, <1>1, <3>1 DEF ReadersInv
  <2> QED  BY <2>1, <2>2
<1>8. CompactionInv'
  <2>1. \A n : Unused(n) => Unused(n)'
    BY <1>1, <1>4, <1>7 DEF Unused
  <2>2. \A e, step : EditInv(e, step) => EditInv(e, step)'
    BY <1>1, <1>4 DEF EditInv
  <2> QED  BY <1>0, <1>1, <2>1, <2>2 DEF CompactionInv
<1> QED  BY <1>1, <1>2, <1>3, <1>5, <1>6, <1>7, <1>8, TablesStep

\* A memtable is going to be written out.
LEMMA StartFlushKeeps ==
  ASSUME StoreInv, StartFlush  PROVE  Inv'
<1>0. /\ ExactInv /\ FreshInv /\ FlushInv /\ CompactionInv /\ PhaseInv
      /\ pending \subseteq Nat /\ compaction \subseteq CompactionType /\ AtMostOne(compaction)
      /\ phase \in {"down", "opening", "open", "closing", "broken"}
  BY DEF StoreInv, Inv, Types, ThreadTypes, ProcessTypes, Numbers
<1>1. /\ UNCHANGED <<phase, opening, logs, tables, manifests, current, mem, imm, logNumber,
                     acked, writing, error, readers>>
      /\ flush = {} /\ imm # {}
      /\ flush' = {[number |-> vset.next, step |-> "build", edit |-> {}]}
      /\ vset' = [vset EXCEPT !.next = @ + 1]
      /\ pending' = pending \union {vset.next}
  BY DEF StartFlush, disk, memory, control, history
<1>2. Running /\ Running'
  BY <1>0, <1>1 DEF PhaseInv, Running
<1>3. /\ vset.next \in Nat /\ vset'.next = vset.next + 1 /\ vset'.files = vset.files
      /\ vset'.log = vset.log /\ vset'.seq = vset.seq /\ vset'.manifest = vset.manifest
      /\ DOMAIN logs \subseteq Nat /\ DOMAIN tables \subseteq Nat
  BY <1>1, <1>2, RunningFacts, NextNumber DEF VsetType, TablesType, LogsType
<1>4. TablesGrow
  BY <1>1, <1>3 DEF TablesGrow
<1>5. vset.next \notin DOMAIN tables /\ vset.next \notin pending /\ Version' = Version
  BY <1>2, <1>3, <1>4, RunningFacts, DataKept
<1>6. \/ compaction = {} /\ compaction' = {}
      \/ \E c \in compaction : c.step = "merge" /\ compaction' = {[c EXCEPT !.flushes = @ + 1]}
  BY DEF StartFlush
<1>7. \A d \in compaction' : \E c \in compaction :
        /\ c.step = "merge" /\ d.step = "merge" /\ d.out = c.out /\ d.base = c.base
        /\ d.inputs = c.inputs /\ d.edit = c.edit
  BY <1>0, <1>6 DEF CompactionType
<1>8. ExactInv'
  <2>1. ASSUME ~error  PROVE Version.files = vset.files /\ Version.log = vset.log
    <3>1. \A c \in compaction : c.step = "merge"
      BY <1>0, <1>6 DEF AtMostOne
    <3>2. \A c \in compaction : c.step # "install"
      BY <3>1
    <3> QED  BY <1>0, <1>1, <1>2, <2>1, <3>2 DEF ExactInv
  <2>2. (\A f \in flush' : f.step # "install") /\ \A c \in compaction' : c.step # "install"
    BY <1>1, <1>7
  <2> QED  BY <1>1, <1>3, <1>5, <2>1, <2>2 DEF ExactInv
<1>9. FreshInv'
  <2>1. \A n \in DOMAIN logs \union DOMAIN tables \union pending : n \in Nat /\ n < vset.next
    BY <1>0, <1>2, <1>3, RunningFacts
  <2> QED  BY <1>1, <1>3, <2>1 DEF FreshInv
<1>10. FlushInv'
  <2>1. \A d \in compaction' : d.step = "merge" /\ vset.next \notin d.out
    BY <1>0, <1>5, <1>7 DEF CompactionInv
  <2>2. AtMostOne({})
    BY DEF AtMostOne
  <2>3. \A g \in flush' : g.number = vset.next /\ g.step = "build" /\ g.edit = {}
    BY <1>1
  <2>4. vset.next < vset'.next /\ imm' # {} /\ vset.next \notin DOMAIN tables'
    BY <1>1, <1>3, <1>5
  <2> QED  BY <2>1, <2>2, <2>3, <2>4 DEF FlushInv
<1>11. CompactionInv'
  <2>1. \A n : Unused(n) => Unused(n)'
    BY <1>1, <1>2, <1>4, EditsKept
  <2> QED  BY <1>0, <1>1, <1>7, <2>1 DEF CompactionInv
<1>12. ReadersInv'
  BY <1>1, <1>2, <1>4, ReadersKept
<1> QED  BY <1>1, <1>2, <1>4, <1>8, <1>9, <1>10, <1>11, <1>12, TablesStep

\* What there is while a memtable is written out.
LEMMA FlushFacts ==
  ASSUME StoreInv, NEW f \in flush
  PROVE  /\ Running /\ f \in FlushType /\ flush = {f} /\ imm # {}
         /\ f.number \in Nat /\ f.number < vset.next /\ AtMostOne(f.edit)
         /\ \A c \in compaction : c.step = "merge" /\ c.edit = {} /\ f.number \notin c.out
         /\ f.step # "install" /\ ~error => Version.files = vset.files /\ Version.log = vset.log
         /\ f.step = "build" => f.number \notin DOMAIN tables /\ f.edit = {}
<1>1. /\ PhaseInv /\ FlushInv /\ CompactionInv /\ ExactInv
      /\ flush \subseteq FlushType /\ AtMostOne(flush)
  BY DEF StoreInv, Inv, Types, ThreadTypes
<1>2. Running /\ flush = {f} /\ f \in FlushType
  BY <1>1 DEF PhaseInv, AtMostOne
<1>3. \A c \in compaction : c.step = "merge" /\ c.edit = {} /\ f.number \notin c.out
  BY <1>1 DEF FlushInv, CompactionInv
<1>4. ASSUME f.step # "install", ~error  PROVE Version.files = vset.files /\ Version.log = vset.log
  <2>1. (\A g \in flush : g.step # "install") /\ \A c \in compaction : c.step # "install"
    BY <1>2, <1>3, <1>4
  <2> QED  BY <1>1, <1>2, <1>4, <2>1 DEF ExactInv
<1> QED  BY <1>1, <1>2, <1>3, <1>4 DEF FlushInv, FlushType

LEMMA BuildTableKeeps ==
  ASSUME StoreInv, BuildTable  PROVE  Inv'
<1>0. /\ ExactInv /\ FreshInv /\ FlushInv /\ CompactionInv /\ PhaseInv
      /\ vset \in VsetType /\ TablesType(tables) /\ imm \subseteq Numbers /\ logNumber \in Nat
  BY DEF StoreInv, Inv, Types, ThreadTypes, ProcessTypes, DiskTypes
<1>1. PICK f \in flush, deep \in BOOLEAN :
        LET new  == IF UNION imm = {} THEN {} ELSE {f.number}
            edit == Completed(IF deep THEN {} ELSE new, IF deep THEN new ELSE {}, {}, logNumber)
        IN  /\ f.step = "build"
            /\ tables' = IF UNION imm = {} THEN tables ELSE With(tables, f.number, UNION imm)
            /\ pending' = pending \ {f.number}
            /\ \/ flush' = {} /\ error'
               \/ flush' = {[f EXCEPT !.step = "log", !.edit = {edit}]} /\ error' = error
  BY DEF BuildTable, EndOfFlush, RecordBackgroundError
<1> DEFINE new  == IF UNION imm = {} THEN {} ELSE {f.number}
           edit == Completed(IF deep THEN {} ELSE new, IF deep THEN new ELSE {}, {}, logNumber)
<1>2. /\ f.step = "build" /\ pending' = pending \ {f.number}
      /\ \/ flush' = {} /\ error'
         \/ flush' = {[f EXCEPT !.step = "log", !.edit = {edit}]} /\ error' = error
      /\ tables' = IF UNION imm = {} THEN tables ELSE With(tables, f.number, UNION imm)
  BY <1>1
<1>3. UNCHANGED <<phase, opening, logs, manifests, current, mem, imm, logNumber, acked, writing,
                  vset, compaction, readers>>
  BY DEF BuildTable, memory, history
<1>4. /\ Running /\ Running' /\ f \in FlushType /\ imm # {}
      /\ f.number \in Nat /\ f.number < vset.next /\ f.number \notin DOMAIN tables
      /\ \A c \in compaction : c.step = "merge" /\ c.edit = {} /\ f.number \notin c.out
      /\ ~error => Version.files = vset.files /\ Version.log = vset.log
  BY <1>2, <1>3, FlushFacts DEF Running
<1>5. /\ new \in Numbers /\ new \subseteq {f.number}
      /\ DOMAIN tables' = DOMAIN tables \union new
      /\ \A n \in DOMAIN tables : tables'[n] = tables[n]
      /\ UNION imm \subseteq DataIn(tables', new)
  <2>1. CASE UNION imm = {}
    BY <1>2, <2>1 DEF Numbers
  <2>2. CASE UNION imm # {}
    <3>1. new = {f.number} /\ DataIn(tables', new) = tables'[f.number]
      BY <2>2 DEF DataIn
    <3> QED  BY <1>2, <1>4, <2>2, <3>1 DEF Numbers, With
  <2> QED  BY <2>1, <2>2
<1>6. /\ edit \in EditType /\ Added(edit) = new /\ edit.del = {}
      /\ edit.log = logNumber /\ edit.next = vset.next
  <2>1. {} \in Numbers /\ new \in Numbers
    BY <1>5 DEF Numbers
  <2> DEFINE add0 == IF deep THEN {} ELSE new
             addDeep == IF deep THEN new ELSE {}
  <2>2. add0 \in Numbers /\ addDeep \in Numbers /\ add0 \union addDeep = new
    BY <2>1
  <2> HIDE DEF add0, addDeep, new
  <2>3. edit = Completed(add0, addDeep, {}, logNumber)
    BY DEF add0, addDeep
  <2> HIDE DEF edit
  <2> QED  BY <1>0, <2>1, <2>2, <2>3, CompletedType DEF Added
<1> HIDE DEF edit, new
<1>7. TablesGrow
  BY <1>0, <1>3, <1>5 DEF TablesGrow, VsetType
<1>e. PICK e \in EditType : /\ e = edit /\ Added(e) \subseteq {f.number}
                            /\ Added(e) \subseteq DOMAIN tables' /\ e.del = {}
                            /\ e.log = logNumber /\ e.next = vset.next
                            /\ UNION imm \subseteq DataIn(tables', Added(e))
  BY <1>5, <1>6
<1>8. Version' = Version
  BY <1>4, <1>7, DataKept
<1>9. \A g \in flush' : g.step = "log" /\ g.number = f.number /\ g.edit = {e}
  <2>1. LET g == [f EXCEPT !.step = "log", !.edit = {e}]
        IN  g.step = "log" /\ g.number = f.number /\ g.edit = {e}
    BY <1>4 DEF FlushType
  <2> QED  BY <1>2, <1>e, <2>1
<1>10. ExactInv'
  <2>1. error => error'
    BY <1>2
  <2>2. (\A g \in flush' : g.step # "install") /\ \A c \in compaction' : c.step # "install"
    BY <1>3, <1>4, <1>9
  <2> QED  BY <1>3, <1>4, <1>8, <2>1, <2>2 DEF ExactInv
<1>11. FreshInv'
  BY <1>0, <1>2, <1>3, <1>4, <1>5 DEF FreshInv
<1>12. FlushInv'
  <2>1. /\ Version.next <= vset.next /\ logNumber < vset.next /\ vset.next \in Nat
    BY <1>0, <1>4, RunningFacts DEF VsetType
  <2>2. EditInv(e, "log")'
    BY <1>3, <1>4, <1>e, <1>8, <2>1 DEF EditInv
  <2>3. AtMostOne({e})
    BY DEF AtMostOne
  <2> QED  BY <1>3, <1>4, <1>e, <1>9, <2>2, <2>3 DEF FlushInv
<1>13. CompactionInv'
  <2>1. \A n : Unused(n) => Unused(n)'
    BY <1>3, <1>4, <1>7, EditsKept
  <2> QED  BY <1>0, <1>2, <1>3, <1>4, <1>5, <2>1 DEF CompactionInv
<1>14. ReadersInv'
  BY <1>3, <1>4, <1>7, ReadersKept
<1> QED  BY <1>2, <1>4, <1>7, <1>10, <1>11, <1>12, <1>13, <1>14, TablesStep

LEMMA BuildTableFailsKeeps ==
  ASSUME StoreInv, BuildTableFails  PROVE  Inv'
<1>0. /\ FreshInv /\ CompactionInv /\ vset \in VsetType
  BY DEF StoreInv, Inv, Types, ProcessTypes
<1>1. PICK f \in flush : /\ f.step = "build" /\ pending' = pending \ {f.number}
                         /\ flush' = {} /\ error'
  BY DEF BuildTableFails, EndOfFlush, RecordBackgroundError
<1>2. UNCHANGED <<phase, opening, logs, tables, manifests, current, mem, imm, logNumber, acked,
                  writing, vset, compaction, readers>>
  BY DEF BuildTableFails, disk, memory, history
<1>3. /\ Running /\ Running'
      /\ \A c \in compaction : c.edit = {} /\ c.step = "merge" /\ f.number \notin c.out
  BY <1>1, <1>2, FlushFacts DEF Running
<1>4. TablesGrow
  BY <1>0, <1>2 DEF TablesGrow, VsetType
<1>5. ExactInv' /\ FlushInv'
  BY <1>1 DEF ExactInv, FlushInv
<1>6. FreshInv'
  BY <1>0, <1>1, <1>2, <1>3 DEF FreshInv
<1>7. CompactionInv'
  <2>1. \A n : Unused(n) => Unused(n)'
    BY <1>2, <1>3, <1>4, EditsKept
  <2> QED  BY <1>0, <1>1, <1>2, <1>3, <2>1 DEF CompactionInv
<1>8. ReadersInv'
  BY <1>2, <1>3, <1>4, ReadersKept
<1> QED  BY <1>1, <1>3, <1>4, <1>5, <1>6, <1>7, <1>8, TablesStep

\* The thread is idle: the MANIFEST says what the process knows.
LEMMA StartFacts ==
  ASSUME StoreInv, MayStart
  PROVE  /\ Running /\ flush = {} /\ compaction = {} /\ ~error
         /\ Version.files = vset.files /\ Version.log = vset.log
<1>1. Running /\ flush = {} /\ compaction = {} /\ ~error
  BY DEF MayStart, Idle, Running
<1>2. ExactInv
  BY DEF StoreInv, Inv
<1> QED  BY <1>1, <1>2 DEF ExactInv

LEMMA StartCompactionKeeps ==
  ASSUME StoreInv, StartCompaction \/ StartMove  PROVE  Inv'
<1>0. FreshInv /\ vset \in VsetType
  BY DEF StoreInv, Inv, Types, ProcessTypes
<1>1. /\ UNCHANGED <<phase, opening, logs, tables, manifests, current, mem, imm, logNumber, acked,
                     writing, vset, pending, error, flush, readers>>
      /\ MayStart
  BY DEF StartCompaction, StartMove, disk, memory, control, history
<1>2. /\ Running /\ Running' /\ flush' = {} /\ compaction = {}
      /\ Version.files = vset.files /\ Version.log = vset.log
  BY <1>1, StartFacts DEF Running
<1>3. TablesGrow
  BY <1>0, <1>1 DEF TablesGrow, VsetType
<1>4. Version' = Version
  BY <1>2, <1>3, DataKept
<1>5. PICK c : /\ compaction' = {c} /\ c.base = vset.files /\ c.out = {}
               /\ c.inputs \subseteq NumbersOf(vset.files)
               /\ \/ c.step = "merge" /\ c.edit = {}
                  \/ \E n \in vset.files.l0 : /\ c.step = "log" /\ c.inputs = {n}
                                              /\ c.edit = {Completed({}, {n}, {n}, vset.log)}
  <2>1. CASE StartCompaction
    <3>1. PICK ns \in SUBSET NumbersOf(vset.files) :
            compaction' = {[inputs |-> ns, step |-> "merge", base |-> vset.files,
                            manual |-> manual, out |-> {}, edit |-> {}, flushes |-> 0]}
      BY <2>1 DEF StartCompaction
    <3> DEFINE d == [inputs |-> ns, step |-> "merge", base |-> vset.files,
                     manual |-> manual, out |-> {}, edit |-> {}, flushes |-> 0]
    <3>2. /\ d.base = vset.files /\ d.out = {} /\ d.inputs \subseteq NumbersOf(vset.files)
          /\ d.step = "merge" /\ d.edit = {}
      OBVIOUS
    <3> HIDE DEF d
    <3>3. compaction' = {d}
      BY <3>1 DEF d
    <3> QED  BY <3>2, <3>3
  <2>2. CASE StartMove
    <3>1. PICK n \in vset.files.l0 :
            compaction' = {[inputs |-> {n}, step |-> "log", base |-> vset.files,
                            manual |-> FALSE, out |-> {}, flushes |-> 0,
                            edit |-> {Completed({}, {n}, {n}, vset.log)}]}
      BY <2>2 DEF StartMove
    <3>2. {n} \subseteq NumbersOf(vset.files)
      BY <3>1 DEF NumbersOf
    <3> DEFINE d == [inputs |-> {n}, step |-> "log", base |-> vset.files,
                     manual |-> FALSE, out |-> {}, flushes |-> 0,
                     edit |-> {Completed({}, {n}, {n}, vset.log)}]
    <3>3. /\ d.base = vset.files /\ d.out = {} /\ d.inputs = {n}
          /\ d.step = "log" /\ d.edit = {Completed({}, {n}, {n}, vset.log)}
      OBVIOUS
    <3> HIDE DEF d
    <3>4. compaction' = {d}
      BY <3>1 DEF d
    <3> QED  BY <3>2, <3>3, <3>4
  <2> QED  BY <2>1, <2>2
<1>6. ExactInv'
  <2>1. \A d \in compaction' : d.step # "install"
    BY <1>5
  <2> QED  BY <1>1, <1>2, <1>4, <2>1 DEF ExactInv
<1>7. FreshInv'
  BY <1>0, <1>1, <1>2 DEF FreshInv
<1>8. FlushInv' /\ ReadersInv'
  BY <1>1, <1>2, <1>3, ReadersKept DEF FlushInv
<1>9. \A e \in c.edit : /\ EditInv(e, c.step)' /\ e.log = vset.log /\ e.del = c.inputs
                        /\ DataIn(tables, c.inputs) \subseteq DataIn(tables, Added(e))
  <2>1. CASE c.edit = {}
    BY <2>1
  <2>2. CASE c.edit # {}
    <3>1. PICK n \in vset.files.l0 : /\ c.step = "log" /\ c.inputs = {n}
                                     /\ c.edit = {Completed({}, {n}, {n}, vset.log)}
      BY <1>5, <2>2
    <3>2. {n} \in Numbers /\ {} \in Numbers /\ vset.log \in Nat /\ vset.next \in Nat
      BY <1>0 DEF VsetType, Layout, Numbers
    <3>3. PICK e : /\ e = Completed({}, {n}, {n}, vset.log)
                   /\ Added(e) = {n} /\ e.del = {n} /\ e.log = vset.log /\ e.next = vset.next
      <4>1. LET d == Completed({}, {n}, {n}, vset.log)
            IN  /\ d.add0 = {} /\ d.addDeep = {n}
                /\ d.del = {n} /\ d.log = vset.log /\ d.next = vset.next
        BY DEF Completed, Edit
      <4> QED  BY <4>1 DEF Added
    <3>4. n \in NumbersOf(vset.files)
      BY DEF NumbersOf
    <3>5. n \in DOMAIN tables /\ n < vset.next /\ vset.log < vset.next /\ Version.next <= vset.next
      <4>1. LoadedInv /\ Loaded
        BY <1>2 DEF StoreInv, Inv, Loaded
      <4> QED  BY <3>4, <4>1 DEF LoadedInv
    <3>6. EditInv(e, "log")'
      BY <1>1, <1>4, <3>2, <3>3, <3>5 DEF EditInv
    <3> QED  BY <3>1, <3>3, <3>6
  <2> QED  BY <2>1, <2>2
<1>10. CompactionInv'
  <2>1. NumbersOf(vset.files) \subseteq DOMAIN tables
    BY <1>2, RunningFacts
  <2>2. AtMostOne(c.edit)
    BY <1>5 DEF AtMostOne
  <2> QED  BY <1>1, <1>2, <1>5, <1>9, <2>1, <2>2 DEF CompactionInv
<1> QED  BY <1>1, <1>2, <1>3, <1>6, <1>7, <1>8, <1>10, TablesStep

\* What there is during a compaction.
LEMMA CompactionFacts ==
  ASSUME StoreInv, NEW c \in compaction
  PROVE  /\ Running /\ c \in CompactionType /\ compaction = {c}
         /\ c.inputs \subseteq NumbersOf(c.base) /\ NumbersOf(c.base) \subseteq DOMAIN tables
         /\ c.out \subseteq DOMAIN tables /\ c.out \subseteq pending /\ AtMostOne(c.edit)
         /\ c.step = "merge" =>
              /\ c.edit = {}
              /\ \A n \in c.out : Unused(n) /\ n \notin NumbersOf(c.base)
         /\ c.step # "merge" => flush = {}
         /\ flush = {} /\ c.step # "install" /\ ~error =>
              Version.files = vset.files /\ Version.log = vset.log
         /\ \A e \in c.edit :
              /\ e \in EditType /\ EditInv(e, c.step)
              /\ e.log = vset.log /\ e.del = c.inputs
              /\ DataIn(tables, c.inputs) \subseteq DataIn(tables, Added(e))
<1>1. /\ PhaseInv /\ CompactionInv /\ ExactInv
      /\ compaction \subseteq CompactionType /\ AtMostOne(compaction)
  BY DEF StoreInv, Inv, Types, ThreadTypes
<1>2. Running /\ compaction = {c} /\ c \in CompactionType
  BY <1>1 DEF PhaseInv, AtMostOne
<1>3. ASSUME flush = {}, c.step # "install", ~error
      PROVE  Version.files = vset.files /\ Version.log = vset.log
  BY <1>1, <1>2, <1>3 DEF ExactInv
<1>4. \A e \in c.edit : e \in EditType
  BY <1>2 DEF CompactionType
<1> QED  BY <1>1, <1>2, <1>3, <1>4 DEF CompactionInv

LEMMA OpenOutputKeeps ==
  ASSUME StoreInv, OpenOutput  PROVE  Inv'
<1>0. /\ FreshInv /\ ReadersInv /\ vset \in VsetType
      /\ DOMAIN logs \subseteq Nat /\ DOMAIN tables \subseteq Nat /\ pending \subseteq Nat
  BY DEF StoreInv, Inv, Types, ProcessTypes, ThreadTypes, DiskTypes, LogsType, TablesType, Numbers
<1>1. PICK c \in compaction : /\ Merging(c) /\ c.out = {}
                              /\ compaction' = {[c EXCEPT !.out = {vset.next}]}
  BY DEF OpenOutput
<1>2. /\ UNCHANGED <<phase, opening, logs, manifests, current, mem, imm, logNumber, acked,
                     writing, error, flush, readers>>
      /\ vset' = [vset EXCEPT !.next = @ + 1] /\ pending' = pending \union {vset.next}
      /\ tables' = With(tables, vset.next, {})
  BY DEF OpenOutput, memory, control, history
<1>3. /\ Running /\ Running' /\ flush = {} /\ c.step = "merge" /\ c.edit = {} /\ c \in CompactionType
      /\ c.inputs \subseteq NumbersOf(c.base) /\ NumbersOf(c.base) \subseteq DOMAIN tables
      /\ ~error => Version.files = vset.files /\ Version.log = vset.log
  BY <1>1, <1>2, CompactionFacts DEF Merging, Running
<1>4. /\ vset.next \in Nat /\ vset'.next = vset.next + 1 /\ vset'.files = vset.files
      /\ vset'.log = vset.log /\ vset'.seq = vset.seq /\ vset'.manifest = vset.manifest
  BY <1>0, <1>2, NextNumber DEF VsetType
<1>5. /\ DOMAIN tables' = DOMAIN tables \union {vset.next} /\ vset.next \notin DOMAIN tables
      /\ \A n \in DOMAIN tables : tables'[n] = tables[n]
      /\ \A n \in DOMAIN logs \union DOMAIN tables \union pending : n < vset.next
  BY <1>0, <1>2, <1>3, <1>4 DEF FreshInv, With
<1>6. TablesGrow
  BY <1>2, <1>4, <1>5 DEF TablesGrow
<1>7. Version' = Version
  BY <1>3, <1>6, DataKept
<1>8. PICK d : /\ compaction' = {d} /\ d.out = {vset.next} /\ d.step = "merge" /\ d.edit = {}
               /\ d.inputs = c.inputs /\ d.base = c.base
  <2>1. \A ns : LET d == [c EXCEPT !.out = ns]
               IN  /\ d.out = ns /\ d.step = c.step /\ d.edit = c.edit
                   /\ d.inputs = c.inputs /\ d.base = c.base
    BY <1>3 DEF CompactionType
  <2> DEFINE d == [c EXCEPT !.out = {vset.next}]
  <2>2. /\ d.out = {vset.next} /\ d.step = "merge" /\ d.edit = {}
        /\ d.inputs = c.inputs /\ d.base = c.base
    BY <1>3, <2>1
  <2>3. compaction' = {d}
    BY <1>1
  <2> HIDE DEF d
  <2> QED  BY <2>2, <2>3
<1>9. ExactInv' /\ FlushInv'
  <2>1. \A x \in compaction' : x.step # "install"
    BY <1>8
  <2>2. flush' = {}
    BY <1>2, <1>3
  <2> QED  BY <1>2, <1>3, <1>4, <1>7, <2>1, <2>2 DEF ExactInv, FlushInv
<1>10. FreshInv'
  BY <1>0, <1>2, <1>4, <1>5 DEF FreshInv
<1>11. CompactionInv'
  <2> DEFINE n == vset.next
  <2>1. /\ NumbersOf(Version.files) \subseteq DOMAIN tables
        /\ NumbersOf(vset.files) \subseteq DOMAIN tables
        /\ \A r \in Range(readers) : NumbersOf(r.files) \subseteq DOMAIN tables
    BY <1>0, <1>3, RunningFacts DEF ReadersInv
  <2>2. \A m : m = n => /\ m \notin NumbersOf(Version'.files) /\ m \notin NumbersOf(vset'.files)
                        /\ \A r \in Range(readers') : m \notin NumbersOf(r.files)
    BY <1>2, <1>4, <1>5, <1>7, <2>1
  <2>3. \A m \in d.out : Unused(m)' /\ m \notin NumbersOf(d.base)
    BY <1>3, <1>5, <1>8, <2>2 DEF Unused
  <2>4. d.out \subseteq DOMAIN tables' /\ d.out \subseteq pending'
    BY <1>2, <1>5, <1>8
  <2>5. AtMostOne({})
    BY DEF AtMostOne
  <2> QED  BY <1>3, <1>5, <1>8, <2>3, <2>4, <2>5 DEF CompactionInv
<1>12. ReadersInv'
  BY <1>2, <1>3, <1>6, ReadersKept
<1> QED  BY <1>2, <1>3, <1>6, <1>9, <1>10, <1>11, <1>12, TablesStep

\* The output of a merge holds what its inputs hold.
LEMMA FinishOutputKeeps ==
  ASSUME StoreInv, FinishOutput  PROVE  Inv'
<1>0. FreshInv /\ vset \in VsetType /\ LoadedInv
  BY DEF StoreInv, Inv, Types, ProcessTypes
<1>1. PICK c \in compaction :
        /\ Merging(c) /\ c.out # {}
        /\ tables' = [n \in DOMAIN tables |->
                        IF n \in c.out THEN UNION {tables[m] : m \in c.inputs} ELSE tables[n]]
        /\ compaction' = {[c EXCEPT !.step = "log",
                           !.edit = {Completed({}, c.out, c.inputs, vset.log)}]}
  BY DEF FinishOutput
<1>2. UNCHANGED <<phase, opening, logs, manifests, current, mem, imm, logNumber, acked,
                  writing, error, flush, readers, vset, pending>>
  BY DEF FinishOutput, memory, control, history
<1>3. /\ Running /\ Running' /\ flush = {} /\ c.step = "merge" /\ c \in CompactionType
      /\ c.inputs \subseteq NumbersOf(c.base) /\ NumbersOf(c.base) \subseteq DOMAIN tables
      /\ c.out \subseteq DOMAIN tables /\ c.out \subseteq pending
      /\ (\A n \in c.out : Unused(n) /\ n \notin NumbersOf(c.base))
      /\ ~error => Version.files = vset.files /\ Version.log = vset.log
  BY <1>1, <1>2, CompactionFacts DEF Merging, Running
<1>4. /\ c.inputs \in Numbers /\ c.out \in Numbers /\ {} \in Numbers
      /\ vset.log \in Nat /\ vset.next \in Nat
  BY <1>0, <1>3 DEF CompactionType, VsetType, Numbers
<1>5. PICK e \in EditType :
        /\ e = Completed({}, c.out, c.inputs, vset.log)
        /\ Added(e) = c.out /\ e.del = c.inputs /\ e.log = vset.log /\ e.next = vset.next
  BY <1>0, <1>4, CompletedType DEF Added
<1>6. TablesGrow
  BY <1>0, <1>1, <1>2, <1>3 DEF TablesGrow, VsetType
<1>7. Version' = Version /\ DOMAIN tables' = DOMAIN tables
  BY <1>1, <1>3, <1>6, DataKept
<1>8. PICK d : /\ compaction' = {d} /\ d.out = c.out /\ d.step = "log" /\ d.edit = {e}
               /\ d.inputs = c.inputs /\ d.base = c.base
  <2>1. LET d == [c EXCEPT !.step = "log", !.edit = {e}]
        IN  /\ d.out = c.out /\ d.step = "log" /\ d.edit = {e}
            /\ d.inputs = c.inputs /\ d.base = c.base
    BY <1>3 DEF CompactionType
  <2> QED  BY <1>1, <1>5, <2>1
<1>9. ExactInv' /\ FlushInv' /\ FreshInv'
  BY <1>0, <1>2, <1>3, <1>7, <1>8 DEF ExactInv, FlushInv, FreshInv
<1>10. CompactionInv'
  <2>1. DataIn(tables', c.inputs) \subseteq DataIn(tables', c.out)
    <3>1. \A m \in c.inputs : tables'[m] = tables[m]
      BY <1>1, <1>3
    <3>2. DataIn(tables', c.inputs) = DataIn(tables, c.inputs)
      BY <3>1, DataSame
    <3>3. PICK n \in c.out : tables'[n] = DataIn(tables, c.inputs)
      BY <1>1, <1>3 DEF DataIn
    <3> QED  BY <3>2, <3>3 DEF DataIn
  <2>2. EditInv(e, "log")'
    <3>1. vset.log < vset.next /\ Version.next <= vset.next /\ \A n \in c.out : n < vset.next
      BY <1>0, <1>3 DEF LoadedInv, Loaded, FreshInv
    <3> QED  BY <1>2, <1>3, <1>4, <1>5, <1>7, <3>1 DEF EditInv
  <2>3. AtMostOne({e})
    BY DEF AtMostOne
  <2> QED  BY <1>2, <1>3, <1>5, <1>7, <1>8, <2>1, <2>2, <2>3 DEF CompactionInv
<1>11. ReadersInv'
  BY <1>2, <1>3, <1>6, ReadersKept
<1> QED  BY <1>2, <1>3, <1>6, <1>9, <1>10, <1>11, TablesStep

-----------------------------------------------------------------------------
(* The process runs: edits reach the MANIFEST. *)

\* The MANIFEST with one more edit, if it was whole and the edit has reached it.
LEMMA ManifestGrows ==
  ASSUME StoreInv, Loaded, current = vset.manifest, current' = current,
         NEW e \in EditType, manifests' = Logged(e) \/ manifests' \in NotLogged(e)
  PROVE  /\ DOMAIN manifests' = DOMAIN manifests /\ current \in DOMAIN manifests
         /\ \/ OnDisk' = OnDisk /\ (Torn => Torn')
            \/ OnDisk' = Append(OnDisk, e) /\ ~Torn /\ ~Torn'
         /\ manifests' = Logged(e) =>
              Torn' = Torn /\ (~Torn => OnDisk' = Append(OnDisk, e))
<1>1. /\ ManifestsType(manifests) /\ current # 0 /\ current \in DOMAIN manifests
  BY DEF StoreInv, Types, DiskTypes, Inv, LoadedInv, DiskInv
<1> DEFINE file == manifests[current]
           tear == Len(file.records) + 1
           cut  == [file EXCEPT !.synced = Len(file.records)]
<1>2. file \in ManifestType /\ tear \in Nat /\ tear # 0
  BY <1>1, LenProperties DEF ManifestsType, ManifestType
<1>3. /\ Appended(file, e).records = Append(file.records, e)
      /\ Appended(file, e).torn = file.torn
      /\ AppendedSynced(file, e).records = Append(file.records, e)
      /\ AppendedSynced(file, e).torn = 0
      /\ cut.records = file.records /\ cut.torn = file.torn
      /\ TornAt(file, tear).records = file.records
      /\ TornAt(file, tear).torn # 0
  BY <1>2 DEF Appended, AppendedSynced, File, TornAt, ManifestType
<1>4. /\ OnDisk = file.records /\ OnDisk' = manifests'[current].records
      /\ Torn <=> file.torn # 0
      /\ Torn' <=> manifests'[current].torn # 0
      /\ TornManifest <=> file.torn # 0
  BY <1>1 DEF OnDisk, EditsOf, Torn, TornManifest
<1>5. /\ Logged(e) = [manifests EXCEPT ![current] = IF Torn THEN cut ELSE AppendedSynced(file, e)]
      /\ NotLogged(e) = IF Torn THEN {manifests}
                        ELSE {manifests, [manifests EXCEPT ![current] = Appended(file, e)],
                              [manifests EXCEPT ![current] = TornAt(file, tear)]}
  BY <1>4 DEF Logged, NotLogged
<1> HIDE DEF file, tear, cut
<1>6. CASE manifests' = Logged(e)
  <2>1. CASE Torn
    <3>1. manifests'[current] = cut /\ DOMAIN manifests' = DOMAIN manifests
      BY <1>1, <1>5, <1>6, <2>1
    <3> QED  BY <1>1, <1>3, <1>4, <2>1, <3>1
  <2>2. CASE ~Torn
    <3>1. manifests'[current] = AppendedSynced(file, e) /\ DOMAIN manifests' = DOMAIN manifests
      BY <1>1, <1>5, <1>6, <2>2
    <3>2. OnDisk' = Append(OnDisk, e)
      BY <1>3, <1>4, <3>1
    <3>3. ~Torn'
      BY <1>3, <1>4, <3>1
    <3>4. Torn' = Torn
      BY <2>2, <3>3 DEF Torn
    <3> QED  BY <1>1, <2>2, <3>1, <3>2, <3>3, <3>4
  <2> QED  BY <2>1, <2>2
<1>7. CASE manifests' \in NotLogged(e) /\ manifests' # Logged(e)
  <2>1. CASE manifests' = manifests
    BY <1>1, <1>4, <1>7, <2>1 DEF file
  <2>2. CASE manifests' = [manifests EXCEPT ![current] = Appended(file, e)] /\ ~Torn
    BY <1>1, <1>3, <1>4, <1>7, <2>2
  <2>3. CASE manifests' = [manifests EXCEPT ![current] = TornAt(file, tear)] /\ ~Torn
    BY <1>1, <1>3, <1>4, <1>7, <2>3
  <2> QED  BY <1>5, <1>7, <2>1, <2>2, <2>3
<1> QED  BY <1>6, <1>7

LEMMA EditLogged ==
  ASSUME StoreInv, Running, NEW e \in EditType, EditInv(e, "log"),
         DataIn(tables, e.del) \subseteq DataIn(tables, Added(e)),
         e.log <= logNumber,
         UNION imm \subseteq DataIn(tables, Added(e)) \union LogsFrom(logs, e.log),
         UNCHANGED <<opening, logs, tables, current, mem, imm, logNumber, vset, acked, writing>>,
         error => error', manifests' = Logged(e) \/ (manifests' \in NotLogged(e) /\ error')
  PROVE  /\ opening' = {} /\ current' \in DOMAIN manifests' /\ InOrder(OnDisk') /\ NumberInv'
         /\ LoadedInv' /\ CoverInv' /\ WritingInv'
         /\ NumbersOf(Version'.files) \subseteq NumbersOf(Version.files) \union Added(e)
         /\ Version'.next <= vset.next
         /\ manifests' = Logged(e) => Torn' = Torn
         /\ manifests' = Logged(e) /\ ~Torn =>
              /\ Version'.files = Apply(Version.files, e) /\ Version'.log = e.log
              /\ Added(e) \subseteq NumbersOf(Version'.files)
<1>0. /\ LoadedInv /\ CoverInv /\ WritingInv
  BY DEF StoreInv, Inv
<1>1. /\ OnDisk \in Seq(EditType) /\ InOrder(OnDisk) /\ Version.files \in Layout
      /\ OnDisk # << >> /\ NumbersOf(Version.files) \subseteq DOMAIN tables
      /\ current = vset.manifest /\ Loaded /\ opening = {} /\ Version.next <= vset.next
      /\ logNumber # 0 /\ NumberInv
  BY RunningFacts DEF Loaded
<1>2. /\ DOMAIN manifests' = DOMAIN manifests /\ current \in DOMAIN manifests
      /\ \/ OnDisk' = OnDisk /\ (Torn => Torn')
         \/ OnDisk' = Append(OnDisk, e) /\ ~Torn /\ ~Torn'
      /\ manifests' = Logged(e) =>
           Torn' = Torn /\ (~Torn => OnDisk' = Append(OnDisk, e))
  BY <1>1, ManifestGrows
<1>3. e.log < e.next /\ e.next <= vset.next /\ Version.next <= e.next
      /\ (\A n \in Added(e) : n < e.next) /\ Added(e) \subseteq DOMAIN tables
  BY DEF EditInv
<1>4. InOrder(OnDisk') /\ OnDisk' # << >> /\ NumberInv'
  <2>1. CASE OnDisk' = OnDisk
    BY <1>1, <2>1 DEF NumberInv
  <2>2. CASE OnDisk' = Append(OnDisk, e)
    <3>1. Len(OnDisk) \in Nat \ {0}
      BY <1>1, LenProperties, EmptySeq
    <3>2. Append(OnDisk, e) # << >> /\ Append(OnDisk, e)[1] = OnDisk[1]
      BY <1>1, <3>1, AppendProperties, EmptySeq
    <3>3. InOrder(OnDisk')
      BY <1>1, <1>3, <2>2, InOrderAppend DEF Version
    <3> QED  BY <1>1, <2>2, <3>2, <3>3 DEF NumberInv
  <2> QED  BY <1>2, <2>1, <2>2
<1>5. OnDisk' = Append(OnDisk, e) =>
        /\ Version'.files = Apply(Version.files, e)
        /\ Version'.log = e.log /\ Version'.next = e.next
  BY <1>1, ReplayAppend DEF Version
<1>6. /\ NumbersOf(Apply(Version.files, e)) \subseteq NumbersOf(Version.files) \union Added(e)
      /\ Added(e) \subseteq NumbersOf(Apply(Version.files, e))
  BY <1>1, ApplyNumbers
<1>7. /\ DataIn(tables, NumbersOf(Version.files))
           \subseteq DataIn(tables, NumbersOf(Apply(Version.files, e)))
      /\ DataIn(tables, Added(e)) \subseteq DataIn(tables, NumbersOf(Apply(Version.files, e)))
  BY <1>1, DataApplied
<1>8. \/ Version' = Version
      \/ /\ Version'.files = Apply(Version.files, e)
         /\ Version'.log = e.log /\ Version'.next = e.next
  BY <1>2, <1>5 DEF Version
<1>9. /\ NumbersOf(Version'.files) \subseteq DOMAIN tables
      /\ Version'.next <= vset.next /\ Version'.log <= logNumber
      /\ NumbersOf(Version'.files) \subseteq NumbersOf(Version.files) \union Added(e)
      /\ DataIn(tables, NumbersOf(Version.files)) \subseteq DataIn(tables, NumbersOf(Version'.files))
      /\ UNION imm \subseteq DataIn(tables, NumbersOf(Version'.files)) \union LogsFrom(logs, Version'.log)
  <2>1. CASE Version' = Version
    BY <1>0, <1>1, <2>1 DEF CoverInv
  <2>2. CASE /\ Version'.files = Apply(Version.files, e)
             /\ Version'.log = e.log /\ Version'.next = e.next
    BY <1>1, <1>3, <1>6, <1>7, <2>2
  <2> QED  BY <1>8, <2>1, <2>2
<1>10. LoadedInv'
  BY <1>0, <1>1, <1>4, <1>9 DEF LoadedInv
<1>11. CoverInv'
  <2>1. /\ acked \subseteq mem \union (UNION imm) \union DataIn(tables, NumbersOf(vset.files))
        /\ ~Torn => DataIn(tables, NumbersOf(vset.files))
                      \subseteq DataIn(tables, NumbersOf(Version.files))
        /\ UNION imm \subseteq LogsFrom(logs, vset.log)
        /\ Torn => error
    BY <1>0 DEF CoverInv
  <2>2. ~Torn' => DataIn(tables, NumbersOf(vset.files))
                   \subseteq DataIn(tables, NumbersOf(Version'.files))
    BY <1>2, <1>9, <2>1
  <2>3. ASSUME Torn'
        PROVE  error' /\ acked \subseteq DataIn(tables, NumbersOf(Version'.files))
                                           \union LogsFrom(logs, Version'.log)
    <3>1. OnDisk' = OnDisk
      BY <1>2, <2>3
    <3>2. Version' = Version
      BY <3>1 DEF Version
    <3>3. error'
      BY <1>2, <2>1, <2>3
    <3> QED  BY <3>2, <3>3, AckedFound
  <2> QED  BY <1>1, <1>9, <2>1, <2>2, <2>3 DEF CoverInv
<1>12. WritingInv' /\ opening' = {} /\ current' \in DOMAIN manifests'
  BY <1>0, <1>1, <1>2 DEF WritingInv
<1> QED  BY <1>2, <1>4, <1>5, <1>6, <1>9, <1>10, <1>11, <1>12

\* Readers and numbers that an edit does not touch.
LEMMA SameReaders ==
  ASSUME StoreInv, UNCHANGED <<logs, tables, readers, acked, vset, phase>>,
         pending' \subseteq pending
  PROVE  ReadersInv' /\ FreshInv'
<1>1. ReadersInv /\ FreshInv
  BY DEF StoreInv, Inv
<1> QED  BY <1>1 DEF ReadersInv, FreshInv, Running

\* The edit of a memtable that has become a table.
LEMMA FlushEdit ==
  ASSUME StoreInv, NEW f \in flush, NEW e \in f.edit
  PROVE  /\ e \in EditType /\ EditInv(e, f.step)
         /\ e.del = {} /\ e.log = logNumber /\ Added(e) \subseteq {f.number}
         /\ UNION imm \subseteq DataIn(tables, Added(e))
         /\ DataIn(tables, e.del) \subseteq DataIn(tables, Added(e))
<1>1. /\ EditInv(e, f.step)
      /\ e.del = {} /\ e.log = logNumber /\ Added(e) \subseteq {f.number}
      /\ UNION imm \subseteq DataIn(tables, Added(e))
  BY DEF StoreInv, Inv, FlushInv
<1>2. e \in EditType
  BY FlushFacts DEF FlushType
<1> QED  BY <1>1, <1>2 DEF DataIn

LEMMA LogFlushKeeps ==
  ASSUME StoreInv, LogFlush  PROVE  Inv'
<1>0. /\ FlushInv /\ CompactionInv
  BY DEF StoreInv, Inv
<1>1. PICK f \in flush : \E edit \in f.edit :
        /\ f.step = "log" /\ manifests' = Logged(edit)
        /\ flush' = {[f EXCEPT !.step = "install"]}
  BY DEF LogFlush
<1>2. PICK e \in f.edit : manifests' = Logged(e)
  BY <1>1
<1>3. UNCHANGED <<phase, opening, logs, tables, current, mem, imm, logNumber, vset, acked,
                  writing, error, pending, compaction, readers>>
  BY DEF LogFlush, memory, control, history
<1>4. /\ Running /\ Running' /\ f \in FlushType /\ imm # {} /\ f.number < vset.next
      /\ (\A c \in compaction : c.step = "merge" /\ c.edit = {} /\ f.number \notin c.out)
      /\ ~error => Version.files = vset.files /\ Version.log = vset.log
  BY <1>1, <1>3, FlushFacts DEF Running
<1>5. /\ e \in EditType /\ EditInv(e, "log")
      /\ e.del = {} /\ e.log = logNumber /\ Added(e) \subseteq {f.number}
      /\ UNION imm \subseteq DataIn(tables, Added(e))
      /\ DataIn(tables, e.del) \subseteq DataIn(tables, Added(e))
  BY <1>1, FlushEdit
<1>6. e.log <= logNumber
  BY <1>4, <1>5, RunningFacts
<1>7. /\ opening' = {} /\ current' \in DOMAIN manifests' /\ InOrder(OnDisk') /\ NumberInv'
      /\ LoadedInv' /\ CoverInv' /\ WritingInv'
      /\ NumbersOf(Version'.files) \subseteq NumbersOf(Version.files) \union Added(e)
      /\ Torn' = Torn /\ (Torn => error)
      /\ ~Torn => /\ Version'.files = Apply(Version.files, e) /\ Version'.log = e.log
                  /\ Added(e) \subseteq NumbersOf(Version'.files)
  <2>1. Torn => error
    BY <1>4 DEF StoreInv, Inv, CoverInv
  <2> QED  BY <1>2, <1>3, <1>4, <1>5, <1>6, <2>1, EditLogged
<1>8. PICK g : flush' = {g} /\ g.step = "install" /\ g.number = f.number /\ g.edit = f.edit
  <2>1. LET g == [f EXCEPT !.step = "install"]
        IN  g.step = "install" /\ g.number = f.number /\ g.edit = f.edit
    BY <1>4 DEF FlushType
  <2> QED  BY <1>1, <2>1
<1>9. f.edit = {e} /\ AtMostOne(f.edit)
  BY FlushFacts DEF AtMostOne
<1>10. EditInv(e, "install")' /\ (~error => Matches(e)')
  BY <1>3, <1>4, <1>5, <1>7 DEF EditInv, Matches
<1>11. ExactInv'
  BY <1>3, <1>4, <1>8, <1>9, <1>10 DEF ExactInv
<1>12. FlushInv'
  BY <1>3, <1>4, <1>5, <1>8, <1>9, <1>10 DEF FlushInv
<1>13. CompactionInv'
  <2>1. \A n : Unused(n) /\ n # f.number => Unused(n)'
    BY <1>3, <1>5, <1>7 DEF Unused
  <2> QED  BY <1>0, <1>3, <1>4, <2>1 DEF CompactionInv
<1>14. ReadersInv' /\ FreshInv'
  BY <1>3, SameReaders
<1> QED  BY <1>4, <1>7, <1>11, <1>12, <1>13, <1>14, RunningStep

LEMMA LogFlushFailsKeeps ==
  ASSUME StoreInv, LogFlushFails  PROVE  Inv'
<1>0. /\ FlushInv /\ CompactionInv
  BY DEF StoreInv, Inv
<1>1. PICK f \in flush : \E edit \in f.edit :
        f.step = "log" /\ manifests' \in NotLogged(edit)
  BY DEF LogFlushFails
<1>2. PICK e \in f.edit : manifests' \in NotLogged(e)
  BY <1>1
<1>3. /\ UNCHANGED <<phase, opening, logs, tables, current, mem, imm, logNumber, vset, acked,
                     writing, pending, compaction, readers>>
      /\ flush' = {} /\ error'
  BY DEF LogFlushFails, EndOfFlush, RecordBackgroundError, memory, control, history
<1>4. /\ Running /\ Running'
      /\ (\A c \in compaction : c.step = "merge" /\ c.edit = {} /\ f.number \notin c.out)
  BY <1>3, FlushFacts DEF Running
<1>5. /\ e \in EditType /\ EditInv(e, "log")
      /\ e.del = {} /\ e.log = logNumber /\ Added(e) \subseteq {f.number}
      /\ UNION imm \subseteq DataIn(tables, Added(e))
      /\ DataIn(tables, e.del) \subseteq DataIn(tables, Added(e))
  BY <1>1, FlushEdit
<1>6. e.log <= logNumber
  BY <1>4, <1>5, RunningFacts
<1>7. /\ opening' = {} /\ current' \in DOMAIN manifests' /\ InOrder(OnDisk') /\ NumberInv'
      /\ LoadedInv' /\ CoverInv' /\ WritingInv'
      /\ NumbersOf(Version'.files) \subseteq NumbersOf(Version.files) \union Added(e)
  BY <1>2, <1>3, <1>4, <1>5, <1>6, EditLogged
<1>8. ExactInv' /\ FlushInv'
  BY <1>3 DEF ExactInv, FlushInv
<1>9. CompactionInv'
  <2>1. \A n : Unused(n) /\ n # f.number => Unused(n)'
    BY <1>3, <1>5, <1>7 DEF Unused
  <2> QED  BY <1>0, <1>3, <1>4, <2>1 DEF CompactionInv
<1>10. ReadersInv' /\ FreshInv'
  BY <1>3, SameReaders
<1> QED  BY <1>4, <1>7, <1>8, <1>9, <1>10, RunningStep

LEMMA LogCompactionKeeps ==
  ASSUME StoreInv, LogCompaction  PROVE  Inv'
<1>0. /\ CompactionInv /\ CoverInv
  BY DEF StoreInv, Inv
<1>1. PICK c \in compaction : \E edit \in c.edit :
        /\ c.step = "log" /\ flush = {} /\ manifests' = Logged(edit)
        /\ compaction' = {[c EXCEPT !.step = "install"]}
  BY DEF LogCompaction
<1>2. PICK e \in c.edit : manifests' = Logged(e)
  BY <1>1
<1>3. UNCHANGED <<phase, opening, logs, tables, current, mem, imm, logNumber, vset, acked,
                  writing, error, pending, flush, readers>>
  BY DEF LogCompaction, memory, control, history
<1>4. /\ Running /\ Running' /\ c \in CompactionType
      /\ c.inputs \subseteq NumbersOf(c.base) /\ NumbersOf(c.base) \subseteq DOMAIN tables
      /\ c.out \subseteq DOMAIN tables /\ c.out \subseteq pending
      /\ ~error => Version.files = vset.files /\ Version.log = vset.log
  BY <1>1, <1>3, CompactionFacts DEF Running
<1>5. \A d \in c.edit : /\ d \in EditType /\ EditInv(d, "log")
                        /\ d.log = vset.log /\ d.del = c.inputs
                        /\ DataIn(tables, c.inputs) \subseteq DataIn(tables, Added(d))
  BY <1>1, CompactionFacts
<1>6. /\ e.log <= logNumber
      /\ UNION imm \subseteq DataIn(tables, Added(e)) \union LogsFrom(logs, e.log)
  BY <1>0, <1>4, <1>5, RunningFacts DEF CoverInv
<1>7. /\ opening' = {} /\ current' \in DOMAIN manifests' /\ InOrder(OnDisk') /\ NumberInv'
      /\ LoadedInv' /\ CoverInv' /\ WritingInv'
      /\ Torn' = Torn /\ (Torn => error)
      /\ ~Torn => /\ Version'.files = Apply(Version.files, e) /\ Version'.log = e.log
                  /\ Added(e) \subseteq NumbersOf(Version'.files)
  <2>1. Torn => error
    BY <1>4 DEF StoreInv, Inv, CoverInv
  <2> QED  BY <1>2, <1>3, <1>4, <1>5, <1>6, <2>1, EditLogged
<1>8. PICK g : /\ compaction' = {g} /\ g.step = "install" /\ g.inputs = c.inputs
               /\ g.base = c.base /\ g.out = c.out /\ g.edit = c.edit
  <2>1. LET g == [c EXCEPT !.step = "install"]
        IN  /\ g.step = "install" /\ g.inputs = c.inputs
            /\ g.base = c.base /\ g.out = c.out /\ g.edit = c.edit
    BY <1>4 DEF CompactionType
  <2> QED  BY <1>1, <2>1
<1>9. c.edit = {e} /\ AtMostOne(c.edit)
  BY CompactionFacts DEF AtMostOne
<1>10. EditInv(e, "install")' /\ (~error => Matches(e)')
  BY <1>3, <1>4, <1>5, <1>7 DEF EditInv, Matches
<1>11. ExactInv' /\ FlushInv'
  BY <1>1, <1>3, <1>4, <1>8, <1>9, <1>10 DEF ExactInv, FlushInv
<1>12. CompactionInv'
  BY <1>1, <1>3, <1>4, <1>5, <1>8, <1>9, <1>10 DEF CompactionInv
<1>13. ReadersInv' /\ FreshInv'
  BY <1>3, SameReaders
<1> QED  BY <1>4, <1>7, <1>11, <1>12, <1>13, RunningStep

\* What a compaction leaves behind when it fails: no file goes.
LEMMA FailedEnd ==
  ASSUME NEW c, NEW mfs, EndOfCompaction(c, mfs, vset), error'
  PROVE  /\ UNCHANGED <<current, phase, opening, mem, imm, logNumber, writing, flush, readers,
                        logs, tables, acked>>
         /\ manifests' = mfs /\ compaction' = {} /\ pending' \subseteq pending
BY DEF EndOfCompaction, DeleteObsoleteFiles, MayCollect, memory, history

LEMMA LogCompactionFailsKeeps ==
  ASSUME StoreInv, LogCompactionFails  PROVE  Inv'
<1>0. CoverInv
  BY DEF StoreInv, Inv
<1>1. PICK c \in compaction : \E edit \in c.edit : \E mfs \in NotLogged(edit) :
        /\ c.step = "log" /\ flush = {} /\ error' /\ vset' = vset
        /\ EndOfCompaction(c, mfs, vset)
  BY DEF LogCompactionFails, RecordBackgroundError
<1>2. PICK e \in c.edit : \E mfs \in NotLogged(e) : EndOfCompaction(c, mfs, vset)
  BY <1>1
<1>3. /\ UNCHANGED <<current, phase, opening, mem, imm, logNumber, writing, flush, readers,
                     logs, tables, acked, vset>>
      /\ manifests' \in NotLogged(e) /\ compaction' = {} /\ flush = {} /\ error'
      /\ pending' \subseteq pending
  BY <1>1, <1>2, FailedEnd
<1>4. Running /\ Running'
  BY <1>3, CompactionFacts DEF Running
<1>5. /\ e \in EditType /\ EditInv(e, "log") /\ e.log = vset.log /\ e.del = c.inputs
      /\ DataIn(tables, e.del) \subseteq DataIn(tables, Added(e))
  BY <1>1, CompactionFacts
<1>6. /\ e.log <= logNumber
      /\ UNION imm \subseteq DataIn(tables, Added(e)) \union LogsFrom(logs, e.log)
  BY <1>0, <1>4, <1>5, RunningFacts DEF CoverInv
<1>7. /\ opening' = {} /\ current' \in DOMAIN manifests' /\ InOrder(OnDisk') /\ NumberInv'
      /\ LoadedInv' /\ CoverInv' /\ WritingInv'
  BY <1>3, <1>4, <1>5, <1>6, EditLogged
<1>8. ExactInv' /\ FlushInv' /\ CompactionInv'
  BY <1>3 DEF ExactInv, FlushInv, CompactionInv
<1>9. ReadersInv' /\ FreshInv'
  BY <1>3, SameReaders
<1> QED  BY <1>4, <1>7, <1>8, <1>9, RunningStep

LEMMA AbandonMergeKeeps ==
  ASSUME StoreInv, AbandonMerge  PROVE  Inv'
<1>1. PICK c \in compaction : /\ flush = {} /\ error' /\ vset' = vset
                              /\ EndOfCompaction(c, manifests, vset)
  BY DEF AbandonMerge, RecordBackgroundError
<1>2. /\ UNCHANGED <<current, phase, opening, mem, imm, logNumber, writing, flush, readers,
                     logs, tables, acked, vset, manifests>>
      /\ compaction' = {} /\ error' /\ pending' \subseteq pending
  BY <1>1, FailedEnd
<1>3. Running /\ Running'
  BY <1>2, CompactionFacts DEF Running
<1>4. TablesGrow
  BY <1>2, <1>3, RunningFacts DEF TablesGrow, VsetType
<1>5. ExactInv' /\ FlushInv' /\ CompactionInv'
  BY <1>1, <1>2 DEF ExactInv, FlushInv, CompactionInv
<1>6. ReadersInv' /\ FreshInv'
  BY <1>2, SameReaders
<1> QED  BY <1>1, <1>3, <1>4, <1>5, <1>6, TablesStep

-----------------------------------------------------------------------------
(* The process runs: edits are installed, and files that nobody needs go. *)

\* Nothing goes, or what neither the new version nor `kept` needs goes.
Collected(kept) ==
  \/ UNCHANGED <<logs, tables, manifests>>
  \/ /\ ~error
     /\ logs' = Keep(logs, {n \in DOMAIN logs : n >= vset'.log})
     /\ tables' = Keep(tables, kept)
     /\ manifests' = Keep(manifests, {n \in DOMAIN manifests : n >= vset'.manifest})

LEMMA KeptTables ==
  ASSUME NEW kept, Collected(kept)
  PROVE  /\ DOMAIN logs' \subseteq DOMAIN logs /\ DOMAIN tables' \subseteq DOMAIN tables
         /\ \A n \in DOMAIN tables : n \in kept => n \in DOMAIN tables' /\ tables'[n] = tables[n]
         /\ \A ns : ns \subseteq DOMAIN tables /\ ns \subseteq kept =>
                      ns \subseteq DOMAIN tables' /\ DataIn(tables', ns) = DataIn(tables, ns)
<1>1. /\ DOMAIN logs' \subseteq DOMAIN logs /\ DOMAIN tables' \subseteq DOMAIN tables
      /\ \A n \in DOMAIN tables : n \in kept => n \in DOMAIN tables' /\ tables'[n] = tables[n]
  BY DEF Collected, Keep
<1>2. ASSUME NEW ns, ns \subseteq DOMAIN tables, ns \subseteq kept
      PROVE  ns \subseteq DOMAIN tables' /\ DataIn(tables', ns) = DataIn(tables, ns)
  BY <1>1, <1>2, DataSame
<1> QED  BY <1>1, <1>2

LEMMA EditInstalled ==
  ASSUME StoreInv, Running, NEW e \in EditType, EditInv(e, "install"), vset' = Installed(e),
         ~error => Matches(e),
         DataIn(tables, e.del) \subseteq DataIn(tables, Added(e)), e.log <= logNumber,
         UNCHANGED <<opening, current, mem, logNumber, acked, writing, readers, error>>,
         \/ imm' = {} /\ UNION imm \subseteq DataIn(tables, Added(e))
         \/ imm' = imm /\ e.log = vset.log,
         pending' \subseteq pending,
         NEW kept, Collected(kept), NumbersOf(vset'.files) \subseteq kept,
         \A r \in Range(readers) : NumbersOf(r.files) \subseteq kept
  PROVE  /\ opening' = {} /\ current' \in DOMAIN manifests' /\ InOrder(OnDisk') /\ NumberInv'
         /\ LoadedInv' /\ CoverInv' /\ WritingInv' /\ ReadersInv' /\ FreshInv'
         /\ Version' = Version /\ Torn' = Torn /\ vset'.next = vset.next
         /\ NumbersOf(vset'.files) \subseteq NumbersOf(vset.files) \union Added(e)
         /\ ~error => Version'.files = vset'.files /\ Version'.log = vset'.log
<1>0. /\ CoverInv /\ WritingInv /\ ReadersInv /\ FreshInv /\ vset \in VsetType
  BY DEF StoreInv, Inv, Types, ProcessTypes
<1>1. /\ vset'.files = Apply(vset.files, e) /\ vset'.log = e.log /\ vset'.next = vset.next
      /\ vset'.seq = vset.seq /\ vset'.manifest = vset.manifest
      /\ vset.files \in Layout /\ vset.next \in Nat /\ e.log \in Nat
  BY <1>0, InstalledType DEF VsetType, EditType
<1>2. /\ current # 0 /\ current = vset.manifest /\ current \in DOMAIN manifests /\ current \in Nat
      /\ OnDisk # << >> /\ InOrder(OnDisk) /\ NumberInv /\ opening = {}
      /\ NumbersOf(Version.files) \subseteq DOMAIN tables
      /\ NumbersOf(vset.files) \subseteq DOMAIN tables
      /\ (\A n \in NumbersOf(vset.files) : n < vset.next) /\ Version.next <= vset.next
      /\ logNumber \in Nat /\ logNumber # 0 /\ logNumber \in DOMAIN logs /\ logNumber < vset.next
      /\ mem \subseteq WritesIn(logs[logNumber]) /\ DOMAIN logs \subseteq Nat
  BY RunningFacts DEF StoreInv, Types, DiskTypes, LogsType
<1>3. /\ Added(e) \subseteq DOMAIN tables /\ (~Torn => Added(e) \subseteq NumbersOf(Version.files))
      /\ e.next \in Nat /\ e.log < e.next /\ e.next <= vset.next
      /\ \A n \in Added(e) : n \in Nat /\ n < e.next
  BY DEF EditInv, EditType, Added, Numbers
<1>4. /\ NumbersOf(vset'.files) \subseteq NumbersOf(vset.files) \union Added(e)
      /\ Added(e) \subseteq NumbersOf(vset'.files)
  BY <1>1, ApplyNumbers
<1>5. /\ current \in DOMAIN manifests' /\ manifests'[current] = manifests[current]
  BY <1>1, <1>2 DEF Collected, Keep
<1>6. OnDisk' = OnDisk /\ Version' = Version /\ Torn' = Torn
  BY <1>2, <1>5 DEF OnDisk, EditsOf, Version, Torn
<1>7. ~error => Version.files = vset'.files /\ Version.log = vset'.log
  BY <1>1 DEF Matches
<1>8. /\ NumbersOf(vset'.files) \subseteq DOMAIN tables /\ NumbersOf(vset'.files) \subseteq kept
      /\ NumbersOf(vset'.files) \subseteq DOMAIN tables'
      /\ DataIn(tables', NumbersOf(vset'.files)) = DataIn(tables, NumbersOf(vset'.files))
  BY <1>2, <1>3, <1>4, KeptTables
<1>9. /\ NumbersOf(Version.files) \subseteq DOMAIN tables'
      /\ DataIn(tables', NumbersOf(Version.files)) = DataIn(tables, NumbersOf(Version.files))
  <2>1. CASE error
    BY <1>2, <2>1 DEF Collected
  <2>2. CASE ~error
    BY <1>7, <1>8, <2>2
  <2> QED  BY <2>1, <2>2
<1>10. /\ logNumber \in DOMAIN logs' /\ logs'[logNumber] = logs[logNumber]
       /\ LogsFrom(logs, vset'.log) \subseteq LogsFrom(logs', vset'.log)
       /\ LogsFrom(logs, Version.log) \subseteq LogsFrom(logs', Version.log)
  <2>1. CASE UNCHANGED <<logs, tables, manifests>>
    BY <1>2, <2>1
  <2>2. CASE logs' = Keep(logs, {n \in DOMAIN logs : n >= vset'.log}) /\ ~error
    <3>1. \A n \in DOMAIN logs : n >= vset'.log => n \in DOMAIN logs' /\ logs'[n] = logs[n]
      BY <2>2 DEF Keep
    <3>2. LogsFrom(logs, vset'.log) \subseteq LogsFrom(logs', vset'.log)
      BY <3>1, LogsFromGrows
    <3>3. logNumber \in DOMAIN logs' /\ logs'[logNumber] = logs[logNumber]
      <4>1. logNumber >= vset'.log
        BY <1>1, <1>2
      <4> QED  BY <1>2, <3>1, <4>1
    <3>4. Version.log = vset'.log
      BY <1>7, <2>2
    <3> QED  BY <3>2, <3>3, <3>4
  <2> QED  BY <2>1, <2>2 DEF Collected
<1>11. LoadedInv'
  <2>1. \A n \in NumbersOf(vset'.files) : n < vset.next
    BY <1>1, <1>2, <1>3, <1>4
  <2>2. vset'.log < vset.next
    BY <1>1, <1>3
  <2> QED  BY <1>1, <1>2, <1>6, <1>8, <1>9, <1>10, <2>1, <2>2 DEF LoadedInv
<1>12. CoverInv'
  <2>1. /\ DataIn(tables, NumbersOf(vset.files)) \subseteq DataIn(tables, NumbersOf(vset'.files))
        /\ DataIn(tables, Added(e)) \subseteq DataIn(tables, NumbersOf(vset'.files))
    BY <1>1, DataApplied
  <2>2. /\ acked \subseteq mem \union (UNION imm) \union DataIn(tables, NumbersOf(vset.files))
        /\ ~Torn => DataIn(tables, NumbersOf(vset.files))
                      \subseteq DataIn(tables, NumbersOf(Version.files))
        /\ Torn => error
        /\ UNION imm \subseteq LogsFrom(logs, vset.log)
        /\ UNION imm \subseteq DataIn(tables, NumbersOf(Version.files)) \union LogsFrom(logs, Version.log)
        /\ Version.log <= logNumber
    BY <1>0 DEF CoverInv
  <2>3. ASSUME ~Torn
        PROVE  DataIn(tables, NumbersOf(vset'.files)) \subseteq DataIn(tables, NumbersOf(Version.files))
    <3>1. DataIn(tables, NumbersOf(vset'.files))
            \subseteq DataIn(tables, NumbersOf(vset.files)) \union DataIn(tables, Added(e))
      BY <1>4 DEF DataIn
    <3>2. DataIn(tables, Added(e)) \subseteq DataIn(tables, NumbersOf(Version.files))
      BY <1>3, <2>3, DataGrows
    <3> QED  BY <2>2, <2>3, <3>1, <3>2
  <2>4. acked' \subseteq mem' \union (UNION imm') \union DataIn(tables', NumbersOf(vset'.files))
    BY <1>8, <2>1, <2>2
  <2>5. /\ UNION imm' \subseteq LogsFrom(logs', vset'.log)
        /\ UNION imm' \subseteq DataIn(tables', NumbersOf(Version'.files)) \union LogsFrom(logs', Version'.log)
    <3>1. CASE imm' = {}
      BY <3>1
    <3>2. CASE imm' = imm /\ e.log = vset.log
      BY <1>1, <1>6, <1>9, <1>10, <2>2, <3>2
    <3> QED  BY <3>1, <3>2
  <2>6. acked' \subseteq DataIn(tables', NumbersOf(Version'.files)) \union LogsFrom(logs', Version'.log)
    BY <1>6, <1>9, <1>10, AckedFound
  <2> QED  BY <1>1, <1>2, <1>6, <1>8, <1>9, <2>2, <2>3, <2>4, <2>5, <2>6 DEF CoverInv
<1>13. WritingInv'
  BY <1>0, <1>1, <1>10 DEF WritingInv
<1>14. ReadersInv'
  <2>1. \A r \in Range(readers) :
          /\ NumbersOf(r.files) \subseteq DOMAIN tables'
          /\ DataIn(tables', NumbersOf(r.files)) = DataIn(tables, NumbersOf(r.files))
    BY <1>0, KeptTables DEF ReadersInv
  <2> QED  BY <1>0, <1>1, <2>1 DEF ReadersInv
<1>15. FreshInv'
  BY <1>0, <1>1, KeptTables DEF FreshInv
<1>16. opening' = {} /\ current' \in DOMAIN manifests' /\ InOrder(OnDisk') /\ NumberInv'
  BY <1>2, <1>5, <1>6 DEF NumberInv
<1> QED  BY <1>1, <1>4, <1>6, <1>7, <1>11, <1>12, <1>13, <1>14, <1>15, <1>16

LEMMA InstallFlushKeeps ==
  ASSUME StoreInv, InstallFlush  PROVE  Inv'
<1>0. CompactionInv /\ FlushInv /\ ExactInv
  BY DEF StoreInv, Inv
<1>1. PICK f \in flush : \E edit \in f.edit :
        /\ f.step = "install" /\ vset' = Installed(edit) /\ imm' = {} /\ flush' = {}
        /\ DeleteObsoleteFiles(logs, manifests, vset', compaction, pending, error)
  BY DEF InstallFlush, EndOfFlush
<1>2. PICK e \in f.edit : vset' = Installed(e)
  BY <1>1
<1>3. UNCHANGED <<phase, current, opening, mem, logNumber, writing, acked, error, readers,
                  pending, compaction>>
  BY DEF InstallFlush, history
<1>4. /\ Running /\ Running'
      /\ (\A c \in compaction : c.step = "merge" /\ c.edit = {} /\ f.number \notin c.out)
  BY <1>3, FlushFacts DEF Running
<1>5. /\ e \in EditType /\ EditInv(e, "install")
      /\ e.del = {} /\ e.log = logNumber /\ Added(e) \subseteq {f.number}
      /\ UNION imm \subseteq DataIn(tables, Added(e))
      /\ DataIn(tables, e.del) \subseteq DataIn(tables, Added(e))
  BY <1>1, FlushEdit
<1>6. ~error => Matches(e)
  BY <1>0, <1>1, <1>4 DEF ExactInv
<1>7. e.log <= logNumber
  BY <1>4, <1>5, RunningFacts
<1>8. PICK kept : kept = pending \union LiveFiles(vset'.files, compaction)
  OBVIOUS
<1>9. Collected(kept)
  BY <1>1, <1>8 DEF DeleteObsoleteFiles, MayCollect, Collected
<1>10. /\ NumbersOf(vset'.files) \subseteq kept
       /\ \A r \in Range(readers) : NumbersOf(r.files) \subseteq kept
       /\ \A c \in compaction : NumbersOf(c.base) \subseteq kept /\ c.out \subseteq kept
  BY <1>0, <1>8 DEF LiveFiles, Pinned, CompactionInv
<1>11. /\ opening' = {} /\ current' \in DOMAIN manifests' /\ InOrder(OnDisk') /\ NumberInv'
       /\ LoadedInv' /\ CoverInv' /\ WritingInv' /\ ReadersInv' /\ FreshInv'
       /\ Version' = Version
       /\ NumbersOf(vset'.files) \subseteq NumbersOf(vset.files) \union Added(e)
       /\ ~error => Version'.files = vset'.files /\ Version'.log = vset'.log
  <2>1. imm' = {} /\ pending' \subseteq pending
    BY <1>1, <1>3
  <2> QED  BY <1>2, <1>3, <1>4, <1>5, <1>6, <1>7, <1>9, <1>10, <2>1, EditInstalled
<1>12. ExactInv' /\ FlushInv'
  <2>1. /\ flush' = {} /\ \A c \in compaction : c.step # "install"
    BY <1>1, <1>4
  <2> QED  BY <1>3, <1>11, <2>1 DEF ExactInv, FlushInv
<1>13. CompactionInv'
  <2>1. \A n : Unused(n) /\ n # f.number => Unused(n)'
    BY <1>3, <1>5, <1>11 DEF Unused
  <2>2. \A c \in compaction : NumbersOf(c.base) \subseteq DOMAIN tables' /\ c.out \subseteq DOMAIN tables'
    BY <1>0, <1>9, <1>10, KeptTables DEF CompactionInv
  <2> QED  BY <1>0, <1>3, <1>4, <2>1, <2>2 DEF CompactionInv
<1> QED  BY <1>4, <1>11, <1>12, <1>13, RunningStep

LEMMA InstallCompactionKeeps ==
  ASSUME StoreInv, InstallCompaction  PROVE  Inv'
<1>0. CompactionInv /\ FlushInv /\ ExactInv
  BY DEF StoreInv, Inv
<1>1. PICK c \in compaction : \E edit \in c.edit :
        /\ c.step = "install" /\ vset' = Installed(edit) /\ error' = error
        /\ EndOfCompaction(c, manifests, vset')
  BY DEF InstallCompaction
<1>2. PICK e \in c.edit : vset' = Installed(e)
  BY <1>1
<1>3. /\ UNCHANGED <<phase, current, opening, mem, imm, logNumber, writing, acked, error, readers,
                     flush>>
      /\ pending' \subseteq pending /\ compaction' = {}
      /\ \/ UNCHANGED <<logs, tables, manifests>>
         \/ DeleteObsoleteFiles(logs, manifests, vset', {}, pending', error)
  BY <1>1 DEF EndOfCompaction, memory, history
<1>4. Running /\ Running' /\ flush = {} /\ e \in EditType /\ EditInv(e, "install")
      /\ e.log = vset.log /\ DataIn(tables, e.del) \subseteq DataIn(tables, Added(e))
  BY <1>1, <1>3, CompactionFacts DEF Running
<1>5. e.log <= logNumber
  BY <1>4, RunningFacts
<1>6. ~error => Matches(e)
  BY <1>0, <1>1, <1>4 DEF ExactInv
<1>7. PICK kept : kept = pending' \union LiveFiles(vset'.files, {})
  OBVIOUS
<1>8. Collected(kept)
  BY <1>3, <1>7 DEF DeleteObsoleteFiles, MayCollect, Collected
<1>9. /\ NumbersOf(vset'.files) \subseteq kept
      /\ \A r \in Range(readers) : NumbersOf(r.files) \subseteq kept
  BY <1>7 DEF LiveFiles, Pinned
<1>10. /\ opening' = {} /\ current' \in DOMAIN manifests' /\ InOrder(OnDisk') /\ NumberInv'
       /\ LoadedInv' /\ CoverInv' /\ WritingInv' /\ ReadersInv' /\ FreshInv'
       /\ ~error => Version'.files = vset'.files /\ Version'.log = vset'.log
  BY <1>2, <1>3, <1>4, <1>5, <1>6, <1>8, <1>9, EditInstalled
<1>11. ExactInv' /\ FlushInv' /\ CompactionInv'
  BY <1>3, <1>4, <1>10 DEF ExactInv, FlushInv, CompactionInv
<1> QED  BY <1>4, <1>10, <1>11, RunningStep

-----------------------------------------------------------------------------
(* DB::Open. *)

\* While the database is being opened, there are no threads and no readers.
LEMMA OpeningStep ==
  ASSUME StoreInv, ~Running, phase' \in {"opening", "broken"},
         UNCHANGED <<writing, imm, pending, error, flush, compaction, readers>>,
         phase' = "broken" => opening' = {} /\ mem' = {} /\ logNumber' = 0,
         DiskInv', LoadedInv', OpeningInv'
  PROVE  Inv'
<1>1. /\ writing' = {} /\ imm' = {} /\ flush' = {} /\ compaction' = {}
      /\ readers' = << >> /\ pending' = {} /\ ~error'
  BY DEF StoreInv, Inv, PhaseInv
<1>2. Range(readers') = {} /\ ~Running'
  BY <1>1 DEF Range, Running
<1>3. PhaseInv'
  BY <1>1, <1>2 DEF PhaseInv
<1> QED
  BY <1>1, <1>2, <1>3 DEF Inv, CoverInv, ExactInv, FreshInv, WritingInv, FlushInv, CompactionInv,
     ReadersInv

LEMMA RecoverVersionsKeeps ==
  ASSUME StoreInv, RecoverVersions  PROVE  Inv'
<1>0. /\ DiskInv /\ PhaseInv /\ DiskTypes /\ phase = "down" /\ current # 0 /\ ~Running
      /\ mem = {} /\ logNumber = 0 /\ opening = {}
  BY DEF StoreInv, Inv, Types, RecoverVersions, Running, PhaseInv
<1>1. UNCHANGED <<logs, tables, manifests, current, writing, mem, imm, logNumber, acked, pending,
                  error, flush, compaction, readers>>
  BY DEF RecoverVersions, disk, memory, control, history
<1>2. OnDisk' = OnDisk /\ Version' = Version
  BY <1>1 DEF OnDisk, EditsOf, Version
<1>3. Recovered(logs, OnDisk)' = Recovered(logs, OnDisk)
  BY <1>1, <1>2 DEF Recovered
<1>4. /\ current # 0 => current \in DOMAIN manifests
      /\ InOrder(OnDisk) /\ NumberInv /\ acked \subseteq Recovered(logs, OnDisk)
  BY <1>0 DEF DiskInv
<1>5. DiskInv'
  BY <1>1, <1>2, <1>3, <1>4 DEF DiskInv, InOrder, NumberInv
<1>6. CASE phase' = "broken"
  <2>1. opening' = {} /\ ~Loaded'
    BY <1>0, <1>6 DEF RecoverVersions, Loaded, Running
  <2>2. LoadedInv' /\ OpeningInv'
    BY <2>1 DEF LoadedInv, OpeningInv
  <2> QED  BY <1>0, <1>1, <1>5, <1>6, <2>1, <2>2, OpeningStep
<1>7. CASE phase' # "broken"
  <2>1. /\ phase' = "opening" /\ OnDisk # << >>
        /\ NumbersOf(Version.files) \subseteq DOMAIN tables
        /\ vset' = [files |-> Version.files, log |-> Version.log, seq |-> Version.seq,
                    next |-> Version.next + 1, manifest |-> Version.next]
        /\ opening' = {[step |-> "logs", add |-> {},
                        left |-> {n \in DOMAIN logs : n >= Version.log}]}
    BY <1>7 DEF RecoverVersions, OnDisk, Version
  <2>2. /\ vset'.files = Version.files /\ vset'.log = Version.log
        /\ vset'.next = Version.next + 1 /\ vset'.manifest = Version.next
    BY <2>1
  <2>3. /\ Version.log \in Nat /\ Version.next \in Nat /\ Version.log < Version.next
        /\ (\A n \in NumbersOf(Version.files) : n < Version.next) /\ Version.files \in Layout
    BY <2>1, OnDiskFacts
  <2>4. LoadedInv'
    <3>1. vset'.manifest # 0
      BY <2>2, <2>3
    <3>2. \A n \in NumbersOf(Version.files) : n \in Nat
      BY <2>3 DEF NumbersOf, Layout, Numbers
    <3>3. /\ \A n \in NumbersOf(vset'.files) : n < vset'.next
          /\ Version.next <= vset'.next /\ vset'.log < vset'.next
      BY <2>2, <2>3, <3>2
    <3> QED  BY <1>0, <1>1, <1>2, <2>1, <2>2, <3>1, <3>3 DEF LoadedInv
  <2>5. OpeningInv'
    <3>1. PICK o \in opening' :
            /\ opening' = {o} /\ o.step = "logs" /\ o.add = {}
            /\ o.left = {n \in DOMAIN logs : n >= Version.log}
      BY <2>1
    <3>2. acked \subseteq DataIn(tables, NumbersOf(Version.files)) \union UNION {WritesIn(logs[n]) : n \in o.left}
      BY <1>4, <2>1, <3>1, RecoveredIs DEF LogsFrom
    <3>3. current < vset'.manifest /\ vset'.manifest < vset'.next
      <4>1. /\ OnDisk \in Seq(EditType) /\ Len(OnDisk) \in Nat \ {0}
            /\ DOMAIN OnDisk = 1 .. Len(OnDisk)
        BY <2>1, OnDiskFacts, LenProperties, EmptySeq
      <4>2. OnDisk[1] \in EditType /\ OnDisk[1].next <= OnDisk[Len(OnDisk)].next
        BY <1>4, <4>1, ElementOfSeq DEF InOrder
      <4>3. Version.next = OnDisk[Len(OnDisk)].next /\ current < OnDisk[1].next
        BY <1>4, <2>1 DEF Version, Replay, Last, NumberInv
      <4>4. current \in Nat /\ OnDisk[1].next \in Nat
        BY <1>0, <4>2 DEF DiskTypes, EditType
      <4> QED  BY <2>2, <2>3, <4>2, <4>3, <4>4
    <3>4. DataIn(tables, o.add) = {}
      BY <3>1 DEF DataIn
    <3> QED  BY <1>0, <1>1, <1>2, <2>2, <3>1, <3>2, <3>3, <3>4 DEF OpeningInv
  <2> QED  BY <1>0, <1>1, <1>5, <2>1, <2>4, <2>5, OpeningStep
<1> QED  BY <1>6, <1>7

\* The database that is being opened.
LEMMA OpeningFacts ==
  ASSUME StoreInv, NEW o \in opening
  PROVE  /\ phase = "opening" /\ ~Running /\ Loaded /\ opening = {o} /\ o \in OpeningType
         /\ vset \in VsetType /\ LogsType(logs) /\ TablesType(tables)
         /\ ManifestsType(manifests) /\ logNumber \in Nat
         /\ current # 0 /\ current \in DOMAIN manifests /\ vset.manifest # 0
         /\ OnDisk # << >> /\ OnDisk \in Seq(EditType) /\ InOrder(OnDisk)
         /\ Version.files \in Layout /\ Version.log \in Nat /\ Version.next \in Nat
         /\ NumbersOf(Version.files) \subseteq DOMAIN tables
         /\ NumbersOf(vset.files) \subseteq DOMAIN tables
         /\ (\A n \in NumbersOf(vset.files) : n < vset.next)
         /\ Version.next <= vset.next /\ vset.log < vset.next
         /\ mem = {} /\ NumberInv
         /\ (logNumber # 0 =>
               /\ logNumber \in DOMAIN logs /\ vset.log <= logNumber /\ logNumber < vset.next)
         /\ writing = {} /\ imm = {} /\ flush = {} /\ compaction = {}
         /\ readers = << >> /\ pending = {} /\ ~error
         /\ acked \subseteq DataIn(tables, NumbersOf(Version.files))
                              \union LogsFrom(logs, Version.log)
<1>1. DiskInv /\ LoadedInv /\ PhaseInv /\ OpeningInv /\ DiskTypes /\ ProcessTypes
  BY DEF StoreInv, Types, Inv
<1>2. /\ phase = "opening" /\ ~Running /\ Loaded
      /\ writing = {} /\ imm = {} /\ flush = {} /\ compaction = {}
      /\ readers = << >> /\ pending = {} /\ ~error
  BY <1>1 DEF PhaseInv, Running, Loaded, ProcessTypes
<1>3. /\ opening = {o} /\ o \in OpeningType
      /\ vset \in VsetType /\ LogsType(logs) /\ TablesType(tables)
      /\ ManifestsType(manifests) /\ logNumber \in Nat
  BY <1>1 DEF DiskTypes, ProcessTypes, AtMostOne
<1>4. /\ current # 0 /\ vset.manifest # 0 /\ OnDisk # << >>
      /\ NumbersOf(Version.files) \subseteq DOMAIN tables
      /\ NumbersOf(vset.files) \subseteq DOMAIN tables
      /\ (\A n \in NumbersOf(vset.files) : n < vset.next)
      /\ Version.next <= vset.next /\ vset.log < vset.next
      /\ (logNumber # 0 =>
            /\ logNumber \in DOMAIN logs /\ vset.log <= logNumber /\ logNumber < vset.next)
  BY <1>1, <1>2 DEF LoadedInv
<1>5. /\ current \in DOMAIN manifests /\ acked \subseteq Recovered(logs, OnDisk)
      /\ mem = {} /\ NumberInv
  BY <1>1, <1>2, <1>4 DEF DiskInv, OpeningInv
<1> QED  BY <1>2, <1>3, <1>4, <1>5, OnDiskFacts, RecoveredIs

\* The memtables of a log come one after the other.
LEMMA MemtablesInOrder ==
  ASSUME NEW records \in Seq(Numbers), NEW into \in Refill(records), records # << >>
  PROVE  Last(into) \in Nat /\ \A i \in DOMAIN records : into[i] \in 0 .. Last(into)
<1> DEFINE filled == Filled(records, into)
           Before(i) == {j \in filled : j < i}
<1>1. /\ Len(records) \in Nat \ {0} /\ DOMAIN records = 1 .. Len(records)
  BY EmptySeq, LenProperties
<1>2. into \in [1 .. Len(records) -> 0 .. Len(records)]
  BY <1>1 DEF Refill
<1>3. Last(into) = into[Len(records)]
  <2>1. into \in Seq(Nat) /\ Len(into) = Len(records)
    BY <1>1, <1>2
  <2> QED  BY <2>1 DEF Last
<1>4. \A i \in DOMAIN records : into[i] = Cardinality(Before(i))
  BY DEF Refill
<1>5. IsFiniteSet(filled)
  <2>1. filled \subseteq 1 .. Len(records)
    BY <1>1 DEF Filled
  <2>2. IsFiniteSet(1 .. Len(records))
    BY <1>1, FS_Interval
  <2> QED  BY <2>1, <2>2, FS_Subset
<1>6. ASSUME NEW i \in DOMAIN records
      PROVE  into[i] \in 0 .. into[Len(records)]
  <2>1. IsFiniteSet(Before(Len(records)))
    <3>1. Before(Len(records)) \subseteq filled
      OBVIOUS
    <3> QED  BY <1>5, <3>1, FS_Subset
  <2>2. Before(i) \subseteq Before(Len(records))
    <3>1. filled \subseteq 1 .. Len(records)
      BY <1>1 DEF Filled
    <3> QED  BY <1>1, <1>6, <3>1
  <2> HIDE DEF Before
  <2>3. Cardinality(Before(i)) <= Cardinality(Before(Len(records)))
    BY <2>1, <2>2, FS_Subset
  <2>4. into[i] = Cardinality(Before(i)) /\ into[Len(records)] = Cardinality(Before(Len(records)))
    BY <1>1, <1>4
  <2>5. into[i] \in Nat /\ into[Len(records)] \in Nat
    BY <1>1, <1>2
  <2> QED  BY <2>3, <2>4, <2>5
<1>7. into[Len(records)] \in Nat
  BY <1>1, <1>2
<1> QED  BY <1>3, <1>6, <1>7

\* What has been read of a log is in new tables; other tables stay.
NewTables(records, into) == vset.next .. vset.next + Made(records, into) - 1

LEMMA LogReplayed ==
  ASSUME StoreInv, NEW o, NEW n, NEW records, NEW into, ReadsLog(o, n, records, into)
  PROVE  /\ DOMAIN tables' = DOMAIN tables \union NewTables(records, into)
         /\ \A m \in DOMAIN tables : m < vset.next => tables'[m] = tables[m]
         /\ \A m \in NewTables(records, into) : vset.next <= m /\ m < vset'.next
         /\ UNION Range(records) \subseteq DataIn(tables', NewTables(records, into))
<1>0. PICK names : names = vset.next .. vset.next + Made(records, into) - 1
  OBVIOUS
<1>1. /\ o \in opening /\ records \in Seq(Numbers) /\ into \in Refill(records)
      /\ RecoverLog(o, n, records, into)
  BY DEF ReadsLog
<1>2. /\ vset \in VsetType /\ TablesType(tables) /\ vset.next \in Nat
      /\ Made(records, into) \in Nat
      /\ vset'.next \in Nat /\ vset.next + Made(records, into) <= vset'.next
  <2>1. vset \in VsetType /\ TablesType(tables)
    BY <1>1, OpeningFacts
  <2> QED  BY <2>1, RecoveredLogType DEF VsetType
<1>3. tables' = [m \in DOMAIN tables \union names |->
                   IF m \in names
                   THEN UNION {records[i] : i \in {j \in DOMAIN records :
                                                  into[j] = m - vset.next}}
                   ELSE tables[m]]
  BY <1>0, <1>1 DEF RecoverLog
<1>4. \A m \in names : vset.next <= m /\ m < vset'.next
  BY <1>0, <1>2
<1>5. \A m \in DOMAIN tables : m < vset.next => tables'[m] = tables[m]
  <2>1. \A m \in DOMAIN tables : m \in Nat
    BY <1>2 DEF TablesType
  <2> QED  BY <1>2, <1>3, <1>4, <2>1
<1>6. UNION Range(records) \subseteq DataIn(tables', names)
  <2>1. CASE records = << >>
    BY <2>1, EmptySeq DEF Range
  <2>2. CASE records # << >>
    <3>1. Made(records, into) = Last(into) + 1
      BY <2>2 DEF Made
    <3>2. Last(into) \in Nat /\ \A i \in DOMAIN records : into[i] \in 0 .. Last(into)
      BY <1>1, <2>2, MemtablesInOrder
    <3>3. ASSUME NEW i \in DOMAIN records
          PROVE  records[i] \subseteq DataIn(tables', names)
      <4> DEFINE m == vset.next + into[i]
      <4>1. m \in names /\ into[i] = m - vset.next
        BY <1>0, <1>2, <3>1, <3>2, <3>3
      <4> HIDE DEF m
      <4>2. records[i] \subseteq tables'[m]
        BY <1>3, <3>3, <4>1
      <4> QED  BY <4>1, <4>2 DEF DataIn
    <3> QED  BY <3>3 DEF Range
  <2> QED  BY <2>1, <2>2
<1> QED  BY <1>0, <1>3, <1>4, <1>5, <1>6 DEF NewTables

LEMMA ReadsALogKeeps ==
  ASSUME StoreInv, ReadsALog  PROVE  Inv'
<1>0. DiskInv /\ OpeningInv /\ LoadedInv
  BY DEF StoreInv, Inv
<1>1. PICK o, n, records, into : ReadsLog(o, n, records, into)
  BY SomeLogIsRead
<1>2. PICK gone :
        /\ acked' = acked \ gone
        /\ WritesIn(logs[n]) \subseteq gone \union UNION Range(records)
  BY <1>1 DEF ReadsLog, Forget
<1>3. /\ UNCHANGED <<logs, manifests, current, phase, writing, mem, imm, logNumber, pending,
                     error, flush, compaction, readers>>
      /\ o \in opening /\ o.step = "logs" /\ n \in o.left
      /\ RecoverLog(o, n, records, into)
  BY <1>1 DEF ReadsLog, memory, control
<1>4. PICK names : names = NewTables(records, into)
  OBVIOUS
<1>5. /\ DOMAIN tables' = DOMAIN tables \union names
      /\ \A m \in DOMAIN tables : m < vset.next => tables'[m] = tables[m]
      /\ \A m \in names : vset.next <= m /\ m < vset'.next
      /\ UNION Range(records) \subseteq DataIn(tables', names)
  BY <1>1, <1>4, LogReplayed
<1>6. /\ n \in Nat \ {0} /\ n \in DOMAIN logs
      /\ vset'.next \in Nat /\ vset.next \in Nat /\ vset.next <= vset'.next /\ n < vset'.next
      /\ vset'.files = vset.files /\ vset'.log = vset.log /\ vset'.manifest = vset.manifest
      /\ vset.manifest \in Nat
  <2>1. vset \in VsetType
    BY <1>3, OpeningFacts
  <2> QED  BY <1>1, <2>1, RecoveredLogType DEF VsetType
<1>7. /\ phase = "opening" /\ ~Running /\ Loaded /\ o \in OpeningType
      /\ current # 0 /\ vset.manifest # 0 /\ OnDisk # << >>
      /\ NumbersOf(vset.files) \subseteq DOMAIN tables /\ LogsType(logs)
      /\ (\A m \in NumbersOf(vset.files) : m < vset.next /\ m \in Nat)
      /\ Version.next \in Nat /\ Version.next <= vset.next
      /\ vset.log < vset.next /\ vset.log \in Nat
      /\ acked \subseteq DataIn(tables, NumbersOf(Version.files))
                           \union LogsFrom(logs, Version.log)
  BY <1>3, OpeningFacts DEF VsetType, Layout, Numbers, NumbersOf
<1>8. /\ (\A m \in o.left : m \in DOMAIN logs /\ m >= vset.log)
      /\ (\A m \in DOMAIN logs : m >= vset.log /\ m \notin o.left => m < vset.next)
      /\ logNumber = 0 /\ mem = {}
      /\ o.add \subseteq DOMAIN tables /\ (\A m \in o.add : m < vset.next /\ m \in Nat)
      /\ acked \subseteq DataIn(tables, NumbersOf(vset.files)) \union DataIn(tables, o.add)
                           \union UNION {WritesIn(logs[m]) : m \in o.left}
      /\ vset.manifest < vset.next /\ current < vset.manifest
      /\ Version.files = vset.files /\ Version.log = vset.log
  BY <1>0, <1>3, <1>7 DEF OpeningInv, OpeningType, Numbers
<1>9. OnDisk' = OnDisk /\ Version' = Version
  BY <1>3 DEF OnDisk, EditsOf, Version
<1>10. \A ms : ms \subseteq DOMAIN tables /\ (\A m \in ms : m < vset.next) =>
                 ms \subseteq DOMAIN tables' /\ DataIn(tables', ms) = DataIn(tables, ms)
  BY <1>5, DataSame
<1>11. /\ NumbersOf(vset.files) \subseteq DOMAIN tables'
       /\ DataIn(tables', NumbersOf(vset.files)) = DataIn(tables, NumbersOf(vset.files))
       /\ o.add \subseteq DOMAIN tables' /\ DataIn(tables', o.add) = DataIn(tables, o.add)
  BY <1>7, <1>8, <1>10
<1>12. PICK d : d = [o EXCEPT !.left = @ \ {n}, !.add = @ \union names]
  OBVIOUS
<1>13. /\ opening' = {d} /\ d.step = "logs" /\ d.left = o.left \ {n}
       /\ d.add = o.add \union names
  <2>1. opening' = {d}
    BY <1>3, <1>4, <1>12 DEF RecoverLog, NewTables
  <2> QED  BY <1>3, <1>7, <1>12, <2>1 DEF OpeningType
<1>14. LoadedInv'
  <2>1. /\ \A m \in NumbersOf(vset'.files) : m < vset'.next
        /\ Version.next <= vset'.next /\ vset.log < vset'.next
    BY <1>6, <1>7
  <2> QED  BY <1>3, <1>6, <1>7, <1>8, <1>9, <1>11, <2>1 DEF LoadedInv
<1>15. DiskInv'
  <2>1. Recovered(logs, OnDisk)'
          = DataIn(tables', NumbersOf(Version.files)) \union LogsFrom(logs, Version.log)
    BY <1>3, <1>7, <1>8, <1>9, <1>11 DEF Recovered, Version, DataIn, LogsFrom
  <2>2. acked' \subseteq Recovered(logs, OnDisk)'
    BY <1>2, <1>7, <1>8, <1>11, <2>1
  <2>3. current' # 0 => current' \in DOMAIN manifests'
    BY <1>0, <1>3 DEF DiskInv
  <2>4. InOrder(OnDisk') /\ NumberInv'
    BY <1>0, <1>3, <1>9 DEF DiskInv, NumberInv
  <2> QED  BY <2>2, <2>3, <2>4 DEF DiskInv, InOrder
<1>16. OpeningInv'
  <2>1. /\ \A m \in d.left : m \in DOMAIN logs /\ m >= vset.log
        /\ \A m \in DOMAIN logs : m >= vset.log /\ m \notin d.left => m < vset'.next
    <3>1. DOMAIN logs \subseteq Nat
      BY <1>7 DEF LogsType
    <3> QED  BY <1>6, <1>8, <1>13, <3>1
  <2>2. d.add \subseteq DOMAIN tables' /\ \A m \in d.add : m < vset'.next
    BY <1>5, <1>6, <1>8, <1>11, <1>13
  <2>3. acked' \subseteq DataIn(tables', NumbersOf(vset.files)) \union DataIn(tables', d.add)
                          \union UNION {WritesIn(logs[m]) : m \in d.left}
    <3>1. DataIn(tables', d.add) = DataIn(tables', o.add) \union DataIn(tables', names)
      BY <1>13, DataUnion
    <3>2. UNION {WritesIn(logs[m]) : m \in o.left}
            \subseteq WritesIn(logs[n]) \union UNION {WritesIn(logs[m]) : m \in d.left}
      BY <1>13
    <3> QED  BY <1>2, <1>5, <1>8, <1>11, <3>1, <3>2
  <2>4. /\ opening' = {d} /\ d.step = "logs"
        /\ UNCHANGED <<logs, current, mem, logNumber>>
        /\ vset'.files = vset.files /\ vset'.log = vset.log /\ vset'.manifest = vset.manifest
        /\ Version'.files = vset'.files /\ Version'.log = vset'.log
        /\ vset.manifest < vset'.next
    BY <1>3, <1>6, <1>8, <1>9, <1>13
  <2> QED
    BY <1>8, <2>1, <2>2, <2>3, <2>4 DEF OpeningInv
<1> QED  BY <1>3, <1>7, <1>14, <1>15, <1>16, OpeningStep

\* What has been recovered when no log is left to recover.
LEMMA OpeningState ==
  ASSUME StoreInv, NEW o \in opening
  PROVE  /\ (\A m \in o.left : m \in DOMAIN logs /\ m >= vset.log)
         /\ (\A m \in DOMAIN logs : m >= vset.log /\ m \notin o.left => m < vset.next)
         /\ (o.left # {} => o.step = "logs")
         /\ (o.step = "logs" <=> logNumber = 0) /\ mem = {}
         /\ o.add \subseteq DOMAIN tables /\ (\A m \in o.add : m < vset.next)
         /\ (o.left = {} =>
               acked \subseteq DataIn(tables, NumbersOf(vset.files)) \union DataIn(tables, o.add))
         /\ vset.manifest < vset.next /\ (o.step # "done" => current < vset.manifest)
         /\ (o.step # "current" => Version.files = vset.files /\ Version.log = vset.log)
<1>1. OpeningInv
  BY DEF StoreInv, Inv
<1>2. o.left = {} => UNION {WritesIn(logs[m]) : m \in o.left} = {}
  OBVIOUS
<1>3. acked \subseteq DataIn(tables, NumbersOf(vset.files)) \union DataIn(tables, o.add)
                        \union UNION {WritesIn(logs[n]) : n \in o.left}
  BY <1>1 DEF OpeningInv
<1>4. o.left = {} =>
        acked \subseteq DataIn(tables, NumbersOf(vset.files)) \union DataIn(tables, o.add)
  BY <1>2, <1>3
<1> QED  BY <1>1, <1>4 DEF OpeningInv

LEMMA OpenLogKeeps ==
  ASSUME StoreInv, OpenLog  PROVE  Inv'
<1>0. DiskInv
  BY DEF StoreInv, Inv
<1>1. PICK o \in opening :
        /\ o.step = "logs" /\ o.left = {}
        /\ opening' = {[o EXCEPT !.step = "manifest"]}
        /\ logNumber' = vset.next
        /\ logs' = With(logs, vset.next, File(<< >>, 0))
        /\ vset' = [vset EXCEPT !.next = @ + 1]
  BY DEF OpenLog
<1>2. UNCHANGED <<tables, manifests, current, phase, writing, mem, imm, acked, pending, error,
                  flush, compaction, readers>>
  BY DEF OpenLog, control, history
<1>3. /\ phase = "opening" /\ ~Running /\ Loaded /\ o \in OpeningType
      /\ current # 0 /\ vset.manifest # 0 /\ OnDisk # << >>
      /\ NumbersOf(Version.files) \subseteq DOMAIN tables
      /\ NumbersOf(vset.files) \subseteq DOMAIN tables
      /\ (\A m \in NumbersOf(vset.files) : m < vset.next /\ m \in Nat)
      /\ LogsType(logs) /\ DOMAIN logs \subseteq Nat /\ vset \in VsetType
      /\ Version.next \in Nat /\ Version.next <= vset.next
      /\ vset.log < vset.next /\ vset.log \in Nat /\ vset.next \in Nat /\ vset.manifest \in Nat
      /\ acked \subseteq DataIn(tables, NumbersOf(Version.files))
                           \union LogsFrom(logs, Version.log)
  BY OpeningFacts DEF VsetType, Layout, Numbers, NumbersOf, LogsType
<1>4. /\ (\A m \in DOMAIN logs : m >= vset.log => m < vset.next) /\ mem = {}
      /\ o.add \subseteq DOMAIN tables /\ (\A m \in o.add : m < vset.next /\ m \in Nat)
      /\ acked \subseteq DataIn(tables, NumbersOf(vset.files)) \union DataIn(tables, o.add)
      /\ vset.manifest < vset.next /\ current < vset.manifest
      /\ Version.files = vset.files /\ Version.log = vset.log
  BY <1>1, <1>3, OpeningState DEF OpeningType, Numbers
<1>5. OnDisk' = OnDisk /\ Version' = Version
  BY <1>2 DEF OnDisk, EditsOf, Version
<1>6. /\ vset'.files = vset.files /\ vset'.log = vset.log /\ vset'.manifest = vset.manifest
      /\ vset'.next = vset.next + 1
      /\ (\A m \in DOMAIN logs : m \in DOMAIN logs' /\ logs'[m] = logs[m])
      /\ (\A m \in DOMAIN logs' : m >= vset.log => m < vset'.next)
      /\ logNumber' # 0 /\ logNumber' \in DOMAIN logs' /\ vset.log <= logNumber'
      /\ logNumber' < vset'.next
  <2>1. /\ vset'.files = vset.files /\ vset'.log = vset.log /\ vset'.manifest = vset.manifest
        /\ vset'.next = vset.next + 1
    BY <1>1, <1>3, NextNumber
  <2>2. vset.next \notin DOMAIN logs
    BY <1>3, <1>4
  <2>3. /\ DOMAIN logs' = DOMAIN logs \union {vset.next}
        /\ \A m \in DOMAIN logs : logs'[m] = logs[m]
    BY <1>1, <2>2 DEF With
  <2> QED  BY <1>1, <1>3, <1>4, <2>1, <2>3
<1>7. PICK d : d = [o EXCEPT !.step = "manifest"]
  OBVIOUS
<1>8. opening' = {d} /\ d.left = {} /\ d.add = o.add /\ d.step = "manifest"
  BY <1>1, <1>3, <1>7 DEF OpeningType
<1>9. LoadedInv'
  <2>1. /\ \A m \in NumbersOf(vset'.files) : m < vset'.next
        /\ Version.next <= vset'.next /\ vset.log < vset'.next
    BY <1>3, <1>6
  <2>2. mem' \subseteq WritesIn(logs'[logNumber'])
    BY <1>2, <1>4
  <2> QED  BY <1>2, <1>3, <1>5, <1>6, <2>1, <2>2 DEF LoadedInv
<1>10. DiskInv'
  <2>1. LogsFrom(logs, Version.log) \subseteq LogsFrom(logs', Version.log)
    BY <1>6, LogsFromGrows
  <2>2. Recovered(logs, OnDisk)'
          = DataIn(tables, NumbersOf(Version.files)) \union LogsFrom(logs', Version.log)
    BY <1>2, <1>3, <1>5 DEF Recovered, Version, DataIn, LogsFrom
  <2>3. acked' \subseteq Recovered(logs, OnDisk)'
    BY <1>2, <1>3, <2>1, <2>2
  <2>4. (current' # 0 => current' \in DOMAIN manifests') /\ InOrder(OnDisk') /\ NumberInv'
    BY <1>0, <1>2, <1>5 DEF DiskInv, NumberInv
  <2> QED  BY <2>3, <2>4 DEF DiskInv, InOrder
<1>11. OpeningInv'
  <2>1. (\A m \in d.add : m < vset'.next) /\ vset.manifest < vset'.next
    BY <1>3, <1>4, <1>6, <1>8
  <2>2. /\ UNCHANGED <<tables, acked, current, mem>>
        /\ vset'.files = vset.files /\ vset'.log = vset.log /\ vset'.manifest = vset.manifest
        /\ Version'.files = vset'.files /\ Version'.log = vset'.log
        /\ logNumber' # 0
    BY <1>2, <1>4, <1>5, <1>6
  <2>3. \A m \in DOMAIN logs' : m >= vset.log => m < vset'.next
    BY <1>6
  <2>4. acked' \subseteq DataIn(tables', NumbersOf(vset'.files)) \union DataIn(tables', d.add)
                           \union UNION {WritesIn(logs'[m]) : m \in d.left}
    BY <1>4, <1>8, <2>2
  <2> QED  BY <1>4, <1>8, <2>1, <2>2, <2>3, <2>4 DEF OpeningInv
<1> QED  BY <1>2, <1>3, <1>9, <1>10, <1>11, OpeningStep

\* The edit with which a recovery ends.
LEMMA RecoveryApplied ==
  ASSUME StoreInv, NEW o \in opening, o.step # "logs", NEW e, e = RecoveryEdit(o)
  PROVE  /\ e \in EditType /\ e.del = {} /\ e.log = logNumber /\ e.next = vset.next
         /\ Added(e) = o.add /\ e.log < e.next /\ (\A m \in Added(e) : m < e.next)
         /\ o.left = {} /\ logNumber # 0
         /\ Apply(vset.files, e) \in Layout
         /\ NumbersOf(Apply(vset.files, e)) \subseteq DOMAIN tables
         /\ (\A m \in NumbersOf(Apply(vset.files, e)) : m < vset.next)
         /\ DataIn(tables, o.add) \subseteq DataIn(tables, NumbersOf(Apply(vset.files, e)))
         /\ DataIn(tables, NumbersOf(vset.files))
              \subseteq DataIn(tables, NumbersOf(Apply(vset.files, e)))
         /\ acked \subseteq DataIn(tables, NumbersOf(Apply(vset.files, e)))
<1>1. /\ o \in OpeningType /\ vset \in VsetType /\ logNumber \in Nat
      /\ NumbersOf(vset.files) \subseteq DOMAIN tables
      /\ (\A n \in NumbersOf(vset.files) : n < vset.next)
      /\ logNumber # 0 /\ logNumber \in DOMAIN logs /\ logNumber < vset.next
  BY OpeningFacts, OpeningState
<1>2. /\ o.left = {} /\ o.add \subseteq DOMAIN tables /\ (\A m \in o.add : m < vset.next)
      /\ acked \subseteq DataIn(tables, NumbersOf(vset.files)) \union DataIn(tables, o.add)
  BY OpeningState
<1>3. /\ e = [add0 |-> o.add, addDeep |-> {}, del |-> {},
              log |-> logNumber, next |-> vset.next, seq |-> vset.seq]
      /\ e \in EditType
  BY <1>1, SnapshotType
<1>4. /\ e.del = {} /\ e.log = logNumber /\ e.next = vset.next /\ Added(e) = o.add
  BY <1>3 DEF Added
<1>5. vset.files \in Layout
  BY <1>1 DEF VsetType
<1>6. /\ Apply(vset.files, e) \in Layout
      /\ NumbersOf(Apply(vset.files, e)) \subseteq NumbersOf(vset.files) \union o.add
  BY <1>3, <1>4, <1>5, ApplyNumbers
<1>7. /\ DataIn(tables, NumbersOf(vset.files))
           \subseteq DataIn(tables, NumbersOf(Apply(vset.files, e)))
      /\ DataIn(tables, o.add) \subseteq DataIn(tables, NumbersOf(Apply(vset.files, e)))
  <2>1. DataIn(tables, e.del) \subseteq DataIn(tables, Added(e))
    BY <1>4 DEF DataIn
  <2> QED  BY <1>3, <1>4, <1>5, <2>1, DataApplied
<1> QED  BY <1>1, <1>2, <1>3, <1>4, <1>6, <1>7

LEMMA SaveManifestKeeps ==
  ASSUME StoreInv, SaveManifest  PROVE  Inv'
<1>0. DiskInv /\ LoadedInv
  BY DEF StoreInv, Inv
<1>1. PICK o \in opening :
        /\ o.step = "manifest"
        /\ manifests' = With(manifests, vset.manifest, WriteSnapshot(RecoveryEdit(o)))
        /\ opening' = {[o EXCEPT !.step = "current"]}
  BY DEF SaveManifest
<1>2. UNCHANGED <<logs, tables, current, phase, writing, mem, imm, logNumber, vset, acked,
                  pending, error, flush, compaction, readers>>
  BY DEF SaveManifest, memory, control, history
<1>3. PICK e : e = RecoveryEdit(o)
  OBVIOUS
<1>4. o.left = {} /\ logNumber # 0
  BY <1>1, <1>3, RecoveryApplied
<1>5. /\ phase = "opening" /\ ~Running /\ Loaded /\ o \in OpeningType
      /\ current # 0 /\ current \in DOMAIN manifests /\ vset.manifest # 0 /\ OnDisk # << >>
      /\ NumbersOf(Version.files) \subseteq DOMAIN tables
      /\ vset \in VsetType /\ current \in Nat
  BY OpeningFacts DEF StoreInv, Types, DiskTypes
<1>6. /\ (\A m \in DOMAIN logs : m >= vset.log => m < vset.next) /\ mem = {}
      /\ o.add \subseteq DOMAIN tables /\ (\A m \in o.add : m < vset.next)
      /\ acked \subseteq DataIn(tables, NumbersOf(vset.files)) \union DataIn(tables, o.add)
      /\ vset.manifest < vset.next /\ current < vset.manifest
  BY <1>1, <1>4, OpeningState
<1>7. /\ OnDisk' = OnDisk /\ Version' = Version /\ current \in DOMAIN manifests'
      /\ vset.manifest \in DOMAIN manifests'
      /\ manifests'[vset.manifest] = WriteSnapshot(e)
  <2>1. vset.manifest # current
    BY <1>5, <1>6 DEF VsetType
  <2>2. /\ DOMAIN manifests' = DOMAIN manifests \union {vset.manifest}
        /\ manifests'[current] = manifests[current]
        /\ manifests'[vset.manifest] = WriteSnapshot(e)
    BY <1>1, <1>3, <1>5, <2>1 DEF With
  <2>3. OnDisk' = OnDisk
    BY <1>2, <1>5, <2>2 DEF OnDisk, EditsOf
  <2> QED  BY <1>5, <2>2, <2>3 DEF Version
<1>8. PICK d : d = [o EXCEPT !.step = "current"]
  OBVIOUS
<1>9. /\ opening' = {d} /\ d.left = {} /\ d.add = o.add /\ d.step = "current"
  BY <1>1, <1>4, <1>5, <1>8 DEF OpeningType
<1>10. RecoveryEdit(d)' = e /\ WriteSnapshot(e)' = WriteSnapshot(e)
  <2>1. RecoveryEdit(d) = e
    BY <1>3, <1>9 DEF RecoveryEdit
  <2> QED  BY <1>2, <2>1 DEF RecoveryEdit, Completed, WriteSnapshot
<1>11. LoadedInv'
  BY <1>0, <1>2, <1>5, <1>7 DEF LoadedInv
<1>12. DiskInv'
  <2>1. Recovered(logs, OnDisk)' = Recovered(logs, OnDisk)
    BY <1>2, <1>7 DEF Recovered
  <2> QED  BY <1>0, <1>2, <1>5, <1>7, <2>1 DEF DiskInv, InOrder, NumberInv
<1>13. OpeningInv'
  <2>1. acked' \subseteq DataIn(tables', NumbersOf(vset'.files)) \union DataIn(tables', d.add)
                           \union UNION {WritesIn(logs'[m]) : m \in d.left}
    BY <1>2, <1>6, <1>9
  <2>2. manifests'[vset.manifest] = WriteSnapshot(RecoveryEdit(d))'
    BY <1>7, <1>10
  <2> QED  BY <1>2, <1>4, <1>6, <1>7, <1>9, <2>1, <2>2 DEF OpeningInv
<1> QED  BY <1>2, <1>5, <1>11, <1>12, <1>13, OpeningStep

LEMMA SetCurrentFileKeeps ==
  ASSUME StoreInv, SetCurrentFile  PROVE  Inv'
<1>0. OpeningInv
  BY DEF StoreInv, Inv
<1>1. PICK o \in opening :
        /\ o.step = "current" /\ current' = vset.manifest
        /\ vset' = Installed(RecoveryEdit(o))
        /\ opening' = {[o EXCEPT !.step = "done"]}
  BY DEF SetCurrentFile
<1>2. UNCHANGED <<logs, tables, manifests, phase, writing, mem, imm, logNumber, acked,
                  pending, error, flush, compaction, readers>>
  BY DEF SetCurrentFile, memory, control, history
<1>3. PICK e : e = RecoveryEdit(o)
  OBVIOUS
<1>4. /\ e \in EditType /\ e.del = {} /\ e.log = logNumber /\ e.next = vset.next
      /\ Added(e) = o.add /\ e.log < e.next /\ (\A m \in Added(e) : m < e.next)
      /\ o.left = {} /\ logNumber # 0
      /\ NumbersOf(Apply(vset.files, e)) \subseteq DOMAIN tables
      /\ (\A m \in NumbersOf(Apply(vset.files, e)) : m < vset.next)
      /\ DataIn(tables, o.add) \subseteq DataIn(tables, NumbersOf(Apply(vset.files, e)))
      /\ acked \subseteq DataIn(tables, NumbersOf(Apply(vset.files, e)))
  BY <1>1, <1>3, RecoveryApplied
<1>5. /\ phase = "opening" /\ ~Running /\ Loaded /\ o \in OpeningType
      /\ vset.manifest # 0 /\ vset \in VsetType
      /\ LogsType(logs) /\ logNumber \in Nat /\ logNumber \in DOMAIN logs
      /\ vset.log <= logNumber /\ logNumber < vset.next
  BY <1>4, OpeningFacts
<1>6. /\ (\A m \in DOMAIN logs : m >= vset.log => m < vset.next) /\ mem = {}
      /\ o.add \subseteq DOMAIN tables /\ (\A m \in o.add : m < vset.next)
      /\ vset.manifest < vset.next
  BY <1>1, <1>4, OpeningState
<1>7. vset.manifest \in DOMAIN manifests /\ manifests[vset.manifest] = WriteSnapshot(e)
  BY <1>0, <1>1, <1>3 DEF OpeningInv
<1>8. /\ vset'.files = Apply(vset.files, e) /\ vset'.log = logNumber
      /\ vset'.next = vset.next /\ vset'.manifest = vset.manifest
  BY <1>1, <1>3, <1>4, <1>5, InstalledType
<1>9. /\ OnDisk' # << >> /\ InOrder(OnDisk') /\ NumberInv' /\ ~Torn'
      /\ Version'.files = vset'.files /\ Version'.log = vset'.log /\ Version'.next <= vset'.next
  <2>1. /\ OnDisk' = WriteSnapshot(e).records
        /\ Torn' <=> WriteSnapshot(e).torn # 0
    BY <1>1, <1>2, <1>5, <1>7 DEF OnDisk, EditsOf, Torn
  <2>2. ~Torn'
    BY <2>1 DEF WriteSnapshot, File
  <2>3. PICK s : s = [add0 |-> o.add \union vset.files.l0, addDeep |-> vset.files.deep,
                      del |-> {}, log |-> logNumber, next |-> vset.next, seq |-> vset.seq]
    OBVIOUS
  <2>4. OnDisk' = <<s>>
    BY <1>3, <1>5, <2>1, <2>3, SnapshotType
  <2>5. s \in EditType
    BY <1>5, <2>3 DEF OpeningType, EditType, VsetType, Layout, Numbers
  <2>6. /\ s.add0 = o.add \union vset.files.l0 /\ s.addDeep = vset.files.deep
        /\ s.log = logNumber /\ s.next = vset.next
    BY <2>3
  <2>7. e.add0 = o.add /\ e.addDeep = {}
    <3>1. e = [add0 |-> o.add, addDeep |-> {}, del |-> {},
               log |-> logNumber, next |-> vset.next, seq |-> vset.seq]
      BY <1>3 DEF RecoveryEdit, Completed, Edit
    <3> QED  BY <3>1
  <2>8. Apply(vset.files, e) = [l0 |-> s.add0, deep |-> s.addDeep]
    BY <1>4, <2>6, <2>7 DEF Apply
  <2>9. /\ Version'.files = [l0 |-> s.add0, deep |-> s.addDeep]
        /\ Version'.log = s.log /\ Version'.next = s.next
    BY <2>4, <2>5, ReplayOne DEF Version
  <2>10. \A m \in Added(s) : m < s.next
    <3>1. Added(s) = NumbersOf(Apply(vset.files, e))
      BY <2>8 DEF Added, NumbersOf
    <3> QED  BY <1>4, <2>6, <3>1
  <2>11. DOMAIN <<s>> = {1} /\ <<s>>[1] = s /\ <<s>> # << >>
    OBVIOUS
  <2>12. InOrder(<<s>>)
    <3>1. s.log < s.next /\ s.next <= s.next
      BY <1>5, <2>6 DEF VsetType
    <3> QED  BY <2>10, <2>11, <3>1 DEF InOrder
  <2>13. NumberInv'
    BY <1>1, <1>6, <2>4, <2>6, <2>11 DEF NumberInv
  <2>14. Version'.next <= vset'.next
    BY <1>5, <1>8, <2>6, <2>9 DEF VsetType
  <2> QED  BY <1>8, <2>2, <2>4, <2>6, <2>8, <2>9, <2>11, <2>12, <2>13, <2>14
<1>10. PICK d : d = [o EXCEPT !.step = "done"]
  OBVIOUS
<1>11. /\ opening' = {d} /\ d.left = {} /\ d.add = o.add /\ d.step = "done"
  BY <1>1, <1>4, <1>5, <1>10 DEF OpeningType
<1>12. LoadedInv'
  BY <1>1, <1>2, <1>4, <1>5, <1>6, <1>8, <1>9 DEF LoadedInv
<1>13. DiskInv'
  <2>1. Recovered(logs, OnDisk)'
          = DataIn(tables, NumbersOf(Version'.files)) \union LogsFrom(logs, Version'.log)
    BY <1>2, <1>4, <1>8, <1>9 DEF Recovered, Version, DataIn, LogsFrom
  <2>2. acked' \subseteq Recovered(logs, OnDisk)'
    BY <1>2, <1>4, <1>8, <1>9, <2>1
  <2>3. current' \in DOMAIN manifests'
    BY <1>1, <1>2, <1>7
  <2> QED  BY <1>9, <2>2, <2>3 DEF DiskInv, InOrder
<1>14. OpeningInv'
  <2>1. \A m \in DOMAIN logs : m >= logNumber => m < vset.next
    BY <1>5, <1>6 DEF LogsType, VsetType
  <2>2. acked \subseteq DataIn(tables, NumbersOf(vset'.files))
    BY <1>4, <1>8
  <2>3. DataIn(tables, o.add) \subseteq DataIn(tables, NumbersOf(vset'.files))
    BY <1>4, <1>8
  <2> QED  BY <1>1, <1>2, <1>4, <1>6, <1>8, <1>9, <1>11, <2>1, <2>2, <2>3 DEF OpeningInv
<1> QED  BY <1>2, <1>5, <1>12, <1>13, <1>14, OpeningStep

LEMMA OpenDoneKeeps ==
  ASSUME StoreInv, OpenDone  PROVE  Inv'
<1>0. DiskInv /\ OpeningInv
  BY DEF StoreInv, Inv
<1>1. PICK o \in opening :
        /\ o.step = "done" /\ phase' = "open" /\ opening' = {}
        /\ DeleteObsoleteFiles(logs, manifests, vset, {}, pending, error)
  BY DEF OpenDone
<1>2. UNCHANGED <<current, writing, mem, imm, logNumber, vset, acked, pending, error, flush,
                  compaction, readers>>
  BY DEF OpenDone, memory, history
<1>3. /\ o \in OpeningType /\ vset \in VsetType /\ LogsType(logs) /\ logNumber \in Nat
      /\ current # 0 /\ current \in DOMAIN manifests /\ vset.manifest # 0
      /\ OnDisk # << >> /\ InOrder(OnDisk) /\ NumberInv
      /\ NumbersOf(vset.files) \subseteq DOMAIN tables
      /\ (\A n \in NumbersOf(vset.files) : n < vset.next)
      /\ Version.next <= vset.next /\ vset.log < vset.next
      /\ (logNumber # 0 =>
            /\ logNumber \in DOMAIN logs /\ vset.log <= logNumber /\ logNumber < vset.next)
      /\ writing = {} /\ imm = {} /\ flush = {} /\ compaction = {}
      /\ readers = << >> /\ pending = {} /\ ~error
  BY OpeningFacts
<1>4. /\ logNumber # 0 /\ o.left = {} /\ mem = {}
      /\ (\A m \in DOMAIN logs : m >= vset.log => m < vset.next)
      /\ acked \subseteq DataIn(tables, NumbersOf(vset.files)) \union DataIn(tables, o.add)
      /\ Version.files = vset.files /\ Version.log = vset.log
  BY <1>1, OpeningState
<1>5. /\ vset.manifest = current /\ ~Torn
      /\ DataIn(tables, o.add) \subseteq DataIn(tables, NumbersOf(vset.files))
  BY <1>0, <1>1 DEF OpeningInv
<1>6. Range(readers) = {} /\ LiveFiles(vset.files, {}) = NumbersOf(vset.files)
  BY <1>3 DEF Range, LiveFiles, Pinned
<1>7. /\ logs' = Keep(logs, {n \in DOMAIN logs : n >= vset.log})
      /\ tables' = Keep(tables, NumbersOf(vset.files))
      /\ manifests' = Keep(manifests, {n \in DOMAIN manifests : n >= vset.manifest})
  BY <1>1, <1>3, <1>6 DEF DeleteObsoleteFiles, MayCollect
<1>8. /\ DOMAIN tables' = NumbersOf(vset.files)
      /\ \A n \in NumbersOf(vset.files) : tables'[n] = tables[n]
  BY <1>3, <1>7 DEF Keep
<1>9. DataIn(tables', NumbersOf(vset.files)) = DataIn(tables, NumbersOf(vset.files))
  BY <1>8, DataSame
<1>10. /\ logNumber \in DOMAIN logs' /\ logs'[logNumber] = logs[logNumber]
       /\ \A n \in DOMAIN logs' : n < vset.next
  <2>1. logNumber >= vset.log
    BY <1>3, <1>4 DEF VsetType
  <2> QED  BY <1>3, <1>4, <1>7, <2>1 DEF Keep
<1>11. current \in DOMAIN manifests' /\ manifests'[current] = manifests[current]
  BY <1>3, <1>5, <1>7 DEF Keep, VsetType
<1>12. OnDisk' = OnDisk /\ Version' = Version /\ Torn' = Torn
  BY <1>2, <1>3, <1>11 DEF OnDisk, EditsOf, Version, Torn
<1>13. LoadedInv'
  BY <1>2, <1>3, <1>4, <1>8, <1>10, <1>12 DEF LoadedInv
<1>14. CoverInv'
  <2>1. UNION imm' = {}
    BY <1>2, <1>3
  <2>2. acked \subseteq mem \union DataIn(tables', NumbersOf(vset.files))
    BY <1>4, <1>5, <1>9
  <2> QED  BY <1>2, <1>3, <1>4, <1>5, <1>12, <2>1, <2>2 DEF CoverInv
<1>15. FreshInv'
  BY <1>2, <1>3, <1>8, <1>10 DEF FreshInv
<1>16. ExactInv' /\ WritingInv' /\ FlushInv' /\ CompactionInv' /\ ReadersInv'
  <2>1. Range(readers') = {}
    BY <1>2, <1>6
  <2> QED
    BY <1>2, <1>3, <1>4, <1>12, <2>1 DEF ExactInv, WritingInv, FlushInv, CompactionInv, ReadersInv
<1>17. Running' /\ InOrder(OnDisk') /\ NumberInv'
  BY <1>1, <1>2, <1>3, <1>12 DEF Running, NumberInv
<1> QED  BY <1>1, <1>2, <1>11, <1>13, <1>14, <1>15, <1>16, <1>17, RunningStep

-----------------------------------------------------------------------------
(* Every step keeps the invariant. *)

LEMMA NothingHappens ==
  ASSUME StoreInv, UNCHANGED vars  PROVE  StoreInv'
<1>0. UNCHANGED <<logs, tables, manifests, current, phase, opening, queue, writing, mem, imm,
                  logNumber, vset, pending, error, manual, flush, compaction, readers, acked,
                  durable>>
  BY DEF vars, disk, memory, control, history
<1>1. Types'
  BY <1>0 DEF StoreInv, Types, DiskTypes, ProcessTypes, ThreadTypes, HistoryTypes
<1>2. OnDisk' = OnDisk /\ Version' = Version /\ Torn' = Torn
  BY <1>0 DEF OnDisk, EditsOf, Version, Torn
<1>3. Running' = Running /\ Loaded' = Loaded
  BY <1>0 DEF Running, Loaded
<1>4. Recovered(logs, OnDisk)' = Recovered(logs, OnDisk)
  BY <1>0, <1>2 DEF Recovered
<1>5. DiskInv' /\ PhaseInv'
  BY <1>0, <1>2, <1>3, <1>4 DEF StoreInv, Inv, DiskInv, NumberInv, PhaseInv
<1>6. LoadedInv' /\ CoverInv' /\ FreshInv'
  BY <1>0, <1>2, <1>3 DEF StoreInv, Inv, LoadedInv, CoverInv, FreshInv
<1>7. WritingInv' /\ ReadersInv'
  BY <1>0 DEF StoreInv, Inv, WritingInv, ReadersInv
<1>8. OpeningInv'
  <2>1. \A o : RecoveryEdit(o)' = RecoveryEdit(o)
    BY <1>0 DEF RecoveryEdit, Completed
  <2>2. \A e : WriteSnapshot(e)' = WriteSnapshot(e)
    BY <1>0 DEF WriteSnapshot
  <2> QED  BY <1>0, <1>2, <2>1, <2>2 DEF StoreInv, Inv, OpeningInv
<1>9. ExactInv'
  BY <1>0, <1>2, <1>3 DEF StoreInv, Inv, ExactInv, Matches
<1>10. FlushInv' /\ CompactionInv'
  BY <1>0, <1>2 DEF StoreInv, Inv, FlushInv, CompactionInv, EditInv, Unused
<1> QED  BY <1>1, <1>5, <1>6, <1>7, <1>8, <1>9, <1>10 DEF StoreInv, Inv

LEMMA WriterKeeps ==
  ASSUME StoreInv, Writer  PROVE  Inv'
BY IdleKeeps, SwitchMemtableKeeps, BeginWriteKeeps, AppendRecordKeeps, SyncLogKeeps,
   InsertIntoKeeps, AppendFailsKeeps, SyncFailsKeeps DEF Writer

LEMMA BackgroundKeeps ==
  ASSUME StoreInv, Background  PROVE  Inv'
BY IdleKeeps, StartFlushKeeps, BuildTableKeeps, BuildTableFailsKeeps, LogFlushKeeps,
   LogFlushFailsKeeps, InstallFlushKeeps, StartCompactionKeeps, OpenOutputKeeps,
   FinishOutputKeeps, LogCompactionKeeps, LogCompactionFailsKeeps, InstallCompactionKeeps,
   AbandonMergeKeeps, ExitKeeps DEF Background

LEMMA OpenKeeps ==
  ASSUME StoreInv, Open  PROVE  Inv'
BY NewDBKeeps, RecoverVersionsKeeps, ReadsALogKeeps, OpenLogKeeps, SaveManifestKeeps,
   SetCurrentFileKeeps, OpenDoneKeeps DEF Open, ReadsALog

LEMMA StepInv ==
  ASSUME StoreInv, [Next]_vars  PROVE  StoreInv'
<1>1. CASE Next
  <2>1. Types'
    BY <1>1, TypesKept
  <2>2. Inv'
    <3>1. CASE Writer \/ Background \/ Open
      BY <3>1, WriterKeeps, BackgroundKeeps, OpenKeeps
    <3>2. CASE \/ \E sync \in BOOLEAN : Enqueue(sync, FALSE)
               \/ TEST_CompactMemTable \/ AskManual \/ CancelManual \/ StartClose
      BY <3>2, IdleKeeps
    <3>3. CASE Pin \/ Unpin
      BY <3>3, PinKeeps
    <3>4. CASE Closed \/ Exit
      BY <3>4, ExitKeeps
    <3>5. CASE LosePower
      BY <3>5, LosePowerKeeps
    <3> QED  BY <1>1, <3>1, <3>2, <3>3, <3>4, <3>5 DEF Next
  <2> QED  BY <2>1, <2>2 DEF StoreInv
<1>2. CASE UNCHANGED vars
  BY <1>2, NothingHappens
<1> QED  BY <1>1, <1>2

LEMMA InvHolds == Spec => []StoreInv
<1>1. Init => StoreInv
  BY InitInv
<1>2. StoreInv /\ [Next]_vars => StoreInv'
  BY StepInv
<1> QED  BY <1>1, <1>2, PTL DEF Spec

-----------------------------------------------------------------------------
(* What the invariant is for. *)

LEMMA AtMostOneIs ==
  ASSUME NEW S, AtMostOne(S)  PROVE  Cardinality(S) <= 1
<1>1. CASE S = {}
  BY <1>1, FS_EmptySet
<1>2. CASE S # {}
  <2>1. PICK x \in S : S = {x}
    BY <1>2 DEF AtMostOne
  <2>2. Cardinality({x}) = 1
    BY FS_Singleton
  <2>3. Cardinality(S) = 1
    BY <2>1, <2>2
  <2> QED  BY <2>3
<1> QED  BY <1>1, <1>2

\* The type invariant of a database, for any sizes of memtables and levels: there is
\* one background piece of work of each kind, one group of writers and one memtable
\* being written out, no file has a number that may be given out again.
THEOREM StoreTypeCorrect == Spec => []TypeOK
<1>1. StoreInv => TypeOK
  <2> SUFFICES ASSUME StoreInv PROVE TypeOK
    OBVIOUS
  <2>1. DiskTypes /\ ProcessTypes /\ ThreadTypes /\ HistoryTypes /\ FreshInv
    BY DEF StoreInv, Types, Inv
  <2>2. /\ Cardinality(flush) <= 1 /\ Cardinality(compaction) <= 1
        /\ Cardinality(writing) <= 1 /\ Cardinality(imm) <= 1
    BY <2>1, AtMostOneIs DEF ProcessTypes, ThreadTypes
  <2>3. /\ phase \in {"down", "opening", "open", "closing", "broken"}
        /\ \A n \in DOMAIN logs : logs[n].synced <= Len(logs[n].records)
        /\ acked \subseteq Nat /\ durable \subseteq Nat
    BY <2>1 DEF DiskTypes, LogsType, ProcessTypes, HistoryTypes, Numbers
  <2>4. phase = "open" =>
          \A n \in DOMAIN logs \union DOMAIN tables \union pending : n < vset.next
    BY <2>1 DEF FreshInv, Running
  <2> QED  BY <2>2, <2>3, <2>4 DEF TypeOK
<1> QED  BY <1>1, InvHolds, PTL

\* "if it is just the process that crashes [...], no writes will be lost even if
\* sync==false" (include/leveldb/options.h:192): in every state, so also between the
\* steps of a write, a flush, a compaction, a deletion of files and an earlier
\* recovery, and after any of the errors of Store, the files hold what was
\* acknowledged.  They hold even the writes behind a failed append (Astray), where a
\* recovery may miss them; and a write that a recovery did miss, there or in a log
\* that it could not read, is not counted as acknowledged any more.
THEOREM NothingAckedIsLost == Spec => []AckedSurviveExit
<1>1. StoreInv => AckedSurviveExit
  BY CoveredOnDisk DEF AckedSurviveExit, OnDisk
<1> QED  BY <1>1, InvHolds, PTL

\* DeleteObsoleteFiles never takes a table from a version that an iterator or a Get
\* refers to, and what the reader pinned covers all that it may ask for.
THEOREM PinnedFilesStay == Spec => []ReadersSeeAll
<1>1. StoreInv => ReadersSeeAll
  BY DEF StoreInv, Inv, ReadersInv, ReadersSeeAll, DataIn
<1> QED  BY <1>1, InvHolds, PTL

=============================================================================
