------------------------------- MODULE Store --------------------------------
(***************************************************************************)
(* One LevelDB database (Pods/leveldb-library/db): the queue of writers,   *)
(* log files, memtables, the background thread, the MANIFEST that says     *)
(* which files make up the database, the deletion of files nobody needs,   *)
(* exits of the process, losses of power, and recovery.  A write is its    *)
(* sequence number; a table holds the writes that it contains or that      *)
(* newer entries in it replace.  What a compaction picks is in Levels, the *)
(* layout of a log file in RecordLog.  Options are those of                *)
(* leveldb::Options(): neither reuse_logs nor paranoid_checks.             *)
(***************************************************************************)
EXTENDS Naturals, FiniteSets, SequencesExt

CONSTANTS
  MemLimit,     \* that many writes exceed Options::write_buffer_size
  L0Trigger,    \* config::kL0_CompactionTrigger
  L0Stop,       \* config::kL0_StopWritesTrigger
  MaxWrites, MaxQueue, MaxFaults, MaxCrashes, MaxAsked, MaxReaders,
  MaxFlushes    \* bounds; the last one: memtables written out during a merge

ASSUME StoreAssumption ==
  /\ {MemLimit, L0Trigger, L0Stop} \subseteq Nat \ {0} /\ L0Trigger <= L0Stop
  /\ {MaxWrites, MaxQueue, MaxFaults, MaxCrashes, MaxAsked, MaxReaders,
      MaxFlushes} \subseteq Nat

VARIABLES
  \* the disk
  logs,       \* number -> [records, synced, torn]: a record is a set of writes
  tables,     \* number -> the writes of a finished table, {} before
  manifests,  \* number -> [records, synced, torn]: a record is a VersionEdit
  current,    \* the MANIFEST that CURRENT names, 0: there is none
  \* the process
  phase,      \* down, opening, open, closing, broken (Open reports corruption)
  opening,    \* {}, or the progress of DB::Open
  queue,      \* writers_: what each waiting writer asked for
  writing,    \* {}, or the group that the first writer is writing
  mem, imm,   \* the writes of mem_; {}, or those of imm_ as the only element
  logNumber,  \* logfile_number_
  vset,       \* versions_: files, log, next, seq, manifest (0: none is open)
  pending,    \* pending_outputs_
  scheduled,  \* bg_compaction_scheduled_
  error,      \* bg_error_ is not ok
  manual,     \* manual_compaction_ is not NULL
  flush, compaction,  \* {}, or the background thread's progress with one
  readers,    \* what each live iterator or Get has pinned
  \* history
  acked,      \* writes that were reported done, and that neither a loss of power
              \* nor a recovery that could not read them undid
  durable,    \* those of them that asked for sync
  spent       \* how much of each bound has been used

disk    == <<logs, tables, manifests, current>>
history == <<acked, durable>>
memory  == <<mem, imm, logNumber>>
control == <<scheduled, error, manual>>
vars == <<disk, phase, opening, queue, writing, memory, vset, pending, control,
          flush, compaction, readers, history, spent>>

-----------------------------------------------------------------------------
(* Versions and edits. *)

NoFiles == [l0 |-> {}, deep |-> {}]
NumbersOf(v) == v.l0 \union v.deep
Edit(add0, addDeep, del, log, next, seq) ==
  [add0 |-> add0, addDeep |-> addDeep, del |-> del,
   log |-> log, next |-> next, seq |-> seq]

\* VersionSet::Builder: deleted files go, files that the edit adds stay.
Apply(v, edit) == [l0   |-> (v.l0 \ edit.del) \union edit.add0,
                   deep |-> (v.deep \ edit.del) \union edit.addDeep]

\* VersionSet::Recover, which applies the edits of a MANIFEST one after the other:
\* what one of them adds stays unless a later one deletes it.
Kept(edits, i, numbers) ==
  {n \in numbers : \A j \in DOMAIN edits : j > i => n \notin edits[j].del}
Replay(edits) ==
  [files |-> [l0   |-> UNION {Kept(edits, i, edits[i].add0) : i \in DOMAIN edits},
              deep |-> UNION {Kept(edits, i, edits[i].addDeep) : i \in DOMAIN edits}],
   log |-> Last(edits).log, next |-> Last(edits).next, seq |-> Last(edits).seq]

NoVersions == [files |-> NoFiles, log |-> 0, next |-> 2, seq |-> 0, manifest |-> 0]

\* A file of records: how many of them are synced, and 0 or the place of the first
\* one that is torn.  A log has the records from there on, which a recovery may find
\* or not; a MANIFEST does not, because a recovery reads none of them.
File(records, synced) == [records |-> records, synced |-> synced, torn |-> 0]
With(f, n, x) == [m \in DOMAIN f \union {n} |-> IF m = n THEN x ELSE f[m]]
Keep(f, ns) == [m \in DOMAIN f \intersect ns |-> f[m]]
Appended(file, r) == [file EXCEPT !.records = Append(@, r)]
AppendedSynced(file, r) == File(Append(file.records, r), Len(file.records) + 1)
TornAt(file, i) == [file EXCEPT !.torn = IF @ = 0 THEN i ELSE @]
SyncedPart(file) == File(SubSeq(file.records, 1, file.synced), file.synced)
WritesIn(file) == UNION Range(file.records)

\* The records in front of a tear, and the writes behind it.
Sound(file) == {i \in DOMAIN file.records : file.torn = 0 \/ i < file.torn}
AstrayIn(file) == UNION {file.records[i] : i \in DOMAIN file.records \ Sound(file)}
Astray == UNION {AstrayIn(logs[n]) : n \in DOMAIN logs}

EditsOf(mfs) == IF current = 0 THEN << >> ELSE mfs[current].records

\* What a recovery would find, given the log files and the edits of the MANIFEST,
\* if it finds what is astray.
Recovered(lgs, edits) ==
  LET r == Replay(edits)
  IN  IF edits = << >> \/ ~NumbersOf(r.files) \subseteq DOMAIN tables THEN {}
      ELSE (UNION {tables[n] : n \in NumbersOf(r.files)})
             \union UNION {WritesIn(lgs[n]) : n \in {m \in DOMAIN lgs : m >= r.log}}

-----------------------------------------------------------------------------
(* Bounds. *)
Spend(what) == spent[what] > 0 /\ spent' = [spent EXCEPT ![what] = @ - 1]
Fault == Spend("faults")

-----------------------------------------------------------------------------
(* MaybeScheduleCompaction, RecordBackgroundError and DeleteObsoleteFiles. *)

\* The first error stays.
RecordBackgroundError == error' = TRUE

\* With a bug: a memtable that waits to be written out is not counted as work.
OnlyTables(im, man, files) == man \/ Cardinality(files.l0) >= L0Trigger
WorkToDo(im, man, files) ==
  im # {} \/ man \/ Cardinality(files.l0) >= L0Trigger
Schedulable(im, man, files) ==
  phase \in {"opening", "open"} /\ ~error /\ WorkToDo(im, man, files)

\* AddLiveFiles: the files of every version that somebody still refers to.
Pinned(v, comp) == {v} \union {r.files : r \in Range(readers)}
                     \union {c.base : c \in comp}

\* With a bug: only the current version counts.
OnlyCurrent(v, comp) == NumbersOf(v)
LiveFiles(v, comp) == UNION {NumbersOf(w) : w \in Pinned(v, comp)}

\* With a bug: files go although an edit may or may not be in the MANIFEST.
AlwaysCollect(err) == TRUE
MayCollect(err) == ~err

\* All that neither a version nor a writer nor a recovery needs, of `lgs` and `mfs`.
DeleteObsoleteFiles(lgs, mfs, vs, comp, pend, err) ==
  IF MayCollect(err)
  THEN /\ logs' = Keep(lgs, {n \in DOMAIN lgs : n >= vs.log})
       /\ tables' = Keep(tables, pend \union LiveFiles(vs.files, comp))
       /\ manifests' = Keep(mfs, {n \in DOMAIN mfs : n >= vs.manifest})
  ELSE logs' = lgs /\ manifests' = mfs /\ UNCHANGED tables

-----------------------------------------------------------------------------
(* Write. *)

\* A NULL batch (`force`) asks for a new memtable.
Enqueue(sync, force) ==
  /\ phase = "open" /\ Len(queue) < MaxQueue
  /\ Spend(IF force THEN "asked" ELSE "writes")
  /\ queue' = Append(queue, [sync |-> sync, force |-> force])
  /\ UNCHANGED <<disk, phase, opening, writing, memory, vset, pending, control,
                 flush, compaction, readers, history>>

\* That is its write; that it then waits for the memtable changes nothing.
TEST_CompactMemTable == Enqueue(FALSE, TRUE)

AtFront == phase = "open" /\ queue # << >> /\ writing = {}

\* The next writer in the queue is told the result of the group.
Leave(n) == queue' = SubSeq(queue, n + 1, Len(queue))

\* MakeRoomForWrite reports the background error, or finds room after a NULL
\* batch has had its new memtable.
Yield ==
  /\ AtFront /\ error
  /\ Leave(1)
  /\ UNCHANGED <<disk, phase, opening, writing, memory, vset, pending, control,
                 flush, compaction, readers, history, spent>>

Full == Cardinality(mem) >= MemLimit

\* The memtable is full, the previous one has been written out and level 0 has
\* room: a new memtable with a new log file.  (The delay of one millisecond that
\* a writer may take before this changes nothing.)
SwitchMemtable ==
  /\ AtFront /\ ~error
  /\ Full \/ queue[1].force
  /\ imm = {} /\ Cardinality(vset.files.l0) < L0Stop
  /\ vset' = [vset EXCEPT !.next = @ + 1]
  /\ logs' = With(logs, vset.next, File(<< >>, 0))
  /\ logNumber' = vset.next
  /\ imm' = {mem} /\ mem' = {}
  /\ scheduled' = (scheduled \/ Schedulable({mem}, manual, vset.files))
  /\ IF queue[1].force THEN Leave(1) ELSE UNCHANGED queue
  /\ UNCHANGED <<tables, manifests, current, phase, opening, writing, pending,
                 error, manual, flush, compaction, readers, history, spent>>

\* The new log file cannot be created: its number is given back.
SwitchFails ==
  /\ AtFront /\ ~error
  /\ Full \/ queue[1].force
  /\ imm = {} /\ Cardinality(vset.files.l0) < L0Stop
  /\ Fault
  /\ Leave(1)
  /\ UNCHANGED <<disk, phase, opening, writing, memory, vset, pending, control,
                 flush, compaction, readers, history>>

\* With a bug: a writer that asked for sync joins any group.
JoinsAll(i) == TRUE

\* BuildBatchGroup: the first writer takes the others along, up to one who asked
\* for sync when it did not.
Joins(i) == queue[i].sync => queue[1].sync

\* A group may be smaller where the code finds it too big.
BeginWrite ==
  /\ AtFront /\ ~error /\ ~Full /\ ~queue[1].force
  /\ \E size \in 1 .. Len(queue) :
       LET batches == {i \in 1 .. size : ~queue[i].force}
           count == Cardinality(batches)
       IN  /\ \A i \in 1 .. size : Joins(i)
           /\ size < Len(queue) /\ Joins(size + 1) => ~queue[size + 1].force
           /\ writing' = {[size |-> size, step |-> "append",
                           writes |-> vset.seq + 1 .. vset.seq + count,
                           sync |-> queue[1].sync,
                           syncs |-> {vset.seq + Cardinality({j \in batches : j <= i}) :
                                        i \in {j \in batches : queue[j].sync}}]}
  /\ UNCHANGED <<disk, phase, opening, queue, memory, vset, pending, control,
                 flush, compaction, readers, history, spent>>

\* The group goes to the log.  The process may end behind every step.
AppendRecord ==
  \E w \in writing :
    /\ w.step = "append"
    /\ logs' = [logs EXCEPT ![logNumber] = Appended(@, w.writes)]
    /\ writing' = {[w EXCEPT !.step = IF w.sync THEN "sync" ELSE "insert"]}
    /\ UNCHANGED <<tables, manifests, current, phase, opening, queue, memory, vset,
                   pending, control, flush, compaction, readers, history, spent>>

SyncLog ==
  \E w \in writing :
    /\ w.step = "sync"
    /\ logs' = [logs EXCEPT ![logNumber].synced = Len(logs[logNumber].records)]
    /\ writing' = {[w EXCEPT !.step = "insert"]}
    /\ UNCHANGED <<tables, manifests, current, phase, opening, queue, memory, vset,
                   pending, control, flush, compaction, readers, history, spent>>

\* The group is done or has failed: its sequence numbers are used either way.
EndOfGroup(w) ==
  /\ writing' = {}
  /\ Leave(w.size)
  /\ vset' = [vset EXCEPT !.seq = @ + Cardinality(w.writes)]

InsertInto ==
  \E w \in writing :
    /\ w.step = "insert"
    /\ mem' = mem \union w.writes
    /\ acked' = acked \union w.writes
    /\ durable' = durable \union w.syncs
    /\ EndOfGroup(w)
    /\ UNCHANGED <<disk, phase, opening, imm, logNumber, pending, control,
                   flush, compaction, readers, spent>>

\* AddRecord fails: the record is not in the file, or it is, or a part of it, or
\* the blocks of the file are not where log::Writer thinks: then the reader may miss
\* what is written behind it.  Only this group is told.
AppendFails ==
  \E w \in writing :
    /\ w.step = "append" /\ Fault
    /\ LET log  == logs[logNumber]
           full == Appended(log, w.writes)
       IN  \E file \in {log, full, TornAt(full, Len(full.records))} :
             logs' = [logs EXCEPT ![logNumber] = file]
    /\ EndOfGroup(w)
    /\ UNCHANGED <<tables, manifests, current, phase, opening, memory, pending,
                   control, flush, compaction, readers, history>>

\* Sync fails: "we force the DB into a mode where all future writes fail".
SyncFails ==
  \E w \in writing :
    /\ w.step = "sync" /\ Fault
    /\ RecordBackgroundError
    /\ EndOfGroup(w)
    /\ UNCHANGED <<disk, phase, opening, memory, pending, scheduled, manual,
                   flush, compaction, readers, history>>

-----------------------------------------------------------------------------
(* The background thread. *)

\* LogAndApply completes an edit before it releases the mutex.
Completed(add0, addDeep, del, log) ==
  Edit(add0, addDeep, del, log, vset.next, vset.seq)

\* The record of an edit reaches the MANIFEST and is synced: behind a tear nobody
\* will read it.  If one of these fails, the record may be in the file all the same,
\* or a part of it.
TornManifest == manifests[vset.manifest].torn # 0
Logged(edit) ==
  [manifests EXCEPT ![vset.manifest] =
     IF TornManifest THEN [@ EXCEPT !.synced = Len(manifests[vset.manifest].records)]
     ELSE AppendedSynced(@, edit)]
NotLogged(edit) ==
  IF TornManifest THEN {manifests}
  ELSE {manifests, [manifests EXCEPT ![vset.manifest] = Appended(@, edit)],
        [manifests EXCEPT ![vset.manifest] = TornAt(@, Len(@.records) + 1)]}

Installed(edit) == [vset EXCEPT !.files = Apply(@, edit), !.log = edit.log]

\* BackgroundCall, when BackgroundCompaction is done.
EndOfCall(im, man, files, err) ==
  scheduled' = (~err /\ Schedulable(im, man, files))

Idle == scheduled /\ flush = {} /\ compaction = {}

\* BackgroundCall finds the database closing or in error.
NothingToDo ==
  /\ Idle /\ (error \/ phase = "closing")
  /\ scheduled' = FALSE
  /\ UNCHANGED <<disk, phase, opening, queue, writing, memory, vset, pending,
                 error, manual, flush, compaction, readers, history, spent>>

\* CompactMemTable: from BackgroundCompaction, or in the middle of a merge, which
\* looks at neither the error nor, before its next entry, the shutdown.
StartFlush ==
  /\ scheduled /\ flush = {} /\ imm # {}
  /\ \/ compaction = {} /\ ~error /\ phase = "open" /\ UNCHANGED compaction
     \/ \E c \in compaction :
          /\ c.step = "merge" /\ c.flushes < MaxFlushes
          /\ compaction' = {[c EXCEPT !.flushes = @ + 1]}
  /\ flush' = {[number |-> vset.next, step |-> "build", edit |-> {}]}
  /\ vset' = [vset EXCEPT !.next = @ + 1]
  /\ pending' = pending \union {vset.next}
  /\ UNCHANGED <<disk, phase, opening, queue, writing, memory, control,
                 readers, history, spent>>

\* The thread leaves CompactMemTable with or without a new version.
EndOfFlush(im, files, err) ==
  /\ flush' = {}
  /\ IF compaction = {} THEN EndOfCall(im, manual, files, err) ELSE UNCHANGED scheduled

\* WriteLevel0Table: the table is built and synced (an empty one is not kept),
\* and the edit that adds it to a level gives up the older logs.
BuildTable ==
  \E f \in flush, deep \in BOOLEAN :
    LET data == UNION imm
        new  == IF data = {} THEN {} ELSE {f.number}
        edit == Completed(IF deep THEN {} ELSE new, IF deep THEN new ELSE {}, {},
                          logNumber)
    IN  /\ f.step = "build"
        /\ deep => vset.files.l0 = {}
        /\ tables' = IF data = {} THEN tables ELSE With(tables, f.number, data)
        /\ pending' = pending \ {f.number}
        /\ IF phase = "closing"
           THEN RecordBackgroundError /\ EndOfFlush(imm, vset.files, TRUE)
           ELSE /\ flush' = {[f EXCEPT !.step = "log", !.edit = {edit}]}
                /\ UNCHANGED <<error, scheduled>>
        /\ UNCHANGED <<logs, manifests, current, phase, opening, queue, writing,
                       memory, vset, manual, compaction, readers, history, spent>>

BuildTableFails ==
  \E f \in flush :
    /\ f.step = "build" /\ Fault
    /\ pending' = pending \ {f.number}
    /\ RecordBackgroundError
    /\ EndOfFlush(imm, vset.files, TRUE)
    /\ UNCHANGED <<disk, phase, opening, queue, writing, memory, vset, manual,
                   compaction, readers, history>>

LogFlush ==
  \E f \in flush : \E edit \in f.edit :
    /\ f.step = "log"
    /\ manifests' = Logged(edit)
    /\ flush' = {[f EXCEPT !.step = "install"]}
    /\ UNCHANGED <<logs, tables, current, phase, opening, queue, writing, memory,
                   vset, pending, control, compaction, readers, history, spent>>

LogFlushFails ==
  \E f \in flush : \E edit \in f.edit :
    /\ f.step = "log" /\ Fault
    /\ manifests' \in NotLogged(edit)
    /\ RecordBackgroundError
    /\ EndOfFlush(imm, vset.files, TRUE)
    /\ UNCHANGED <<logs, tables, current, phase, opening, queue, writing, memory,
                   vset, pending, manual, compaction, readers, history>>

InstallFlush ==
  \E f \in flush : \E edit \in f.edit :
    /\ f.step = "install"
    /\ vset' = Installed(edit)
    /\ imm' = {}
    /\ DeleteObsoleteFiles(logs, manifests, vset', compaction, pending, error)
    /\ EndOfFlush({}, vset'.files, error)
    /\ UNCHANGED <<current, phase, opening, queue, writing, mem, logNumber,
                   pending, error, manual, compaction, readers, history, spent>>

\* TEST_CompactRange, and how it gives up.
AskManual ==
  /\ phase = "open" /\ ~error /\ ~manual
  /\ Spend("asked")
  /\ manual' = TRUE
  /\ scheduled' = (scheduled \/ Schedulable(imm, TRUE, vset.files))
  /\ UNCHANGED <<disk, phase, opening, queue, writing, memory, vset, pending, error,
                 flush, compaction, readers, history>>
CancelManual ==
  /\ manual /\ error
  /\ manual' = FALSE
  /\ UNCHANGED <<disk, phase, opening, queue, writing, memory, vset, pending, error,
                 scheduled, flush, compaction, readers, history, spent>>

MayStart == /\ Idle /\ ~error /\ phase = "open" /\ imm = {}
            /\ WorkToDo({}, manual, vset.files)

\* PickCompaction or, for a manual one, CompactRange: some tables of one level
\* and those that they overlap in the next one.
StartCompaction ==
  /\ MayStart
  /\ \E ns \in SUBSET NumbersOf(vset.files) \ {{}} :
       /\ ~manual => ns \intersect vset.files.l0 # {}
       /\ compaction' = {[inputs |-> ns, step |-> "merge", base |-> vset.files,
                          manual |-> manual, out |-> {}, edit |-> {},
                          flushes |-> 0]}
  /\ UNCHANGED <<disk, phase, opening, queue, writing, memory, vset, pending, control,
                 flush, readers, history, spent>>

\* A table of level 0 that overlaps no other moves as it is.
StartMove ==
  /\ MayStart /\ ~manual
  /\ \E n \in vset.files.l0 :
       compaction' = {[inputs |-> {n}, step |-> "log", base |-> vset.files,
                       manual |-> FALSE, out |-> {}, flushes |-> 0,
                       edit |-> {Completed({}, {n}, {n}, vset.log)}]}
  /\ UNCHANGED <<disk, phase, opening, queue, writing, memory, vset, pending, control,
                 flush, readers, history, spent>>

\* A manual range that has no tables (left).
NothingInRange ==
  /\ MayStart /\ manual
  /\ manual' = FALSE
  /\ EndOfCall({}, FALSE, vset.files, FALSE)
  /\ UNCHANGED <<disk, phase, opening, queue, writing, memory, vset, pending, error,
                 flush, compaction, readers, history, spent>>

\* The thread is merging, and not writing a memtable out meanwhile.
Merging(c) == c.step = "merge" /\ flush = {} /\ phase = "open"

\* OpenCompactionOutputFile, for the first entry that is kept.
OpenOutput ==
  \E c \in compaction :
    /\ Merging(c) /\ c.out = {}
    /\ compaction' = {[c EXCEPT !.out = {vset.next}]}
    /\ vset' = [vset EXCEPT !.next = @ + 1]
    /\ pending' = pending \union {vset.next}
    /\ tables' = With(tables, vset.next, {})
    /\ UNCHANGED <<logs, manifests, current, phase, opening, queue, writing, memory,
                   control, flush, readers, history, spent>>

\* FinishCompactionOutputFile and InstallCompactionResults, up to the edit.
FinishOutput ==
  \E c \in compaction :
    /\ Merging(c) /\ c.out # {}
    /\ tables' = [n \in DOMAIN tables |->
                    IF n \in c.out THEN UNION {tables[m] : m \in c.inputs}
                    ELSE tables[n]]
    /\ compaction' = {[c EXCEPT !.step = "log",
                       !.edit = {Completed({}, c.out, c.inputs, vset.log)}]}
    /\ UNCHANGED <<logs, manifests, current, phase, opening, queue, writing, memory,
                   vset, pending, control, flush, readers, history, spent>>

LogCompaction ==
  \E c \in compaction : \E edit \in c.edit :
    /\ c.step = "log" /\ flush = {}
    /\ manifests' = Logged(edit)
    /\ compaction' = {[c EXCEPT !.step = "install"]}
    /\ UNCHANGED <<logs, tables, current, phase, opening, queue, writing, memory,
                   vset, pending, control, flush, readers, history, spent>>

\* A manual compaction that TEST_CompactRange no longer waits for.
Forgotten(c) == c.manual /\ ~manual

\* CleanupCompaction and ReleaseInputs; then, unless a table has only been moved,
\* the files that nobody needs go.
EndOfCompaction(c, mfs, vs) ==
  /\ ~Forgotten(c)
  /\ pending' = pending \ c.out
  /\ compaction' = {}
  /\ manual' = (manual /\ ~c.manual)
  /\ IF c.out = {} THEN manifests' = mfs /\ UNCHANGED <<logs, tables>>
     ELSE DeleteObsoleteFiles(logs, mfs, vs, {}, pending', error')
  /\ EndOfCall(imm, manual', vs.files, error')
  /\ UNCHANGED <<current, phase, opening, queue, writing, memory, flush, readers,
                 history>>

InstallCompaction ==
  \E c \in compaction : \E edit \in c.edit :
    /\ c.step = "install"
    /\ vset' = Installed(edit)
    /\ UNCHANGED <<error, spent>>
    /\ EndOfCompaction(c, manifests, vset')

LogCompactionFails ==
  \E c \in compaction : \E edit \in c.edit : \E mfs \in NotLogged(edit) :
    /\ c.step = "log" /\ flush = {} /\ Fault
    /\ RecordBackgroundError
    /\ UNCHANGED vset
    /\ EndOfCompaction(c, mfs, vset)

\* A shutdown ends the merge, or an output that cannot be written.
AbandonMerge ==
  \E c \in compaction :
    /\ c.step = "merge" /\ flush = {}
    /\ \/ phase = "closing" /\ UNCHANGED spent
       \/ phase = "open" /\ Fault
    /\ RecordBackgroundError
    /\ UNCHANGED vset
    /\ EndOfCompaction(c, manifests, vset)

-----------------------------------------------------------------------------
(* Readers: Get, iterators, GetApproximateSizes. *)

Pin ==
  /\ phase = "open" /\ Len(readers) < MaxReaders
  /\ readers' = Append(readers, [seq |-> vset.seq, files |-> vset.files,
                                 held |-> mem \union UNION imm])
  /\ UNCHANGED <<disk, phase, opening, queue, writing, memory, vset, pending, control,
                 flush, compaction, history, spent>>
Unpin ==
  \E i \in DOMAIN readers :
    /\ readers' = RemoveAt(readers, i)
    /\ UNCHANGED <<disk, phase, opening, queue, writing, memory, vset, pending,
                   control, flush, compaction, history, spent>>

-----------------------------------------------------------------------------
(* The end of the process. *)

ProcessEnds ==
  /\ phase' = "down" /\ opening' = {} /\ queue' = << >> /\ writing' = {}
  /\ mem' = {} /\ imm' = {} /\ logNumber' = 0 /\ vset' = NoVersions
  /\ pending' = {} /\ scheduled' = FALSE /\ error' = FALSE /\ manual' = FALSE
  /\ flush' = {} /\ compaction' = {} /\ readers' = << >>

\* ~DBImpl, with nobody using the database any more, waits for the background
\* thread, which gives up what it is doing.  What is in memory is in the logs.
StartClose ==
  /\ phase = "open" /\ queue = << >> /\ readers = << >> /\ ~manual
  /\ Spend("crashes")
  /\ phase' = "closing"
  /\ UNCHANGED <<disk, opening, queue, writing, memory, vset, pending, control,
                 flush, compaction, readers, history>>
Closed == /\ phase = "closing" /\ ~scheduled
          /\ ProcessEnds
          /\ UNCHANGED <<disk, history, spent>>

\* BackgroundCompaction dereferences manual_compaction_, which is NULL.
NullManual == /\ \E c \in compaction : Forgotten(c) /\ c.step = "install"
              /\ ProcessEnds
              /\ UNCHANGED <<disk, history, spent>>

Exit == /\ phase # "down" /\ Spend("crashes")
        /\ ProcessEnds
        /\ UNCHANGED <<disk, history>>

\* A loss of power may take what was never synced: the end of every log and
\* MANIFEST.  (Tables are synced before an edit names them.)
Cut(file, left) ==
  [file EXCEPT !.records = SubSeq(@, 1, left), !.synced = left,
               !.torn = IF @ <= left + 1 THEN @ ELSE 0]
Truncations(file) == {Cut(file, left) : left \in file.synced .. Len(file.records)}
Truncated(fs) ==
  {cut \in [DOMAIN fs -> UNION {Truncations(fs[n]) : n \in DOMAIN fs}] :
     \A n \in DOMAIN fs : cut[n] \in Truncations(fs[n])}

LosePower ==
  /\ Spend("crashes")
  /\ logs' \in Truncated(logs) /\ manifests' \in Truncated(manifests)
  /\ acked' = acked \intersect Recovered(logs', EditsOf(manifests'))
  /\ ProcessEnds
  /\ UNCHANGED <<tables, current, durable>>

-----------------------------------------------------------------------------
(* DB::Open. *)

\* NewDB: a first MANIFEST, closed but not synced, and a CURRENT that names it.
NewDB ==
  /\ phase = "down" /\ current = 0
  /\ manifests' = With(manifests, 1, File(<<Edit({}, {}, {}, 0, 2, 0)>>, 0))
  /\ current' = 1
  /\ UNCHANGED <<logs, tables, phase, opening, queue, writing, memory, vset, pending,
                 control, flush, compaction, readers, history, spent>>

\* VersionSet::Recover, and the search for the log files that the MANIFEST has not
\* made superfluous.  What it finds at a tear may be a corruption, or the end.  The
\* new MANIFEST gets a number of its own.
RecoverVersions ==
  LET edits == EditsOf(manifests)
      r == Replay(edits)
      whole == edits # << >> /\ NumbersOf(r.files) \subseteq DOMAIN tables
  IN  /\ phase = "down" /\ current # 0
      /\ \/ /\ ~whole \/ manifests[current].torn # 0
            /\ phase' = "broken" /\ UNCHANGED <<opening, vset>>
         \/ /\ whole
            /\ phase' = "opening"
            /\ vset' = [files |-> r.files, log |-> r.log, seq |-> r.seq,
                        next |-> r.next + 1, manifest |-> r.next]
            /\ opening' = {[step |-> "logs", add |-> {},
                            left |-> {n \in DOMAIN logs : n >= r.log}]}
      /\ UNCHANGED <<disk, queue, writing, memory, pending, control, flush,
                     compaction, readers, history, spent>>

\* What may be read of a log: the records `sure`, and some of the others.
Readings(records, sure) ==
  {[j \in DOMAIN pick |-> records[pick[j]]] :
     pick \in {p \in UNION {[1 .. k -> DOMAIN records] : k \in 0 .. Len(records)} :
                /\ \A i, j \in DOMAIN p : i < j => p[i] < p[j]
                /\ sure \subseteq Range(p)}}

\* The records of a log go to memtables 0, 1, ...: each is the first one that the
\* records before have not filled.
Memtable(records, into, i) == UNION {records[j] : j \in {k \in 1 .. i : into[k] = into[i]}}
Filled(records, into) ==
  {i \in DOMAIN records : Cardinality(Memtable(records, into, i)) >= MemLimit}
Refill(records) ==
  {into \in [DOMAIN records -> 0 .. Len(records)] :
     \A i \in DOMAIN records :
       into[i] = Cardinality({j \in Filled(records, into) : j < i})}

\* With a bug: the number of a log that no MANIFEST mentions may be given again.
NotMarked(next, n) == next
MarkFileNumberUsed(next, n) == IF next <= n THEN n + 1 ELSE next

\* Every memtable becomes a table.
Made(records, into) == IF records = << >> THEN 0 ELSE Last(into) + 1

RecoverLog(o, n, records, into) ==
  LET writes == UNION Range(records)
      names  == vset.next .. vset.next + Made(records, into) - 1
  IN  /\ tables' = [m \in DOMAIN tables \union names |->
                      IF m \in names
                      THEN UNION {records[i] : i \in {j \in DOMAIN records :
                                                     into[j] = m - vset.next}}
                      ELSE tables[m]]
      /\ \E top \in writes \union {vset.seq} :
           /\ \A s \in writes \union {vset.seq} : s <= top
           /\ vset' = [vset EXCEPT
                !.next = MarkFileNumberUsed(@ + Made(records, into), n), !.seq = top]
      /\ opening' = {[o EXCEPT !.left = @ \ {n}, !.add = @ \union names]}

\* Writes that nobody has found are not counted any more.
Forget(writes) == acked' = acked \ writes /\ durable' = durable \ writes

\* RecoverLogFile, oldest log first.
RecoverLogFile ==
  \E o \in opening : \E n \in o.left :
  \E records \in Readings(logs[n].records, Sound(logs[n])) :
  \E into \in Refill(records) :
    /\ o.step = "logs" /\ \A m \in o.left : n <= m
    /\ RecoverLog(o, n, records, into)
    /\ Forget(AstrayIn(logs[n]) \ UNION Range(records))
    /\ UNCHANGED <<logs, manifests, current, phase, queue, writing, memory, pending,
                   control, flush, compaction, readers, spent>>

\* The log cannot be opened or read to its end: MaybeIgnoreError and the reporter
\* ignore it, and what is missing goes with the log.
ReadLogFails ==
  \E o \in opening : \E n \in o.left :
  \E records \in Readings(logs[n].records, {}) : \E into \in Refill(records) :
    /\ o.step = "logs" /\ \A m \in o.left : n <= m
    /\ Fault
    /\ RecoverLog(o, n, records, into)
    /\ Forget(WritesIn(logs[n]) \ UNION Range(records))
    /\ UNCHANGED <<logs, manifests, current, phase, queue, writing, memory, pending,
                   control, flush, compaction, readers>>

\* The new log.
OpenLog ==
  \E o \in opening :
    /\ o.step = "logs" /\ o.left = {}
    /\ opening' = {[o EXCEPT !.step = "manifest"]}
    /\ logNumber' = vset.next
    /\ logs' = With(logs, vset.next, File(<< >>, 0))
    /\ vset' = [vset EXCEPT !.next = @ + 1]
    /\ UNCHANGED <<tables, manifests, current, phase, queue, writing, mem, imm,
                   pending, control, flush, compaction, readers, history, spent>>

RecoveryEdit(o) == Completed(o.add, {}, {}, logNumber)

\* WriteSnapshot: a new MANIFEST starts with all files of the version.  (Snapshot
\* and edit are one record here: CURRENT names neither yet.)
WriteSnapshot(edit) ==
  File(<<Edit(edit.add0 \union vset.files.l0, vset.files.deep, {},
              edit.log, edit.next, edit.seq)>>, 1)
SaveManifest ==
  \E o \in opening :
    /\ o.step = "manifest"
    /\ manifests' = With(manifests, vset.manifest, WriteSnapshot(RecoveryEdit(o)))
    /\ opening' = {[o EXCEPT !.step = "current"]}
    /\ UNCHANGED <<logs, tables, current, phase, queue, writing, memory, vset,
                   pending, control, flush, compaction, readers, history, spent>>

\* SetCurrentFile: a temporary file is synced and renamed.
SetCurrentFile ==
  \E o \in opening :
    /\ o.step = "current"
    /\ current' = vset.manifest
    /\ vset' = Installed(RecoveryEdit(o))
    /\ opening' = {[o EXCEPT !.step = "done"]}
    /\ UNCHANGED <<logs, tables, manifests, phase, queue, writing, memory, pending,
                   control, flush, compaction, readers, history, spent>>

OpenDone ==
  \E o \in opening :
    /\ o.step = "done"
    /\ DeleteObsoleteFiles(logs, manifests, vset, {}, pending, error)
    /\ scheduled' = Schedulable(imm, manual, vset.files)
    /\ phase' = "open"
    /\ opening' = {}
    /\ UNCHANGED <<current, queue, writing, memory, vset, pending, error, manual,
                   flush, compaction, readers, history, spent>>

-----------------------------------------------------------------------------
Init ==
  /\ logs = << >> /\ tables = << >> /\ manifests = << >> /\ current = 0
  /\ phase = "down" /\ opening = {} /\ queue = << >> /\ writing = {}
  /\ mem = {} /\ imm = {} /\ logNumber = 0 /\ vset = NoVersions
  /\ pending = {} /\ scheduled = FALSE /\ error = FALSE /\ manual = FALSE
  /\ flush = {} /\ compaction = {} /\ readers = << >>
  /\ acked = {} /\ durable = {}
  /\ spent = [writes |-> MaxWrites, faults |-> MaxFaults, crashes |-> MaxCrashes,
              asked |-> MaxAsked]

Writer == \/ Yield \/ SwitchMemtable \/ SwitchFails \/ BeginWrite
          \/ AppendRecord \/ SyncLog \/ InsertInto \/ AppendFails \/ SyncFails

Background ==
  \/ NothingToDo \/ StartFlush \/ BuildTable \/ BuildTableFails
  \/ LogFlush \/ LogFlushFails \/ InstallFlush
  \/ StartCompaction \/ StartMove \/ NothingInRange \/ OpenOutput \/ FinishOutput
  \/ LogCompaction \/ LogCompactionFails \/ InstallCompaction \/ AbandonMerge
  \/ NullManual

Open == \/ NewDB \/ RecoverVersions \/ RecoverLogFile \/ ReadLogFails \/ OpenLog \/ SaveManifest
        \/ SetCurrentFile \/ OpenDone

Next == \/ \E sync \in BOOLEAN : Enqueue(sync, FALSE)
        \/ TEST_CompactMemTable
        \/ Writer \/ Background \/ Open
        \/ AskManual \/ CancelManual \/ Pin \/ Unpin
        \/ StartClose \/ Closed \/ Exit \/ LosePower

\* The threads of a running process get to run.
Fairness == WF_vars(Writer) /\ WF_vars(Background)
Spec == Init /\ [][Next]_vars /\ Fairness

-----------------------------------------------------------------------------
TypeOK ==
  /\ phase \in {"down", "opening", "open", "closing", "broken"}
  /\ Cardinality(flush) <= 1 /\ Cardinality(compaction) <= 1
  /\ Cardinality(writing) <= 1 /\ Cardinality(imm) <= 1
  /\ \A n \in DOMAIN logs : logs[n].synced <= Len(logs[n].records)
  /\ acked \subseteq Nat /\ durable \subseteq Nat
  /\ phase = "open" =>   \* new files get numbers that no file has
       \A n \in DOMAIN logs \union DOMAIN tables \union pending : n < vset.next

\* "if it is just the process that crashes [...], no writes will be lost even if
\* sync==false" (include/leveldb/options.h:192): whenever the process may end,
\* the files hold every write that was reported done.  The promise does not hold
\* for writes behind a failed append in the same log, as long as only that log has
\* them (Astray), nor for those of a log that a recovery failed to read
\* (ReadLogFails); and that a recovery gets at them takes that it does not stop at
\* a torn MANIFEST with a corruption.
AckedSurviveExit == acked \ Astray \subseteq Recovered(logs, EditsOf(manifests))

\* "the write will be flushed from the operating system buffer cache [...] before
\* the write is considered complete" (include/leveldb/options.h:187): a write that
\* asked for sync survives a loss of power at any moment, whether or not the last
\* edits of the MANIFEST do.  The exceptions are those of AckedSurviveExit.
SyncedSurvivePower ==
  \A mfs \in Truncated(manifests) :
    durable \ Astray
      \subseteq Recovered([n \in DOMAIN logs |-> SyncedPart(logs[n])], EditsOf(mfs))

\* What a reader pinned stays until it lets go: every write up to its sequence
\* number, whatever has been written out, merged and deleted meanwhile.
ReadersSeeAll ==
  \A r \in Range(readers) :
    /\ NumbersOf(r.files) \subseteq DOMAIN tables
    /\ {s \in acked : s <= r.seq} \subseteq
         r.held \union UNION {tables[n] : n \in NumbersOf(r.files)}

\* Every writer returns: nobody waits for a memtable, a table or a compaction
\* that is not going to be written.
WritersReturn == []<>(queue = << >>)
=============================================================================
