------------------------------- MODULE Repair -------------------------------
(***************************************************************************)
(* RepairDB (Pods/leveldb-library/db/repair.cc): a database that cannot be *)
(* opened gets a new manifest, made from the tables and logs that are      *)
(* there.  A file that has been taken in, or that is damaged, moves to the *)
(* directory lost/.  The process may end at any step, after which RepairDB *)
(* is called again, and an operation on a file may fail.                   *)
(*                                                                         *)
(* What the database leaves behind comes from a small one that writes,     *)
(* flushes and merges without levels, until it stops and files are         *)
(* damaged.  A damaged table has entries that cannot be read and shows an  *)
(* error (Tables); a damaged commit of a log is not found (RecordLog), or, *)
(* since RepairDB does not look at checksums, found with other contents.   *)
(***************************************************************************)
EXTENDS InternalKeys, Functions

CONSTANTS MaxWrites, MaxDamages, MaxFailures   \* bounds, the last of them of the
                                               \* operations that fail and the crashes
ASSUME RepairAssumption == {MaxWrites, MaxDamages, MaxFailures} \subseteq Nat

VARIABLES
  dir,      \* the files: contents by <<kind, number>>
  lost,     \* the files of lost/
  current,  \* the number of the manifest that CURRENT names
  db,       \* the database in use: its log, tables, obsolete files, numbers
  stage,    \* "in use", "stopped", or where RepairDB is
  r,        \* the Repairer
  failures, \* how many operations of the last Repairer have failed
  had,      \* history: the entries in dir that could be read when it began
  damages, faults   \* how much of each bound is used

files == <<dir, lost, current>>
bounds == <<damages, faults>>
vars == <<files, db, stage, r, failures, had, bounds>>

Huge == 2 * MaxWrites   \* a sequence number that was never given out

Log(n) == <<"log", n>>
Table(n) == <<"table", n>>
Manifest(n) == <<"manifest", n>>
Temp(n) == <<"temp", n>>
GetChildren == DOMAIN dir
Names(kind) == {f \in GetChildren : f[1] = kind}
Numbers(kind) == {f[2] : f \in Names(kind)}

\* Files are created, removed, and renamed over what has the name.
With(fs, name, contents) == [f \in DOMAIN fs \union {name} |->
                               IF f = name THEN contents ELSE fs[f]]
Removed(fs, name) == Restrict(fs, DOMAIN fs \ {name})
Renamed(fs, name, to) == With(Removed(fs, name), to, fs[name])

\* Tables are [data, ok]: the entries that a scan finds and whether it ends well.
\* A table under construction has no index yet.
Whole(entries) == [data |-> entries, ok |-> TRUE]
Unfinished == [data |-> {}, ok |-> FALSE]
Found(contents) == UNION Range(contents)    \* of a log, a sequence of commits
EntriesIn(fs) == UNION {IF f[1] = "log" THEN Found(fs[f])
                        ELSE IF f[1] = "table" THEN fs[f].data ELSE {} : f \in DOMAIN fs}

-----------------------------------------------------------------------------
(* The database in use. *)

InUse == /\ stage = "in use"
         /\ UNCHANGED <<lost, current, stage, r, failures, had, bounds>>

\* One commit of one or two writes.
Commit == \E ks \in [1 .. 1 -> Key] \union [1 .. 2 -> Key] :
  LET batch == {[key |-> ks[i], seq |-> db.last + i, del |-> FALSE] : i \in DOMAIN ks}
  IN  /\ InUse /\ db.last + Len(ks) <= MaxWrites
      /\ dir' = [dir EXCEPT ![Log(db.log)] = Append(@, batch)]
      /\ db' = [db EXCEPT !.last = @ + Len(ks)]
\* The log is full: its memtable is to become a table.
SwitchLog ==
  /\ InUse /\ db.full = 0 /\ dir[Log(db.log)] # <<>>
  /\ dir' = With(dir, Log(db.next), <<>>)
  /\ db' = [db EXCEPT !.full = db.log, !.log = db.next, !.next = @ + 1]
FlushLog ==
  /\ InUse /\ db.full # 0
  /\ dir' = With(Restrict(dir, DOMAIN dir \ db.obsolete),
                 Table(db.next), Whole(Found(dir[Log(db.full)])))
  /\ db' = [db EXCEPT !.tables = @ \union {db.next}, !.next = @ + 1, !.full = 0,
                      !.obsolete = {Log(db.full)}]
\* A merge of all tables takes a while, in which a log may be flushed.
StartMerge == /\ InUse /\ db.merging = {} /\ Cardinality(db.tables) > 1
              /\ db' = [db EXCEPT !.merging = db.tables]
              /\ UNCHANGED dir
FinishMerge ==
  LET data == UNION {dir[Table(n)].data : n \in db.merging}
      newest == {e \in data : ~\E x \in data : x.key = e.key /\ x.seq > e.seq}
  IN  /\ InUse /\ db.merging # {}
      /\ dir' = With(Restrict(dir, DOMAIN dir \ db.obsolete), Table(db.next), Whole(newest))
      /\ db' = [db EXCEPT !.tables = (@ \ db.merging) \union {db.next}, !.next = @ + 1,
                          !.merging = {}, !.obsolete = {Table(n) : n \in db.merging}]

\* From here on only the files are left of it; some of those that it did not
\* need any longer have been removed.
Idle == [log |-> 0, full |-> 0, tables |-> {}, merging |-> {}, obsolete |-> {},
         next |-> 0, last |-> 0]
Stop == /\ stage = "in use" /\ stage' = "stopped" /\ db' = Idle
        /\ \E gone \in SUBSET db.obsolete : dir' = Restrict(dir, DOMAIN dir \ gone)
        /\ UNCHANGED <<lost, current, r, failures, had, bounds>>

Damage ==
  /\ stage = "stopped" /\ damages < MaxDamages
  /\ damages' = damages + 1
  /\ \/ \E f \in Names("table") : \E rest \in SUBSET dir[f].data \ {dir[f].data} :
          dir' = [dir EXCEPT ![f] = [data |-> rest, ok |-> FALSE]]
     \/ \E f \in Names("log") : \E i \in DOMAIN dir[f] :
          \E batch \in (SUBSET dir[f][i] \ {dir[f][i]}) \union
                       {{[e EXCEPT !.seq = Huge] : e \in dir[f][i]}} :
            dir' = [dir EXCEPT ![f][i] = batch]
  /\ UNCHANGED <<lost, current, db, stage, r, failures, had, faults>>

-----------------------------------------------------------------------------
(* The Repairer.  An operation on a file succeeds, or it fails and is counted. *)

Succeeds == UNCHANGED <<failures, bounds>>
Fails == /\ faults < MaxFailures /\ faults' = faults + 1
         /\ failures' = failures + 1
         /\ UNCHANGED damages
Goes(to) == stage' = to /\ UNCHANGED <<db, had>>

\* With a bug: a damaged file is removed.
Delete(name) == \/ Succeeds /\ dir' = Removed(dir, name) /\ UNCHANGED lost
                \/ Fails /\ UNCHANGED <<dir, lost>>

\* ArchiveFile: whatever lost/ has under that name is replaced, and a failure
\* is ignored.
Archive(name) ==
  \/ /\ Succeeds
     /\ lost' = With(lost, name, dir[name])
     /\ dir' = Removed(dir, name)
  \/ Fails /\ UNCHANGED <<dir, lost>>

\* DeleteFile behind an error, whose own failure is ignored too.
Cleanup(name) == dir' \in {dir, Removed(dir, name)}

\* With a bug: the number of the last file is given out again.
NumberOfLast(numbers) == Max(numbers \union {1})

\* FindFiles numbers on behind every file that it knows but the manifests.
NextNumber(numbers) == Max({n + 1 : n \in numbers} \union {1})

NewRepairer == [logs |-> {}, numbers |-> {}, manifests |-> {}, tables |-> {}, next |-> 1,
                at |-> 0, copy |-> 0, seen |-> {}, read |-> {}]

\* What is local to the conversion of a log and to RepairTable ends with them.
Returned(x) == [x EXCEPT !.at = 0, !.copy = 0, !.seen = {}, !.read = {}]

FindFiles ==
  /\ stage \in {"stopped", "ended", "error"}
  /\ r' = [NewRepairer EXCEPT
             !.logs = Numbers("log"), !.numbers = Numbers("table"),
             !.manifests = Numbers("manifest"),
             !.next = NextNumber(Numbers("log") \union Numbers("table") \union Numbers("temp"))]
  /\ had' = EntriesIn(dir)
  /\ failures' = 0
  /\ stage' = "logs"
  /\ UNCHANGED <<files, db, bounds>>

\* ConvertLogToTable, in the order in which the directory lists the logs: all
\* commits that are found, whatever their checksums, become one table, and the
\* log is archived also when that fails.  A read that fails is the end of the
\* log for its reader, and no error.
ConvertLog(n) ==
  /\ stage = "logs" /\ n \in r.logs
  /\ \E found \in 0 .. Len(dir[Log(n)]) :
       LET data == Found(SubSeq(dir[Log(n)], 1, found))
       IN  /\ IF found = Len(dir[Log(n)]) THEN Succeeds ELSE Fails
           /\ r' = [r EXCEPT !.at = n, !.next = @ + 1, !.copy = r.next, !.read = data]
           /\ IF data = {} THEN UNCHANGED dir
              ELSE dir' = With(dir, Table(r.next), Unfinished)
  /\ Goes("build")
  /\ UNCHANGED <<lost, current>>
\* The log cannot be opened.
LogUnread(n) ==
  /\ stage = "logs" /\ n \in r.logs
  /\ r' = [r EXCEPT !.at = n]
  /\ Fails /\ Goes("archive log") /\ UNCHANGED files
BuildTable ==
  /\ stage = "build"
  /\ \/ /\ Succeeds
        /\ IF r.read = {} THEN UNCHANGED <<dir, r>>
           ELSE /\ dir' = [dir EXCEPT ![Table(r.copy)] = Whole(r.read)]
                /\ r' = [r EXCEPT !.numbers = @ \union {r.copy}]
     \/ Fails /\ Cleanup(Table(r.copy)) /\ UNCHANGED r
  /\ Goes("archive log")
  /\ UNCHANGED <<lost, current>>
ArchiveLog ==
  /\ stage = "archive log"
  /\ Archive(Log(r.at))
  /\ r' = Returned([r EXCEPT !.logs = @ \ {r.at}])
  /\ Goes("logs")
  /\ UNCHANGED current
LogsDone == /\ stage = "logs" /\ r.logs = {}
            /\ Succeeds /\ Goes("tables") /\ UNCHANGED <<files, r>>

\* What the descriptor will say of a table: what it has, and, since its keys and
\* sequence numbers are taken from the scan, what the scan has seen of it.
Info(n, data, seen) == [number |-> n, data |-> data, seen |-> seen]

\* ScanTable, in the order in which the directory lists the tables.
IsNext(n) == stage = "tables" /\ n \in r.numbers
ScanTable(n) ==
  LET data == dir[Table(n)].data
  IN  /\ IsNext(n) /\ dir[Table(n)].ok
      /\ r' = [r EXCEPT !.numbers = @ \ {n}, !.tables = @ \union {Info(n, data, data)}]
      /\ Succeeds /\ Goes("tables") /\ UNCHANGED files
\* The table is damaged, or cannot be opened or read for once.
ScanEndsBadly(n) ==
  LET data == dir[Table(n)].data
  IN  /\ IsNext(n)
      /\ \E seen \in SUBSET data :
           /\ \/ Succeeds /\ ~dir[Table(n)].ok /\ seen = data
              \/ Fails
           /\ r' = [r EXCEPT !.numbers = @ \ {n}, !.at = n, !.seen = seen]
      /\ Goes("open copy") /\ UNCHANGED files
\* Its size cannot be found out: it is archived, damaged or not.
SizeUnknown(n) ==
  /\ IsNext(n)
  /\ r' = [r EXCEPT !.numbers = @ \ {n}, !.at = n]
  /\ Fails /\ Goes("drop table") /\ UNCHANGED files
DropTable ==
  /\ stage = "drop table"
  /\ Archive(Table(r.at))
  /\ r' = Returned(r) /\ Goes("tables")
  /\ UNCHANGED current

\* RepairTable: what can be read goes to a new table, which takes the place of
\* the old one, but the old one is archived before the new one is complete.
\* Nobody asks whether it could be read to its end.
OpenCopy ==
  LET data == dir[Table(r.at)].data
  IN  /\ stage = "open copy"
      /\ \E read \in SUBSET data :
           /\ IF read = data THEN Succeeds ELSE Fails
           /\ r' = [r EXCEPT !.copy = r.next, !.next = @ + 1, !.read = read]
      /\ dir' = With(dir, Table(r.next), Unfinished)
      /\ Goes("archive table")
      /\ UNCHANGED <<lost, current>>
NoCopy ==
  /\ stage = "open copy"
  /\ r' = Returned([r EXCEPT !.next = @ + 1])
  /\ Fails /\ Goes("tables") /\ UNCHANGED files
ArchiveTable ==
  /\ stage = "archive table"
  /\ Archive(Table(r.at))
  /\ Goes("finish copy")
  /\ UNCHANGED <<current, r>>
FinishCopy ==
  /\ stage = "finish copy"
  /\ \/ /\ Succeeds
        /\ IF r.read = {} THEN UNCHANGED dir /\ r' = Returned(r) /\ Goes("tables")
           ELSE /\ dir' = [dir EXCEPT ![Table(r.copy)] = Whole(r.read)]
                /\ UNCHANGED r /\ Goes("rename copy")
     \/ /\ Fails /\ Goes("tables")
        /\ Cleanup(Table(r.copy)) /\ r' = Returned(r)
  /\ UNCHANGED <<lost, current>>
RenameCopy ==
  /\ stage = "rename copy"
  /\ \/ /\ Succeeds
        /\ dir' = Renamed(dir, Table(r.copy), Table(r.at))
        /\ r' = Returned([r EXCEPT !.tables = @ \union {Info(r.at, r.read, r.seen)}])
     \/ Fails /\ Cleanup(Table(r.copy)) /\ r' = Returned(r)
  /\ Goes("tables")
  /\ UNCHANGED <<lost, current>>
TablesDone == /\ stage = "tables" /\ r.numbers = {}
              /\ Succeeds /\ Goes("descriptor") /\ UNCHANGED <<files, r>>

\* With a bug: the number of the last table is taken for the next one.
DescriptorOfLast == [tables |-> r.tables, next |-> Max({t.number : t \in r.tables} \union {2}),
                     last |-> Max({e.seq : e \in UNION {t.seen : t \in r.tables}} \union {0})]

\* WriteDescriptor: every table in level 0; the old manifests go before the new
\* one has its name.
Descriptor == [tables |-> r.tables, next |-> r.next,
               last |-> Max({e.seq : e \in UNION {t.seen : t \in r.tables}} \union {0})]
WriteDescriptor ==
  /\ stage = "descriptor"
  /\ \/ Succeeds /\ dir' = With(dir, Temp(1), Descriptor) /\ Goes("manifests")
     \/ /\ Fails /\ Goes("error")
        /\ Cleanup(Temp(1)) \/ dir' = With(dir, Temp(1), Unfinished)
  /\ UNCHANGED <<lost, current, r>>
ArchiveManifest(n) ==
  /\ stage = "manifests" /\ n \in r.manifests
  /\ Archive(Manifest(n))
  /\ r' = [r EXCEPT !.manifests = @ \ {n}]
  /\ Goes("manifests")
  /\ UNCHANGED current
RenameDescriptor ==
  /\ stage = "manifests" /\ r.manifests = {}
  /\ \/ Succeeds /\ dir' = Renamed(dir, Temp(1), Manifest(1)) /\ Goes("current")
     \/ Fails /\ Cleanup(Temp(1)) /\ Goes("error")
  /\ UNCHANGED <<lost, current, r>>
SetCurrentFile ==
  /\ stage = "current"
  /\ \/ Succeeds /\ current' = 1 /\ Goes("done")
     \/ Fails /\ UNCHANGED current /\ Goes("error")
  /\ UNCHANGED <<dir, lost, r>>

Repairing == stage \notin {"in use", "stopped", "ended", "error", "done"}

\* The process ends.
Crash == /\ Repairing /\ faults < MaxFailures
         /\ faults' = faults + 1 /\ stage' = "ended" /\ r' = NewRepairer
         /\ UNCHANGED <<files, db, failures, had, damages>>

-----------------------------------------------------------------------------
\* A database that has just been made.
Init ==
  /\ dir = With([f \in {Manifest(1)} |-> "not read"], Log(2), <<>>) /\ lost = <<>> /\ current = 1
  /\ db = [Idle EXCEPT !.log = 2, !.next = 3]
  /\ stage = "in use" /\ r = NewRepairer /\ failures = 0 /\ had = {}
  /\ damages = 0 /\ faults = 0

Use == Commit \/ SwitchLog \/ FlushLog \/ StartMerge \/ FinishMerge
ConvertLogs == \/ \E n \in r.logs : ConvertLog(n) \/ LogUnread(n)
               \/ BuildTable \/ ArchiveLog \/ LogsDone
ScanTables == \/ \E n \in r.numbers : ScanTable(n) \/ ScanEndsBadly(n) \/ SizeUnknown(n)
              \/ DropTable \/ OpenCopy \/ NoCopy
              \/ ArchiveTable \/ FinishCopy \/ RenameCopy \/ TablesDone
Install == \/ WriteDescriptor \/ RenameDescriptor \/ SetCurrentFile
           \/ \E n \in r.manifests : ArchiveManifest(n)
Next == Use \/ Stop \/ Damage \/ FindFiles \/ ConvertLogs \/ ScanTables \/ Install \/ Crash
Spec == Init /\ [][Next]_vars

-----------------------------------------------------------------------------
TypeOK ==
  /\ r.copy < r.next \/ r = NewRepairer
  /\ Repairing => \A n \in r.logs : Log(n) \in DOMAIN dir
  /\ Repairing => \A n \in r.numbers : Table(n) \in DOMAIN dir
  /\ damages \in 0 .. MaxDamages /\ faults \in 0 .. MaxFailures

\* What the directory holds when RepairDB is called can be read ever after, in
\* the directory or in lost/, wherever the process ends and whichever operation
\* fails, unless two fail: when a read fails and the table is not archived
\* either, its incomplete copy takes its place.  (ArchiveFile, RepairTable.)
NothingDestroyed ==
  stage \notin {"in use", "stopped"} /\ failures < 2 =>
    had \subseteq EntriesIn(dir) \union EntriesIn(lost)

\* When RepairDB reports success the database can be opened: CURRENT names a
\* manifest whose tables are all there, whole, and what the database numbers
\* next is numbered behind all files; and, unless an operation failed, it has
\* all entries that could be read, and numbers its writes behind them.
RepairedIsWhole ==
  stage = "done" =>
    LET d == dir[Manifest(current)]
    IN  /\ Manifest(current) \in DOMAIN dir
        /\ \A t \in d.tables : /\ Table(t.number) \in DOMAIN dir
                               /\ dir[Table(t.number)] = Whole(t.data)
        /\ \A n \in Numbers("table") \union Numbers("log") : n < d.next
        /\ \/ failures > 0
           \/ /\ UNION {t.data : t \in d.tables} = had
              /\ \A e \in had : e.seq <= d.last

\* The logs and tables of lost/ that a step replaces.
Replaced == {f \in DOMAIN lost : f[1] \in {"log", "table"} /\ lost'[f] # lost[f]}

\* Nothing that can be read is destroyed by a step of a repair but in two ways.
\* A table that is archived replaces a file of lost/ whose number has been given
\* out again, since FindFiles does not look into lost/; a log never does, and a
\* table that is whole only when an operation has failed.  And a copy replaces
\* a table that should be in lost/ by then, when two have.  (ArchiveFile.)
OnlyReplacedIsDestroyed ==
  [][stage \notin {"in use", "stopped"} =>
       /\ \/ EntriesIn(dir) \union EntriesIn(lost) \subseteq
               EntriesIn(dir') \union EntriesIn(lost')
                 \union EntriesIn(Restrict(lost, Replaced))
          \/ stage = "rename copy" /\ failures >= 2
       /\ \A f \in Replaced : f[1] = "table" /\ (dir[f].ok => failures > 0)]_vars
=============================================================================
