---------------------------- MODULE RepairProofs ----------------------------
(***************************************************************************)
(* Proofs about Repair: whatever a database leaves behind, however much of *)
(* it is damaged, and wherever RepairDB fails or its process ends, to be   *)
(* called again, what could be read when it was called can be read still,  *)
(* unless two of its operations fail; a repair that reports success leaves *)
(* a database that can be opened, with all of it if none failed; and what  *)
(* a step can destroy is an older file of lost/ or, when two operations    *)
(* have failed, a table that was not archived.                             *)
(***************************************************************************)
EXTENDS Repair, SequenceTheorems, WellFoundedInduction, TLAPS

-----------------------------------------------------------------------------
(* Types. *)

Stages == {"in use", "stopped", "logs", "build", "archive log", "tables", "drop table",
           "open copy", "archive table", "finish copy", "rename copy", "descriptor", "manifests", "current",
           "ended", "error", "done"}
Kinds == {"log", "table", "manifest", "temp"}
Entries == Entry(0 .. Huge)
Tabs == [data : SUBSET Entries, ok : BOOLEAN]
\* The files of a directory: logs are sequences of commits, tables have data.
FilesOK(fs) ==
  /\ fs = [f \in DOMAIN fs |-> fs[f]]
  /\ DOMAIN fs \subseteq Kinds \X Nat
  /\ \A f \in DOMAIN fs : f[1] = "log" => fs[f] \in Seq(SUBSET Entries)
  /\ \A f \in DOMAIN fs : f[1] = "table" => fs[f] \in Tabs
RepairerType ==
  [logs : SUBSET Nat, numbers : SUBSET Nat, manifests : SUBSET Nat,
   tables : SUBSET [number : Nat, data : SUBSET Entries, seen : SUBSET Entries],
   next : Nat, at : Nat, copy : Nat, seen : SUBSET Entries, read : SUBSET Entries]
DatabaseType ==
  [log : Nat, full : Nat, tables : SUBSET Nat, merging : SUBSET Nat,
   obsolete : SUBSET (Kinds \X Nat), next : Nat, last : Nat]

-----------------------------------------------------------------------------
(* The inductive invariant, TInv: a conjunction of parts with names. *)
Typed ==
  /\ FilesOK(dir) /\ FilesOK(lost)
  /\ r \in RepairerType /\ db \in DatabaseType /\ stage \in Stages /\ failures \in Nat
  /\ r.copy < r.next
  /\ damages \in 0 .. MaxDamages /\ faults \in 0 .. MaxFailures
\* The numbers of the files have a bound.
Bounded == \E b \in Nat : \A f \in DOMAIN dir : f[2] < b
\* A log is in lost/ or not, never twice: the number of a log is not given out
\* again while the log is there.
Apart == \A f \in DOMAIN dir : f[1] = "log" => f \notin DOMAIN lost

\* The database in use has what it needs, none of it obsolete, and numbers on.
Using ==
  stage = "in use" =>
    /\ lost = <<>>
    /\ Log(db.log) \in DOMAIN dir /\ Log(db.log) \notin db.obsolete
    /\ db.full # 0 => /\ Log(db.full) \in DOMAIN dir /\ Log(db.full) \notin db.obsolete
                      /\ db.full # db.log
    /\ \A n \in db.tables : Table(n) \in DOMAIN dir /\ Table(n) \notin db.obsolete
    /\ db.merging \subseteq db.tables
    /\ \A f \in DOMAIN dir \union db.obsolete : f[2] < db.next
    /\ db.last <= MaxWrites

\* A Repairer is at work, or has just succeeded.
Active == stage \notin {"in use", "stopped", "ended", "error"}

\* The Repairer's lists agree with the directory: logs and tables that are still
\* to be looked at are there, those taken over are there and whole, and the next
\* number is behind all of them.
Taken ==
  Active =>
    /\ \A n \in r.logs : Log(n) \in DOMAIN dir
    /\ \A n \in r.numbers : Table(n) \in DOMAIN dir
    /\ \A t \in r.tables : /\ t.number \notin r.numbers /\ Table(t.number) \in DOMAIN dir
                           /\ dir[Table(t.number)] = Whole(t.data)
    /\ \A f \in DOMAIN dir : f[1] \in {"log", "table"} => f[2] < r.next
    /\ stage \notin {"logs", "build", "archive log"} => r.logs = {}
    /\ stage \in {"descriptor", "manifests", "current", "done"} => r.numbers = {}

\* While nothing has failed, the scan of a table has seen all of it.
Seen == Active /\ failures = 0 => \A t \in r.tables : t.seen = t.data

\* A log that is being converted: its table is new, and is to have what was read
\* of the log, which is all that the log has, and has it before the log is
\* archived, unless an operation failed.
Converting ==
  /\ stage \in {"build", "archive log"} => r.at \in r.logs
  /\ stage = "build" =>
       /\ r.copy \notin r.numbers /\ \A t \in r.tables : t.number # r.copy
       /\ Table(r.copy) \in DOMAIN dir => dir[Table(r.copy)] = Unfinished
       /\ r.read # {} => Table(r.copy) \in DOMAIN dir
       /\ failures = 0 => r.read = Found(dir[Log(r.at)])
  /\ stage = "archive log" /\ failures = 0 =>
       \/ Found(dir[Log(r.at)]) = {}
       \/ r.copy \in r.numbers /\ dir[Table(r.copy)].data = Found(dir[Log(r.at)])

\* A table that the scan could not read to its end, or that is dropped: it is in
\* the directory until it is archived, and nobody else looks at it.  While nothing
\* has failed it is damaged, and all that can be read has been seen.
InDoubt == stage \in {"open copy", "drop table", "archive table"}
InCopy == stage \in {"archive table", "finish copy", "rename copy"}
Doubting ==
  /\ InDoubt \/ InCopy =>
       r.at < r.next /\ r.at \notin r.numbers /\ \A t \in r.tables : t.number # r.at
  /\ InDoubt => /\ Table(r.at) \in DOMAIN dir
                /\ failures = 0 => /\ stage # "drop table" /\ ~dir[Table(r.at)].ok
                                   /\ r.seen = dir[Table(r.at)].data

\* A table that is being copied: the copy has another number and is incomplete
\* until what was read is written to it.  A table that is still there when its copy
\* is finished was not archived: an operation failed, and another one if the copy
\* is not complete; and one that is not there is in lost/.
Copying ==
  /\ InCopy =>
       /\ r.at # r.copy /\ r.copy \notin r.numbers
       /\ \A t \in r.tables : t.number # r.copy
       /\ Table(r.copy) \in DOMAIN dir
       /\ dir[Table(r.copy)] = IF stage = "rename copy" THEN Whole(r.read) ELSE Unfinished
       /\ failures = 0 => r.seen = r.read
  /\ stage = "archive table" => /\ r.read \subseteq dir[Table(r.at)].data
                                /\ failures > 0 \/ r.read = dir[Table(r.at)].data
  /\ stage \in {"finish copy", "rename copy"} =>
       IF Table(r.at) \in DOMAIN dir THEN failures >= 2 \/ dir[Table(r.at)].data = r.read
       ELSE Table(r.at) \in DOMAIN lost /\ r.read \subseteq lost[Table(r.at)].data

\* The numbers of tables that may still be archived.
Pending(n) == \/ n >= r.next \/ n \in r.numbers
              \/ stage = "build" /\ n = r.copy
              \/ InDoubt /\ n = r.at
\* An entry can be read from a file.
Holds(fs, f, e) == \/ f[1] = "log" /\ e \in Found(fs[f])
                   \/ f[1] = "table" /\ e \in fs[f].data
\* Unless two operations have failed, every entry that could be read is in the
\* directory, or in a file of lost/ that this Repairer will not replace: that is
\* what NothingDestroyed lacks to be inductive, since archiving a table replaces a
\* file of lost/ with its name.
Kept ==
  stage \notin {"in use", "stopped"} /\ failures < 2 =>
    \A e \in had :
      \/ \E f \in DOMAIN dir : Holds(dir, f, e)
      \/ \E f \in DOMAIN lost : /\ Holds(lost, f, e)
                                /\ Active /\ f[1] = "table" => ~Pending(f[2])

\* The entries between their old table and their new one.
InHand == IF InDoubt THEN dir[Table(r.at)].data
          ELSE IF stage \in {"finish copy", "rename copy"} THEN r.read ELSE {}
\* While nothing failed, what could be read is just what the logs and tables still
\* to be looked at, the tables taken over and the copy under way have.
Accounted ==
  Active /\ failures = 0 =>
    had = (UNION {Found(dir[Log(n)]) : n \in r.logs}) \union (UNION {dir[Table(n)].data : n \in r.numbers})
       \union (UNION {t.data : t \in r.tables}) \union InHand

\* The new manifest says what the Repairer found.
Installing ==
  /\ stage = "manifests" => Temp(1) \in DOMAIN dir /\ dir[Temp(1)] = Descriptor
  /\ stage \in {"current", "done"} => Manifest(1) \in DOMAIN dir /\ dir[Manifest(1)] = Descriptor
  /\ stage = "done" => current = 1

TInv == /\ Typed /\ Bounded /\ Apart /\ Using /\ Taken /\ Seen
        /\ Converting /\ Doubting /\ Copying /\ Kept /\ Accounted /\ Installing

-----------------------------------------------------------------------------
(* Numbers: a set of numbers has a least element, so one with a bound has a    *)
(* greatest, which is what Max and NextNumber compute.                         *)

LEMMA LeastNumber ==
  ASSUME NEW S, S \subseteq Nat, S # {}
  PROVE  \E m \in S : \A n \in S : m <= n
<1>1. IsWellFoundedOn(OpToRel(<, Nat), Nat)
  BY NatLessThanWellFounded
<1>2. PICK x \in S : \A y \in S : ~ (<<y, x>> \in OpToRel(<, Nat))
  BY <1>1, WFMin
<1>3. \A y \in S : ~ (y < x)
  BY <1>2 DEF OpToRel
<1> QED
  BY <1>3

LEMMA BoundedMax ==
  ASSUME NEW S, S \subseteq Nat, S # {}, NEW b \in Nat, \A n \in S : n <= b
  PROVE  Max(S) \in S /\ \A n \in S : n <= Max(S)
<1> DEFINE Above == {k \in Nat : \A n \in S : n <= k}
<1>1. b \in Above /\ Above \subseteq Nat
  OBVIOUS
<1>2. PICK m \in Above : \A k \in Above : m <= k
  <2> HIDE DEF Above
  <2> QED
    BY <1>1, LeastNumber
<1>3. m \in Nat /\ \A n \in S : n <= m
  BY <1>2
<1>4. m \in S
  <2>1. SUFFICES ASSUME m \notin S PROVE FALSE
    OBVIOUS
  <2>2. \A n \in S : n < m
    BY <1>3, <2>1
  <2>3. m > 0
    <3>1. PICK n \in S : n < m
      BY <2>2
    <3> QED
      BY <1>3, <3>1
  <2>4. m - 1 \in Nat /\ \A n \in S : n <= m - 1
    BY <1>3, <2>2, <2>3
  <2>5. m - 1 \in Above
    BY <2>4
  <2> QED
    BY <1>2, <1>3, <2>5
<1>5. m \in S /\ \A y \in S : m >= y
  BY <1>3, <1>4
<1>6. Max(S) \in S /\ \A y \in S : Max(S) >= y
  BY <1>5 DEF Max
<1>7. Max(S) \in Nat
  BY <1>6
<1> QED
  BY <1>6, <1>7

LEMMA NextNumberAbove ==
  ASSUME NEW S, S \subseteq Nat, NEW b \in Nat, \A n \in S : n < b
  PROVE  NextNumber(S) \in Nat \ {0} /\ \A n \in S : n < NextNumber(S)
<1> DEFINE T == {n + 1 : n \in S} \union {1}
<1>1. T \subseteq Nat /\ T # {} /\ \A n \in T : n <= b + 1
  OBVIOUS
<1>2. Max(T) \in T /\ \A n \in T : n <= Max(T)
  <2> HIDE DEF T
  <2> QED
    BY <1>1, BoundedMax, b + 1 \in Nat
<1>3. 1 \in T /\ \A n \in S : n + 1 \in T
  OBVIOUS
<1> HIDE DEF T
<1>4. Max(T) \in Nat \ {0}
  <2>1. Max(T) \in Nat /\ 1 <= Max(T)
    BY <1>1, <1>2, <1>3
  <2> QED
    BY <2>1
<1>5. ASSUME NEW n \in S PROVE n < Max(T)
  BY <1>2, <1>3, <1>4
<1> QED
  BY <1>4, <1>5 DEF NextNumber, T

-----------------------------------------------------------------------------
(* Files. *)

\* What With, Removed, Renamed and Restrict do to a directory.
LEMMA WithFacts ==
  ASSUME NEW fs, NEW name, NEW c
  PROVE  /\ DOMAIN With(fs, name, c) = DOMAIN fs \union {name}
         /\ With(fs, name, c)[name] = c
         /\ \A f \in DOMAIN fs : f # name => With(fs, name, c)[f] = fs[f]
BY DEF With

LEMMA RestrictFacts ==
  ASSUME NEW fs, NEW S
  PROVE  /\ DOMAIN Restrict(fs, S) = S
         /\ \A f \in S : Restrict(fs, S)[f] = fs[f]
BY DEF Restrict

LEMMA RemovedFacts ==
  ASSUME NEW fs, NEW name
  PROVE  /\ DOMAIN Removed(fs, name) = DOMAIN fs \ {name}
         /\ \A f \in DOMAIN fs : f # name => Removed(fs, name)[f] = fs[f]
BY RestrictFacts DEF Removed

Moved(gs, fs, name, to) ==
  /\ DOMAIN gs = (DOMAIN fs \ {name}) \union {to}
  /\ gs[to] = fs[name]
  /\ \A f \in DOMAIN fs : f \notin {name, to} => gs[f] = fs[f]

LEMMA RenamedFacts ==
  ASSUME NEW fs, NEW name, NEW to
  PROVE  Moved(Renamed(fs, name, to), fs, name, to)
<1>1. /\ DOMAIN Removed(fs, name) = DOMAIN fs \ {name}
      /\ \A f \in DOMAIN fs : f # name => Removed(fs, name)[f] = fs[f]
  BY RemovedFacts
<1> DEFINE gs == Removed(fs, name)
<1> HIDE DEF gs
<1>2. /\ DOMAIN With(gs, to, fs[name]) = DOMAIN gs \union {to}
      /\ With(gs, to, fs[name])[to] = fs[name]
      /\ \A f \in DOMAIN gs : f # to => With(gs, to, fs[name])[f] = gs[f]
  BY DEF With
<1>3. Renamed(fs, name, to) = With(gs, to, fs[name])
  BY DEF Renamed, gs
<1>4. DOMAIN gs = DOMAIN fs \ {name} /\ \A f \in DOMAIN fs : f # name => gs[f] = fs[f]
  BY <1>1 DEF gs
<1> QED
  BY <1>2, <1>3, <1>4 DEF Moved

\* What may be stored under a name.
Fits(name, c) == /\ name \in Kinds \X Nat
                 /\ name[1] = "log" => c \in Seq(SUBSET Entries)
                 /\ name[1] = "table" => c \in Tabs

\* They keep its type.
LEMMA FilesWith ==
  ASSUME NEW fs, FilesOK(fs), NEW name, NEW c, Fits(name, c)
  PROVE  FilesOK(With(fs, name, c))
<1> DEFINE gs == With(fs, name, c)
<1>1. /\ DOMAIN gs = DOMAIN fs \union {name}
      /\ gs[name] = c
      /\ \A f \in DOMAIN fs : f # name => gs[f] = fs[f]
  BY DEF With
<1>2. gs = [f \in DOMAIN gs |-> gs[f]]
  BY DEF With
<1> HIDE DEF gs
<1>3. FilesOK(gs)
  BY <1>1, <1>2 DEF FilesOK, Fits
<1> QED
  BY <1>3 DEF gs

LEMMA FilesRestrict ==
  ASSUME NEW fs, FilesOK(fs), NEW S, S \subseteq DOMAIN fs
  PROVE  FilesOK(Restrict(fs, S))
<1> DEFINE gs == Restrict(fs, S)
<1>1. DOMAIN gs = S /\ \A f \in S : gs[f] = fs[f]
  BY RestrictFacts
<1>2. gs = [f \in DOMAIN gs |-> gs[f]]
  BY DEF Restrict
<1> HIDE DEF gs
<1>3. FilesOK(gs)
  BY <1>1, <1>2 DEF FilesOK
<1> QED
  BY <1>3 DEF gs

LEMMA FilesRemoved ==
  ASSUME NEW fs, FilesOK(fs), NEW name
  PROVE  FilesOK(Removed(fs, name))
BY FilesRestrict DEF Removed

LEMMA FilesFit ==
  ASSUME NEW fs, FilesOK(fs), NEW name \in DOMAIN fs
  PROVE  Fits(name, fs[name])
BY DEF FilesOK, Fits

LEMMA FilesRenamed ==
  ASSUME NEW fs, FilesOK(fs), NEW name, NEW to, Fits(to, fs[name])
  PROVE  FilesOK(Renamed(fs, name, to))
BY FilesRemoved, FilesWith DEF Renamed

LEMMA WholeFits ==
  ASSUME NEW data \in SUBSET Entries
  PROVE  Whole(data) \in Tabs /\ Whole(data).data = data /\ Whole(data).ok = TRUE
BY DEF Whole, Tabs

LEMMA UnfinishedFits ==
  Unfinished \in Tabs /\ Unfinished.data = {} /\ Unfinished.ok = FALSE
BY DEF Unfinished, Tabs

LEMMA FoundType ==
  ASSUME NEW c \in Seq(SUBSET Entries)
  PROVE  Found(c) \in SUBSET Entries
<1>1. \A i \in DOMAIN c : c[i] \in SUBSET Entries
  OBVIOUS
<1> QED
  BY <1>1 DEF Found, Range

\* EntriesIn, entry by entry.
LEMMA EntriesHeld ==
  ASSUME NEW fs, NEW e
  PROVE  e \in EntriesIn(fs) <=> \E f \in DOMAIN fs : Holds(fs, f, e)
<1>1. ASSUME NEW f \in DOMAIN fs
      PROVE  Holds(fs, f, e) <=>
               e \in IF f[1] = "log" THEN Found(fs[f])
                     ELSE IF f[1] = "table" THEN fs[f].data ELSE {}
  BY DEF Holds
<1> QED
  BY <1>1 DEF EntriesIn

LEMMA EmptyDomain == DOMAIN <<>> = {}
<1>1. <<>> \in Seq({}) /\ Len(<<>>) = 0
  BY EmptySeq
<1>2. DOMAIN <<>> = 1 .. Len(<<>>)
  BY <1>1, LenProperties
<1> QED
  BY <1>1, <1>2

-----------------------------------------------------------------------------
(* The database in use, its end, and damage. *)

\* Of the invariant, what says something while no Repairer is at work.
Idling == Typed /\ Bounded /\ Apart /\ Using

LEMMA IdlingIsAll ==
  ASSUME Idling, stage \in {"in use", "stopped"}
  PROVE  TInv
BY DEF TInv, Idling, Taken, Seen, Converting, Doubting, Copying, Kept, Accounted, Installing,
     Active, InDoubt, InCopy

LEMMA BatchType ==
  ASSUME NEW ks \in [1 .. 1 -> Key] \union [1 .. 2 -> Key], NEW last \in Nat,
         last + Len(ks) <= MaxWrites
  PROVE  /\ {[key |-> ks[i], seq |-> last + i, del |-> FALSE] : i \in DOMAIN ks} \in SUBSET Entries
         /\ last + Len(ks) \in Nat
<1>1. MaxWrites \in Nat
  BY RepairAssumption
<1>2. ks \in Seq(Key) /\ Len(ks) \in Nat /\ DOMAIN ks = 1 .. Len(ks)
  <2>1. ks \in Seq(Key)
    BY SeqDef
  <2> QED
    BY <2>1, LenProperties
<1>3. \A i \in DOMAIN ks : ks[i] \in Key /\ last + i \in 0 .. Huge
  BY <1>1, <1>2 DEF Huge
<1>4. \A i \in DOMAIN ks : [key |-> ks[i], seq |-> last + i, del |-> FALSE] \in Entries
  BY <1>3 DEF Entries, Entry
<1> QED
  BY <1>2, <1>4

LEMMA CommitKeeps ==
  ASSUME Idling, Commit
  PROVE  Idling'
<1>1. PICK ks \in [1 .. 1 -> Key] \union [1 .. 2 -> Key] :
        LET batch == {[key |-> ks[i], seq |-> db.last + i, del |-> FALSE] : i \in DOMAIN ks}
        IN  /\ InUse /\ db.last + Len(ks) <= MaxWrites
            /\ dir' = [dir EXCEPT ![Log(db.log)] = Append(@, batch)]
            /\ db' = [db EXCEPT !.last = @ + Len(ks)]
  BY DEF Commit
<1> DEFINE batch == {[key |-> ks[i], seq |-> db.last + i, del |-> FALSE] : i \in DOMAIN ks}
           name == Log(db.log)
<1>2. /\ stage = "in use" /\ stage' = "in use"
      /\ UNCHANGED <<lost, r, failures, damages, faults>>
  BY <1>1 DEF InUse, bounds
<1>3. db \in DatabaseType /\ FilesOK(dir) /\ name \in DOMAIN dir
  BY <1>2 DEF Idling, Typed, Using
<1>4. batch \in SUBSET Entries /\ db.last + Len(ks) \in Nat
  BY <1>1, <1>3, BatchType DEF DatabaseType
<1>5. dir[name] \in Seq(SUBSET Entries)
  BY <1>3 DEF FilesOK, Log
<1>6. Append(dir[name], batch) \in Seq(SUBSET Entries)
  BY <1>4, <1>5
<1>7. dir' = [dir EXCEPT ![name] = Append(dir[name], batch)]
  BY <1>1
<1>8. /\ DOMAIN dir' = DOMAIN dir
      /\ FilesOK(dir)'
  <2> HIDE DEF batch, name
  <2> QED
    BY <1>3, <1>6, <1>7, name[1] = "log" DEF FilesOK, name, Log
<1>9. /\ db' \in DatabaseType /\ db'.log = db.log /\ db'.full = db.full /\ db'.tables = db.tables
      /\ db'.merging = db.merging /\ db'.obsolete = db.obsolete /\ db'.next = db.next
      /\ db'.last = db.last + Len(ks)
  BY <1>1, <1>3, <1>4 DEF DatabaseType
<1>10. Typed'
  BY <1>2, <1>8, <1>9 DEF Idling, Typed
<1>11. Bounded' /\ Apart'
  BY <1>2, <1>8 DEF Idling, Bounded, Apart
<1>12. Using'
  BY <1>1, <1>2, <1>8, <1>9 DEF Idling, Using
<1> QED
  BY <1>10, <1>11, <1>12 DEF Idling

LEMMA SwitchLogKeeps ==
  ASSUME Idling, SwitchLog
  PROVE  Idling'
<1> DEFINE name == Log(db.next)
<1>1. /\ stage = "in use" /\ stage' = "in use" /\ db.full = 0
      /\ UNCHANGED <<lost, r, failures, damages, faults>>
      /\ dir' = With(dir, name, <<>>)
      /\ db' = [db EXCEPT !.full = db.log, !.log = db.next, !.next = @ + 1]
  BY DEF SwitchLog, InUse, bounds
<1>2. /\ db \in DatabaseType /\ FilesOK(dir) /\ db.next \in Nat
      /\ \A f \in DOMAIN dir \union db.obsolete : f[2] < db.next
      /\ lost = <<>> /\ Log(db.log) \in DOMAIN dir
  BY <1>1 DEF Idling, Typed, Using, DatabaseType
<1>3. Fits(name, <<>>) /\ name[1] = "log" /\ name[2] = db.next
  BY <1>2, EmptySeq DEF Fits, Log, Kinds
<1>4. FilesOK(With(dir, name, <<>>))
  <2> HIDE DEF name
  <2> QED
    BY <1>2, <1>3, FilesWith
<1>5. FilesOK(dir')
  BY <1>1, <1>4
<1>6. DOMAIN dir' = DOMAIN dir \union {name}
  BY <1>1 DEF With
<1>7. /\ db' \in DatabaseType /\ db'.log = db.next /\ db'.full = db.log /\ db'.tables = db.tables
      /\ db'.merging = db.merging /\ db'.obsolete = db.obsolete /\ db'.next = db.next + 1
      /\ db'.last = db.last
  <2>1. db.log \in Nat /\ db.next \in Nat /\ db.next + 1 \in Nat
    BY <1>2 DEF DatabaseType
  <2> QED
    BY <1>1, <1>2, <2>1 DEF DatabaseType
<1>8. Typed'
  BY <1>1, <1>5, <1>7 DEF Idling, Typed
<1>9. \A f \in DOMAIN dir' \union db'.obsolete : f[2] < db'.next
  BY <1>2, <1>3, <1>6, <1>7 DEF DatabaseType, FilesOK, Kinds
<1>10. Bounded' /\ Apart'
  <2>1. db'.next \in Nat
    BY <1>7 DEF DatabaseType
  <2>2. \A f \in DOMAIN dir' : f[2] < db'.next
    BY <1>9
  <2>3. Bounded'
    BY <2>1, <2>2 DEF Bounded
  <2>4. DOMAIN lost' = {}
    BY <1>1, <1>2, EmptyDomain
  <2> QED
    BY <2>3, <2>4 DEF Apart
<1>11. Log(db.log)[2] = db.log /\ db.log < db.next /\ name \notin db.obsolete
  BY <1>2, <1>3 DEF Log
<1>12. Using'
  <2>1. db.log \in Nat
    BY <1>2 DEF DatabaseType
  <2>2. Log(db'.full) \in DOMAIN dir' /\ Log(db'.full) \notin db'.obsolete /\ db'.full # db'.log
    <3>1. Log(db.log) \in DOMAIN dir /\ Log(db.log) \notin db.obsolete
      BY <1>1 DEF Idling, Using
    <3>2. db.log # db.next
      BY <1>2, <1>11, <2>1
    <3> QED
      BY <1>6, <1>7, <3>1, <3>2
  <2>3. Log(db'.log) \in DOMAIN dir' /\ Log(db'.log) \notin db'.obsolete
    BY <1>6, <1>7, <1>11
  <2>4. /\ \A n \in db'.tables : Table(n) \in DOMAIN dir' /\ Table(n) \notin db'.obsolete
        /\ db'.merging \subseteq db'.tables
        /\ db'.last <= MaxWrites
    BY <1>1, <1>6, <1>7 DEF Idling, Using
  <2> QED
    BY <1>1, <1>2, <1>9, <2>2, <2>3, <2>4 DEF Using
<1> QED
  BY <1>8, <1>10, <1>12 DEF Idling

\* What the flush of a log and the merge of tables have in common: the obsolete
\* files go and a table is added.
LEMMA TableAddedKeeps ==
  ASSUME Idling, InUse, NEW data \in SUBSET Entries,
         dir' = With(Restrict(dir, DOMAIN dir \ db.obsolete), Table(db.next), Whole(data)),
         db' \in DatabaseType, db'.next = db.next + 1, db'.last = db.last, db'.log = db.log,
         db'.full \in {0, db.full},
         db'.tables \subseteq db.tables \union {db.next}, db'.merging \subseteq db'.tables,
         \A f \in db'.obsolete : f \in DOMAIN dir /\ f \notin db.obsolete,
         Log(db'.log) \notin db'.obsolete, db'.full # 0 => Log(db'.full) \notin db'.obsolete,
         \A n \in db'.tables : Table(n) \notin db'.obsolete
  PROVE  Idling'
<1> DEFINE name == Table(db.next)
           kept == Restrict(dir, DOMAIN dir \ db.obsolete)
<1>1. /\ stage = "in use" /\ stage' = "in use"
      /\ UNCHANGED <<lost, r, failures, damages, faults>>
  BY DEF InUse, bounds
<1>2. /\ db \in DatabaseType /\ FilesOK(dir) /\ db.next \in Nat
      /\ \A f \in DOMAIN dir \union db.obsolete : f[2] < db.next
      /\ lost = <<>>
  BY <1>1 DEF Idling, Typed, Using, DatabaseType
<1>3. Fits(name, Whole(data)) /\ name[1] = "table" /\ name[2] = db.next
  BY <1>2, WholeFits DEF Fits, Table, Kinds
<1>4. FilesOK(kept) /\ DOMAIN kept = DOMAIN dir \ db.obsolete
  BY <1>2, FilesRestrict, RestrictFacts
<1>5. FilesOK(With(kept, name, Whole(data)))
  <2> HIDE DEF name, kept
  <2> QED
    BY <1>3, <1>4, FilesWith
<1>6. FilesOK(dir')
  BY <1>5
<1>7. DOMAIN dir' = (DOMAIN dir \ db.obsolete) \union {name}
  BY <1>4 DEF With
<1>8. Typed'
  BY <1>1, <1>6 DEF Idling, Typed
<1>9. \A f \in DOMAIN dir' \union db'.obsolete : f[2] < db'.next
  <2>1. \A f \in DOMAIN dir' \union db'.obsolete : f \in DOMAIN dir \/ f = name
    BY <1>7
  <2>2. DOMAIN dir \subseteq Kinds \X Nat
    BY <1>2 DEF FilesOK
  <2> HIDE DEF name
  <2>3. ASSUME NEW f \in DOMAIN dir' \union db'.obsolete PROVE f[2] < db'.next
    <3>1. CASE f = name
      BY <1>2, <1>3, <3>1
    <3>2. CASE f \in DOMAIN dir
      <4>1. f[2] < db.next /\ f[2] \in Nat
        BY <1>2, <2>2, <3>2
      <4> QED
        BY <1>2, <4>1
    <3> QED
      BY <2>1, <3>1, <3>2
  <2> QED
    BY <2>3
<1>10. Bounded' /\ Apart'
  <2>1. db'.next \in Nat
    BY DEF DatabaseType
  <2>2. \A f \in DOMAIN dir' : f[2] < db'.next
    BY <1>9
  <2>3. Bounded'
    BY <2>1, <2>2 DEF Bounded
  <2>4. DOMAIN lost' = {}
    BY <1>1, <1>2, EmptyDomain
  <2> QED
    BY <2>3, <2>4 DEF Apart
<1>11. Using'
  <2>1. Log(db'.log) \in DOMAIN dir'
    BY <1>1, <1>7 DEF Idling, Using
  <2>2. db'.full # 0 => Log(db'.full) \in DOMAIN dir' /\ db'.full # db'.log
    BY <1>1, <1>7 DEF Idling, Using
  <2>3. \A n \in db'.tables : Table(n) \in DOMAIN dir'
    BY <1>1, <1>7 DEF Idling, Using
  <2>4. db'.last <= MaxWrites
    BY <1>1 DEF Idling, Using
  <2> QED
    BY <1>1, <1>2, <1>9, <2>1, <2>2, <2>3, <2>4 DEF Using
<1> QED
  BY <1>8, <1>10, <1>11 DEF Idling

LEMMA FlushLogKeeps ==
  ASSUME Idling, FlushLog
  PROVE  Idling'
<1> DEFINE data == Found(dir[Log(db.full)])
<1>1. /\ InUse /\ db.full # 0
      /\ dir' = With(Restrict(dir, DOMAIN dir \ db.obsolete), Table(db.next), Whole(data))
      /\ db' = [db EXCEPT !.tables = @ \union {db.next}, !.next = @ + 1, !.full = 0,
                          !.obsolete = {Log(db.full)}]
  BY DEF FlushLog
<1>2. db \in DatabaseType /\ stage = "in use" /\ FilesOK(dir)
  BY <1>1 DEF Idling, Typed, InUse
<1>3. /\ Log(db.full) \in DOMAIN dir /\ Log(db.full) \notin db.obsolete /\ db.full # db.log
      /\ db.merging \subseteq db.tables
  BY <1>1, <1>2 DEF Idling, Using
<1>4. dir[Log(db.full)] \in Seq(SUBSET Entries) /\ Log(db.full) \in Kinds \X Nat
  BY <1>2, <1>3 DEF FilesOK, Log
<1>5. data \in SUBSET Entries
  BY <1>4, FoundType
<1>6. /\ db' \in DatabaseType /\ db'.log = db.log /\ db'.full = 0
      /\ db'.tables = db.tables \union {db.next} /\ db'.merging = db.merging
      /\ db'.obsolete = {Log(db.full)} /\ db'.next = db.next + 1 /\ db'.last = db.last
  <2>1. db.next + 1 \in Nat /\ db.tables \union {db.next} \in SUBSET Nat
    <3>1. db.next \in Nat /\ db.tables \in SUBSET Nat
      BY <1>2 DEF DatabaseType
    <3> QED
      BY <3>1
  <2>2. {Log(db.full)} \in SUBSET (Kinds \X Nat)
    BY <1>4
  <2> QED
    BY <1>1, <1>2, <2>1, <2>2 DEF DatabaseType
<1>7. Log(db.log) # Log(db.full) /\ \A n \in db'.tables : Table(n) # Log(db.full)
  BY <1>3 DEF Log, Table
<1> QED
  BY <1>1, <1>3, <1>5, <1>6, <1>7, TableAddedKeeps

LEMMA FinishMergeKeeps ==
  ASSUME Idling, FinishMerge
  PROVE  Idling'
<1> DEFINE data == UNION {dir[Table(n)].data : n \in db.merging}
           newest == {e \in data : ~\E x \in data : x.key = e.key /\ x.seq > e.seq}
<1>1. /\ InUse /\ db.merging # {}
      /\ dir' = With(Restrict(dir, DOMAIN dir \ db.obsolete), Table(db.next), Whole(newest))
      /\ db' = [db EXCEPT !.tables = (@ \ db.merging) \union {db.next}, !.next = @ + 1,
                          !.merging = {}, !.obsolete = {Table(n) : n \in db.merging}]
  BY DEF FinishMerge
<1>2. db \in DatabaseType /\ stage = "in use" /\ FilesOK(dir)
  BY <1>1 DEF Idling, Typed, InUse
<1>3. /\ \A n \in db.merging : Table(n) \in DOMAIN dir /\ Table(n) \notin db.obsolete
      /\ \A f \in DOMAIN dir : f[2] < db.next
      /\ db.merging \subseteq Nat
  BY <1>1, <1>2 DEF Idling, Using, DatabaseType
<1>4. \A n \in db.merging : dir[Table(n)] \in Tabs /\ Table(n) \in Kinds \X Nat
  BY <1>2, <1>3 DEF FilesOK, Table
<1>5. newest \in SUBSET Entries
  <2>1. \A n \in db.merging : dir[Table(n)].data \in SUBSET Entries
    BY <1>4 DEF Tabs
  <2>2. data \in SUBSET Entries
    BY <2>1
  <2> HIDE DEF data
  <2> QED
    BY <2>2
<1> HIDE DEF newest
<1>6. /\ db' \in DatabaseType /\ db'.log = db.log /\ db'.full = db.full
      /\ db'.tables = (db.tables \ db.merging) \union {db.next} /\ db'.merging = {}
      /\ db'.obsolete = {Table(n) : n \in db.merging}
      /\ db'.next = db.next + 1 /\ db'.last = db.last
  <2>1. {Table(n) : n \in db.merging} \in SUBSET (Kinds \X Nat)
    BY <1>4
  <2>2. db.next + 1 \in Nat /\ (db.tables \ db.merging) \union {db.next} \in SUBSET Nat
    <3>1. db.next \in Nat /\ db.tables \in SUBSET Nat
      BY <1>2 DEF DatabaseType
    <3> QED
      BY <3>1
  <2> QED
    BY <1>1, <1>2, <2>1, <2>2 DEF DatabaseType
<1>7. \A n \in db'.tables : Table(n) \notin db'.obsolete
  <2>1. ASSUME NEW n \in db'.tables, NEW m \in db.merging, Table(n) = Table(m) PROVE FALSE
    <3>1. n = m
      BY <2>1 DEF Table
    <3>2. m # db.next
      <4>1. Table(m)[2] = m /\ Table(m)[2] < db.next /\ m \in Nat
        BY <1>3 DEF Table
      <4>2. db.next \in Nat
        BY <1>2 DEF DatabaseType
      <4> QED
        BY <4>1, <4>2
    <3> QED
      BY <1>6, <2>1, <3>1, <3>2
  <2> QED
    BY <1>6, <2>1
<1>8. \A n \in Nat : Log(n) \notin db'.obsolete
  BY <1>6 DEF Log, Table
<1>9. \A f \in db'.obsolete : f \in DOMAIN dir /\ f \notin db.obsolete
  BY <1>3, <1>6
<1>10. db'.log \in Nat /\ db'.full \in Nat
  BY <1>6 DEF DatabaseType
<1> QED
  BY <1>1, <1>5, <1>6, <1>7, <1>8, <1>9, <1>10, TableAddedKeeps

LEMMA StartMergeKeeps ==
  ASSUME Idling, StartMerge
  PROVE  Idling'
<1>1. /\ stage = "in use" /\ stage' = "in use"
      /\ UNCHANGED <<dir, lost, r, failures, damages, faults>>
      /\ db' = [db EXCEPT !.merging = db.tables]
  BY DEF StartMerge, InUse, bounds
<1>2. db \in DatabaseType
  BY DEF Idling, Typed
<1>3. /\ db' \in DatabaseType /\ db'.log = db.log /\ db'.full = db.full /\ db'.tables = db.tables
      /\ db'.merging = db.tables /\ db'.obsolete = db.obsolete /\ db'.next = db.next
      /\ db'.last = db.last
  BY <1>1, <1>2 DEF DatabaseType
<1>4. Typed' /\ Bounded' /\ Apart'
  BY <1>1, <1>3 DEF Idling, Typed, Bounded, Apart
<1>5. Using'
  BY <1>1, <1>3 DEF Idling, Using
<1> QED
  BY <1>4, <1>5 DEF Idling

LEMMA IdleType == Idle \in DatabaseType
BY DEF Idle, DatabaseType

LEMMA StopKeeps ==
  ASSUME Idling, Stop
  PROVE  Idling' /\ stage' = "stopped"
<1>1. PICK gone \in SUBSET db.obsolete : dir' = Restrict(dir, DOMAIN dir \ gone)
  BY DEF Stop
<1>2. /\ stage' = "stopped" /\ db' = Idle
      /\ UNCHANGED <<lost, r, failures, damages, faults>>
  BY DEF Stop, bounds
<1>3. FilesOK(dir')
  BY <1>1, FilesRestrict DEF Idling, Typed
<1>4. DOMAIN dir' \subseteq DOMAIN dir
  BY <1>1, RestrictFacts
<1>5. Typed'
  BY <1>2, <1>3, IdleType DEF Idling, Typed, Stages
<1>6. Bounded' /\ Apart' /\ Using'
  BY <1>2, <1>4 DEF Idling, Bounded, Apart, Using
<1> QED
  BY <1>2, <1>5, <1>6 DEF Idling

LEMMA DamageKeeps ==
  ASSUME Idling, Damage
  PROVE  Idling' /\ stage' = "stopped"
<1>1. /\ stage = "stopped" /\ stage' = "stopped" /\ damages < MaxDamages
      /\ damages' = damages + 1
      /\ UNCHANGED <<lost, db, r, failures, faults>>
  BY DEF Damage
<1>2. FilesOK(dir)
  BY DEF Idling, Typed
<1>3. FilesOK(dir') /\ DOMAIN dir' = DOMAIN dir
  <2>1. CASE \E f \in Names("table") : \E rest \in SUBSET dir[f].data \ {dir[f].data} :
               dir' = [dir EXCEPT ![f] = [data |-> rest, ok |-> FALSE]]
    <3>1. PICK f \in Names("table") : \E rest \in SUBSET dir[f].data \ {dir[f].data} :
                 dir' = [dir EXCEPT ![f] = [data |-> rest, ok |-> FALSE]]
      BY <2>1
    <3>2. PICK rest \in SUBSET dir[f].data : dir' = [dir EXCEPT ![f] = [data |-> rest, ok |-> FALSE]]
      BY <3>1
    <3>3. f \in DOMAIN dir /\ f[1] = "table"
      BY DEF Names, GetChildren
    <3>4. dir[f].data \in SUBSET Entries
      BY <1>2, <3>3 DEF FilesOK, Tabs
    <3>5. [data |-> rest, ok |-> FALSE] \in Tabs
      BY <3>4 DEF Tabs
    <3> QED
      BY <1>2, <3>2, <3>3, <3>5 DEF FilesOK
  <2>2. CASE \E f \in Names("log") : \E i \in DOMAIN dir[f] :
               \E batch \in (SUBSET dir[f][i] \ {dir[f][i]}) \union
                            {{[e EXCEPT !.seq = Huge] : e \in dir[f][i]}} :
                 dir' = [dir EXCEPT ![f][i] = batch]
    <3>1. PICK f \in Names("log") : \E i \in DOMAIN dir[f] :
               \E batch \in (SUBSET dir[f][i] \ {dir[f][i]}) \union
                            {{[e EXCEPT !.seq = Huge] : e \in dir[f][i]}} :
                 dir' = [dir EXCEPT ![f][i] = batch]
      BY <2>2
    <3>2. PICK i \in DOMAIN dir[f] :
               \E batch \in (SUBSET dir[f][i] \ {dir[f][i]}) \union
                            {{[e EXCEPT !.seq = Huge] : e \in dir[f][i]}} :
                 dir' = [dir EXCEPT ![f][i] = batch]
      BY <3>1
    <3>3. PICK batch \in (SUBSET dir[f][i] \ {dir[f][i]}) \union
                         {{[e EXCEPT !.seq = Huge] : e \in dir[f][i]}} :
                 dir' = [dir EXCEPT ![f][i] = batch]
      BY <3>2
    <3>4. f \in DOMAIN dir /\ f[1] = "log"
      BY DEF Names, GetChildren
    <3>5. dir[f] \in Seq(SUBSET Entries)
      BY <1>2, <3>4 DEF FilesOK
    <3>6. DOMAIN dir[f] = 1 .. Len(dir[f]) /\ dir[f][i] \in SUBSET Entries
      BY <3>5, LenProperties
    <3>7. Huge \in 0 .. Huge
      BY RepairAssumption DEF Huge
    <3>8. \A e \in dir[f][i] : [e EXCEPT !.seq = Huge] \in Entries
      BY <3>6, <3>7 DEF Entries, Entry
    <3>9. batch \in SUBSET Entries
      BY <3>6, <3>8
    <3>10. [dir[f] EXCEPT ![i] = batch] \in Seq(SUBSET Entries)
      BY <3>5, <3>6, <3>9, ExceptSeq
    <3>11. dir' = [dir EXCEPT ![f] = [dir[f] EXCEPT ![i] = batch]]
      BY <3>3
    <3> QED
      BY <1>2, <3>4, <3>10, <3>11 DEF FilesOK
  <2> QED
    BY <2>1, <2>2 DEF Damage
<1>4. damages' \in 0 .. MaxDamages
  BY <1>1, RepairAssumption DEF Idling, Typed
<1>5. Typed'
  BY <1>1, <1>3, <1>4 DEF Idling, Typed
<1>6. Bounded' /\ Apart' /\ Using'
  BY <1>1, <1>3 DEF Idling, Bounded, Apart, Using
<1> QED
  BY <1>1, <1>5, <1>6 DEF Idling

LEMMA UseKeeps ==
  ASSUME TInv, Use \/ Stop \/ Damage
  PROVE  TInv'
<1>1. Idling
  BY DEF TInv, Idling
<1>2. Idling' /\ stage' \in {"in use", "stopped"}
  <2>1. CASE Use
    <3>1. stage' = "in use"
      BY <2>1 DEF Use, Commit, SwitchLog, FlushLog, StartMerge, FinishMerge, InUse
    <3>2. Idling'
      BY <1>1, <2>1, CommitKeeps, SwitchLogKeeps, FlushLogKeeps, StartMergeKeeps, FinishMergeKeeps
         DEF Use
    <3> QED
      BY <3>1, <3>2
  <2>2. CASE Stop
    BY <1>1, <2>2, StopKeeps
  <2>3. CASE Damage
    BY <1>1, <2>3, DamageKeeps
  <2> QED
    BY <2>1, <2>2, <2>3
<1> QED
  BY <1>2 DEF TInv, Idling, Taken, Seen, Converting, Doubting, Copying, Kept, Accounted, Installing,
     Active, InDoubt, InCopy

-----------------------------------------------------------------------------
(* The Repairer. *)

\* The names of files.
LEMMA NameParts ==
  ASSUME NEW fs, FilesOK(fs), NEW f \in DOMAIN fs
  PROVE  f = <<f[1], f[2]>> /\ f[1] \in Kinds /\ f[2] \in Nat
BY DEF FilesOK

LEMMA NamesDiffer ==
  ASSUME NEW n, NEW m
  PROVE  /\ Log(n) = Log(m) <=> n = m
         /\ Table(n) = Table(m) <=> n = m
         /\ Manifest(n) = Manifest(m) <=> n = m
         /\ Log(n) # Table(m) /\ Log(n) # Manifest(m) /\ Log(n) # Temp(m)
         /\ Table(n) # Manifest(m) /\ Table(n) # Temp(m) /\ Manifest(n) # Temp(m)
         /\ Log(n)[1] = "log" /\ Table(n)[1] = "table" /\ Manifest(n)[1] = "manifest"
         /\ Temp(n)[1] = "temp"
         /\ Log(n)[2] = n /\ Table(n)[2] = n /\ Manifest(n)[2] = n /\ Temp(n)[2] = n
BY DEF Log, Table, Manifest, Temp

LEMMA NamesTyped ==
  ASSUME NEW n \in Nat
  PROVE  {Log(n), Table(n), Manifest(n), Temp(n)} \subseteq Kinds \X Nat
BY DEF Log, Table, Manifest, Temp, Kinds

LEMMA NumbersAre ==
  ASSUME NEW kind, FilesOK(dir)
  PROVE  /\ Numbers(kind) \in SUBSET Nat
         /\ \A n \in Nat : n \in Numbers(kind) <=> <<kind, n>> \in DOMAIN dir
<1>1. \A f \in DOMAIN dir : f = <<f[1], f[2]>> /\ f[2] \in Nat
  BY NameParts
<1>2. ASSUME NEW n, n \in Numbers(kind) PROVE n \in Nat /\ <<kind, n>> \in DOMAIN dir
  <2>1. PICK f \in DOMAIN dir : f[1] = kind /\ f[2] = n
    BY <1>2 DEF Numbers, Names, GetChildren
  <2> QED
    BY <1>1, <2>1
<1>3. ASSUME NEW n \in Nat, <<kind, n>> \in DOMAIN dir PROVE n \in Numbers(kind)
  <2>1. <<kind, n>> \in Names(kind)
    BY <1>3 DEF Names, GetChildren
  <2>2. <<kind, n>>[2] = n
    OBVIOUS
  <2> QED
    BY <2>1, <2>2 DEF Numbers
<1> QED
  BY <1>2, <1>3

LEMMA FailuresCount ==
  ASSUME failures \in Nat, Fails
  PROVE  failures' \in Nat /\ failures' = failures + 1 /\ failures' > 0 /\ failures' # 0
BY DEF Fails

\* An operation that succeeds or fails stays within the bounds.
LEMMA OutcomeTyped ==
  ASSUME TInv, Succeeds \/ Fails
  PROVE  /\ failures \in Nat /\ failures' \in Nat /\ failures' \in {failures, failures + 1}
         /\ failures' = 0 => failures = 0 /\ Succeeds
         /\ failures' < 2 => failures < 2
         /\ failures = 0 /\ failures' > 0 => Fails
         /\ damages' \in 0 .. MaxDamages /\ faults' \in 0 .. MaxFailures
<1>1. /\ failures \in Nat /\ damages \in 0 .. MaxDamages /\ faults \in 0 .. MaxFailures
      /\ MaxFailures \in Nat
  BY RepairAssumption DEF TInv, Typed
<1>2. CASE Succeeds
  BY <1>1, <1>2 DEF Succeeds, bounds
<1>3. CASE Fails
  <2>1. faults < MaxFailures /\ faults' = faults + 1 /\ failures' = failures + 1
        /\ UNCHANGED damages
    BY <1>3 DEF Fails
  <2>2. faults' \in 0 .. MaxFailures
    BY <1>1, <2>1
  <2>3. failures' \in Nat /\ failures' # 0 /\ (failures' < 2 => failures < 2)
    BY <1>1, <2>1
  <2>4. failures' \in {failures, failures + 1} /\ damages' \in 0 .. MaxDamages
    BY <1>1, <2>1
  <2> QED
    BY <1>1, <1>3, <2>2, <2>3, <2>4, Zenon
<1> QED
  BY <1>2, <1>3

\* A step that takes nothing away that can be read, and leaves lost/ alone.
LEMMA KeptStays ==
  ASSUME Kept, stage \notin {"in use", "stopped"}, stage' \notin {"in use", "stopped"},
         FilesOK(lost), had' = had, lost' = lost, failures' < 2 => failures < 2,
         \A f \in DOMAIN dir :
           (f \in DOMAIN dir' /\ dir'[f] = dir[f]) \/ (\A e \in had : ~Holds(dir, f, e)),
         Active' => Active,
         \A n \in Nat : Active' /\ Pending(n)' => Pending(n)
  PROVE  Kept'
<1>1. ASSUME NEW e \in had, failures' < 2
      PROVE  \/ \E f \in DOMAIN dir' : Holds(dir', f, e)
             \/ \E f \in DOMAIN lost' : /\ Holds(lost', f, e)
                                        /\ Active' /\ f[1] = "table" => ~Pending(f[2])'
  <2>1. CASE \E f \in DOMAIN dir : Holds(dir, f, e)
    <3>1. PICK f \in DOMAIN dir : Holds(dir, f, e)
      BY <2>1
    <3>2. f \in DOMAIN dir' /\ dir'[f] = dir[f]
      BY <3>1
    <3>3. Holds(dir', f, e)
      BY <3>1, <3>2 DEF Holds
    <3> QED
      BY <3>2, <3>3
  <2>2. CASE \E f \in DOMAIN lost : /\ Holds(lost, f, e)
                                    /\ Active /\ f[1] = "table" => ~Pending(f[2])
    <3>1. PICK f \in DOMAIN lost : /\ Holds(lost, f, e)
                                   /\ Active /\ f[1] = "table" => ~Pending(f[2])
      BY <2>2
    <3>2. f[2] \in Nat
      BY NameParts
    <3>3. Active' /\ f[1] = "table" => ~Pending(f[2])'
      BY <3>1, <3>2
    <3>4. Holds(lost', f, e) /\ f \in DOMAIN lost'
      BY <3>1
    <3> QED
      BY <3>3, <3>4
  <2> QED
    BY <1>1, <2>1, <2>2 DEF Kept
<1> QED
  BY <1>1 DEF Kept

LEMMA NewRepairerType == NewRepairer \in RepairerType
BY DEF NewRepairer, RepairerType

LEMMA FindFilesKeeps ==
  ASSUME TInv, FindFiles
  PROVE  TInv'
<1> DEFINE all == Numbers("log") \union Numbers("table") \union Numbers("temp")
<1>1. /\ stage \in {"stopped", "ended", "error"} /\ stage' = "logs"
      /\ r' = [NewRepairer EXCEPT
                 !.logs = Numbers("log"), !.numbers = Numbers("table"),
                 !.manifests = Numbers("manifest"), !.next = NextNumber(all)]
      /\ had' = EntriesIn(dir) /\ failures' = 0
      /\ UNCHANGED <<dir, lost, current, db, damages, faults>>
  BY DEF FindFiles, files, bounds
<1>2. FilesOK(dir) /\ Bounded
  BY DEF TInv, Typed
<1>3. PICK b \in Nat : \A f \in DOMAIN dir : f[2] < b
  BY <1>2 DEF Bounded
<1>4. /\ \A kind : Numbers(kind) \in SUBSET Nat
      /\ \A kind : \A n \in Nat : n \in Numbers(kind) <=> <<kind, n>> \in DOMAIN dir
  BY <1>2, NumbersAre
<1>5. \A kind : \A n \in Numbers(kind) : n < b
  <2>1. ASSUME NEW kind, NEW n \in Numbers(kind) PROVE n < b
    <3>1. <<kind, n>> \in DOMAIN dir
      BY <1>4
    <3>2. <<kind, n>>[2] = n
      OBVIOUS
    <3> QED
      BY <1>3, <3>1, <3>2
  <2> QED
    BY <2>1
<1>6. NextNumber(all) \in Nat \ {0} /\ \A n \in all : n < NextNumber(all)
  <2>1. all \subseteq Nat /\ \A n \in all : n < b
    BY <1>4, <1>5
  <2> HIDE DEF all
  <2> QED
    BY <2>1, NextNumberAbove
<1>7. /\ r' \in RepairerType
      /\ r'.logs = Numbers("log") /\ r'.numbers = Numbers("table") /\ r'.tables = {}
      /\ r'.next = NextNumber(all) /\ r'.copy = 0
  <2> HIDE DEF all
  <2> QED
    BY <1>1, <1>4, <1>6, NewRepairerType DEF NewRepairer, RepairerType
<1>8. NextNumber(all) > 0
  BY <1>6
<1>9. Typed'
  BY <1>1, <1>6, <1>7, <1>8 DEF TInv, Typed, Stages
<1>10. Bounded' /\ Apart' /\ Using'
  BY <1>1 DEF TInv, Bounded, Apart, Using
<1>11. Taken'
  <2>1. \A n \in r'.logs : Log(n) \in DOMAIN dir'
    BY <1>1, <1>4, <1>7 DEF Log
  <2>2. \A n \in r'.numbers : Table(n) \in DOMAIN dir'
    BY <1>1, <1>4, <1>7 DEF Table
  <2>3. \A f \in DOMAIN dir' : f[1] \in {"log", "table"} => f[2] < r'.next
    <3>1. ASSUME NEW f \in DOMAIN dir, f[1] \in {"log", "table"} PROVE f[2] < r'.next
      <4>1. f = <<f[1], f[2]>> /\ f[2] \in Nat
        BY <1>2, NameParts
      <4>2. f[2] \in Numbers(f[1])
        BY <1>4, <4>1
      <4>3. f[2] \in all
        BY <3>1, <4>2
      <4> QED
        BY <1>6, <1>7, <4>3
    <3> QED
      BY <1>1, <3>1
  <2> QED
    BY <1>1, <1>7, <2>1, <2>2, <2>3 DEF Taken
<1>12. Converting' /\ Doubting' /\ Copying' /\ Installing'
  BY <1>1 DEF Converting, Doubting, Copying, Installing, InDoubt, InCopy
<1>13. Kept'
  <2>1. ASSUME NEW e \in had' PROVE \E f \in DOMAIN dir' : Holds(dir', f, e)
    BY <1>1, EntriesHeld
  <2> QED
    BY <2>1 DEF Kept
<1>14. Seen'
  BY <1>7 DEF Seen
<1>15. Accounted'
  <2>1. ASSUME NEW e
        PROVE  e \in had' <=> \/ \E n \in Numbers("log") : e \in Found(dir[Log(n)])
                              \/ \E n \in Numbers("table") : e \in dir[Table(n)].data
    <3>1. e \in had' <=> \E f \in DOMAIN dir : Holds(dir, f, e)
      BY <1>1, EntriesHeld
    <3>2. ASSUME NEW f \in DOMAIN dir, Holds(dir, f, e)
          PROVE  \/ \E n \in Numbers("log") : e \in Found(dir[Log(n)])
                 \/ \E n \in Numbers("table") : e \in dir[Table(n)].data
      <4>1. f = <<f[1], f[2]>> /\ f[2] \in Nat
        BY <1>2, NameParts
      <4>2. f[2] \in Numbers(f[1])
        BY <1>4, <4>1
      <4> QED
        BY <3>2, <4>1, <4>2 DEF Holds, Log, Table
    <3>3. ASSUME NEW n \in Numbers("log"), e \in Found(dir[Log(n)])
          PROVE  \E f \in DOMAIN dir : Holds(dir, f, e)
      <4>1. Log(n) \in DOMAIN dir /\ Log(n)[1] = "log"
        BY <1>4 DEF Log
      <4> QED
        BY <3>3, <4>1 DEF Holds
    <3>4. ASSUME NEW n \in Numbers("table"), e \in dir[Table(n)].data
          PROVE  \E f \in DOMAIN dir : Holds(dir, f, e)
      <4>1. Table(n) \in DOMAIN dir /\ Table(n)[1] = "table"
        BY <1>4 DEF Table
      <4> QED
        BY <3>4, <4>1 DEF Holds
    <3> QED
      BY <3>1, <3>2, <3>3, <3>4
  <2>2. InHand' = {}
    BY <1>1 DEF InHand, InDoubt
  <2>3. had' = (UNION {Found(dir[Log(n)]) : n \in Numbers("log")}) \union
               (UNION {dir[Table(n)].data : n \in Numbers("table")})
    BY <2>1
  <2> QED
    BY <1>1, <1>7, <2>2, <2>3 DEF Accounted
<1> QED
  BY <1>9, <1>10, <1>11, <1>12, <1>13, <1>14, <1>15 DEF TInv

LEMMA ConvertLogKeeps ==
  ASSUME TInv, NEW n \in r.logs, ConvertLog(n)
  PROVE  TInv'
<1> DEFINE new == Table(r.next)
<1>0. PICK found \in 0 .. Len(dir[Log(n)]) :
        LET data == Found(SubSeq(dir[Log(n)], 1, found))
        IN  /\ IF found = Len(dir[Log(n)]) THEN Succeeds ELSE Fails
            /\ r' = [r EXCEPT !.at = n, !.next = @ + 1, !.copy = r.next, !.read = data]
            /\ IF data = {} THEN UNCHANGED dir
               ELSE dir' = With(dir, Table(r.next), Unfinished)
  BY DEF ConvertLog
<1> DEFINE data == Found(SubSeq(dir[Log(n)], 1, found))
<1>1. /\ stage = "logs" /\ stage' = "build" /\ (Succeeds \/ Fails)
      /\ r' = [r EXCEPT !.at = n, !.next = @ + 1, !.copy = r.next, !.read = data]
      /\ IF data = {} THEN UNCHANGED dir ELSE dir' = With(dir, new, Unfinished)
      /\ UNCHANGED <<lost, current, db, had>>
  BY <1>0 DEF ConvertLog, Goes
<1>15. data \in SUBSET Entries /\ (failures' = 0 => data = Found(dir[Log(n)]))
  <2>1. Log(n) \in DOMAIN dir /\ Log(n)[1] = "log" /\ FilesOK(dir)
    BY <1>1, NamesDiffer DEF TInv, Taken, Active, Typed
  <2>2. dir[Log(n)] \in Seq(SUBSET Entries)
    BY <2>1 DEF FilesOK
  <2>3. SubSeq(dir[Log(n)], 1, found) \in Seq(SUBSET Entries)
    BY <2>2
  <2>4. found = Len(dir[Log(n)]) => SubSeq(dir[Log(n)], 1, found) = dir[Log(n)]
    BY <2>2
  <2>5. failures' = 0 => ~Fails
    BY OutcomeTyped, <1>1 DEF Fails
  <2> QED
    BY <1>0, <2>3, <2>4, <2>5, FoundType
<1> HIDE DEF data
<1>2. /\ FilesOK(dir) /\ FilesOK(lost) /\ r \in RepairerType /\ r.next \in Nat /\ Active
      /\ r.logs \in SUBSET Nat /\ r.numbers \in SUBSET Nat /\ n \in Nat
  BY <1>1 DEF TInv, Typed, Active, RepairerType
<1>3. /\ r' \in RepairerType
      /\ r'.logs = r.logs /\ r'.numbers = r.numbers /\ r'.manifests = r.manifests
      /\ r'.tables = r.tables /\ r'.next = r.next + 1 /\ r'.at = n /\ r'.copy = r.next
      /\ r'.read = data
  <2>1. r.next + 1 \in Nat
    BY <1>2
  <2> QED
    BY <1>1, <1>2, <1>15, <2>1 DEF RepairerType
<1>4. \A f \in DOMAIN dir : f[1] \in {"log", "table"} => f[2] < r.next
  BY <1>2 DEF TInv, Taken
<1>5. new \notin DOMAIN dir
  BY <1>2, <1>4, NamesDiffer
<1>6. /\ FilesOK(dir')
      /\ \A f \in DOMAIN dir : f \in DOMAIN dir' /\ dir'[f] = dir[f]
      /\ DOMAIN dir' \subseteq DOMAIN dir \union {new}
      /\ new \in DOMAIN dir' => dir'[new] = Unfinished
      /\ data # {} => new \in DOMAIN dir'
  <2>1. CASE data = {}
    BY <1>1, <1>2, <1>5, <2>1
  <2>2. CASE data # {}
    <3>1. dir' = With(dir, new, Unfinished)
      BY <1>1, <2>2
    <3>2. Fits(new, Unfinished)
      BY <1>2, NamesDiffer, NamesTyped, UnfinishedFits DEF Fits
    <3>3. FilesOK(dir')
      BY <1>2, <3>1, <3>2, FilesWith
    <3> QED
      BY <1>5, <3>1, <3>3 DEF With
  <2> QED
    BY <2>1, <2>2
<1>7. Typed'
  BY <1>1, <1>2, <1>3, <1>6, OutcomeTyped DEF TInv, Typed, Stages
<1>8. Bounded'
  <2>1. PICK b \in Nat : \A f \in DOMAIN dir : f[2] < b
    BY DEF TInv, Bounded
  <2>2. \A f \in DOMAIN dir' : f[2] < b + r.next + 1
    <3>1. ASSUME NEW f \in DOMAIN dir PROVE f[2] < b + r.next + 1
      BY <1>2, <2>1, NameParts
    <3>2. new[2] < b + r.next + 1
      BY <1>2, NamesDiffer
    <3> QED
      BY <1>6, <3>1, <3>2
  <2>3. b + r.next + 1 \in Nat
    BY <1>2
  <2> QED
    BY <2>2, <2>3 DEF Bounded
<1>9. Apart' /\ Using'
  BY <1>1, <1>6, NamesDiffer DEF TInv, Apart, Using
<1>10. Taken'
  <2>1. /\ \A m \in r.logs : Log(m) \in DOMAIN dir'
        /\ \A m \in r.numbers : Table(m) \in DOMAIN dir'
        /\ \A t \in r.tables : /\ t.number \notin r.numbers /\ Table(t.number) \in DOMAIN dir'
                               /\ dir'[Table(t.number)] = Whole(t.data)
    BY <1>2, <1>6 DEF TInv, Taken
  <2>2. \A f \in DOMAIN dir' : f[1] \in {"log", "table"} => f[2] < r'.next
    <3>1. ASSUME NEW f \in DOMAIN dir, f[1] \in {"log", "table"} PROVE f[2] < r.next + 1
      BY <1>2, <1>4, <3>1, NameParts
    <3>2. new[2] < r.next + 1
      BY <1>2, NamesDiffer
    <3> QED
      BY <1>3, <1>6, <3>1, <3>2
  <2> QED
    BY <1>1, <1>3, <2>1, <2>2 DEF Taken
<1>11. Converting'
  <2>1. r.next \notin r.numbers /\ \A t \in r.tables : t.number # r.next
    BY <1>2, <1>5 DEF TInv, Taken
  <2>2. dir'[Log(n)] = dir[Log(n)]
    BY <1>2, <1>6 DEF TInv, Taken
  <2> QED
    BY <1>1, <1>3, <1>6, <1>15, <2>1, <2>2 DEF Converting
<1>12. Doubting' /\ Copying' /\ Installing' /\ Seen'
  <2>1. Seen'
    BY <1>1, <1>2, <1>3, OutcomeTyped DEF TInv, Seen
  <2> QED
    BY <1>1, <2>1 DEF Doubting, Copying, Installing, InDoubt, InCopy
<1>13. Kept'
  <2>1. \A m \in Nat : Pending(m)' => Pending(m)
    BY <1>1, <1>2, <1>3 DEF Pending, InDoubt
  <2> QED
    BY <1>1, <1>2, <1>6, <2>1, KeptStays, OutcomeTyped DEF TInv
<1>14. Accounted'
  <2>1. \A m \in r.logs : dir'[Log(m)] = dir[Log(m)]
    BY <1>2, <1>6 DEF TInv, Taken
  <2>2. \A m \in r.numbers : dir'[Table(m)] = dir[Table(m)]
    BY <1>2, <1>6 DEF TInv, Taken
  <2>3. InHand = {} /\ InHand' = {}
    BY <1>1 DEF InHand, InDoubt
  <2> QED
    BY <1>1, <1>2, <1>3, <2>1, <2>2, <2>3, OutcomeTyped DEF TInv, Accounted
<1> QED
  BY <1>7, <1>8, <1>9, <1>10, <1>11, <1>12, <1>13, <1>14 DEF TInv

LEMMA LogUnreadKeeps ==
  ASSUME TInv, NEW n \in r.logs, LogUnread(n)
  PROVE  TInv'
<1>1. /\ stage = "logs" /\ stage' = "archive log" /\ Fails
      /\ r' = [r EXCEPT !.at = n]
      /\ UNCHANGED <<dir, lost, current, db, had>>
  BY DEF LogUnread, Goes, files
<1>9. failures' # 0
  BY <1>1, FailuresCount DEF TInv, Typed
<1>2. Active /\ Active' /\ r \in RepairerType /\ n \in Nat /\ FilesOK(lost)
  BY <1>1 DEF TInv, Typed, Active, RepairerType
<1>3. /\ r' \in RepairerType /\ r'.logs = r.logs /\ r'.numbers = r.numbers
      /\ r'.manifests = r.manifests /\ r'.tables = r.tables /\ r'.next = r.next /\ r'.at = n
      /\ r'.copy = r.copy
  BY <1>1, <1>2 DEF RepairerType
<1>4. Typed'
  BY <1>1, <1>3, OutcomeTyped DEF TInv, Typed, Stages
<1>5. Bounded' /\ Apart' /\ Using'
  BY <1>1 DEF TInv, Bounded, Apart, Using
<1>6. Taken'
  BY <1>1, <1>2, <1>3 DEF TInv, Taken
<1>7. Seen' /\ Converting' /\ Doubting' /\ Copying' /\ Installing' /\ Accounted'
  BY <1>1, <1>3, <1>9 DEF Seen, Converting, Doubting, Copying, Installing, Accounted, InDoubt, InCopy
<1>8. Kept'
  <2>1. \A m \in Nat : Pending(m)' => Pending(m)
    BY <1>1, <1>3 DEF Pending, InDoubt
  <2> QED
    BY <1>1, <1>2, <2>1, KeptStays, OutcomeTyped DEF TInv
<1> QED
  BY <1>4, <1>5, <1>6, <1>7, <1>8 DEF TInv

LEMMA BuildTableKeeps ==
  ASSUME TInv, BuildTable
  PROVE  TInv'
<1> DEFINE new == Table(r.copy)
           data == r.read
<1>1. /\ stage = "build" /\ stage' = "archive log"
      /\ UNCHANGED <<lost, current, db, had>>
      /\ Succeeds \/ Fails
  BY DEF BuildTable, Goes
<1>2. /\ FilesOK(dir) /\ FilesOK(lost) /\ r \in RepairerType /\ Active
      /\ r.logs \in SUBSET Nat /\ r.numbers \in SUBSET Nat /\ r.at \in Nat /\ r.copy \in Nat
  BY <1>1 DEF TInv, Typed, Active, RepairerType
<1>3. /\ r.at \in r.logs /\ r.copy \notin r.numbers /\ \A t \in r.tables : t.number # r.copy
      /\ new \in DOMAIN dir => dir[new] = Unfinished
      /\ data # {} => new \in DOMAIN dir
      /\ failures = 0 => data = Found(dir[Log(r.at)])
  BY <1>1 DEF TInv, Converting
<1>4. Log(r.at) \in DOMAIN dir /\ data \in SUBSET Entries
  BY <1>2, <1>3, NamesDiffer DEF TInv, Taken, RepairerType
<1>5. \/ failures' = failures /\ data = {} /\ dir' = dir /\ r' = r
      \/ /\ failures' = failures /\ data # {} /\ dir' = [dir EXCEPT ![new] = Whole(data)]
         /\ r' = [r EXCEPT !.numbers = @ \union {r.copy}]
      \/ failures' > 0 /\ dir' \in {dir, Removed(dir, new)} /\ r' = r
  <2>1. Succeeds => failures' = failures
    BY DEF Succeeds
  <2>2. Fails => failures' > 0
    BY FailuresCount DEF TInv, Typed
  <2> QED
    BY <2>1, <2>2 DEF BuildTable, Cleanup
<1> HIDE DEF data
<1>6. /\ r' \in RepairerType
      /\ r'.logs = r.logs /\ r'.manifests = r.manifests
      /\ r'.tables = r.tables /\ r'.next = r.next /\ r'.at = r.at /\ r'.copy = r.copy
      /\ r'.read = r.read
      /\ r.numbers \subseteq r'.numbers
      /\ \/ r'.numbers = r.numbers
         \/ r'.numbers = r.numbers \union {r.copy} /\ new \in DOMAIN dir' /\ dir'[new] = Whole(data)
  <2>1. CASE r' = r
    BY <1>2, <2>1
  <2>2. CASE /\ dir' = [dir EXCEPT ![new] = Whole(data)]
             /\ r' = [r EXCEPT !.numbers = @ \union {r.copy}] /\ data # {}
    <3>1. r.numbers \union {r.copy} \in SUBSET Nat
      BY <1>2
    <3>2. new \in DOMAIN dir' /\ dir'[new] = Whole(data)
      BY <1>3, <2>2
    <3> QED
      BY <1>2, <2>2, <3>1, <3>2 DEF RepairerType
  <2> QED
    BY <1>5, <2>1, <2>2
<1>7. /\ FilesOK(dir') /\ DOMAIN dir' \subseteq DOMAIN dir
      /\ \A f \in DOMAIN dir : f # new => f \in DOMAIN dir' /\ dir'[f] = dir[f]
  <2>1. CASE dir' = dir
    BY <1>2, <2>1
  <2>2. CASE dir' = [dir EXCEPT ![new] = Whole(data)] /\ data # {}
    <3>1. Whole(data) \in Tabs /\ new[1] = "table"
      BY <1>4, WholeFits, NamesDiffer
    <3>2. FilesOK(dir')
      BY <1>2, <2>2, <3>1 DEF FilesOK
    <3> QED
      BY <2>2, <3>2
  <2>3. CASE dir' = Removed(dir, new)
    <3>1. FilesOK(Removed(dir, new))
      BY <1>2, FilesRemoved
    <3> QED
      BY <2>3, <3>1, RemovedFacts
  <2> QED
    BY <1>5, <2>1, <2>2, <2>3
<1>8. Typed'
  BY <1>1, <1>6, <1>7, OutcomeTyped DEF TInv, Typed, Stages
<1>9. Bounded' /\ Apart' /\ Using'
  BY <1>1, <1>7 DEF TInv, Bounded, Apart, Using
<1>10. \A m : Log(m) # new /\ (Table(m) = new => m = r.copy)
  BY NamesDiffer
<1>11. Taken'
  <2>1. \A m \in r.logs : Log(m) \in DOMAIN dir'
    BY <1>2, <1>7, <1>10 DEF TInv, Taken
  <2>2. \A m \in r'.numbers : Table(m) \in DOMAIN dir'
    BY <1>2, <1>3, <1>6, <1>7, <1>10 DEF TInv, Taken
  <2>3. \A t \in r.tables : /\ t.number \notin r'.numbers /\ Table(t.number) \in DOMAIN dir'
                            /\ dir'[Table(t.number)] = Whole(t.data)
    BY <1>2, <1>3, <1>6, <1>7, <1>10 DEF TInv, Taken
  <2>4. \A f \in DOMAIN dir' : f[1] \in {"log", "table"} => f[2] < r'.next
    BY <1>2, <1>6, <1>7 DEF TInv, Taken
  <2> QED
    BY <1>1, <1>6, <2>1, <2>2, <2>3, <2>4 DEF Taken
<1>12. dir'[Log(r.at)] = dir[Log(r.at)]
  BY <1>4, <1>7, <1>10
<1>13. Converting'
  <2>1. ASSUME failures' = 0
        PROVE  \/ Found(dir'[Log(r'.at)]) = {}
               \/ r'.copy \in r'.numbers /\ dir'[Table(r'.copy)].data = Found(dir'[Log(r'.at)])
    <3>0. data = Found(dir[Log(r.at)])
      BY <1>1, <1>3, <2>1, OutcomeTyped
    <3>1. CASE data = {}
      BY <1>6, <1>12, <3>0, <3>1
    <3>2. CASE data # {}
      <4>1. dir' = [dir EXCEPT ![new] = Whole(data)] /\ r' = [r EXCEPT !.numbers = @ \union {r.copy}]
        BY <1>5, <2>1, <3>2
      <4>2. dir'[new] = Whole(data) /\ r.copy \in r'.numbers
        BY <1>2, <1>3, <3>2, <4>1 DEF RepairerType
      <4>3. Whole(data).data = data
        BY <1>4, WholeFits
      <4> QED
        BY <1>6, <1>12, <3>0, <4>2, <4>3
    <3> QED
      BY <3>1, <3>2
  <2> QED
    BY <1>1, <1>3, <1>6, <2>1 DEF Converting
<1>14. Doubting' /\ Copying' /\ Installing' /\ Seen'
  <2>1. Seen'
    BY <1>1, <1>2, <1>6, OutcomeTyped DEF TInv, Seen
  <2> QED
    BY <1>1, <2>1 DEF Doubting, Copying, Installing, InDoubt, InCopy
<1>15. Kept'
  <2>1. \A m \in Nat : Pending(m)' => Pending(m)
    BY <1>1, <1>2, <1>6 DEF Pending, InDoubt
  <2>2. new \in DOMAIN dir => \A e \in had : ~Holds(dir, new, e)
    BY <1>3, UnfinishedFits, NamesDiffer DEF Holds
  <2> QED
    BY <1>1, <1>2, <1>7, <2>1, <2>2, KeptStays, OutcomeTyped DEF TInv
<1>16. Accounted'
  <2>1. SUFFICES ASSUME failures' = 0
                 PROVE  had' = (UNION {Found(dir'[Log(n)]) : n \in r'.logs})
                                 \union (UNION {dir'[Table(n)].data : n \in r'.numbers})
                                 \union (UNION {t.data : t \in r'.tables}) \union InHand'
    BY DEF Accounted
  <2>2. failures = 0
    BY <2>1, OutcomeTyped, <1>1
  <2>3. InHand = {} /\ InHand' = {}
    BY <1>1 DEF InHand, InDoubt
  <2>4. had = (UNION {Found(dir[Log(n)]) : n \in r.logs})
                \union (UNION {dir[Table(n)].data : n \in r.numbers})
                \union (UNION {t.data : t \in r.tables})
    BY <1>2, <2>2, <2>3 DEF TInv, Accounted
  <2>5. \A m \in r.logs : dir'[Log(m)] = dir[Log(m)]
    BY <1>2, <1>7, <1>10 DEF TInv, Taken
  <2>6. \A m \in r.numbers : dir'[Table(m)] = dir[Table(m)]
    BY <1>2, <1>3, <1>7, <1>10 DEF TInv, Taken
  <2>7. CASE r'.numbers = r.numbers
    BY <1>1, <1>6, <2>3, <2>4, <2>5, <2>6, <2>7
  <2>8. CASE r'.numbers = r.numbers \union {r.copy} /\ dir'[new] = Whole(data)
    <3>1. dir'[Table(r.copy)].data = data /\ data = Found(dir[Log(r.at)])
      BY <1>3, <1>4, <2>2, <2>8, WholeFits
    <3>2. (UNION {dir'[Table(n)].data : n \in r'.numbers})
            = (UNION {dir[Table(n)].data : n \in r.numbers}) \union data
      BY <2>6, <2>8, <3>1
    <3>3. (UNION {Found(dir'[Log(n)]) : n \in r'.logs}) = (UNION {Found(dir[Log(n)]) : n \in r.logs})
      BY <1>6, <2>5
    <3>4. data \subseteq (UNION {Found(dir[Log(n)]) : n \in r.logs})
      BY <1>3, <3>1
    <3> QED
      BY <1>1, <1>6, <2>3, <2>4, <3>2, <3>3, <3>4
  <2> QED
    BY <1>6, <2>7, <2>8
<1> QED
  BY <1>8, <1>9, <1>11, <1>13, <1>14, <1>15, <1>16 DEF TInv

\* What it does to move a file to lost/.
Archived(name) ==
  /\ FilesOK(dir') /\ FilesOK(lost') /\ (Succeeds \/ Fails)
  /\ DOMAIN dir' \subseteq DOMAIN dir
  /\ \A f \in DOMAIN dir' : dir'[f] = dir[f]
  /\ \A f \in DOMAIN dir : f # name => f \in DOMAIN dir'
  /\ DOMAIN lost' \subseteq DOMAIN lost \union {name} /\ DOMAIN lost \subseteq DOMAIN lost'
  /\ \A f \in DOMAIN lost : f # name => lost'[f] = lost[f]
  /\ \/ /\ failures' = failures /\ name \notin DOMAIN dir'
        /\ name \in DOMAIN lost' /\ lost'[name] = dir[name]
     \/ failures' = failures + 1 /\ failures' > 0 /\ dir' = dir /\ lost' = lost

LEMMA ArchiveFacts ==
  ASSUME FilesOK(dir), FilesOK(lost), failures \in Nat,
         NEW name, Fits(name, dir[name]), Archive(name)
  PROVE  Archived(name)
<1>1. CASE Succeeds /\ lost' = With(lost, name, dir[name]) /\ dir' = Removed(dir, name)
  <2>1. FilesOK(With(lost, name, dir[name])) /\ FilesOK(Removed(dir, name))
    BY FilesWith, FilesRemoved
  <2>2. DOMAIN dir' = DOMAIN dir \ {name} /\ \A f \in DOMAIN dir : f # name => dir'[f] = dir[f]
    BY <1>1, RemovedFacts
  <2>3. /\ DOMAIN lost' = DOMAIN lost \union {name} /\ lost'[name] = dir[name]
        /\ \A f \in DOMAIN lost : f # name => lost'[f] = lost[f]
    BY <1>1 DEF With
  <2>4. failures' = failures
    BY <1>1 DEF Succeeds
  <2> QED
    BY <1>1, <2>1, <2>2, <2>3, <2>4 DEF Archived
<1>2. CASE Fails /\ UNCHANGED <<dir, lost>>
  BY <1>2 DEF Fails, Archived
<1> QED
  BY <1>1, <1>2 DEF Archive

\* Moving a file keeps what can be read, unless lost/ has a file of its name
\* that counts.
LEMMA ArchiveKeepsAll ==
  ASSUME FilesOK(dir), FilesOK(lost), failures \in Nat,
         NEW name, Fits(name, dir[name]), Archive(name),
         name[1] = "log" => name \notin DOMAIN lost,
         name[1] = "table" => Pending(name[2]) /\ ~Pending(name[2])',
         Kept, Active, Active', had' = had,
         \A n \in Nat : Pending(n)' => Pending(n)
  PROVE  Kept'
<1>1. Archived(name)
  BY ArchiveFacts
<1>3. failures' < 2 => failures < 2
  BY <1>1 DEF Archived
<1>2. ASSUME NEW e \in had, failures' < 2
      PROVE  \/ \E f \in DOMAIN dir' : Holds(dir', f, e)
             \/ \E f \in DOMAIN lost' : Holds(lost', f, e) /\ (f[1] = "table" => ~Pending(f[2])')
  <2>1. CASE \E f \in DOMAIN dir : Holds(dir, f, e)
    <3>1. PICK f \in DOMAIN dir : Holds(dir, f, e)
      BY <2>1
    <3>2. CASE f \in DOMAIN dir'
      <4>1. Holds(dir', f, e)
        BY <1>1, <3>1, <3>2 DEF Holds, Archived
      <4> QED
        BY <3>2, <4>1
    <3>3. CASE f \notin DOMAIN dir'
      <4>1. f = name /\ f \in DOMAIN lost' /\ lost'[f] = dir[f]
        BY <1>1, <3>3 DEF Archived
      <4>2. Holds(lost', f, e)
        BY <3>1, <4>1 DEF Holds
      <4> QED
        BY <4>1, <4>2
    <3> QED
      BY <3>2, <3>3
  <2>2. CASE \E f \in DOMAIN lost : Holds(lost, f, e) /\ (f[1] = "table" => ~Pending(f[2]))
    <3>1. PICK f \in DOMAIN lost : Holds(lost, f, e) /\ (f[1] = "table" => ~Pending(f[2]))
      BY <2>2
    <3>2. f # name /\ f[2] \in Nat
      <4>1. f[1] \in {"log", "table"}
        BY <3>1 DEF Holds
      <4> QED
        BY <3>1, <4>1, NameParts
    <3>3. Holds(lost', f, e) /\ f \in DOMAIN lost'
      BY <1>1, <3>1, <3>2 DEF Holds, Archived
    <3>4. f[1] = "table" => ~Pending(f[2])'
      BY <3>1, <3>2
    <3> QED
      BY <3>3, <3>4
  <2> QED
    BY <1>2, <1>3, <2>1, <2>2 DEF Kept, Active
<1> QED
  BY <1>2 DEF Kept

\* Returned clears what is local to a conversion and to RepairTable.
LEMMA ReturnedType ==
  ASSUME NEW x \in RepairerType
  PROVE  /\ Returned(x) \in RepairerType
         /\ Returned(x).logs = x.logs /\ Returned(x).numbers = x.numbers
         /\ Returned(x).manifests = x.manifests /\ Returned(x).tables = x.tables
         /\ Returned(x).next = x.next /\ Returned(x).copy = 0 /\ Returned(x).at = 0
BY DEF Returned, RepairerType

LEMMA ArchiveLogKeeps ==
  ASSUME TInv, ArchiveLog
  PROVE  TInv'
<1>1. /\ stage = "archive log" /\ stage' = "logs"
      /\ UNCHANGED <<current, db, had>>
      /\ Archive(Log(r.at))
      /\ r' = Returned([r EXCEPT !.logs = @ \ {r.at}])
  BY DEF ArchiveLog, Goes
<1>2. /\ FilesOK(dir) /\ FilesOK(lost) /\ r \in RepairerType /\ Active /\ Active'
      /\ r.logs \in SUBSET Nat /\ r.numbers \in SUBSET Nat /\ r.at \in Nat /\ r.copy \in Nat
      /\ r.next \in Nat /\ r.at \in r.logs /\ failures \in Nat
  BY <1>1 DEF TInv, Typed, Active, RepairerType, Converting
<1>3. Log(r.at) \in DOMAIN dir
  BY <1>2 DEF TInv, Taken
<1>4. PICK name : name = Log(r.at)
  OBVIOUS
<1>5. /\ name \in DOMAIN dir /\ Archive(name) /\ Fits(name, dir[name]) /\ name[1] = "log"
      /\ name \notin DOMAIN lost
  BY <1>1, <1>2, <1>3, <1>4, FilesFit, NamesDiffer DEF TInv, Apart
<1>6. /\ FilesOK(dir') /\ FilesOK(lost') /\ (Succeeds \/ Fails)
      /\ DOMAIN dir' \subseteq DOMAIN dir
      /\ \A f \in DOMAIN dir' : dir'[f] = dir[f]
      /\ \A f \in DOMAIN dir : f # name => f \in DOMAIN dir'
      /\ DOMAIN lost' \subseteq DOMAIN lost \union {name}
      /\ \/ failures' = failures /\ name \notin DOMAIN dir'
         \/ failures' > 0 /\ dir' = dir /\ lost' = lost
  <2>1. Archived(name)
    BY <1>2, <1>5, ArchiveFacts DEF TInv, Typed
  <2> QED
    BY <2>1 DEF Archived
<1>7. /\ r' \in RepairerType
      /\ r'.logs = r.logs \ {r.at} /\ r'.numbers = r.numbers /\ r'.manifests = r.manifests
      /\ r'.tables = r.tables /\ r'.next = r.next /\ r'.copy = 0
  <2>1. PICK x : x = [r EXCEPT !.logs = @ \ {r.at}]
    OBVIOUS
  <2>2. x \in RepairerType /\ x.logs = r.logs \ {r.at} /\ x.numbers = r.numbers
        /\ x.manifests = r.manifests /\ x.tables = r.tables /\ x.next = r.next
    BY <1>2, <2>1 DEF RepairerType
  <2> QED
    BY <1>1, <2>1, <2>2, ReturnedType
<1>8. Typed'
  <2>1. r.copy < r.next
    BY DEF TInv, Typed
  <2>2. r'.copy < r'.next
    BY <1>2, <1>7, <2>1
  <2>3. failures' \in Nat /\ damages' \in 0 .. MaxDamages /\ faults' \in 0 .. MaxFailures
    BY <1>6, OutcomeTyped DEF TInv
  <2>4. db' \in DatabaseType /\ stage' \in Stages
    BY <1>1 DEF TInv, Typed, Stages
  <2>5. FilesOK(dir') /\ FilesOK(lost') /\ r' \in RepairerType
    BY <1>6, <1>7
  <2> QED
    BY <2>2, <2>3, <2>4, <2>5 DEF Typed
<1>9. Bounded'
  BY <1>6 DEF TInv, Bounded
<1>10. Apart'
  <2>1. \A f \in DOMAIN dir : f[1] = "log" => f \notin DOMAIN lost
    BY DEF TInv, Apart
  <2>2. ASSUME NEW f \in DOMAIN dir', f[1] = "log" PROVE f \notin DOMAIN lost'
    BY <1>5, <1>6, <2>1, <2>2
  <2> QED
    BY <2>2 DEF Apart
<1>11. \A m : (Log(m) = name => m = r.at) /\ Table(m) # name
  BY <1>4, NamesDiffer
<1>12. /\ \A m \in r.logs \ {r.at} : Log(m) \in DOMAIN dir' /\ dir'[Log(m)] = dir[Log(m)]
       /\ \A m \in Nat : Table(m) \in DOMAIN dir => Table(m) \in DOMAIN dir' /\ dir'[Table(m)] = dir[Table(m)]
  BY <1>2, <1>6, <1>11 DEF TInv, Taken
<1>13. Taken'
  <2>1. \A m \in r.numbers : Table(m) \in DOMAIN dir'
    BY <1>2, <1>12 DEF TInv, Taken
  <2>2. \A t \in r.tables : /\ t.number \notin r'.numbers /\ Table(t.number) \in DOMAIN dir'
                            /\ dir'[Table(t.number)] = Whole(t.data)
    BY <1>2, <1>6, <1>7, <1>11 DEF TInv, Taken
  <2>3. \A f \in DOMAIN dir' : f[1] \in {"log", "table"} => f[2] < r'.next
    BY <1>2, <1>6, <1>7 DEF TInv, Taken
  <2> QED
    BY <1>1, <1>7, <1>12, <2>1, <2>2, <2>3 DEF Taken
<1>14. Using' /\ Converting' /\ Doubting' /\ Copying' /\ Installing'
  BY <1>1 DEF Using, Converting, Doubting, Copying, Installing, InDoubt, InCopy
<1>15. Kept'
  <2>1. \A m \in Nat : Pending(m)' => Pending(m)
    BY <1>1, <1>2, <1>7 DEF Pending, InDoubt
  <2> QED
    BY <1>1, <1>2, <1>5, <2>1, ArchiveKeepsAll DEF TInv
<1>16. Accounted'
  <2>1. SUFFICES ASSUME failures' = 0
                 PROVE  had' = (UNION {Found(dir'[Log(n)]) : n \in r'.logs})
                                 \union (UNION {dir'[Table(n)].data : n \in r'.numbers})
                                 \union (UNION {t.data : t \in r'.tables}) \union InHand'
    BY DEF Accounted
  <2>2. failures = 0
    BY <1>6, <2>1, OutcomeTyped
  <2>3. InHand = {} /\ InHand' = {}
    BY <1>1 DEF InHand, InDoubt
  <2>4. had = (UNION {Found(dir[Log(n)]) : n \in r.logs})
                \union (UNION {dir[Table(n)].data : n \in r.numbers})
                \union (UNION {t.data : t \in r.tables})
    BY <1>2, <2>2, <2>3 DEF TInv, Accounted
  <2>5. Found(dir[Log(r.at)]) \subseteq (UNION {dir[Table(n)].data : n \in r.numbers})
    BY <1>1, <2>2 DEF TInv, Converting
  <2>6. (UNION {Found(dir[Log(n)]) : n \in r.logs})
          = (UNION {Found(dir'[Log(n)]) : n \in r'.logs}) \union Found(dir[Log(r.at)])
    BY <1>2, <1>7, <1>12
  <2>7. (UNION {dir[Table(n)].data : n \in r.numbers}) = (UNION {dir'[Table(n)].data : n \in r'.numbers})
    <3>1. \A m \in r.numbers : dir'[Table(m)] = dir[Table(m)]
      BY <1>2, <1>12 DEF TInv, Taken
    <3> QED
      BY <1>7, <3>1
  <2> QED
    BY <1>1, <1>7, <2>3, <2>4, <2>5, <2>6, <2>7
<1>17. Seen'
  BY <1>2, <1>6, <1>7, OutcomeTyped DEF TInv, Seen
<1> QED
  BY <1>8, <1>9, <1>10, <1>13, <1>14, <1>15, <1>16, <1>17 DEF TInv

LEMMA LogsDoneKeeps ==
  ASSUME TInv, LogsDone
  PROVE  TInv'
<1>1. /\ stage = "logs" /\ stage' = "tables" /\ r.logs = {}
      /\ UNCHANGED <<dir, lost, current, r, db, had, failures, damages, faults>>
  BY DEF LogsDone, Succeeds, Goes, files, bounds
<1>2. Active /\ Active' /\ FilesOK(lost)
  BY <1>1 DEF TInv, Typed, Active
<1>3. Typed' /\ Bounded' /\ Apart' /\ Using'
  BY <1>1 DEF TInv, Typed, Bounded, Apart, Using, Stages
<1>4. Taken'
  BY <1>1, <1>2 DEF TInv, Taken
<1>5. Converting' /\ Doubting' /\ Copying' /\ Installing'
  BY <1>1 DEF Converting, Doubting, Copying, Installing, InDoubt, InCopy
<1>6. Kept'
  <2>1. \A m \in Nat : Pending(m)' => Pending(m)
    BY <1>1 DEF Pending, InDoubt
  <2> QED
    BY <1>1, <1>2, <2>1, KeptStays DEF TInv
<1>7. Accounted'
  <2>1. InHand = {} /\ InHand' = {}
    BY <1>1 DEF InHand, InDoubt
  <2> QED
    BY <1>1, <1>2, <2>1 DEF TInv, Accounted
<1>8. Seen'
  BY <1>1, <1>2 DEF TInv, Seen
<1> QED
  BY <1>3, <1>4, <1>5, <1>6, <1>7, <1>8 DEF TInv

LEMMA ScanTableKeeps ==
  ASSUME TInv, NEW n \in r.numbers, ScanTable(n)
  PROVE  TInv'
<1>1. /\ stage = "tables" /\ stage' = "tables" /\ dir[Table(n)].ok
      /\ r' = [r EXCEPT !.numbers = @ \ {n}, !.tables = @ \union {Info(n, dir[Table(n)].data, dir[Table(n)].data)}]
      /\ UNCHANGED <<dir, lost, current, db, had, failures, damages, faults>>
  BY DEF ScanTable, IsNext, Succeeds, Goes, files, bounds
<1>2. /\ Active /\ Active' /\ FilesOK(dir) /\ FilesOK(lost) /\ r \in RepairerType
      /\ n \in Nat /\ r.numbers \in SUBSET Nat /\ r.logs = {}
      /\ Table(n) \in DOMAIN dir
  BY <1>1 DEF TInv, Typed, Active, RepairerType, Taken
<1>3. dir[Table(n)] \in Tabs
  BY <1>2, NamesDiffer DEF FilesOK
<1>4. PICK data : data = dir[Table(n)].data
  OBVIOUS
<1>5. data \in SUBSET Entries /\ dir[Table(n)] = Whole(data)
  BY <1>1, <1>3, <1>4 DEF Tabs, Whole
<1>6. PICK info : info = [number |-> n, data |-> data, seen |-> data]
  OBVIOUS
<1>14. r' = [r EXCEPT !.numbers = @ \ {n}, !.tables = @ \union {info}]
  BY <1>1, <1>4, <1>6 DEF Info
<1>7. /\ r' \in RepairerType
      /\ r'.logs = r.logs /\ r'.numbers = r.numbers \ {n} /\ r'.manifests = r.manifests
      /\ r'.tables = r.tables \union {info} /\ r'.next = r.next /\ r'.at = r.at
      /\ r'.copy = r.copy /\ r'.read = r.read
  <2>1. r.numbers \ {n} \in SUBSET Nat
    BY <1>2
  <2>2. info \in [number : Nat, data : SUBSET Entries, seen : SUBSET Entries]
    BY <1>2, <1>5, <1>6
  <2>3. r.tables \union {info} \in SUBSET [number : Nat, data : SUBSET Entries, seen : SUBSET Entries]
    BY <1>2, <2>2 DEF RepairerType
  <2> QED
    BY <1>14, <1>2, <2>1, <2>3 DEF RepairerType
<1>8. Typed'
  BY <1>1, <1>7 DEF TInv, Typed
<1>9. Bounded' /\ Apart' /\ Using'
  BY <1>1 DEF TInv, Bounded, Apart, Using
<1>10. Taken'
  <2>1. \A t \in r.tables : t.number \notin r.numbers
    BY <1>2 DEF TInv, Taken
  <2>2. \A t \in r'.tables : t \in r.tables \/ (t.number = n /\ t.data = data)
    BY <1>6, <1>7
  <2>3. \A t \in r'.tables : /\ t.number \notin r'.numbers /\ Table(t.number) \in DOMAIN dir
                             /\ dir[Table(t.number)] = Whole(t.data)
    <3>1. ASSUME NEW t \in r.tables
          PROVE  /\ t.number \notin r.numbers /\ Table(t.number) \in DOMAIN dir
                 /\ dir[Table(t.number)] = Whole(t.data)
      BY <1>2 DEF TInv, Taken
    <3> QED
      BY <1>2, <1>5, <1>7, <2>2, <3>1
  <2>4. \A f \in DOMAIN dir : f[1] \in {"log", "table"} => f[2] < r'.next
    BY <1>2, <1>7 DEF TInv, Taken
  <2>5. \A m \in r'.numbers : Table(m) \in DOMAIN dir
    BY <1>2, <1>7 DEF TInv, Taken
  <2> QED
    BY <1>1, <1>2, <1>7, <2>3, <2>4, <2>5 DEF Taken
<1>11. Converting' /\ Doubting' /\ Copying' /\ Installing'
  BY <1>1 DEF Converting, Doubting, Copying, Installing, InDoubt, InCopy
<1>12. Kept'
  <2>1. \A m \in Nat : Pending(m)' => Pending(m)
    BY <1>1, <1>2, <1>7 DEF Pending, InDoubt
  <2> QED
    BY <1>1, <1>2, <2>1, KeptStays DEF TInv
<1>13. Accounted'
  <2>1. SUFFICES ASSUME failures = 0
                 PROVE  had = (UNION {Found(dir[Log(m)]) : m \in r'.logs})
                                 \union (UNION {dir[Table(m)].data : m \in r'.numbers})
                                 \union (UNION {t.data : t \in r'.tables}) \union InHand'
    BY <1>1 DEF Accounted
  <2>2. InHand = {} /\ InHand' = {}
    BY <1>1 DEF InHand, InDoubt
  <2>3. had = (UNION {Found(dir[Log(m)]) : m \in r.logs})
                \union (UNION {dir[Table(m)].data : m \in r.numbers})
                \union (UNION {t.data : t \in r.tables})
    BY <1>2, <2>1, <2>2 DEF TInv, Accounted
  <2>4. (UNION {t.data : t \in r'.tables}) = (UNION {t.data : t \in r.tables}) \union data
    BY <1>6, <1>7
  <2>5. (UNION {dir[Table(m)].data : m \in r.numbers})
          = (UNION {dir[Table(m)].data : m \in r'.numbers}) \union data
    BY <1>4, <1>7
  <2> QED
    BY <1>7, <2>2, <2>3, <2>4, <2>5
<1>15. Seen'
  BY <1>1, <1>2, <1>6, <1>7 DEF TInv, Seen
<1> QED
  BY <1>8, <1>9, <1>10, <1>11, <1>12, <1>13, <1>15 DEF TInv

\* A scan that ends badly takes a table from the list, and leaves everything else
\* as it is.
LEMMA DoubtKeeps ==
  ASSUME TInv, NEW n \in r.numbers, ScanEndsBadly(n) \/ SizeUnknown(n)
  PROVE  TInv'
<1>1. \/ /\ SizeUnknown(n) /\ Fails /\ stage' = "drop table"
         /\ r' = [r EXCEPT !.numbers = @ \ {n}, !.at = n]
      \/ \E seen \in SUBSET dir[Table(n)].data :
           /\ \/ Succeeds /\ ~dir[Table(n)].ok /\ seen = dir[Table(n)].data
              \/ Fails
           /\ stage' = "open copy"
           /\ r' = [r EXCEPT !.numbers = @ \ {n}, !.at = n, !.seen = seen]
  BY DEF SizeUnknown, ScanEndsBadly, Goes
<1>2. /\ stage = "tables" /\ stage' \in {"open copy", "drop table"} /\ (Succeeds \/ Fails)
      /\ UNCHANGED <<dir, lost, current, db, had>>
  BY DEF SizeUnknown, ScanEndsBadly, IsNext, Goes, files
<1>3. /\ Active /\ Active' /\ FilesOK(dir) /\ FilesOK(lost) /\ r \in RepairerType
      /\ n \in Nat /\ r.numbers \in SUBSET Nat /\ r.logs = {}
      /\ Table(n) \in DOMAIN dir
  BY <1>2 DEF TInv, Typed, Active, RepairerType, Taken
<1>14. n < r.next
  BY <1>3, NamesDiffer DEF TInv, Taken
<1>4. dir[Table(n)].data \in SUBSET Entries
  <2>1. dir[Table(n)] \in Tabs
    BY <1>3, NamesDiffer DEF FilesOK
  <2> QED
    BY <2>1 DEF Tabs
<1>5. /\ r' \in RepairerType
      /\ r'.logs = r.logs /\ r'.numbers = r.numbers \ {n} /\ r'.manifests = r.manifests
      /\ r'.tables = r.tables /\ r'.next = r.next /\ r'.at = n /\ r'.copy = r.copy
  <2>1. r.numbers \ {n} \in SUBSET Nat
    BY <1>3
  <2>2. CASE r' = [r EXCEPT !.numbers = @ \ {n}, !.at = n]
    BY <1>3, <2>1, <2>2 DEF RepairerType
  <2>3. CASE \E seen \in SUBSET dir[Table(n)].data :
               r' = [r EXCEPT !.numbers = @ \ {n}, !.at = n, !.seen = seen]
    <3>1. PICK seen \in SUBSET dir[Table(n)].data :
            r' = [r EXCEPT !.numbers = @ \ {n}, !.at = n, !.seen = seen]
      BY <2>3
    <3>2. seen \in SUBSET Entries
      BY <1>4
    <3> QED
      BY <1>3, <2>1, <3>1, <3>2 DEF RepairerType
  <2> QED
    BY <1>1, <2>2, <2>3
<1>6. failures' = 0 =>
        failures = 0 /\ stage' = "open copy" /\ ~dir[Table(n)].ok /\ r'.seen = dir[Table(n)].data
  <2>1. SUFFICES ASSUME failures' = 0
                 PROVE  stage' = "open copy" /\ ~dir[Table(n)].ok /\ r'.seen = dir[Table(n)].data
    BY <1>2, OutcomeTyped
  <2>2. ~Fails
    BY <2>1, FailuresCount DEF TInv, Typed
  <2>3. PICK seen \in SUBSET dir[Table(n)].data :
          /\ ~dir[Table(n)].ok /\ seen = dir[Table(n)].data /\ stage' = "open copy"
          /\ r' = [r EXCEPT !.numbers = @ \ {n}, !.at = n, !.seen = seen]
    BY <1>1, <2>2
  <2> QED
    BY <1>3, <2>3 DEF RepairerType
<1>7. Typed'
  <2>1. r'.copy < r'.next
    BY <1>5 DEF TInv, Typed
  <2> QED
    BY <1>2, <1>3, <1>5, <2>1, OutcomeTyped DEF TInv, Typed, Stages
<1>8. Bounded' /\ Apart' /\ Using' /\ Converting' /\ Copying' /\ Installing'
  BY <1>2 DEF TInv, Bounded, Apart, Using, Converting, Copying, Installing, InCopy
<1>9. Taken'
  BY <1>2, <1>3, <1>5 DEF TInv, Taken
<1>10. Seen'
  BY <1>3, <1>5, <1>6 DEF TInv, Seen
<1>11. Doubting'
  <2>1. n \notin r'.numbers /\ \A t \in r'.tables : t.number # n
    BY <1>3, <1>5 DEF TInv, Taken
  <2> QED
    BY <1>2, <1>3, <1>5, <1>6, <1>14, <2>1 DEF Doubting, InDoubt, InCopy
<1>12. Kept'
  <2>1. \A m \in Nat : Pending(m)' => Pending(m)
    BY <1>2, <1>5 DEF Pending, InDoubt
  <2> QED
    BY <1>2, <1>3, <2>1, KeptStays, OutcomeTyped DEF TInv
<1>13. Accounted'
  <2>1. SUFFICES ASSUME failures' = 0
                 PROVE  had = (UNION {Found(dir[Log(m)]) : m \in r'.logs})
                                 \union (UNION {dir[Table(m)].data : m \in r'.numbers})
                                 \union (UNION {t.data : t \in r'.tables}) \union InHand'
    BY <1>2 DEF Accounted
  <2>2. InHand = {} /\ InHand' = dir[Table(n)].data
    BY <1>2, <1>5 DEF InHand, InDoubt
  <2>3. had = (UNION {Found(dir[Log(m)]) : m \in r.logs})
                \union (UNION {dir[Table(m)].data : m \in r.numbers})
                \union (UNION {t.data : t \in r.tables})
    BY <1>3, <1>6, <2>1, <2>2 DEF TInv, Accounted
  <2>4. (UNION {dir[Table(m)].data : m \in r.numbers})
          = (UNION {dir[Table(m)].data : m \in r'.numbers}) \union dir[Table(n)].data
    BY <1>5
  <2> QED
    BY <1>5, <2>2, <2>3, <2>4
<1> QED
  BY <1>7, <1>8, <1>9, <1>10, <1>11, <1>12, <1>13 DEF TInv

LEMMA NoCopyKeeps ==
  ASSUME TInv, NoCopy
  PROVE  TInv'
<1>1. /\ stage = "open copy" /\ stage' = "tables" /\ Fails
      /\ r' = Returned([r EXCEPT !.next = @ + 1])
      /\ UNCHANGED <<dir, lost, current, db, had>>
  BY DEF NoCopy, Goes, files
<1>2. /\ Active /\ Active' /\ FilesOK(dir) /\ FilesOK(lost) /\ r \in RepairerType
      /\ r.next \in Nat /\ r.logs = {} /\ r.numbers \in SUBSET Nat
  BY <1>1 DEF TInv, Typed, Active, RepairerType, Taken
<1>3. failures' # 0
  BY <1>1, FailuresCount DEF TInv, Typed
<1>4. /\ r' \in RepairerType
      /\ r'.logs = r.logs /\ r'.numbers = r.numbers /\ r'.manifests = r.manifests
      /\ r'.tables = r.tables /\ r'.next = r.next + 1 /\ r'.copy = 0
  <2>1. PICK x : x = [r EXCEPT !.next = @ + 1]
    OBVIOUS
  <2>2. r.next + 1 \in Nat
    BY <1>2
  <2>3. /\ x \in RepairerType /\ x.logs = r.logs /\ x.numbers = r.numbers
        /\ x.manifests = r.manifests /\ x.tables = r.tables /\ x.next = r.next + 1
    BY <1>2, <2>1, <2>2 DEF RepairerType
  <2> QED
    BY <1>1, <2>1, <2>3, ReturnedType
<1>5. Typed'
  <2>1. r'.copy < r'.next
    BY <1>2, <1>4
  <2> QED
    BY <1>1, <1>2, <1>4, <2>1, OutcomeTyped DEF TInv, Typed, Stages
<1>6. Bounded' /\ Apart' /\ Using' /\ Converting' /\ Doubting' /\ Copying' /\ Installing'
  BY <1>1 DEF TInv, Bounded, Apart, Using, Converting, Doubting, Copying, Installing, InDoubt, InCopy
<1>7. Taken'
  <2>1. \A f \in DOMAIN dir : f[1] \in {"log", "table"} => f[2] < r.next + 1
    BY <1>2, NameParts DEF TInv, Taken
  <2> QED
    BY <1>1, <1>2, <1>4, <2>1 DEF TInv, Taken
<1>8. Seen' /\ Accounted'
  BY <1>3 DEF Seen, Accounted
<1>9. Kept'
  <2>1. \A m \in Nat : m >= r.next + 1 => m >= r.next
    BY <1>2
  <2>2. \A m \in Nat : Pending(m)' => Pending(m)
    BY <1>1, <1>4, <2>1 DEF Pending, InDoubt
  <2> QED
    BY <1>1, <1>2, <2>2, KeptStays, OutcomeTyped DEF TInv
<1> QED
  BY <1>5, <1>6, <1>7, <1>8, <1>9 DEF TInv

LEMMA OpenCopyKeeps ==
  ASSUME TInv, OpenCopy
  PROVE  TInv'
<1> DEFINE new == Table(r.next)
<1>1. PICK read \in SUBSET dir[Table(r.at)].data :
        /\ IF read = dir[Table(r.at)].data THEN Succeeds ELSE Fails
        /\ r' = [r EXCEPT !.copy = r.next, !.next = @ + 1, !.read = read]
  BY DEF OpenCopy
<1>2. /\ stage = "open copy" /\ stage' = "archive table" /\ (Succeeds \/ Fails)
      /\ dir' = With(dir, new, Unfinished)
      /\ UNCHANGED <<lost, current, db, had>>
  BY <1>1 DEF OpenCopy, Goes
<1>3. /\ Active /\ Active' /\ InDoubt /\ FilesOK(dir) /\ FilesOK(lost) /\ r \in RepairerType
      /\ r.at \in Nat /\ r.numbers \in SUBSET Nat /\ r.logs = {} /\ r.next \in Nat
  BY <1>2 DEF TInv, Typed, Active, InDoubt, RepairerType, Taken
<1>4. /\ r.at < r.next /\ r.at \notin r.numbers /\ \A t \in r.tables : t.number # r.at
      /\ Table(r.at) \in DOMAIN dir
      /\ failures = 0 => ~dir[Table(r.at)].ok /\ r.seen = dir[Table(r.at)].data
  BY <1>3 DEF TInv, Doubting
<1>5. read \in SUBSET Entries
  <2>1. Table(r.at)[1] = "table"
    BY NamesDiffer
  <2>2. dir[Table(r.at)].data \in SUBSET Entries
    BY <1>3, <1>4, <2>1 DEF FilesOK, Tabs
  <2> QED
    BY <2>2
<1>6. /\ r' \in RepairerType
      /\ r'.logs = r.logs /\ r'.numbers = r.numbers /\ r'.manifests = r.manifests
      /\ r'.tables = r.tables /\ r'.next = r.next + 1 /\ r'.at = r.at /\ r'.copy = r.next
      /\ r'.seen = r.seen /\ r'.read = read
  <2>1. r.next + 1 \in Nat
    BY <1>3
  <2> QED
    BY <1>1, <1>3, <1>5, <2>1 DEF RepairerType
<1>7. \A f \in DOMAIN dir : f[1] \in {"log", "table"} => f[2] < r.next
  BY <1>3 DEF TInv, Taken
<1>8. new \notin DOMAIN dir
  BY <1>3, <1>7, NamesDiffer
<1>9. /\ FilesOK(dir')
      /\ \A f \in DOMAIN dir : f \in DOMAIN dir' /\ dir'[f] = dir[f]
      /\ DOMAIN dir' = DOMAIN dir \union {new} /\ dir'[new] = Unfinished
  <2>1. Fits(new, Unfinished)
    BY <1>3, NamesDiffer, NamesTyped, UnfinishedFits DEF Fits
  <2>2. FilesOK(dir')
    BY <1>2, <1>3, <2>1, FilesWith
  <2> QED
    BY <1>2, <1>8, <2>2 DEF With
<1>10. Typed'
  <2>1. failures' \in Nat /\ damages' \in 0 .. MaxDamages /\ faults' \in 0 .. MaxFailures
    BY <1>2, OutcomeTyped
  <2>2. r'.copy < r'.next
    BY <1>3, <1>6
  <2>3. db' \in DatabaseType /\ stage' \in Stages
    BY <1>2 DEF TInv, Typed, Stages
  <2> QED
    BY <1>2, <1>3, <1>6, <1>9, <2>1, <2>2, <2>3 DEF Typed
<1>11. Bounded'
  <2>1. PICK b \in Nat : \A f \in DOMAIN dir : f[2] < b
    BY DEF TInv, Bounded
  <2>2. \A f \in DOMAIN dir' : f[2] < b + r.next + 1
    <3>1. ASSUME NEW f \in DOMAIN dir PROVE f[2] < b + r.next + 1
      BY <1>3, <2>1, NameParts
    <3>2. new[2] < b + r.next + 1
      BY <1>3, NamesDiffer
    <3> QED
      BY <1>9, <3>1, <3>2
  <2>3. b + r.next + 1 \in Nat
    BY <1>3
  <2> QED
    BY <2>2, <2>3 DEF Bounded
<1>12. Apart' /\ Using' /\ Converting' /\ Installing'
  <2>1. new[1] # "log"
    BY NamesDiffer
  <2> QED
    BY <1>2, <1>9, <2>1 DEF TInv, Apart, Using, Converting, Installing
<1>13. Taken'
  <2>1. /\ \A m \in r.numbers : Table(m) \in DOMAIN dir'
        /\ \A t \in r.tables : /\ t.number \notin r.numbers /\ Table(t.number) \in DOMAIN dir'
                               /\ dir'[Table(t.number)] = Whole(t.data)
    BY <1>3, <1>9 DEF TInv, Taken
  <2>2. \A f \in DOMAIN dir' : f[1] \in {"log", "table"} => f[2] < r'.next
    <3>1. ASSUME NEW f \in DOMAIN dir, f[1] \in {"log", "table"} PROVE f[2] < r.next + 1
      BY <1>3, <1>7, <3>1, NameParts
    <3>2. new[2] < r.next + 1
      BY <1>3, NamesDiffer
    <3> QED
      BY <1>6, <1>9, <3>1, <3>2
  <2> QED
    BY <1>2, <1>3, <1>6, <2>1, <2>2 DEF Taken
<1>14. Seen'
  BY <1>2, <1>3, <1>6, OutcomeTyped DEF TInv, Seen
<1>15. failures' = 0 => failures = 0 /\ read = dir[Table(r.at)].data
  BY <1>1, <1>2, OutcomeTyped, FailuresCount DEF TInv, Typed
<1>16. Doubting'
  <2>1. r.at < r.next + 1
    BY <1>3, <1>4
  <2>2. Table(r.at) \in DOMAIN dir' /\ dir'[Table(r.at)] = dir[Table(r.at)]
    BY <1>4, <1>9
  <2> QED
    BY <1>2, <1>4, <1>6, <1>15, <2>1, <2>2 DEF Doubting, InDoubt, InCopy
<1>17. Copying'
  <2>1. r.at # r.next /\ r.next \notin r.numbers
    BY <1>3, <1>4, <1>8 DEF TInv, Taken
  <2>2. \A t \in r.tables : t.number # r.next
    BY <1>3, <1>8 DEF TInv, Taken
  <2>3. Table(r.at) \in DOMAIN dir' /\ dir'[Table(r.at)] = dir[Table(r.at)]
    BY <1>4, <1>9
  <2>6. failures' \in Nat
    BY <1>2, OutcomeTyped
  <2>4. failures' > 0 \/ read = dir[Table(r.at)].data
    BY <1>15, <2>6
  <2>5. failures' = 0 => r.seen = read
    BY <1>4, <1>15
  <2>7. read \subseteq dir[Table(r.at)].data
    BY <1>1
  <2> QED
    BY <1>2, <1>6, <1>9, <2>1, <2>2, <2>3, <2>4, <2>5, <2>7 DEF Copying, InCopy
<1>18. Kept'
  <2>1. \A m \in Nat : m >= r.next + 1 => m >= r.next
    BY <1>3
  <2>2. \A m \in Nat : Pending(m)' => Pending(m)
    BY <1>2, <1>6, <2>1 DEF Pending, InDoubt
  <2> QED
    BY <1>2, <1>3, <1>9, <2>2, KeptStays, OutcomeTyped DEF TInv
<1>19. Accounted'
  <2>1. SUFFICES ASSUME failures' = 0
                 PROVE  had' = (UNION {Found(dir'[Log(m)]) : m \in r'.logs})
                                 \union (UNION {dir'[Table(m)].data : m \in r'.numbers})
                                 \union (UNION {t.data : t \in r'.tables}) \union InHand'
    BY DEF Accounted
  <2>2. InHand = dir[Table(r.at)].data /\ InHand' = dir[Table(r.at)].data
    <3>1. InHand' = dir'[Table(r.at)].data
      BY <1>2, <1>6 DEF InHand, InDoubt
    <3> QED
      BY <1>2, <1>4, <1>9, <3>1 DEF InHand, InDoubt
  <2>3. had = (UNION {Found(dir[Log(m)]) : m \in r.logs})
                \union (UNION {dir[Table(m)].data : m \in r.numbers})
                \union (UNION {t.data : t \in r.tables}) \union InHand
    BY <1>3, <1>15, <2>1 DEF TInv, Accounted
  <2>4. \A m \in r.numbers : dir'[Table(m)] = dir[Table(m)]
    BY <1>3, <1>9 DEF TInv, Taken
  <2>5. (UNION {dir[Table(m)].data : m \in r.numbers})
          = (UNION {dir'[Table(m)].data : m \in r'.numbers})
    BY <1>6, <2>4
  <2> QED
    BY <1>2, <1>3, <1>6, <2>2, <2>3, <2>5
<1> QED
  BY <1>10, <1>11, <1>12, <1>13, <1>14, <1>16, <1>17, <1>18, <1>19 DEF TInv

LEMMA NotBoth ==
  ASSUME NEW m \in Nat, NEW n \in Nat, m < n
  PROVE  ~(m >= n)
OBVIOUS

\* What DropTable and ArchiveTable have in common.
LEMMA TableToLost ==
  ASSUME TInv, stage \in {"drop table", "archive table"}, Archive(Table(r.at)),
         stage' = (IF stage = "drop table" THEN "tables" ELSE "finish copy"),
         UNCHANGED <<current, db, had>>, r' \in RepairerType, r'.copy < r'.next,
         r'.logs = r.logs, r'.numbers = r.numbers, r'.tables = r.tables, r'.next = r.next
  PROVE  /\ Archived(Table(r.at))
         /\ Typed' /\ Bounded' /\ Apart' /\ Using' /\ Taken' /\ Seen'
         /\ Converting' /\ Installing' /\ Kept'
<1>1. /\ FilesOK(dir) /\ FilesOK(lost) /\ r \in RepairerType /\ Active /\ Active' /\ InDoubt
      /\ r.numbers \in SUBSET Nat /\ r.at \in Nat /\ r.next \in Nat /\ r.logs = {}
      /\ failures \in Nat
  BY DEF TInv, Typed, Active, RepairerType, InDoubt, Taken
<1>2. /\ r.at < r.next /\ r.at \notin r.numbers /\ \A t \in r.tables : t.number # r.at
      /\ Table(r.at) \in DOMAIN dir
  BY <1>1 DEF TInv, Doubting
<1>3. PICK name : name = Table(r.at)
  OBVIOUS
<1>4. /\ name \in DOMAIN dir /\ Archive(name) /\ name[1] = "table" /\ name[2] = r.at
      /\ \A m : Log(m) # name /\ (Table(m) = name => m = r.at)
  <2>1. /\ name[1] = "table" /\ name[2] = r.at
        /\ \A m : Log(m) # name /\ (Table(m) = name => m = r.at)
    BY <1>3 DEF Log, Table
  <2> QED
    BY <1>2, <1>3, <2>1
<1>5. Fits(name, dir[name])
  BY <1>1, <1>4, FilesFit
<1>6. Archived(name)
  BY <1>1, <1>4, <1>5, ArchiveFacts
<1>7. /\ FilesOK(dir') /\ FilesOK(lost') /\ (Succeeds \/ Fails)
      /\ DOMAIN dir' \subseteq DOMAIN dir
      /\ \A f \in DOMAIN dir : f # name => f \in DOMAIN dir' /\ dir'[f] = dir[f]
      /\ DOMAIN lost' \subseteq DOMAIN lost \union {name}
  BY <1>6 DEF Archived
<1>8. Typed'
  <2>1. failures' \in Nat /\ damages' \in 0 .. MaxDamages /\ faults' \in 0 .. MaxFailures
    BY <1>7, OutcomeTyped
  <2>2. db' \in DatabaseType /\ stage' \in Stages
    BY DEF TInv, Typed, Stages
  <2> QED
    BY <1>7, <2>1, <2>2 DEF Typed
<1>9. Bounded' /\ Apart'
  BY <1>4, <1>7 DEF TInv, Bounded, Apart
<1>10. Using' /\ Converting' /\ Installing'
  BY DEF Using, Converting, Installing
<1>11. Taken'
  <2>1. \A m \in r.numbers : Table(m) \in DOMAIN dir'
    BY <1>1, <1>2, <1>4, <1>7 DEF TInv, Taken
  <2>2. \A t \in r.tables : /\ t.number \notin r.numbers /\ Table(t.number) \in DOMAIN dir'
                            /\ dir'[Table(t.number)] = Whole(t.data)
    BY <1>1, <1>2, <1>4, <1>7 DEF TInv, Taken
  <2>3. \A f \in DOMAIN dir' : f[1] \in {"log", "table"} => f[2] < r'.next
    BY <1>1, <1>7 DEF TInv, Taken
  <2>4. stage' \in {"tables", "finish copy"}
    OBVIOUS
  <2> QED
    BY <1>1, <2>1, <2>2, <2>3, <2>4 DEF Taken
<1>12. Seen'
  BY <1>1, <1>7, OutcomeTyped DEF TInv, Seen
<1>13. Kept'
  <2>1. ~InDoubt' /\ stage # "build" /\ stage' # "build"
    BY DEF InDoubt
  <2>2. \A m \in Nat : Pending(m)' => Pending(m)
    BY <2>1 DEF Pending
  <2>3. PICK n \in Nat : n = r.at
    BY <1>1
  <2>4. Pending(n) /\ ~Pending(n)'
    <3>1. n < r.next
      BY <1>2, <2>3
    <3>2. ~(n >= r.next)
      BY <1>1, <3>1, NotBoth
    <3> QED
      BY <1>1, <1>2, <2>1, <2>3, <3>2 DEF Pending
  <2>5. Pending(name[2]) /\ ~Pending(name[2])'
    BY <1>4, <2>3, <2>4
  <2> QED
    BY <1>1, <1>4, <1>5, <2>2, <2>5, ArchiveKeepsAll DEF TInv
<1> QED
  BY <1>3, <1>6, <1>8, <1>9, <1>10, <1>11, <1>12, <1>13

LEMMA DropTableKeeps ==
  ASSUME TInv, DropTable
  PROVE  TInv'
<1>1. /\ stage = "drop table" /\ stage' = "tables" /\ Archive(Table(r.at)) /\ r' = Returned(r)
      /\ UNCHANGED <<current, db, had>>
  BY DEF DropTable, Goes
<1>2. r \in RepairerType /\ r.next \in Nat /\ r.copy < r.next /\ r.copy \in Nat /\ failures \in Nat
  BY DEF TInv, Typed, RepairerType
<1>3. /\ r' \in RepairerType /\ r'.logs = r.logs /\ r'.numbers = r.numbers
      /\ r'.tables = r.tables /\ r'.next = r.next /\ r'.copy < r'.next
  <2>1. PICK x : x = Returned(r)
    OBVIOUS
  <2>2. /\ x \in RepairerType /\ x.logs = r.logs /\ x.numbers = r.numbers
        /\ x.tables = r.tables /\ x.next = r.next /\ x.copy = 0
    BY <1>2, <2>1, ReturnedType
  <2>3. 0 < r.next
    BY <1>2
  <2> QED
    BY <1>1, <2>1, <2>2, <2>3
<1>4. /\ Archived(Table(r.at))
      /\ Typed' /\ Bounded' /\ Apart' /\ Using' /\ Taken' /\ Seen'
      /\ Converting' /\ Installing' /\ Kept'
  BY <1>1, <1>3, TableToLost
<1>5. failures' # 0
  <2>1. failures # 0
    BY <1>1 DEF TInv, Doubting, InDoubt
  <2>2. failures' = failures \/ failures' = failures + 1
    BY <1>4 DEF Archived
  <2> QED
    BY <1>2, <2>1, <2>2
<1>6. Doubting' /\ Copying' /\ Accounted'
  BY <1>1, <1>5 DEF Doubting, Copying, Accounted, InDoubt, InCopy
<1> QED
  BY <1>4, <1>6 DEF TInv

LEMMA ArchiveTableKeeps ==
  ASSUME TInv, ArchiveTable
  PROVE  TInv'
<1>1. /\ stage = "archive table" /\ stage' = "finish copy" /\ Archive(Table(r.at)) /\ r' = r
      /\ UNCHANGED <<current, db, had>>
  BY DEF ArchiveTable, Goes
<1>2. /\ r \in RepairerType /\ r.copy < r.next /\ failures \in Nat /\ Active /\ InCopy /\ InDoubt
      /\ r.logs = {}
  BY <1>1 DEF TInv, Typed, Active, InCopy, InDoubt, Taken
<1>3. /\ Archived(Table(r.at))
      /\ Typed' /\ Bounded' /\ Apart' /\ Using' /\ Taken' /\ Seen'
      /\ Converting' /\ Installing' /\ Kept'
  BY <1>1, <1>2, TableToLost
<1>4. PICK name : name = Table(r.at)
  OBVIOUS
<1>5. /\ \A f \in DOMAIN dir : f # name => f \in DOMAIN dir' /\ dir'[f] = dir[f]
      /\ \/ /\ failures' = failures /\ name \notin DOMAIN dir'
            /\ name \in DOMAIN lost' /\ lost'[name] = dir[name]
         \/ failures' = failures + 1 /\ dir' = dir
      /\ Succeeds \/ Fails
  BY <1>3, <1>4 DEF Archived
<1>6. \A m : Log(m) # name /\ (Table(m) = name => m = r.at)
  BY <1>4, NamesDiffer
<1>7. /\ r.at < r.next /\ r.at \notin r.numbers /\ \A t \in r.tables : t.number # r.at
      /\ name \in DOMAIN dir /\ (failures = 0 => r.seen = dir[name].data)
  BY <1>2, <1>4 DEF TInv, Doubting
<1>8. /\ r.at # r.copy /\ r.copy \notin r.numbers /\ \A t \in r.tables : t.number # r.copy
      /\ Table(r.copy) \in DOMAIN dir /\ dir[Table(r.copy)] = Unfinished
      /\ failures = 0 => r.seen = r.read
      /\ r.read \subseteq dir[name].data
      /\ failures > 0 \/ r.read = dir[name].data
  BY <1>1, <1>2, <1>4 DEF TInv, Copying
<1>9. failures' = 0 => failures = 0
  BY <1>2, <1>5
<1>10. Doubting'
  BY <1>1, <1>7 DEF Doubting, InDoubt, InCopy
<1>11. Copying'
  <2>1. Table(r.copy) \in DOMAIN dir' /\ dir'[Table(r.copy)] = Unfinished
    BY <1>5, <1>6, <1>8
  <2>2. IF name \in DOMAIN dir' THEN failures' >= 2 \/ dir'[name].data = r.read
        ELSE name \in DOMAIN lost' /\ r.read \subseteq lost'[name].data
    BY <1>2, <1>5, <1>7, <1>8
  <2> QED
    BY <1>1, <1>4, <1>8, <1>9, <2>1, <2>2 DEF Copying, InCopy
<1>12. Accounted'
  <2>1. SUFFICES ASSUME failures' = 0
                 PROVE  had' = (UNION {Found(dir'[Log(m)]) : m \in r'.logs})
                                 \union (UNION {dir'[Table(m)].data : m \in r'.numbers})
                                 \union (UNION {t.data : t \in r'.tables}) \union InHand'
    BY DEF Accounted
  <2>2. failures = 0
    BY <1>9, <2>1
  <2>3. InHand = r.read /\ InHand' = r.read
    BY <1>1, <1>4, <1>7, <1>8, <2>2 DEF InHand, InDoubt
  <2>4. had = (UNION {Found(dir[Log(m)]) : m \in r.logs})
                \union (UNION {dir[Table(m)].data : m \in r.numbers})
                \union (UNION {t.data : t \in r.tables}) \union r.read
    BY <1>2, <2>2, <2>3 DEF TInv, Accounted
  <2>5. \A m \in r.numbers : dir'[Table(m)] = dir[Table(m)]
    BY <1>2, <1>5, <1>6, <1>7 DEF TInv, Taken
  <2>6. (UNION {dir[Table(m)].data : m \in r.numbers}) = (UNION {dir'[Table(m)].data : m \in r'.numbers})
    BY <1>1, <2>5
  <2> QED
    BY <1>1, <1>2, <2>3, <2>4, <2>6
<1> QED
  BY <1>3, <1>10, <1>11, <1>12 DEF TInv

LEMMA FinishCopyKeeps ==
  ASSUME TInv, FinishCopy
  PROVE  TInv'
<1>1. /\ stage = "finish copy" /\ UNCHANGED <<lost, current, db, had>>
      /\ \/ /\ Succeeds /\ r.read = {} /\ dir' = dir /\ r' = Returned(r) /\ stage' = "tables"
         \/ /\ Succeeds /\ r.read # {} /\ dir' = [dir EXCEPT ![Table(r.copy)] = Whole(r.read)]
            /\ r' = r /\ stage' = "rename copy"
         \/ /\ Fails /\ dir' \in {dir, Removed(dir, Table(r.copy))} /\ r' = Returned(r)
            /\ stage' = "tables"
  BY DEF FinishCopy, Goes, Cleanup
<1>2. /\ FilesOK(dir) /\ FilesOK(lost) /\ r \in RepairerType /\ Active /\ InCopy
      /\ r.numbers \in SUBSET Nat /\ r.at \in Nat /\ r.copy \in Nat
      /\ r.next \in Nat /\ r.logs = {} /\ r.copy < r.next /\ r.read \in SUBSET Entries
  BY <1>1 DEF TInv, Typed, Active, RepairerType, InCopy, Taken
<1>3. stage' \in {"tables", "rename copy"} /\ Active' /\ (Succeeds \/ Fails)
  BY <1>1 DEF Active
<1>4. /\ r.at < r.next /\ r.at # r.copy /\ r.at \notin r.numbers /\ r.copy \notin r.numbers
      /\ \A t \in r.tables : t.number \notin {r.at, r.copy}
      /\ Table(r.copy) \in DOMAIN dir /\ dir[Table(r.copy)] = Unfinished
      /\ failures = 0 => r.seen = r.read
      /\ IF Table(r.at) \in DOMAIN dir THEN failures >= 2 \/ dir[Table(r.at)].data = r.read
         ELSE Table(r.at) \in DOMAIN lost /\ r.read \subseteq lost[Table(r.at)].data
  BY <1>1, <1>2 DEF TInv, Copying, Doubting
<1>5. PICK name : name = Table(r.copy)
  OBVIOUS
<1>6. name[1] = "table" /\ \A m : Log(m) # name /\ (Table(m) = name => m = r.copy)
  BY <1>5, NamesDiffer
<1>7. /\ FilesOK(dir') /\ DOMAIN dir' \subseteq DOMAIN dir
      /\ \A f \in DOMAIN dir : f # name => f \in DOMAIN dir' /\ dir'[f] = dir[f]
      /\ stage' = "rename copy" => name \in DOMAIN dir' /\ dir'[name] = Whole(r.read)
  <2>1. CASE dir' = dir /\ stage' = "tables"
    BY <1>2, <2>1
  <2>2. CASE dir' = [dir EXCEPT ![Table(r.copy)] = Whole(r.read)]
    <3>1. Whole(r.read) \in Tabs
      BY <1>2, WholeFits
    <3>2. name \in DOMAIN dir /\ dir' = [dir EXCEPT ![name] = Whole(r.read)]
      BY <1>4, <1>5, <2>2
    <3>3. FilesOK(dir')
      BY <1>2, <1>6, <3>1, <3>2 DEF FilesOK
    <3> QED
      BY <3>2, <3>3
  <2>3. CASE dir' = Removed(dir, Table(r.copy)) /\ stage' = "tables"
    <3>1. FilesOK(Removed(dir, name)) /\ dir' = Removed(dir, name)
      BY <1>2, <1>5, <2>3, FilesRemoved
    <3>2. /\ DOMAIN Removed(dir, name) = DOMAIN dir \ {name}
          /\ \A f \in DOMAIN dir : f # name => Removed(dir, name)[f] = dir[f]
      BY RemovedFacts
    <3> QED
      BY <2>3, <3>1, <3>2
  <2>4. \/ dir' = dir /\ stage' = "tables"
        \/ dir' = [dir EXCEPT ![Table(r.copy)] = Whole(r.read)]
        \/ dir' = Removed(dir, Table(r.copy)) /\ stage' = "tables"
    BY <1>1
  <2> QED
    BY <2>1, <2>2, <2>3, <2>4
<1>8. /\ r' \in RepairerType
      /\ r'.logs = r.logs /\ r'.numbers = r.numbers /\ r'.manifests = r.manifests
      /\ r'.tables = r.tables /\ r'.next = r.next /\ r'.copy < r'.next
  <2>1. CASE r' = Returned(r)
    <3>1. Returned(r).copy = 0 /\ 0 < r.next
      BY <1>2, ReturnedType
    <3> QED
      BY <1>2, <2>1, <3>1, ReturnedType
  <2>2. CASE r' = r
    BY <1>2, <2>2
  <2> QED
    BY <1>1, <2>1, <2>2
<1>9. stage' = "rename copy" => r' = r
  BY <1>1
<1>10. Typed'
  <2>1. failures' \in Nat /\ damages' \in 0 .. MaxDamages /\ faults' \in 0 .. MaxFailures
    BY <1>3, OutcomeTyped
  <2>2. db' \in DatabaseType /\ stage' \in Stages
    BY <1>1 DEF TInv, Typed, Stages
  <2> QED
    BY <1>1, <1>2, <1>7, <1>8, <2>1, <2>2 DEF Typed
<1>11. Bounded' /\ Apart'
  BY <1>1, <1>7 DEF TInv, Bounded, Apart
<1>12. Using' /\ Converting' /\ Installing'
  BY <1>3 DEF Using, Converting, Installing
<1>13. Taken'
  <2>1. \A m \in r.numbers : Table(m) \in DOMAIN dir'
    BY <1>2, <1>4, <1>6, <1>7 DEF TInv, Taken
  <2>2. \A t \in r.tables : /\ t.number \notin r.numbers /\ Table(t.number) \in DOMAIN dir'
                            /\ dir'[Table(t.number)] = Whole(t.data)
    BY <1>2, <1>4, <1>6, <1>7 DEF TInv, Taken
  <2>3. \A f \in DOMAIN dir' : f[1] \in {"log", "table"} => f[2] < r'.next
    BY <1>2, <1>7, <1>8 DEF TInv, Taken
  <2> QED
    BY <1>2, <1>3, <1>8, <2>1, <2>2, <2>3 DEF Taken
<1>14. Copying'
  <2>1. CASE stage' = "tables"
    BY <2>1 DEF Copying, InCopy
  <2>2. CASE stage' = "rename copy"
    <3>1. r' = r /\ Table(r.copy) \in DOMAIN dir' /\ dir'[Table(r.copy)] = Whole(r.read)
      BY <1>5, <1>7, <1>9, <2>2
    <3>2. IF Table(r.at) \in DOMAIN dir'
          THEN failures' >= 2 \/ dir'[Table(r.at)].data = r.read
          ELSE Table(r.at) \in DOMAIN lost' /\ r.read \subseteq lost'[Table(r.at)].data
      <4>1. failures \in Nat /\ (failures' = failures \/ failures' = failures + 1)
        BY <1>3, OutcomeTyped
      <4>2. failures >= 2 => failures' >= 2
        BY <4>1
      <4>3. Table(r.at) # name
        BY <1>4, <1>6
      <4> QED
        BY <1>1, <1>4, <1>7, <4>2, <4>3
    <3>3. failures' = 0 => r.seen = r.read
      BY <1>3, <1>4, OutcomeTyped
    <3> QED
      BY <1>4, <2>2, <3>1, <3>2, <3>3 DEF Copying, InCopy
  <2> QED
    BY <1>3, <2>1, <2>2
<1>15. Kept'
  <2>1. \A m \in Nat : Pending(m)' => Pending(m)
    BY <1>1, <1>3, <1>8 DEF Pending, InDoubt
  <2>2. \A e \in had : ~Holds(dir, name, e)
    BY <1>4, <1>5, <1>6, UnfinishedFits DEF Holds
  <2> QED
    BY <1>1, <1>2, <1>3, <1>7, <2>1, <2>2, KeptStays, OutcomeTyped DEF TInv
<1>16. Accounted'
  <2>1. SUFFICES ASSUME failures' = 0
                 PROVE  had' = (UNION {Found(dir'[Log(m)]) : m \in r'.logs})
                                 \union (UNION {dir'[Table(m)].data : m \in r'.numbers})
                                 \union (UNION {t.data : t \in r'.tables}) \union InHand'
    BY DEF Accounted
  <2>2. failures = 0
    BY <2>1, <1>3, OutcomeTyped
  <2>3. InHand = r.read /\ InHand' = r.read
    <3>1. ~Fails
      BY <2>1, FailuresCount DEF TInv, Typed
    <3>2. \/ r.read = {} /\ stage' = "tables"
          \/ r' = r /\ stage' = "rename copy"
      BY <1>1, <3>1
    <3> QED
      BY <1>1, <3>2 DEF InHand, InDoubt
  <2>4. had = (UNION {Found(dir[Log(m)]) : m \in r.logs})
                \union (UNION {dir[Table(m)].data : m \in r.numbers})
                \union (UNION {t.data : t \in r.tables}) \union r.read
    BY <1>2, <2>2, <2>3 DEF TInv, Accounted
  <2>5. \A m \in r.numbers : dir'[Table(m)] = dir[Table(m)]
    BY <1>2, <1>4, <1>6, <1>7 DEF TInv, Taken
  <2>6. (UNION {dir[Table(m)].data : m \in r.numbers}) = (UNION {dir'[Table(m)].data : m \in r'.numbers})
    BY <1>8, <2>5
  <2> QED
    BY <1>1, <1>2, <1>8, <2>3, <2>4, <2>6
<1>17. Seen'
  BY <1>2, <1>3, <1>8, OutcomeTyped DEF TInv, Seen
<1>18. Doubting'
  BY <1>3, <1>4, <1>9 DEF Doubting, InDoubt, InCopy
<1> QED
  BY <1>10, <1>11, <1>12, <1>13, <1>14, <1>15, <1>16, <1>17, <1>18 DEF TInv

LEMMA RenameCopyKeeps ==
  ASSUME TInv, RenameCopy
  PROVE  TInv'
<1>1. /\ stage = "rename copy" /\ stage' = "tables" /\ UNCHANGED <<lost, current, db, had>>
      /\ \/ /\ Succeeds /\ dir' = Renamed(dir, Table(r.copy), Table(r.at))
            /\ r' = Returned([r EXCEPT !.tables = @ \union {Info(r.at, r.read, r.seen)}])
         \/ /\ Fails /\ dir' \in {dir, Removed(dir, Table(r.copy))} /\ r' = Returned(r)
  BY DEF RenameCopy, Goes, Cleanup
<1>2. /\ FilesOK(dir) /\ FilesOK(lost) /\ r \in RepairerType /\ Active /\ Active' /\ InCopy
      /\ r.numbers \in SUBSET Nat /\ r.at \in Nat /\ r.copy \in Nat
      /\ r.next \in Nat /\ r.logs = {} /\ r.copy < r.next /\ r.read \in SUBSET Entries
      /\ r.seen \in SUBSET Entries
  BY <1>1 DEF TInv, Typed, Active, RepairerType, InCopy, Taken
<1>3. Succeeds \/ Fails
  BY <1>1
<1>4. /\ r.at < r.next /\ r.at # r.copy /\ r.at \notin r.numbers /\ r.copy \notin r.numbers
      /\ \A t \in r.tables : t.number \notin {r.at, r.copy}
      /\ Table(r.copy) \in DOMAIN dir /\ dir[Table(r.copy)] = Whole(r.read)
      /\ failures = 0 => r.seen = r.read
      /\ IF Table(r.at) \in DOMAIN dir THEN failures >= 2 \/ dir[Table(r.at)].data = r.read
         ELSE Table(r.at) \in DOMAIN lost /\ r.read \subseteq lost[Table(r.at)].data
  BY <1>1, <1>2 DEF TInv, Copying, Doubting
<1>5. PICK at, name, old, info :
        /\ at = r.at /\ name = Table(r.copy) /\ old = Table(at)
        /\ info = Info(r.at, r.read, r.seen)
  OBVIOUS
<1>16. info.number = at /\ info.data = r.read /\ info.seen = r.seen
  BY <1>5 DEF Info
<1>6. /\ name[1] = "table" /\ old[1] = "table" /\ name # old /\ old[2] = at /\ name[2] = r.copy
      /\ \A m : Log(m) # name /\ (Table(m) = name => m = r.copy)
      /\ \A m : Log(m) # old /\ (Table(m) = old => m = at)
  <2>1. /\ name[1] = "table" /\ name[2] = r.copy
        /\ \A m : Log(m) # name /\ (Table(m) = name => m = r.copy)
    BY <1>5, NamesDiffer
  <2>2. /\ old[1] = "table" /\ old[2] = at
        /\ \A m : Log(m) # old /\ (Table(m) = old => m = at)
    BY <1>5, NamesDiffer
  <2> QED
    BY <1>4, <1>5, <2>1, <2>2
<1>7. /\ FilesOK(dir') /\ DOMAIN dir' \subseteq DOMAIN dir \union {old}
      /\ \A f \in DOMAIN dir : f \notin {name, old} => f \in DOMAIN dir' /\ dir'[f] = dir[f]
      /\ \/ Succeeds /\ old \in DOMAIN dir' /\ dir'[old] = Whole(r.read)
         \/ Fails /\ (old \in DOMAIN dir => old \in DOMAIN dir' /\ dir'[old] = dir[old])
  <2>1. CASE Succeeds /\ dir' = Renamed(dir, Table(r.copy), Table(r.at))
    <3>1. dir' = Renamed(dir, name, old)
      BY <1>5, <2>1
    <3>2. Whole(r.read) \in Tabs /\ old \in Kinds \X Nat
      BY <1>2, <1>5, WholeFits, NamesTyped
    <3>3. Fits(old, dir[name])
      BY <1>4, <1>5, <1>6, <3>2 DEF Fits
    <3>4. FilesOK(Renamed(dir, name, old))
      BY <1>2, <3>3, FilesRenamed
    <3>5. Moved(dir', dir, name, old)
      BY <3>1, RenamedFacts
    <3>6. dir[name] = Whole(r.read)
      BY <1>4, <1>5
    <3> QED
      BY <2>1, <3>1, <3>4, <3>5, <3>6 DEF Moved
  <2>3. CASE Fails /\ dir' = dir
    BY <1>2, <2>3
  <2>2. CASE Fails /\ dir' = Removed(dir, Table(r.copy))
    <3>1. FilesOK(Removed(dir, name)) /\ dir' = Removed(dir, name)
      BY <1>2, <1>5, <2>2, FilesRemoved
    <3>2. /\ DOMAIN Removed(dir, name) = DOMAIN dir \ {name}
          /\ \A f \in DOMAIN dir : f # name => Removed(dir, name)[f] = dir[f]
      BY RemovedFacts
    <3> QED
      BY <1>6, <2>2, <3>1, <3>2
  <2> QED
    BY <1>1, <2>1, <2>2, <2>3
<1>8. /\ r' \in RepairerType
      /\ r'.logs = r.logs /\ r'.numbers = r.numbers /\ r'.manifests = r.manifests
      /\ r'.next = r.next /\ r'.copy = 0
      /\ \/ Succeeds /\ r'.tables = r.tables \union {info}
         \/ Fails /\ r'.tables = r.tables
  <2>1. CASE Succeeds /\ r' = Returned([r EXCEPT !.tables = @ \union {Info(r.at, r.read, r.seen)}])
    <3>1. info \in [number : Nat, data : SUBSET Entries, seen : SUBSET Entries]
      BY <1>2, <1>5 DEF Info
    <3>2. PICK x : x = [r EXCEPT !.tables = @ \union {info}]
      OBVIOUS
    <3>3. r.tables \union {info}
            \in SUBSET [number : Nat, data : SUBSET Entries, seen : SUBSET Entries]
      BY <1>2, <3>1 DEF RepairerType
    <3>4. /\ x \in RepairerType /\ x.logs = r.logs /\ x.numbers = r.numbers
          /\ x.manifests = r.manifests /\ x.next = r.next
          /\ x.tables = r.tables \union {info}
      BY <1>2, <3>2, <3>3 DEF RepairerType
    <3>5. r' = Returned(x)
      BY <1>5, <2>1, <3>2
    <3> QED
      BY <2>1, <3>4, <3>5, ReturnedType
  <2>2. CASE Fails /\ r' = Returned(r)
    BY <1>2, <2>2, ReturnedType
  <2> QED
    BY <1>1, <2>1, <2>2
<1>9. ~(Succeeds /\ Fails)
  <2>1. faults \in Nat
    BY RepairAssumption DEF TInv, Typed
  <2> QED
    BY <2>1 DEF Succeeds, Fails, bounds
<1>10. Typed'
  <2>1. failures' \in Nat /\ damages' \in 0 .. MaxDamages /\ faults' \in 0 .. MaxFailures
    BY <1>3, OutcomeTyped
  <2>2. db' \in DatabaseType /\ stage' \in Stages
    BY <1>1 DEF TInv, Typed, Stages
  <2>3. r'.copy < r'.next
    <3>1. 0 < r.next
      BY <1>2
    <3> QED
      BY <1>8, <3>1
  <2> QED
    BY <1>1, <1>2, <1>7, <1>8, <2>1, <2>2, <2>3 DEF Typed
<1>11. Bounded' /\ Apart'
  <2>1. PICK b \in Nat : \A f \in DOMAIN dir : f[2] < b
    BY DEF TInv, Bounded
  <2>2. \A f \in DOMAIN dir' : f[2] < b + r.next
    <3>1. ASSUME NEW f \in DOMAIN dir PROVE f[2] < b + r.next
      BY <1>2, <2>1, NameParts
    <3>2. old[2] < b + r.next
      BY <1>2, <1>4, <1>5, <1>6
    <3> QED
      BY <1>7, <3>1, <3>2
  <2>3. b + r.next \in Nat
    BY <1>2
  <2>4. Bounded'
    BY <2>2, <2>3 DEF Bounded
  <2>5. Apart'
    BY <1>1, <1>6, <1>7 DEF TInv, Apart
  <2> QED
    BY <2>4, <2>5
<1>12. Using' /\ Converting' /\ Doubting' /\ Copying' /\ Installing'
  BY <1>1 DEF Using, Converting, Doubting, Copying, Installing, InDoubt, InCopy
<1>13. Taken'
  <2>1. \A m \in r.numbers : Table(m) \in DOMAIN dir'
    BY <1>2, <1>4, <1>5, <1>6, <1>7 DEF TInv, Taken
  <2>2. \A t \in r.tables : /\ t.number \notin r.numbers /\ Table(t.number) \in DOMAIN dir'
                            /\ dir'[Table(t.number)] = Whole(t.data)
    BY <1>2, <1>4, <1>5, <1>6, <1>7 DEF TInv, Taken
  <2>3. \A t \in r'.tables : /\ t.number \notin r'.numbers /\ Table(t.number) \in DOMAIN dir'
                             /\ dir'[Table(t.number)] = Whole(t.data)
    <3>1. CASE Fails
      BY <1>8, <1>9, <2>2, <3>1
    <3>2. CASE Succeeds
      <4>1. ASSUME NEW t \in r'.tables
            PROVE  t \in r.tables \/ (t.number = at /\ t.data = r.read)
        BY <1>8, <1>9, <1>16, <3>2
      <4>2. old \in DOMAIN dir' /\ dir'[old] = Whole(r.read)
        BY <1>7, <1>9, <3>2
      <4> QED
        BY <1>4, <1>5, <1>8, <2>2, <4>1, <4>2
    <3> QED
      BY <1>3, <3>1, <3>2
  <2>4. \A f \in DOMAIN dir' : f[1] \in {"log", "table"} => f[2] < r'.next
    <3>1. \A f \in DOMAIN dir : f[1] \in {"log", "table"} => f[2] < r.next
      BY <1>2 DEF TInv, Taken
    <3>2. old[2] < r.next
      BY <1>4, <1>5, <1>6
    <3> QED
      BY <1>7, <1>8, <3>1, <3>2
  <2> QED
    BY <1>1, <1>2, <1>8, <2>1, <2>3, <2>4 DEF Taken

<1>14. Kept'
  <2>1. \A m \in Nat : Pending(m)' => Pending(m)
    BY <1>1, <1>8 DEF Pending, InDoubt
  <2>2. ~Pending(at)'
    <3>1. ~(at >= r.next)
      BY <1>2, <1>4, <1>5
    <3> QED
      BY <1>1, <1>4, <1>5, <1>8, <3>1 DEF Pending, InDoubt
  <2>5. failures' < 2 => failures < 2 /\ failures \in Nat
    BY <1>3, OutcomeTyped
  <2>3. ASSUME NEW e \in had, e \in r.read, failures' < 2
        PROVE  \/ \E f \in DOMAIN dir' : Holds(dir', f, e)
               \/ \E f \in DOMAIN lost' : Holds(lost', f, e) /\ (f[1] = "table" => ~Pending(f[2])')
    <3>1. CASE old \in DOMAIN dir' /\ dir'[old] = Whole(r.read)
      <4>1. Holds(dir', old, e)
        BY <1>2, <1>6, <2>3, <3>1, WholeFits DEF Holds
      <4> QED
        BY <3>1, <4>1
    <3>2. CASE old \in DOMAIN dir /\ old \in DOMAIN dir' /\ dir'[old] = dir[old]
      <4>1. dir[old].data = r.read
        BY <1>4, <1>5, <2>3, <2>5, <3>2
      <4>2. Holds(dir', old, e)
        BY <1>6, <2>3, <3>2, <4>1 DEF Holds
      <4> QED
        BY <3>2, <4>2
    <3>3. CASE old \notin DOMAIN dir
      <4>1. old \in DOMAIN lost' /\ r.read \subseteq lost'[old].data
        BY <1>1, <1>4, <1>5, <3>3
      <4>2. Holds(lost', old, e)
        BY <1>6, <2>3, <4>1 DEF Holds
      <4>3. ~Pending(old[2])'
        BY <1>6, <2>2
      <4> QED
        BY <4>1, <4>2, <4>3
    <3> QED
      BY <1>7, <3>1, <3>2, <3>3
  <2>4. ASSUME NEW e \in had, failures' < 2
        PROVE  \/ \E f \in DOMAIN dir' : Holds(dir', f, e)
               \/ \E f \in DOMAIN lost' : Holds(lost', f, e) /\ (f[1] = "table" => ~Pending(f[2])')
    <3>1. CASE \E f \in DOMAIN dir : Holds(dir, f, e)
      <4>1. PICK f \in DOMAIN dir : Holds(dir, f, e)
        BY <3>1
      <4>2. CASE f \notin {name, old}
        <5>1. Holds(dir', f, e) /\ f \in DOMAIN dir'
          BY <1>7, <4>1, <4>2 DEF Holds
        <5> QED
          BY <5>1
      <4>3. CASE f \in {name, old}
        <5>3. ~(failures >= 2)
          BY <2>4, <2>5
        <5>1. dir[f].data = r.read
          <6>1. CASE f = name
            <7>1. dir[f] = Whole(r.read)
              BY <1>4, <1>5, <6>1
            <7> QED
              BY <7>1 DEF Whole
          <6>2. CASE f = old
            BY <1>4, <1>5, <4>1, <5>3, <6>2
          <6> QED
            BY <4>3, <6>1, <6>2
        <5>2. e \in r.read
          BY <1>6, <4>1, <4>3, <5>1 DEF Holds
        <5> QED
          BY <2>3, <2>4, <5>2
      <4> QED
        BY <4>2, <4>3
    <3>2. CASE \E f \in DOMAIN lost : Holds(lost, f, e) /\ (f[1] = "table" => ~Pending(f[2]))
      <4>1. PICK f \in DOMAIN lost : Holds(lost, f, e) /\ (f[1] = "table" => ~Pending(f[2]))
        BY <3>2
      <4>2. f[2] \in Nat
        BY <1>2, NameParts
      <4>3. Holds(lost', f, e) /\ f \in DOMAIN lost' /\ (f[1] = "table" => ~Pending(f[2])')
        BY <1>1, <2>1, <4>1, <4>2
      <4> QED
        BY <4>3
    <3> QED
      BY <1>1, <1>2, <2>4, <2>5, <3>1, <3>2 DEF TInv, Kept
  <2> QED
    BY <1>1, <2>4 DEF Kept
<1>15. Accounted'
  <2>1. SUFFICES ASSUME failures' = 0
                 PROVE  had' = (UNION {Found(dir'[Log(m)]) : m \in r'.logs})
                                 \union (UNION {dir'[Table(m)].data : m \in r'.numbers})
                                 \union (UNION {t.data : t \in r'.tables}) \union InHand'
    BY DEF Accounted
  <2>2. failures = 0 /\ r'.tables = r.tables \union {info}
    <3>1. ~Fails
      BY <2>1, FailuresCount DEF TInv, Typed
    <3> QED
      BY <1>3, <1>8, <2>1, <3>1, OutcomeTyped
  <2>3. InHand = r.read /\ InHand' = {}
    BY <1>1 DEF InHand, InDoubt
  <2>4. had = (UNION {Found(dir[Log(m)]) : m \in r.logs})
                \union (UNION {dir[Table(m)].data : m \in r.numbers})
                \union (UNION {t.data : t \in r.tables}) \union r.read
    BY <1>2, <2>2, <2>3 DEF TInv, Accounted
  <2>5. \A m \in r.numbers : dir'[Table(m)] = dir[Table(m)]
    BY <1>2, <1>4, <1>5, <1>6, <1>7 DEF TInv, Taken
  <2>6. (UNION {dir[Table(m)].data : m \in r.numbers}) = (UNION {dir'[Table(m)].data : m \in r'.numbers})
    BY <1>8, <2>5
  <2>7. (UNION {t.data : t \in r'.tables}) = (UNION {t.data : t \in r.tables}) \union r.read
    BY <1>16, <2>2
  <2> QED
    BY <1>1, <1>2, <1>8, <2>3, <2>4, <2>6, <2>7
<1>17. Seen'
  <2>1. SUFFICES ASSUME failures' = 0, NEW t \in r'.tables
                 PROVE  t.seen = t.data
    BY DEF Seen
  <2>2. failures = 0 /\ (t \in r.tables \/ t = info)
    BY <1>3, <1>8, <2>1, OutcomeTyped
  <2> QED
    BY <1>2, <1>4, <1>16, <2>2 DEF TInv, Seen
<1> QED
  BY <1>10, <1>11, <1>12, <1>13, <1>14, <1>15, <1>17 DEF TInv

\* The steps from the last table on do not touch logs and tables.
SameLogsAndTables(fs, gs) ==
  /\ FilesOK(gs)
  /\ \A f \in DOMAIN fs : f[1] \in {"log", "table"} => f \in DOMAIN gs /\ gs[f] = fs[f]
  /\ \A f \in DOMAIN gs : f[1] \in {"log", "table"} => f \in DOMAIN fs
Installs ==
  /\ stage \in {"tables", "descriptor", "manifests", "current"}
  /\ stage' \in {"descriptor", "manifests", "current", "done", "error"}
  /\ SameLogsAndTables(dir, dir') /\ SameLogsAndTables(lost, lost')
  /\ Succeeds \/ Fails
  /\ r' \in RepairerType
  /\ r'.logs = r.logs /\ r'.numbers = r.numbers /\ r'.tables = r.tables /\ r'.next = r.next
  /\ r'.copy = r.copy /\ r.numbers = {}
  /\ UNCHANGED <<db, had>>
KeptButInstalled == /\ Typed /\ Apart /\ Using /\ Taken /\ Seen
                    /\ Converting /\ Doubting /\ Copying /\ Kept /\ Accounted

LEMMA InstallKeeps ==
  ASSUME TInv, Installs
  PROVE  KeptButInstalled'
<1>1. /\ stage \in {"tables", "descriptor", "manifests", "current"}
      /\ stage' \in {"descriptor", "manifests", "current", "done", "error"}
      /\ (Succeeds \/ Fails) /\ Active
      /\ UNCHANGED <<db, had>>
  BY DEF Installs, Active
<1>2. /\ r' \in RepairerType
      /\ r'.logs = r.logs /\ r'.numbers = r.numbers /\ r'.tables = r.tables /\ r'.next = r.next
      /\ r'.copy = r.copy /\ r.numbers = {} /\ r.logs = {}
  BY <1>1 DEF Installs, TInv, Taken
<1>3. /\ FilesOK(dir) /\ FilesOK(lost) /\ FilesOK(dir') /\ FilesOK(lost')
      /\ \A f \in DOMAIN dir : f[1] \in {"log", "table"} => f \in DOMAIN dir' /\ dir'[f] = dir[f]
      /\ \A f \in DOMAIN dir' : f[1] \in {"log", "table"} => f \in DOMAIN dir
      /\ \A f \in DOMAIN lost : f[1] \in {"log", "table"} => f \in DOMAIN lost' /\ lost'[f] = lost[f]
      /\ \A f \in DOMAIN lost' : f[1] \in {"log", "table"} => f \in DOMAIN lost
  BY DEF Installs, SameLogsAndTables, TInv, Typed
<1>4. Typed'
  <2>1. failures' \in Nat /\ damages' \in 0 .. MaxDamages /\ faults' \in 0 .. MaxFailures
    BY <1>1, OutcomeTyped
  <2>2. db' \in DatabaseType /\ stage' \in Stages
    BY <1>1 DEF TInv, Typed, Stages
  <2>3. r'.copy < r'.next
    BY <1>2 DEF TInv, Typed
  <2> QED
    BY <1>2, <1>3, <2>1, <2>2, <2>3 DEF Typed
<1>5. Apart' /\ Using'
  BY <1>1, <1>3 DEF TInv, Apart, Using
<1>6. Taken'
  <2>1. \A t \in r.tables : Table(t.number) \in DOMAIN dir' /\ dir'[Table(t.number)] = Whole(t.data)
    <3>1. \A m : Table(m)[1] = "table"
      BY NamesDiffer
    <3>2. ASSUME NEW t \in r.tables
          PROVE  Table(t.number) \in DOMAIN dir /\ dir[Table(t.number)] = Whole(t.data)
      BY <1>1 DEF TInv, Taken
    <3> QED
      BY <1>3, <3>1, <3>2
  <2>2. \A f \in DOMAIN dir' : f[1] \in {"log", "table"} => f[2] < r'.next
    BY <1>1, <1>2, <1>3 DEF TInv, Taken
  <2> QED
    BY <1>1, <1>2, <2>1, <2>2 DEF Taken
<1>7. Converting' /\ Doubting' /\ Copying'
  BY <1>1 DEF Converting, Doubting, Copying, InDoubt, InCopy
<1>8. Kept'
  <2>1. \A m \in Nat : Pending(m)' => Pending(m)
    BY <1>1, <1>2 DEF Pending, InDoubt
  <2>3. failures' < 2 => failures < 2
    BY <1>1, OutcomeTyped
  <2>2. ASSUME NEW e \in had, failures' < 2
        PROVE  \/ \E f \in DOMAIN dir' : Holds(dir', f, e)
               \/ \E f \in DOMAIN lost' : Holds(lost', f, e) /\ (f[1] = "table" => ~Pending(f[2])')
    <3>1. CASE \E f \in DOMAIN dir : Holds(dir, f, e)
      <4>1. PICK f \in DOMAIN dir : Holds(dir, f, e)
        BY <3>1
      <4>2. f \in DOMAIN dir' /\ dir'[f] = dir[f]
        BY <1>3, <4>1 DEF Holds
      <4>3. Holds(dir', f, e)
        BY <4>1, <4>2 DEF Holds
      <4> QED
        BY <4>2, <4>3
    <3>2. CASE \E f \in DOMAIN lost : Holds(lost, f, e) /\ (f[1] = "table" => ~Pending(f[2]))
      <4>1. PICK f \in DOMAIN lost : Holds(lost, f, e) /\ (f[1] = "table" => ~Pending(f[2]))
        BY <3>2
      <4>2. f \in DOMAIN lost' /\ lost'[f] = lost[f]
        BY <1>3, <4>1 DEF Holds
      <4>3. Holds(lost', f, e)
        BY <4>1, <4>2 DEF Holds
      <4>4. f[2] \in Nat
        BY <1>3, NameParts
      <4>5. f[1] = "table" => ~Pending(f[2])'
        BY <2>1, <4>1, <4>4
      <4> QED
        BY <4>2, <4>3, <4>5
    <3> QED
      BY <1>1, <2>2, <2>3, <3>1, <3>2 DEF TInv, Kept
  <2> QED
    BY <1>1, <2>2 DEF Kept
<1>9. Accounted'
  <2>1. SUFFICES ASSUME failures' = 0
                 PROVE  had' = (UNION {Found(dir'[Log(m)]) : m \in r'.logs})
                                 \union (UNION {dir'[Table(m)].data : m \in r'.numbers})
                                 \union (UNION {t.data : t \in r'.tables}) \union InHand'
    BY DEF Accounted
  <2>2. failures = 0
    BY <1>1, <2>1, OutcomeTyped
  <2>3. InHand = {} /\ InHand' = {}
    BY <1>1 DEF InHand, InDoubt
  <2>4. had = (UNION {Found(dir[Log(m)]) : m \in r.logs})
                \union (UNION {dir[Table(m)].data : m \in r.numbers})
                \union (UNION {t.data : t \in r.tables})
    BY <1>1, <2>2, <2>3 DEF TInv, Accounted
  <2> QED
    BY <1>1, <1>2, <2>3, <2>4
<1>10. Seen'
  BY <1>1, <1>2, OutcomeTyped DEF TInv, Seen
<1> QED
  BY <1>4, <1>5, <1>6, <1>7, <1>8, <1>9, <1>10 DEF KeptButInstalled

LEMMA SameIsSame ==
  ASSUME NEW fs, FilesOK(fs)
  PROVE  SameLogsAndTables(fs, fs)
BY DEF SameLogsAndTables

LEMMA SameWith ==
  ASSUME NEW fs, FilesOK(fs), NEW name \in Kinds \X Nat, NEW c,
         name[1] \notin {"log", "table"}
  PROVE  SameLogsAndTables(fs, With(fs, name, c))
<1>1. Fits(name, c)
  BY DEF Fits
<1>2. FilesOK(With(fs, name, c))
  BY <1>1, FilesWith
<1> QED
  BY <1>2 DEF SameLogsAndTables, With

LEMMA SameRemoved ==
  ASSUME NEW fs, FilesOK(fs), NEW name, name[1] \notin {"log", "table"}
  PROVE  SameLogsAndTables(fs, Removed(fs, name))
<1>1. FilesOK(Removed(fs, name))
  BY FilesRemoved
<1>2. DOMAIN Removed(fs, name) = DOMAIN fs \ {name} /\
      \A f \in DOMAIN fs : f # name => Removed(fs, name)[f] = fs[f]
  BY RemovedFacts
<1> QED
  BY <1>1, <1>2 DEF SameLogsAndTables

LEMMA BoundedStays ==
  ASSUME TInv, FilesOK(dir), NEW n \in Nat, \A f \in DOMAIN dir' : f \in DOMAIN dir \/ f[2] \in 0 .. n
  PROVE  Bounded'
<1>1. PICK b \in Nat : \A f \in DOMAIN dir : f[2] < b
  BY DEF TInv, Bounded
<1>2. \A f \in DOMAIN dir : f[2] \in Nat
  BY NameParts
<1>3. b + n + 1 \in Nat
  OBVIOUS
<1>4. ASSUME NEW f \in DOMAIN dir', f \in DOMAIN dir PROVE f[2] < b + n + 1
  BY <1>1, <1>2, <1>4
<1>5. ASSUME NEW f \in DOMAIN dir', f[2] \in 0 .. n PROVE f[2] < b + n + 1
  BY <1>5
<1>6. \A f \in DOMAIN dir' : f[2] < b + n + 1
  BY <1>4, <1>5
<1> QED
  BY <1>3, <1>6 DEF Bounded

LEMMA DescriptorStays ==
  ASSUME r'.tables = r.tables, r'.next = r.next
  PROVE  Descriptor' = Descriptor
BY DEF Descriptor

LEMMA NoRetyping ==
  ASSUME TInv, r' = r
  PROVE  /\ r' \in RepairerType /\ r'.logs = r.logs /\ r'.numbers = r.numbers
         /\ r'.tables = r.tables /\ r'.next = r.next /\ r'.copy = r.copy
BY DEF TInv, Typed

LEMMA TablesDoneKeeps ==
  ASSUME TInv, TablesDone
  PROVE  TInv'
<1>1. /\ stage = "tables" /\ stage' = "descriptor" /\ r.numbers = {}
      /\ UNCHANGED <<dir, lost, current, r, db, had>> /\ Succeeds
  BY DEF TablesDone, Goes, files
<1>2. FilesOK(dir) /\ FilesOK(lost)
  BY DEF TInv, Typed
<1>3. SameLogsAndTables(dir, dir') /\ SameLogsAndTables(lost, lost')
  BY <1>1, <1>2, SameIsSame
<1>4. Installs
  BY <1>1, <1>3, NoRetyping DEF Installs
<1>5. Bounded' /\ Installing'
  BY <1>1 DEF TInv, Bounded, Installing
<1> QED
  BY <1>4, <1>5, InstallKeeps DEF TInv, KeptButInstalled

LEMMA WriteDescriptorKeeps ==
  ASSUME TInv, WriteDescriptor
  PROVE  TInv'
<1>1. /\ stage = "descriptor" /\ UNCHANGED <<lost, current, r, db, had>>
      /\ \/ Succeeds /\ dir' = With(dir, Temp(1), Descriptor) /\ stage' = "manifests"
         \/ /\ Fails /\ stage' = "error"
            /\ dir' \in {dir, Removed(dir, Temp(1)), With(dir, Temp(1), Unfinished)}
  BY DEF WriteDescriptor, Goes, Cleanup
<1>2. FilesOK(dir) /\ FilesOK(lost) /\ r.numbers = {}
  BY <1>1 DEF TInv, Typed, Taken, Active
<1>3. Temp(1) \in Kinds \X Nat /\ Temp(1)[1] = "temp" /\ Temp(1)[2] = 1
  BY NamesTyped, NamesDiffer
<1>4. /\ SameLogsAndTables(dir, dir) /\ SameLogsAndTables(lost, lost)
      /\ \A c : SameLogsAndTables(dir, With(dir, Temp(1), c))
      /\ SameLogsAndTables(dir, Removed(dir, Temp(1)))
  BY <1>2, <1>3, SameIsSame, SameWith, SameRemoved
<1>5. Installs
  <2>1. SameLogsAndTables(dir, dir') /\ SameLogsAndTables(lost, lost')
    BY <1>1, <1>4
  <2> QED
    BY <1>1, <1>2, <2>1, NoRetyping DEF Installs
<1>6. Bounded'
  <2>1. \A f \in DOMAIN dir' : f \in DOMAIN dir \/ f[2] \in 0 .. 1
    <3>1. CASE \E c \in {Descriptor, Unfinished} : dir' = With(dir, Temp(1), c)
      BY <1>3, <3>1 DEF With
    <3>2. CASE dir' = Removed(dir, Temp(1))
      <4>1. DOMAIN dir' = DOMAIN dir \ {Temp(1)}
        BY <3>2, RemovedFacts
      <4> QED
        BY <4>1
    <3> QED
      BY <1>1, <3>1, <3>2
  <2> QED
    BY <1>2, <2>1, BoundedStays
<1>7. Installing'
  <2>1. Descriptor' = Descriptor
    BY <1>1, DescriptorStays
  <2>2. Temp(1) \in DOMAIN With(dir, Temp(1), Descriptor) /\ With(dir, Temp(1), Descriptor)[Temp(1)] = Descriptor
    BY DEF With
  <2> QED
    BY <1>1, <2>1, <2>2 DEF Installing
<1> QED
  BY <1>5, <1>6, <1>7, InstallKeeps DEF TInv, KeptButInstalled

LEMMA ArchiveManifestKeeps ==
  ASSUME TInv, NEW n \in r.manifests, ArchiveManifest(n)
  PROVE  TInv'
<1>1. /\ stage = "manifests" /\ stage' = "manifests" /\ UNCHANGED <<current, db, had>>
      /\ Archive(Manifest(n)) /\ r' = [r EXCEPT !.manifests = @ \ {n}]
  BY DEF ArchiveManifest, Goes
<1>2. /\ FilesOK(dir) /\ FilesOK(lost) /\ r.numbers = {} /\ r \in RepairerType
      /\ failures \in Nat /\ r.manifests \in SUBSET Nat /\ n \in Nat
  BY <1>1 DEF TInv, Typed, Taken, Active, RepairerType
<1>3. PICK name : name = Manifest(n)
  OBVIOUS
<1>4. name \in Kinds \X Nat /\ name[1] = "manifest" /\ name # Temp(1)
  BY <1>2, <1>3, NamesTyped, NamesDiffer
<1>5. Archived(name)
  <2>1. Fits(name, dir[name]) /\ Archive(name)
    BY <1>1, <1>3, <1>4 DEF Fits
  <2> QED
    BY <1>2, <2>1, ArchiveFacts
<1>6. SameLogsAndTables(dir, dir')
  BY <1>4, <1>5 DEF SameLogsAndTables, Archived
<1>7. SameLogsAndTables(lost, lost')
  BY <1>4, <1>5 DEF SameLogsAndTables, Archived
<1>8. /\ r' \in RepairerType /\ r'.logs = r.logs /\ r'.numbers = r.numbers
      /\ r'.tables = r.tables /\ r'.next = r.next /\ r'.copy = r.copy
  <2>1. r.manifests \ {n} \in SUBSET Nat
    BY <1>2
  <2> QED
    BY <1>1, <1>2, <2>1 DEF RepairerType
<1>9. Succeeds \/ Fails
  BY <1>5 DEF Archived
<1>10. Installs
  BY <1>1, <1>2, <1>6, <1>7, <1>8, <1>9 DEF Installs
<1>11. Bounded'
  BY <1>5 DEF TInv, Bounded, Archived
<1>12. Installing'
  <2>1. Descriptor' = Descriptor
    BY <1>8, DescriptorStays
  <2>2. Temp(1) \in DOMAIN dir' /\ dir'[Temp(1)] = dir[Temp(1)] /\ dir[Temp(1)] = Descriptor
    BY <1>1, <1>4, <1>5 DEF TInv, Installing, Archived
  <2> QED
    BY <1>1, <2>1, <2>2 DEF Installing
<1> QED
  BY <1>10, <1>11, <1>12, InstallKeeps DEF TInv, KeptButInstalled

LEMMA RenameDescriptorKeeps ==
  ASSUME TInv, RenameDescriptor
  PROVE  TInv'
<1>1. /\ stage = "manifests" /\ UNCHANGED <<lost, current, r, db, had>>
      /\ \/ Succeeds /\ dir' = Renamed(dir, Temp(1), Manifest(1)) /\ stage' = "current"
         \/ Fails /\ dir' \in {dir, Removed(dir, Temp(1))} /\ stage' = "error"
  BY DEF RenameDescriptor, Goes, Cleanup
<1>2. FilesOK(dir) /\ FilesOK(lost) /\ r.numbers = {}
  BY <1>1 DEF TInv, Typed, Taken, Active
<1>3. PICK temp, name : temp = Temp(1) /\ name = Manifest(1)
  OBVIOUS
<1>4. /\ name \in Kinds \X Nat /\ temp[1] = "temp" /\ name[1] = "manifest" /\ name # temp
      /\ name[2] = 1
  BY <1>3, NamesTyped, NamesDiffer
<1>5. /\ SameLogsAndTables(lost, lost) /\ SameLogsAndTables(dir, dir)
      /\ SameLogsAndTables(dir, Removed(dir, temp))
  BY <1>2, <1>4, SameIsSame, SameRemoved
<1>6. Moved(Renamed(dir, temp, name), dir, temp, name)
  BY RenamedFacts
<1>7. SameLogsAndTables(dir, Renamed(dir, temp, name))
  <2>1. Fits(name, dir[temp])
    BY <1>4 DEF Fits
  <2>2. FilesOK(Renamed(dir, temp, name))
    BY <1>2, <2>1, FilesRenamed
  <2> QED
    BY <1>4, <1>6, <2>2 DEF SameLogsAndTables, Moved
<1>8. Installs
  <2>1. SameLogsAndTables(dir, dir') /\ SameLogsAndTables(lost, lost')
    <3>1. \/ dir' = dir \/ dir' = Removed(dir, temp) \/ dir' = Renamed(dir, temp, name)
      BY <1>1, <1>3
    <3> QED
      BY <1>1, <1>5, <1>7, <3>1
  <2> QED
    BY <1>1, <1>2, <2>1, NoRetyping DEF Installs
<1>9. Bounded'
  <2>1. \A f \in DOMAIN dir' : f \in DOMAIN dir \/ f[2] \in 0 .. 1
    <3>1. CASE dir' = Renamed(dir, temp, name)
      BY <1>4, <1>6, <3>1 DEF Moved
    <3>2. CASE dir' = Removed(dir, temp)
      BY <3>2, RemovedFacts
    <3> QED
      BY <1>1, <1>3, <3>1, <3>2
  <2> QED
    BY <1>2, <2>1, BoundedStays
<1>10. Installing'
  <2>1. Descriptor' = Descriptor
    BY <1>1, DescriptorStays
  <2>2. dir[temp] = Descriptor
    BY <1>1, <1>3 DEF TInv, Installing
  <2>3. CASE dir' = Renamed(dir, temp, name) /\ stage' = "current"
    <3>1. Manifest(1) \in DOMAIN dir' /\ dir'[Manifest(1)] = Descriptor
      BY <1>3, <1>6, <2>2, <2>3 DEF Moved
    <3> QED
      BY <2>1, <2>3, <3>1 DEF Installing
  <2>4. CASE stage' = "error"
    BY <2>4 DEF Installing
  <2> QED
    BY <1>1, <1>3, <2>3, <2>4
<1> QED
  BY <1>8, <1>9, <1>10, InstallKeeps DEF TInv, KeptButInstalled

LEMMA SetCurrentFileKeeps ==
  ASSUME TInv, SetCurrentFile
  PROVE  TInv'
<1>1. /\ stage = "current" /\ UNCHANGED <<dir, lost, r, db, had>>
      /\ \/ Succeeds /\ current' = 1 /\ stage' = "done"
         \/ Fails /\ stage' = "error"
  BY DEF SetCurrentFile, Goes
<1>2. FilesOK(dir) /\ FilesOK(lost) /\ r.numbers = {}
  BY <1>1 DEF TInv, Typed, Taken, Active
<1>3. SameLogsAndTables(dir, dir') /\ SameLogsAndTables(lost, lost')
  BY <1>1, <1>2, SameIsSame
<1>4. Installs
  BY <1>1, <1>2, <1>3, NoRetyping DEF Installs
<1>5. Bounded'
  BY <1>1 DEF TInv, Bounded
<1>6. Installing'
  <2>1. Descriptor' = Descriptor
    BY <1>1, DescriptorStays
  <2>2. Manifest(1) \in DOMAIN dir /\ dir[Manifest(1)] = Descriptor
    BY <1>1 DEF TInv, Installing
  <2> QED
    BY <1>1, <2>1, <2>2 DEF Installing
<1> QED
  BY <1>4, <1>5, <1>6, InstallKeeps DEF TInv, KeptButInstalled

LEMMA CrashKeeps ==
  ASSUME TInv, Crash
  PROVE  TInv'
<1>1. /\ stage \notin {"in use", "stopped"} /\ stage' = "ended" /\ r' = NewRepairer
      /\ faults < MaxFailures /\ faults' = faults + 1
      /\ UNCHANGED <<dir, lost, current, db, failures, had, damages>>
  BY DEF Crash, Repairing, files
<1>2. FilesOK(lost) /\ ~Active'
  BY <1>1 DEF TInv, Typed, Active
<1>3. Typed'
  <2>1. NewRepairer.copy < NewRepairer.next
    BY DEF NewRepairer
  <2>2. faults' \in 0 .. MaxFailures
    <3>1. faults \in Nat /\ MaxFailures \in Nat
      BY RepairAssumption DEF TInv, Typed
    <3>2. faults < MaxFailures /\ faults' = faults + 1
      BY <1>1
    <3> QED
      BY <3>1, <3>2
  <2> QED
    BY <1>1, <2>1, <2>2, NewRepairerType DEF TInv, Typed, Stages
<1>4. Bounded' /\ Apart' /\ Using' /\ Converting' /\ Doubting' /\ Copying' /\ Installing'
  BY <1>1 DEF TInv, Bounded, Apart, Using, Converting, Doubting, Copying, Installing, InDoubt, InCopy
<1>5. Taken' /\ Seen' /\ Accounted'
  BY <1>2 DEF Taken, Seen, Accounted
<1>6. Kept'
  BY <1>1, <1>2, KeptStays DEF TInv
<1> QED
  BY <1>3, <1>4, <1>5, <1>6 DEF TInv

LEMMA InitKeeps == Init => TInv
<1>1. SUFFICES ASSUME Init PROVE TInv
  OBVIOUS
<1>2. /\ dir = With([f \in {Manifest(1)} |-> "not read"], Log(2), <<>>) /\ lost = <<>> /\ current = 1
      /\ db = [Idle EXCEPT !.log = 2, !.next = 3]
      /\ stage = "in use" /\ r = NewRepairer /\ failures = 0 /\ had = {}
      /\ damages = 0 /\ faults = 0
  BY <1>1 DEF Init
<1>3. /\ DOMAIN dir = {Log(2), Manifest(1)} /\ dir[Log(2)] = <<>>
      /\ dir = [f \in DOMAIN dir |-> dir[f]]
  <2>1. Log(2) # Manifest(1)
    BY NamesDiffer
  <2>2. PICK fs : fs = [f \in {Manifest(1)} |-> "not read"]
    OBVIOUS
  <2>3. dir = [f \in DOMAIN fs \union {Log(2)} |-> IF f = Log(2) THEN <<>> ELSE fs[f]]
    BY <1>2, <2>2 DEF With
  <2> QED
    BY <2>1, <2>2, <2>3
<1>4. DOMAIN lost = {} /\ lost = [f \in DOMAIN lost |-> lost[f]]
  <2>1. lost = <<>>
    BY <1>2
  <2>2. DOMAIN lost = {}
    BY <2>1, EmptyDomain
  <2>3. lost \in Seq({})
    BY <2>1, EmptySeq
  <2> QED
    BY <2>2, <2>3, <2>1
<1>5. {Log(2), Manifest(1)} \subseteq Kinds \X Nat /\ Log(2)[1] = "log" /\ Log(2)[2] = 2
      /\ Manifest(1)[1] = "manifest" /\ Manifest(1)[2] = 1
  BY NamesTyped, NamesDiffer
<1>6. FilesOK(dir) /\ FilesOK(lost)
  <2>1. <<>> \in Seq(SUBSET Entries)
    BY EmptySeq
  <2> QED
    BY <1>3, <1>4, <1>5, <2>1 DEF FilesOK
<1>7. /\ db \in DatabaseType /\ db.log = 2 /\ db.full = 0 /\ db.tables = {} /\ db.merging = {}
      /\ db.obsolete = {} /\ db.next = 3 /\ db.last = 0
  BY <1>2, IdleType DEF Idle, DatabaseType
<1>8. Typed
  <2>1. NewRepairer.copy < NewRepairer.next
    BY DEF NewRepairer
  <2>2. 0 \in 0 .. MaxDamages /\ 0 \in 0 .. MaxFailures
    BY RepairAssumption
  <2> QED
    BY <1>2, <1>6, <1>7, <2>1, <2>2, NewRepairerType DEF Typed, Stages
<1>9. Bounded
  <2>1. \A f \in DOMAIN dir : f[2] < 3
    BY <1>3, <1>5
  <2> QED
    BY <2>1 DEF Bounded
<1>10. Apart
  BY <1>4 DEF Apart
<1>11. Using
  <2>1. \A f \in DOMAIN dir \union db.obsolete : f[2] < db.next
    BY <1>3, <1>5, <1>7
  <2>2. db.last <= MaxWrites
    BY <1>7, RepairAssumption
  <2> QED
    BY <1>2, <1>3, <1>7, <2>1, <2>2 DEF Using
<1>12. Idling
  BY <1>8, <1>9, <1>10, <1>11 DEF Idling
<1> QED
  BY <1>2, <1>12, IdlingIsAll

LEMMA StutterKeeps ==
  ASSUME TInv, UNCHANGED vars
  PROVE  TInv'
<1>1. UNCHANGED <<dir, lost, current, db, stage, r, failures, had, damages, faults>>
  BY DEF vars, files, bounds
<1>2. Typed' /\ Bounded' /\ Apart' /\ Using' /\ Taken' /\ Seen'
  BY <1>1 DEF TInv, Typed, Bounded, Apart, Using, Taken, Seen, Active
<1>3. Converting' /\ Doubting' /\ Copying' /\ Installing'
  BY <1>1 DEF TInv, Converting, Doubting, Copying, InDoubt, InCopy, Installing, Descriptor
<1>4. Kept'
  BY <1>1 DEF TInv, Kept, Active, Pending, InDoubt, Holds
<1>5. Accounted'
  <2>1. InHand' = InHand /\ (Active' <=> Active)
    BY <1>1 DEF InHand, InDoubt, Active
  <2>2. (UNION {Found(dir'[Log(n)]) : n \in r'.logs}) = (UNION {Found(dir[Log(n)]) : n \in r.logs})
    BY <1>1
  <2>3. (UNION {dir'[Table(n)].data : n \in r'.numbers}) = (UNION {dir[Table(n)].data : n \in r.numbers})
    BY <1>1
  <2>4. (UNION {t.data : t \in r'.tables}) = (UNION {t.data : t \in r.tables})
    BY <1>1
  <2> QED
    BY <1>1, <2>1, <2>2, <2>3, <2>4 DEF TInv, Accounted
<1> QED
  BY <1>2, <1>3, <1>4, <1>5 DEF TInv

\* Every step keeps the invariant.
LEMMA StepKeeps ==
  ASSUME TInv, [Next]_vars
  PROVE  TInv'
<1>1. CASE Use \/ Stop \/ Damage
  BY <1>1, UseKeeps
<1>2. CASE FindFiles
  BY <1>2, FindFilesKeeps
<1>3. CASE ConvertLogs
  BY <1>3, ConvertLogKeeps, LogUnreadKeeps, BuildTableKeeps, ArchiveLogKeeps, LogsDoneKeeps
     DEF ConvertLogs
<1>4. CASE ScanTables
  BY <1>4, ScanTableKeeps, DoubtKeeps, DropTableKeeps, OpenCopyKeeps, NoCopyKeeps,
     ArchiveTableKeeps, FinishCopyKeeps, RenameCopyKeeps, TablesDoneKeeps DEF ScanTables
<1>5. CASE Install
  BY <1>5, WriteDescriptorKeeps, ArchiveManifestKeeps, RenameDescriptorKeeps, SetCurrentFileKeeps
     DEF Install
<1>6. CASE Crash
  BY <1>6, CrashKeeps
<1>7. CASE UNCHANGED vars
  BY <1>7, StutterKeeps
<1> QED
  BY <1>1, <1>2, <1>3, <1>4, <1>5, <1>6, <1>7 DEF Next

\* The invariant holds in every state of every run of RepairDB, interrupted and
\* called again as often as one likes.  (repair.cc.)
THEOREM RepairInvariant == Spec => []TInv
<1>1. TInv /\ [Next]_vars => TInv'
  BY StepKeeps
<1> QED
  BY InitKeeps, <1>1, PTL DEF Spec

\* The Repairer's logs and tables are in the directory as long as it has to look
\* at them, and its copy has a number that was given out.  (Repairer, repair.cc.)
THEOREM RepairTypeCorrect == Spec => []TypeOK
<1>1. TInv => TypeOK
  <2>1. SUFFICES ASSUME TInv PROVE TypeOK
    OBVIOUS
  <2>2. Repairing => Active
    BY DEF Repairing, Active
  <2>3. r.copy < r.next
    BY <2>1 DEF TInv, Typed
  <2>4. /\ Repairing => \A n \in r.logs : Log(n) \in DOMAIN dir
        /\ Repairing => \A n \in r.numbers : Table(n) \in DOMAIN dir
    BY <2>1, <2>2 DEF TInv, Taken
  <2>5. damages \in 0 .. MaxDamages /\ faults \in 0 .. MaxFailures
    BY <2>1 DEF TInv, Typed
  <2> QED
    BY <2>3, <2>4, <2>5 DEF TypeOK
<1> QED
  BY <1>1, RepairInvariant, PTL

\* What the directory held when RepairDB was called can be read ever after, in
\* the directory or in lost/, wherever the process ends and whichever operation
\* fails, unless two fail: a call replaces no file of lost/ that it needs, and a
\* copy that is not complete replaces its table only when archiving failed too.
\* (ArchiveFile, RepairTable.)
THEOREM NothingIsDestroyed == Spec => []NothingDestroyed
<1>1. TInv => NothingDestroyed
  <2>1. SUFFICES ASSUME TInv, stage \notin {"in use", "stopped"}, failures < 2, NEW e \in had
                 PROVE  e \in EntriesIn(dir) \union EntriesIn(lost)
    BY DEF NothingDestroyed
  <2>2. (\E f \in DOMAIN dir : Holds(dir, f, e)) \/ (\E f \in DOMAIN lost : Holds(lost, f, e))
    BY <2>1 DEF TInv, Kept
  <2>3. CASE \E f \in DOMAIN dir : Holds(dir, f, e)
    BY <2>3, EntriesHeld
  <2>4. CASE \E f \in DOMAIN lost : Holds(lost, f, e)
    BY <2>4, EntriesHeld
  <2> QED
    BY <2>2, <2>3, <2>4
<1> QED
  BY <1>1, RepairInvariant, PTL

\* The last sequence number of the new manifest is behind that of every entry.
LEMMA LastIsLast ==
  ASSUME NEW data \in SUBSET Entries
  PROVE  \A e \in data : e.seq <= Max({x.seq : x \in data} \union {0})
<1> DEFINE S == {x.seq : x \in data} \union {0}
<1>1. Huge \in Nat
  BY RepairAssumption DEF Huge
<1>2. \A e \in data : e.seq \in 0 .. Huge
  BY DEF Entries, Entry
<1>3. S \subseteq Nat /\ S # {} /\ \A n \in S : n <= Huge
  BY <1>1, <1>2
<1>4. \A e \in data : e.seq \in S
  OBVIOUS
<1>5. \A n \in S : n <= Max(S)
  <2> HIDE DEF S
  <2> QED
    BY <1>1, <1>3, BoundedMax
<1> QED
  BY <1>4, <1>5

\* When RepairDB reports success, CURRENT names a manifest whose tables are all
\* there, whole, and the next file number is behind all files; unless an operation
\* failed they have everything that could be read, and the last sequence number is
\* that of it or a later one.  (Run, WriteDescriptor.)
THEOREM ARepairedDatabaseIsWhole == Spec => []RepairedIsWhole
<1>1. TInv => RepairedIsWhole
  <2>1. SUFFICES ASSUME TInv, stage = "done" PROVE RepairedIsWhole
    BY DEF RepairedIsWhole
  <2>2. /\ Active /\ FilesOK(dir) /\ r \in RepairerType /\ r.numbers = {} /\ r.logs = {}
        /\ r.next \in Nat
    BY <2>1 DEF TInv, Typed, Active, Taken, RepairerType
  <2>3. current = 1 /\ Manifest(1) \in DOMAIN dir /\ dir[Manifest(1)] = Descriptor
    BY <2>1 DEF TInv, Installing
  <2>4. \A t \in r.tables : Table(t.number) \in DOMAIN dir /\ dir[Table(t.number)] = Whole(t.data)
    BY <2>1, <2>2 DEF TInv, Taken
  <2>5. PICK data : data = UNION {t.seen : t \in r.tables}
    OBVIOUS
  <2>6. data \in SUBSET Entries
    BY <2>2, <2>5 DEF RepairerType
  <2>7. /\ Descriptor.tables = r.tables /\ Descriptor.next = r.next
        /\ Descriptor.last = Max({e.seq : e \in data} \union {0})
    BY <2>5 DEF Descriptor
  <2>8. \A e \in data : e.seq <= Descriptor.last
    BY <2>6, <2>7, LastIsLast
  <2>9. failures > 0 \/ (UNION {t.data : t \in r.tables} = had /\ data = had)
    <3>1. SUFFICES ASSUME failures = 0
                   PROVE  UNION {t.data : t \in r.tables} = had /\ data = had
      BY <2>1 DEF TInv, Typed
    <3>2. InHand = {}
      BY <2>1 DEF InHand, InDoubt
    <3>3. UNION {t.data : t \in r.tables} = had
      BY <2>1, <2>2, <3>1, <3>2 DEF TInv, Accounted
    <3>4. \A t \in r.tables : t.seen = t.data
      BY <2>1, <2>2, <3>1 DEF TInv, Seen
    <3> QED
      BY <2>5, <3>3, <3>4
  <2>10. \A n \in Numbers("table") \union Numbers("log") : n < r.next
    <3>1. ASSUME NEW kind \in {"log", "table"}, NEW n \in Numbers(kind) PROVE n < r.next
      <4>1. <<kind, n>> \in DOMAIN dir
        BY <2>2, NumbersAre
      <4>2. <<kind, n>>[1] = kind /\ <<kind, n>>[2] = n
        OBVIOUS
      <4> QED
        BY <2>1, <2>2, <4>1, <4>2 DEF TInv, Taken
    <3> QED
      BY <3>1
  <2> QED
    BY <2>3, <2>4, <2>5, <2>7, <2>8, <2>9, <2>10 DEF RepairedIsWhole
<1> QED
  BY <1>1, RepairInvariant, PTL

-----------------------------------------------------------------------------
(* What one step of a repair destroys. *)

\* What a step keeps, entry by entry.
NoneLost ==
  /\ \A e : \A f \in DOMAIN dir : Holds(dir, f, e) =>
       \/ \E g \in DOMAIN dir' : Holds(dir', g, e)
       \/ \E g \in DOMAIN lost' : Holds(lost', g, e)
  /\ \A f \in DOMAIN lost : f[1] \in {"log", "table"} => f \in DOMAIN lost'
  /\ \A f \in Replaced : f[1] = "table" /\ (dir[f].ok => failures > 0)

LEMMA NoneLostStays ==
  ASSUME lost' = lost,
         \A f \in DOMAIN dir :
           (f \in DOMAIN dir' /\ dir'[f] = dir[f]) \/ (\A e : ~Holds(dir, f, e))
  PROVE  NoneLost
<1>1. Replaced = {}
  BY DEF Replaced
<1>2. ASSUME NEW e, NEW f \in DOMAIN dir, Holds(dir, f, e)
      PROVE  \E g \in DOMAIN dir' : Holds(dir', g, e)
  <2>1. f \in DOMAIN dir' /\ dir'[f] = dir[f]
    BY <1>2
  <2>2. Holds(dir', f, e)
    BY <1>2, <2>1 DEF Holds
  <2> QED
    BY <2>1, <2>2
<1> QED
  BY <1>1, <1>2 DEF NoneLost

LEMMA UnfinishedHoldsNothing ==
  ASSUME NEW fs, NEW n, fs[Table(n)] = Unfinished
  PROVE  \A e : ~Holds(fs, Table(n), e)
BY UnfinishedFits, NamesDiffer DEF Holds

LEMMA SameLosesNothing ==
  ASSUME SameLogsAndTables(dir, dir'), SameLogsAndTables(lost, lost')
  PROVE  NoneLost
<1>1. /\ \A f \in DOMAIN dir : f[1] \in {"log", "table"} => f \in DOMAIN dir' /\ dir'[f] = dir[f]
      /\ \A f \in DOMAIN lost : f[1] \in {"log", "table"} => f \in DOMAIN lost' /\ lost'[f] = lost[f]
  BY DEF SameLogsAndTables
<1>2. Replaced = {}
  BY <1>1 DEF Replaced
<1>3. ASSUME NEW e, NEW f \in DOMAIN dir, Holds(dir, f, e)
      PROVE  \E g \in DOMAIN dir' : Holds(dir', g, e)
  <2>1. f \in DOMAIN dir' /\ dir'[f] = dir[f]
    BY <1>1, <1>3 DEF Holds
  <2>2. Holds(dir', f, e)
    BY <1>3, <2>1 DEF Holds
  <2> QED
    BY <2>1, <2>2
<1> QED
  BY <1>1, <1>2, <1>3 DEF NoneLost

LEMMA ArchiveLosesNothing ==
  ASSUME NEW name, Archived(name),
         name[1] = "log" => name \notin DOMAIN lost,
         name[1] = "table" /\ dir[name].ok => failures > 0
  PROVE  NoneLost
<1>1. ASSUME NEW e, NEW f \in DOMAIN dir, Holds(dir, f, e)
      PROVE  \/ \E g \in DOMAIN dir' : Holds(dir', g, e)
             \/ \E g \in DOMAIN lost' : Holds(lost', g, e)
  <2>1. CASE f \in DOMAIN dir'
    <3>1. Holds(dir', f, e)
      BY <1>1, <2>1 DEF Holds, Archived
    <3> QED
      BY <2>1, <3>1
  <2>2. CASE f \notin DOMAIN dir'
    <3>1. f = name /\ f \in DOMAIN lost' /\ lost'[f] = dir[f]
      BY <2>2 DEF Archived
    <3>2. Holds(lost', f, e)
      BY <1>1, <3>1 DEF Holds
    <3> QED
      BY <3>1, <3>2
  <2> QED
    BY <2>1, <2>2
<1>2. \A f \in DOMAIN lost : f \in DOMAIN lost'
  BY DEF Archived
<1>3. \A f \in Replaced : f[1] = "table" /\ (dir[f].ok => failures > 0)
  <2>1. ASSUME NEW f \in Replaced PROVE f = name /\ f \in DOMAIN lost /\ f[1] \in {"log", "table"}
    BY DEF Archived, Replaced
  <2> QED
    BY <2>1
<1> QED
  BY <1>1, <1>2, <1>3 DEF NoneLost

\* Phase by phase.
LEMMA ConvertLosesNothing ==
  ASSUME TInv, ConvertLogs
  PROVE  NoneLost
<1>1. FilesOK(dir) /\ FilesOK(lost) /\ failures \in Nat
  BY DEF TInv, Typed
<1>2. ASSUME NEW n \in r.logs, ConvertLog(n) PROVE NoneLost
  <2>1. /\ Active /\ lost' = lost
        /\ dir' = dir \/ dir' = With(dir, Table(r.next), Unfinished)
    BY <1>2 DEF ConvertLog, Active
  <2>2. Table(r.next) \notin DOMAIN dir
    <3>1. r.next \in Nat /\ \A f \in DOMAIN dir : f[1] \in {"log", "table"} => f[2] < r.next
      BY <2>1 DEF TInv, Typed, RepairerType, Taken
    <3> QED
      BY <3>1, NamesDiffer
  <2>3. \A f \in DOMAIN dir : f \in DOMAIN dir' /\ dir'[f] = dir[f]
    BY <2>1, <2>2 DEF With
  <2> QED
    BY <2>1, <2>3, NoneLostStays
<1>3. CASE BuildTable
  <2>1. PICK name : name = Table(r.copy)
    OBVIOUS
  <2>2. /\ stage = "build" /\ lost' = lost
        /\ \/ dir' = dir
           \/ dir' = [dir EXCEPT ![name] = Whole(r.read)]
           \/ dir' = Removed(dir, name)
    BY <1>3, <2>1 DEF BuildTable, Cleanup
  <2>3. name \in DOMAIN dir => \A e : ~Holds(dir, name, e)
    BY <2>1, <2>2, UnfinishedHoldsNothing DEF TInv, Converting
  <2>4. \A f \in DOMAIN dir : f # name => f \in DOMAIN dir' /\ dir'[f] = dir[f]
    <3>1. CASE dir' = Removed(dir, name)
      BY <3>1, RemovedFacts
    <3> QED
      BY <2>2, <3>1
  <2> QED
    BY <2>2, <2>3, <2>4, NoneLostStays
<1>4. CASE ArchiveLog
  <2>1. PICK name : name = Log(r.at)
    OBVIOUS
  <2>2. stage = "archive log" /\ Archive(name) /\ Active
    BY <1>4, <2>1 DEF ArchiveLog, Active
  <2>3. name \in DOMAIN dir /\ name[1] = "log"
    BY <2>1, <2>2, NamesDiffer DEF TInv, Converting, Taken
  <2>4. Archived(name)
    BY <1>1, <2>2, <2>3, FilesFit, ArchiveFacts
  <2>5. name \notin DOMAIN lost
    BY <2>3 DEF TInv, Apart
  <2> QED
    BY <2>3, <2>4, <2>5, ArchiveLosesNothing
<1>6. ASSUME NEW n \in r.logs, LogUnread(n) PROVE NoneLost
  BY <1>6, NoneLostStays DEF LogUnread, files
<1>5. CASE LogsDone
  BY <1>5, NoneLostStays DEF LogsDone, files
<1> QED
  BY <1>2, <1>3, <1>4, <1>5, <1>6 DEF ConvertLogs

LEMMA RenameLosesNothing ==
  ASSUME TInv, RenameCopy, ~(failures >= 2)
  PROVE  NoneLost
<1>1. PICK name, old : name = Table(r.copy) /\ old = Table(r.at)
  OBVIOUS
<1>2. /\ stage = "rename copy" /\ lost' = lost
      /\ dir' = dir \/ dir' = Renamed(dir, name, old) \/ dir' = Removed(dir, name)
  BY <1>1 DEF RenameCopy, Cleanup
<1>3. /\ name \in DOMAIN dir /\ dir[name] = Whole(r.read)
      /\ IF old \in DOMAIN dir THEN dir[old].data = r.read
         ELSE old \in DOMAIN lost /\ r.read \subseteq lost[old].data
  BY <1>1, <1>2 DEF TInv, Copying, InCopy
<1>4. r.at # r.copy
  BY <1>2 DEF TInv, Copying, InCopy
<1>5. name[1] = "table" /\ old[1] = "table" /\ name # old
  BY <1>1, <1>4, NamesDiffer
<1>6. Whole(r.read).data = r.read
  BY DEF Whole
<1>7. Moved(Renamed(dir, name, old), dir, name, old)
  BY RenamedFacts
<1>8. \A f \in DOMAIN dir : f \notin {name, old} => f \in DOMAIN dir' /\ dir'[f] = dir[f]
  <2>1. CASE dir' = Renamed(dir, name, old)
    BY <1>7, <2>1 DEF Moved
  <2>2. CASE dir' = Removed(dir, name)
    BY <2>2, RemovedFacts
  <2> QED
    BY <1>2, <2>1, <2>2
<1>9. \/ old \in DOMAIN dir' /\ dir'[old].data = r.read
      \/ old \in DOMAIN lost' /\ r.read \subseteq lost'[old].data
  <2>1. CASE dir' = Renamed(dir, name, old)
    BY <1>3, <1>6, <1>7, <2>1 DEF Moved
  <2>2. CASE dir' = Removed(dir, name)
    <3>1. old \in DOMAIN dir => old \in DOMAIN dir' /\ dir'[old] = dir[old]
      BY <1>5, <2>2, RemovedFacts
    <3> QED
      BY <1>2, <1>3, <3>1
  <2>3. CASE dir' = dir
    BY <1>2, <1>3, <2>3
  <2> QED
    BY <1>2, <2>1, <2>2, <2>3
<1>10. ASSUME NEW e, e \in r.read
       PROVE  \/ \E g \in DOMAIN dir' : Holds(dir', g, e)
              \/ \E g \in DOMAIN lost' : Holds(lost', g, e)
  <2>1. \/ old \in DOMAIN dir' /\ Holds(dir', old, e)
        \/ old \in DOMAIN lost' /\ Holds(lost', old, e)
    BY <1>5, <1>9, <1>10 DEF Holds
  <2> QED
    BY <2>1
<1>11. ASSUME NEW e, NEW f \in DOMAIN dir, Holds(dir, f, e)
       PROVE  \/ \E g \in DOMAIN dir' : Holds(dir', g, e)
              \/ \E g \in DOMAIN lost' : Holds(lost', g, e)
  <2>1. CASE f \in {name, old}
    <3>1. e \in r.read
      BY <1>3, <1>5, <1>6, <1>11, <2>1 DEF Holds
    <3> QED
      BY <1>10, <3>1
  <2>2. CASE f \notin {name, old}
    <3>1. f \in DOMAIN dir' /\ dir'[f] = dir[f]
      BY <1>8, <2>2
    <3>2. Holds(dir', f, e)
      BY <1>11, <3>1 DEF Holds
    <3> QED
      BY <3>1, <3>2
  <2> QED
    BY <2>1, <2>2
<1>12. Replaced = {} /\ \A f \in DOMAIN lost : f \in DOMAIN lost'
  BY <1>2 DEF Replaced
<1> QED
  BY <1>11, <1>12 DEF NoneLost

LEMMA ScanLosesNothing ==
  ASSUME TInv, ScanTables, ~(RenameCopy /\ failures >= 2)
  PROVE  NoneLost
<1>1. FilesOK(dir) /\ FilesOK(lost) /\ failures \in Nat
  BY DEF TInv, Typed
<1>2. ASSUME NEW n \in r.numbers, ScanTable(n) PROVE NoneLost
  BY <1>2, NoneLostStays DEF ScanTable, files
<1>8. ASSUME NEW n \in r.numbers, ScanEndsBadly(n) \/ SizeUnknown(n) PROVE NoneLost
  BY <1>8, NoneLostStays DEF ScanEndsBadly, SizeUnknown, files
<1>9. CASE NoCopy
  BY <1>9, NoneLostStays DEF NoCopy, files
<1>3. CASE OpenCopy
  <2>1. /\ Active /\ lost' = lost
        /\ dir' = With(dir, Table(r.next), Unfinished)
    BY <1>3 DEF OpenCopy, Active
  <2>2. Table(r.next) \notin DOMAIN dir
    <3>1. r.next \in Nat /\ \A f \in DOMAIN dir : f[1] \in {"log", "table"} => f[2] < r.next
      BY <2>1 DEF TInv, Typed, RepairerType, Taken
    <3> QED
      BY <3>1, NamesDiffer
  <2>3. \A f \in DOMAIN dir : f \in DOMAIN dir' /\ dir'[f] = dir[f]
    BY <2>1, <2>2 DEF With
  <2> QED
    BY <2>1, <2>3, NoneLostStays
<1>4. CASE DropTable \/ ArchiveTable
  <2>1. PICK name : name = Table(r.at)
    OBVIOUS
  <2>2. InDoubt /\ Archive(name)
    BY <1>4, <2>1 DEF DropTable, ArchiveTable, InDoubt
  <2>3. name \in DOMAIN dir /\ (failures = 0 => ~dir[name].ok) /\ name[1] = "table"
    BY <2>1, <2>2, NamesDiffer DEF TInv, Doubting
  <2>4. Archived(name)
    BY <1>1, <2>2, <2>3, FilesFit, ArchiveFacts
  <2> QED
    BY <1>1, <2>3, <2>4, ArchiveLosesNothing
<1>5. CASE FinishCopy
  <2>1. PICK name : name = Table(r.copy)
    OBVIOUS
  <2>2. /\ stage = "finish copy" /\ lost' = lost
        /\ dir' = dir \/ dir' = [dir EXCEPT ![name] = Whole(r.read)] \/ dir' = Removed(dir, name)
    BY <1>5, <2>1 DEF FinishCopy, Cleanup
  <2>3. \A e : ~Holds(dir, name, e)
    BY <2>1, <2>2, UnfinishedHoldsNothing DEF TInv, Copying, InCopy
  <2>4. \A f \in DOMAIN dir : f # name => f \in DOMAIN dir' /\ dir'[f] = dir[f]
    <3>1. CASE dir' = Removed(dir, name)
      BY <3>1, RemovedFacts
    <3> QED
      BY <2>2, <3>1
  <2> QED
    BY <2>2, <2>3, <2>4, NoneLostStays
<1>6. CASE RenameCopy
  BY <1>6, RenameLosesNothing
<1>7. CASE TablesDone
  BY <1>7, NoneLostStays DEF TablesDone, files
<1> QED
  BY <1>2, <1>3, <1>4, <1>5, <1>6, <1>7, <1>8, <1>9 DEF ScanTables

LEMMA InstallLosesNothing ==
  ASSUME TInv, Install
  PROVE  NoneLost
<1>1. /\ FilesOK(dir) /\ FilesOK(lost) /\ failures \in Nat
      /\ SameLogsAndTables(dir, dir) /\ SameLogsAndTables(lost, lost)
  BY SameIsSame DEF TInv, Typed
<1>2. CASE WriteDescriptor
  <2>1. Temp(1) \in Kinds \X Nat /\ Temp(1)[1] = "temp"
    BY NamesTyped, NamesDiffer
  <2>2. /\ SameLogsAndTables(dir, With(dir, Temp(1), Descriptor))
        /\ SameLogsAndTables(dir, With(dir, Temp(1), Unfinished))
        /\ SameLogsAndTables(dir, Removed(dir, Temp(1)))
    BY <1>1, <2>1, SameWith, SameRemoved
  <2>3. lost' = lost /\ SameLogsAndTables(dir, dir')
    BY <1>1, <1>2, <2>2 DEF WriteDescriptor, Cleanup
  <2> QED
    BY <1>1, <2>3, SameLosesNothing
<1>3. CASE RenameDescriptor
  <2>1. PICK temp, name : temp = Temp(1) /\ name = Manifest(1)
    OBVIOUS
  <2>2. name \in Kinds \X Nat /\ temp[1] = "temp" /\ name[1] = "manifest"
    BY <2>1, NamesTyped, NamesDiffer
  <2>3. /\ lost' = lost
        /\ dir' = dir \/ dir' = Renamed(dir, temp, name) \/ dir' = Removed(dir, temp)
    BY <1>3, <2>1 DEF RenameDescriptor, Cleanup
  <2>4. SameLogsAndTables(dir, Removed(dir, temp))
    BY <1>1, <2>2, SameRemoved
  <2>5. SameLogsAndTables(dir, Renamed(dir, temp, name))
    <3>1. Fits(name, dir[temp])
      BY <2>2 DEF Fits
    <3>2. FilesOK(Renamed(dir, temp, name)) /\ Moved(Renamed(dir, temp, name), dir, temp, name)
      BY <1>1, <3>1, FilesRenamed, RenamedFacts
    <3> QED
      BY <2>2, <3>2 DEF SameLogsAndTables, Moved
  <2> QED
    BY <1>1, <2>3, <2>4, <2>5, SameLosesNothing
<1>4. CASE SetCurrentFile
  BY <1>4, NoneLostStays DEF SetCurrentFile
<1>5. ASSUME NEW n \in r.manifests, ArchiveManifest(n) PROVE NoneLost
  <2>1. n \in Nat
    BY DEF TInv, Typed, RepairerType
  <2>2. PICK name : name = Manifest(n)
    OBVIOUS
  <2>3. name \in Kinds \X Nat /\ name[1] = "manifest" /\ Archive(name)
    BY <1>5, <2>1, <2>2, NamesTyped, NamesDiffer DEF ArchiveManifest
  <2>4. Fits(name, dir[name])
    BY <2>3 DEF Fits
  <2>5. Archived(name)
    BY <1>1, <2>3, <2>4, ArchiveFacts
  <2> QED
    BY <2>3, <2>5, ArchiveLosesNothing
<1> QED
  BY <1>2, <1>3, <1>4, <1>5 DEF Install

\* No step of a repair destroys anything that can be read but in two ways.  A
\* table that is archived, which is damaged unless an operation has failed, may
\* replace a file that an earlier call left in lost/ under the same number; and
\* when two operations have failed a copy may replace a table that could not be
\* archived.  (ArchiveFile, FindFiles, RepairTable.)
THEOREM OnlyReplacedFilesAreDestroyed == Spec => OnlyReplacedIsDestroyed
<1> DEFINE Said ==
      stage \notin {"in use", "stopped"} =>
       /\ \/ EntriesIn(dir) \union EntriesIn(lost) \subseteq
               EntriesIn(dir') \union EntriesIn(lost')
                 \union EntriesIn(Restrict(lost, Replaced))
          \/ stage = "rename copy" /\ failures >= 2
       /\ \A f \in Replaced : f[1] = "table" /\ (dir[f].ok => failures > 0)
<1>1. ASSUME NoneLost PROVE Said
  <2>1. PICK d2, l2 : d2 = dir' /\ l2 = lost'
    OBVIOUS
  <2>2. PICK held : held = Restrict(lost, Replaced)
    OBVIOUS
  <2>3. ASSUME NEW e, e \in EntriesIn(dir)
        PROVE  e \in EntriesIn(d2) \union EntriesIn(l2)
    <3>1. PICK f \in DOMAIN dir : Holds(dir, f, e)
      BY <2>3, EntriesHeld
    <3>2. (\E g \in DOMAIN d2 : Holds(d2, g, e)) \/ (\E g \in DOMAIN l2 : Holds(l2, g, e))
      BY <1>1, <2>1, <3>1 DEF NoneLost
    <3> QED
      BY <3>2, EntriesHeld
  <2>4. ASSUME NEW e, e \in EntriesIn(lost)
        PROVE  e \in EntriesIn(l2) \union EntriesIn(held)
    <3>1. PICK f \in DOMAIN lost : Holds(lost, f, e)
      BY <2>4, EntriesHeld
    <3>2. f[1] \in {"log", "table"} /\ f \in DOMAIN l2
      BY <1>1, <2>1, <3>1 DEF NoneLost, Holds
    <3>3. CASE l2[f] = lost[f]
      <4>1. Holds(l2, f, e)
        BY <3>1, <3>3 DEF Holds
      <4> QED
        BY <3>2, <4>1, EntriesHeld
    <3>4. CASE l2[f] # lost[f]
      <4>1. f \in Replaced
        BY <2>1, <3>2, <3>4 DEF Replaced
      <4>2. f \in DOMAIN held /\ held[f] = lost[f]
        BY <2>2, <4>1, RestrictFacts
      <4>3. Holds(held, f, e)
        BY <3>1, <4>2 DEF Holds
      <4> QED
        BY <4>2, <4>3, EntriesHeld
    <3> QED
      BY <3>3, <3>4
  <2>5. EntriesIn(dir') = EntriesIn(d2) /\ EntriesIn(lost') = EntriesIn(l2)
    BY <2>1
  <2> QED
    BY <1>1, <2>2, <2>3, <2>4, <2>5 DEF NoneLost
<1>3. ASSUME RenameCopy, failures >= 2 PROVE Said
  BY <1>3 DEF RenameCopy, Replaced
<1>2. TInv /\ [Next]_vars => Said
  <2>1. SUFFICES ASSUME TInv, [Next]_vars, stage \notin {"in use", "stopped"},
                        ~(RenameCopy /\ failures >= 2)
                 PROVE  NoneLost
    BY <1>1, <1>3
  <2>2. CASE UNCHANGED vars
    BY <2>2, NoneLostStays DEF vars, files
  <2>3. CASE Use \/ Stop \/ Damage
    BY <2>1, <2>3 DEF Use, Commit, SwitchLog, FlushLog, StartMerge, FinishMerge, InUse, Stop, Damage
  <2>4. CASE FindFiles \/ Crash
    BY <2>4, NoneLostStays DEF FindFiles, Crash, files
  <2> QED
    BY <2>1, <2>2, <2>3, <2>4, ConvertLosesNothing, ScanLosesNothing, InstallLosesNothing DEF Next
<1> QED
  BY <1>2, RepairInvariant, PTL DEF Spec, OnlyReplacedIsDestroyed

=============================================================================
