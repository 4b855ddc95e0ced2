------------------------------ MODULE PosixEnv ------------------------------
(***************************************************************************)
(* Two services of LevelDB's PosixEnv (Pods/leveldb-library/util/          *)
(* env_posix.cc).  LockFile and UnlockFile keep two users away from one    *)
(* database: the kernel's record lock belongs to a process, PosixLockTable *)
(* tells the threads of the process apart.  Schedule hands work to one     *)
(* background thread.                                                      *)
(***************************************************************************)
EXTENDS Naturals, Sequences

CONSTANTS
  Processes,
  Threads,     \* process -> its threads; no thread is in two processes
  MaxItems     \* bound of the items of work

ASSUME PosixEnvAssumption ==
  /\ \A p, q \in Processes : p # q => Threads[p] \intersect Threads[q] = {}
  /\ MaxItems \in Nat

VARIABLES
  owner,       \* the process that has the record lock of LOCK, in a singleton, or {}
  table,       \* processes whose locked_files_ contains LOCK
  pc,          \* where a thread is in LockFile and UnlockFile
  crowded,     \* history: processes of which two threads used LOCK at a time
  queue,       \* queue_: the numbers of the items
  background,  \* none, ready, waiting, running: the thread of BGThread
  scheduled, ran  \* how many items Schedule was given; those that ran, in order
locking == <<owner, table, pc, crowded>>
working == <<queue, background, scheduled, ran>>
vars == <<locking, working>>

AllThreads == UNION {Threads[p] : p \in Processes}
Steps == {"idle", "opened", "refused", "inserted", "failed", "holding",
          "unlocked", "removed"}

-----------------------------------------------------------------------------
(* LockFile and UnlockFile. *)

Goes(t, from, to) == pc[t] = from /\ pc' = [pc EXCEPT ![t] = to]
\* The record lock is gone when the process closes any descriptor of the file.
CloseFile(p) == owner' = owner \ {p}

Crowd(p, t) == IF \E u \in Threads[p] \ {t} : pc[u] # "idle" THEN {p} ELSE {}
Open(p, t) == /\ Goes(t, "idle", "opened")
              /\ crowded' = crowded \union Crowd(p, t)
              /\ UNCHANGED <<owner, table, working>>

\* With a bug: a file in the table does not keep a thread out.
Anyone(p) == TRUE
Absent(p) == p \notin table

\* PosixLockTable::Insert
Insert(p, t) == /\ Absent(p) /\ Goes(t, "opened", "inserted")
                /\ table' = table \union {p}
                /\ UNCHANGED <<owner, crowded, working>>
Refuse(p, t) == /\ ~Absent(p) /\ Goes(t, "opened", "refused")
                /\ UNCHANGED <<owner, table, crowded, working>>
CloseRefused(p, t) == /\ Goes(t, "refused", "idle") /\ CloseFile(p)
                      /\ UNCHANGED <<table, crowded, working>>

\* With a bug: what another process has locked can be locked again.
NeverConflicts(p) == TRUE
Conflicts(p) == owner \subseteq {p}
\* LockOrUnlock(fd, true)
Lock(p, t) == /\ Conflicts(p) /\ Goes(t, "inserted", "holding")
              /\ owner' = {p}
              /\ UNCHANGED <<table, crowded, working>>
LockFails(p, t) == /\ ~Conflicts(p) /\ Goes(t, "inserted", "failed")
                   /\ CloseFile(p)
                   /\ UNCHANGED <<table, crowded, working>>
RemoveFailed(p, t) == /\ Goes(t, "failed", "idle") /\ table' = table \ {p}
                      /\ UNCHANGED <<owner, crowded, working>>

Unlock(p, t) == /\ Goes(t, "holding", "unlocked") /\ owner' = owner \ {p}
                /\ UNCHANGED <<table, crowded, working>>
Remove(p, t) == /\ Goes(t, "unlocked", "removed") /\ table' = table \ {p}
                /\ UNCHANGED <<owner, crowded, working>>
Close(p, t) == /\ Goes(t, "removed", "idle") /\ CloseFile(p)
               /\ UNCHANGED <<table, crowded, working>>

\* A process ends, wherever its threads are; another one starts in its place.
Exit(p) ==
  /\ \E t \in Threads[p] : pc[t] # "idle"
  /\ owner' = owner \ {p} /\ table' = table \ {p} /\ crowded' = crowded \ {p}
  /\ pc' = [t \in AllThreads |-> IF t \in Threads[p] THEN "idle" ELSE pc[t]]
  /\ UNCHANGED working

Locking == \E p \in Processes :
  \/ Exit(p)
  \/ \E t \in Threads[p] :
       \/ Open(p, t) \/ Insert(p, t) \/ Refuse(p, t) \/ CloseRefused(p, t)
       \/ Lock(p, t) \/ LockFails(p, t) \/ RemoveFailed(p, t)
       \/ Unlock(p, t) \/ Remove(p, t) \/ Close(p, t)

-----------------------------------------------------------------------------
(* Schedule and BGThread, each under mu_. *)

\* With a bug: the thread is woken only when there is work already.
SignalLate == queue # << >>
\* Only a thread that finds the queue empty waits.
MustSignal == queue = << >>

Woken == CASE background = "none" -> "ready"      \* pthread_create
           [] background = "waiting" /\ MustSignal -> "ready"
           [] OTHER -> background

Push(q, item) == Append(q, item)

Schedule ==
  /\ scheduled < MaxItems
  /\ scheduled' = scheduled + 1
  /\ background' = Woken
  /\ queue' = Push(queue, scheduled + 1)
  /\ UNCHANGED <<locking, ran>>

\* The thread takes the mutex, after a wake-up too, and waits or takes an item.
Wait == /\ background = "ready" /\ queue = << >>
        /\ background' = "waiting"
        /\ UNCHANGED <<locking, queue, scheduled, ran>>
Take == /\ background = "ready" /\ queue # << >>
        /\ background' = "running"
        /\ ran' = Append(ran, Head(queue)) /\ queue' = Tail(queue)
        /\ UNCHANGED <<locking, scheduled>>
Finish == /\ background = "running"
          /\ background' = "ready"
          /\ UNCHANGED <<locking, queue, scheduled, ran>>
\* pthread_cond_wait may return without a signal.
WakeUp == /\ background = "waiting"
          /\ background' = "ready"
          /\ UNCHANGED <<locking, queue, scheduled, ran>>

BGThread == Wait \/ Take \/ Finish

Init ==
  /\ owner = {} /\ table = {} /\ crowded = {} /\ pc = [t \in AllThreads |-> "idle"]
  /\ queue = << >> /\ background = "none" /\ scheduled = 0 /\ ran = << >>

Next == Locking \/ Schedule \/ BGThread \/ WakeUp

\* The operating system runs the background thread.
Fairness == WF_vars(BGThread)
Spec == Init /\ [][Next]_vars /\ Fairness

-----------------------------------------------------------------------------
(* Properties. *)

\* The type invariant.
TypeOK ==
  /\ owner \subseteq Processes /\ table \subseteq Processes /\ crowded \subseteq Processes
  /\ pc \in [AllThreads -> Steps]
  /\ queue \in Seq(1 .. MaxItems) /\ ran \in Seq(1 .. MaxItems)
  /\ scheduled \in 0 .. MaxItems
  /\ background \in {"none", "ready", "waiting", "running"}

Inside == {"inserted", "failed", "holding", "unlocked"}

\* Two threads of one process never both have the database, whatever the kernel
\* thinks of their process (env_posix.cc:308-310).
OneThreadPerProcess ==
  \A p \in Processes : \A t, u \in Threads[p] :
    pc[t] = "holding" /\ pc[u] = "holding" => t = u

\* LockFile prevents "concurrent access to the same db by multiple processes"
\* (env.h:112-113), among processes of which one thread at a time uses the file:
\* a second one that opens and closes it drops the lock of the first.
OneHolderUnlessCrowded ==
  \A p, q \in Processes \ crowded : \A t \in Threads[p], u \in Threads[q] :
    pc[t] = "holding" /\ pc[u] = "holding" => t = u

\* Items run once and in the order in which they were scheduled.
RunInOrder == ran \o queue = [i \in 1 .. scheduled |-> i]

\* Whatever Schedule was given runs: no wake-up is lost.
EveryItemRuns == \A n \in 1 .. MaxItems : scheduled >= n ~> Len(ran) >= n
=============================================================================
