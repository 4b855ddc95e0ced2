---------------------------- MODULE SharedProofs ----------------------------
(***************************************************************************)
(* Proofs about what threads of LevelDB share.  PosixEnv: who may have a   *)
(* database locked, and in which order the background thread runs what it  *)
(* is given.  MemTable: what a search without the mutex finds while another *)
(* thread inserts, and what the arena hands out.  TableCache: when tables  *)
(* are closed, and on which lists and chains they are until then.          *)
(***************************************************************************)
EXTENDS MCShared, SequenceTheorems, FiniteSetTheorems, WellFoundedInduction,
        NaturalsInduction, TLAPS

-----------------------------------------------------------------------------
(* The locks.  The kernel's lock cannot tell threads apart and is lost when  *)
(* a thread closes the file, so neither of the two properties is inductive:  *)
(* the lock table keeps threads apart before and behind the time in which    *)
(* they hold the lock, and only a process that is not crowded owns the lock  *)
(* of the kernel while it holds the database.                                *)

PcType == pc \in [AllThreads -> Steps]

OneInside == \A p \in Processes : \A t, u \in Threads[p] :
  pc[t] \in Inside /\ pc[u] \in Inside => t = u

InsideInTable == \A p \in Processes : \A t \in Threads[p] :
  pc[t] \in Inside => p \in table

AloneUnlessCrowded == \A p \in Processes \ crowded : \A t, u \in Threads[p] :
  pc[t] # "idle" /\ pc[u] # "idle" => t = u

OwnerUnlessCrowded == \A p \in Processes \ crowded : \A t \in Threads[p] :
  pc[t] = "holding" => owner = {p}

LockInv == PcType /\ OneInside /\ InsideInTable /\ AloneUnlessCrowded /\ OwnerUnlessCrowded

\* A thread belongs to one process.
LEMMA ProcessOf ==
  ASSUME NEW p \in Processes, NEW q \in Processes, NEW t \in Threads[p], t \in Threads[q]
  PROVE  p = q
BY PosixEnvAssumption

\* Nobody has the database at first.
LEMMA LockInvInit == Init => LockInv
<1> SUFFICES ASSUME Init PROVE LockInv
  OBVIOUS
<1>1. pc = [t \in AllThreads |-> "idle"]
  BY DEF Init
<1>2. \A p \in Processes : \A t \in Threads[p] : pc[t] = "idle"
  BY <1>1 DEF AllThreads
<1>3. PcType
  BY <1>1 DEF PcType, Steps
<1> QED
  BY <1>2, <1>3 DEF LockInv, OneInside, InsideInTable, AloneUnlessCrowded,
                    OwnerUnlessCrowded, Inside

\* What all steps of one thread have in common: the others stay where they are.
LEMMA OneMoves ==
  ASSUME PcType, NEW p \in Processes, NEW t \in Threads[p], NEW from, NEW to \in Steps,
         Goes(t, from, to)
  PROVE  /\ PcType' /\ pc[t] = from /\ pc'[t] = to
         /\ \A q \in Processes : \A u \in Threads[q] : u # t => pc'[u] = pc[u]
<1>1. \A q \in Processes : Threads[q] \subseteq AllThreads
  BY DEF AllThreads
<1>2. t \in AllThreads
  BY <1>1
<1>3. pc' = [pc EXCEPT ![t] = to] /\ pc[t] = from
  BY DEF Goes
<1>4. pc'[t] = to /\ \A u \in AllThreads : u # t => pc'[u] = pc[u]
  BY <1>2, <1>3 DEF PcType
<1>5. PcType'
  BY <1>2, <1>3 DEF PcType
<1> QED
  BY <1>1, <1>3, <1>4, <1>5

\* Only a thread that was inside, or that found the file not in the table, is
\* inside behind its step.
LEMMA OneInsideKept ==
  ASSUME LockInv, NEW p \in Processes, NEW t \in Threads[p], NEW from, NEW to \in Steps,
         Goes(t, from, to), to \in Inside => from \in Inside \/ p \notin table
  PROVE  OneInside'
<1>1. /\ pc[t] = from /\ pc'[t] = to
      /\ \A q \in Processes : \A u \in Threads[q] : u # t => pc'[u] = pc[u]
  BY OneMoves DEF LockInv
<1> SUFFICES ASSUME NEW q \in Processes, NEW u \in Threads[q], NEW v \in Threads[q],
                    pc'[u] \in Inside, pc'[v] \in Inside, u # v
             PROVE  FALSE
  BY DEF OneInside
<1>2. CASE u # t /\ v # t
  BY <1>1, <1>2 DEF LockInv, OneInside
<1>3. CASE u = t
  <2>1. q = p /\ v # t /\ pc[v] \in Inside
    BY <1>1, <1>3, ProcessOf
  <2>2. p \in table
    BY <2>1 DEF LockInv, InsideInTable
  <2>3. pc[t] \in Inside
    BY <1>1, <1>3, <2>2
  <2> QED
    BY <2>1, <2>3 DEF LockInv, OneInside
<1>4. CASE v = t
  <2>1. q = p /\ u # t /\ pc[u] \in Inside
    BY <1>1, <1>4, ProcessOf
  <2>2. p \in table
    BY <2>1 DEF LockInv, InsideInTable
  <2>3. pc[t] \in Inside
    BY <1>1, <1>4, <2>2
  <2> QED
    BY <2>1, <2>3 DEF LockInv, OneInside
<1> QED
  BY <1>2, <1>3, <1>4

\* A step that leaves the table as it is, into it or within it.
LEMMA InsideInTableKept ==
  ASSUME LockInv, NEW p \in Processes, NEW t \in Threads[p], NEW from, NEW to \in Steps,
         Goes(t, from, to), table \subseteq table',
         to \in Inside => from \in Inside \/ p \in table'
  PROVE  InsideInTable'
<1>1. /\ pc[t] = from /\ pc'[t] = to
      /\ \A q \in Processes : \A u \in Threads[q] : u # t => pc'[u] = pc[u]
  BY OneMoves DEF LockInv
<1> SUFFICES ASSUME NEW q \in Processes, NEW u \in Threads[q], pc'[u] \in Inside
             PROVE  q \in table'
  BY DEF InsideInTable
<1>2. CASE u # t
  BY <1>1, <1>2 DEF LockInv, InsideInTable
<1>3. CASE u = t
  <2>1. q = p
    BY <1>3, ProcessOf
  <2> QED
    BY <1>1, <1>3, <2>1 DEF LockInv, InsideInTable
<1> QED
  BY <1>2, <1>3

\* A thread that takes the file out of the table was the only one inside.
LEMMA InsideInTableLeft ==
  ASSUME LockInv, NEW p \in Processes, NEW t \in Threads[p], NEW from \in Inside,
         NEW to \in Steps \ Inside, Goes(t, from, to), table' = table \ {p}
  PROVE  InsideInTable'
<1>1. /\ pc[t] = from /\ pc'[t] = to
      /\ \A q \in Processes : \A u \in Threads[q] : u # t => pc'[u] = pc[u]
  BY OneMoves DEF LockInv
<1> SUFFICES ASSUME NEW q \in Processes, NEW u \in Threads[q], pc'[u] \in Inside
             PROVE  q \in table'
  BY DEF InsideInTable
<1>2. u # t /\ pc[u] \in Inside
  BY <1>1
<1>3. q # p
  BY <1>1, <1>2 DEF LockInv, OneInside
<1> QED
  BY <1>2, <1>3 DEF LockInv, InsideInTable

\* Only Open brings in another thread, and takes note of it.
LEMMA AloneKept ==
  ASSUME LockInv, NEW p \in Processes, NEW t \in Threads[p], NEW from, NEW to \in Steps,
         Goes(t, from, to), from # "idle", crowded' = crowded
  PROVE  AloneUnlessCrowded'
<1>1. /\ pc[t] = from /\ pc'[t] = to
      /\ \A q \in Processes : \A u \in Threads[q] : u # t => pc'[u] = pc[u]
  BY OneMoves DEF LockInv
<1>2. \A q \in Processes : \A u \in Threads[q] : pc'[u] # "idle" => pc[u] # "idle"
  BY <1>1
<1> QED
  BY <1>2 DEF LockInv, AloneUnlessCrowded

\* The lock of the kernel: what a process that is alone does to it is its own
\* business, and nobody takes it from a process that has it.
LEMMA OwnerKept ==
  ASSUME LockInv, NEW p \in Processes, NEW t \in Threads[p], NEW from, NEW to \in Steps,
         Goes(t, from, to), from # "idle", crowded' = crowded, to # "holding",
         owner' \in {owner, owner \ {p}}
  PROVE  OwnerUnlessCrowded'
<1>1. /\ pc[t] = from /\ pc'[t] = to
      /\ \A q \in Processes : \A u \in Threads[q] : u # t => pc'[u] = pc[u]
  BY OneMoves DEF LockInv
<1> SUFFICES ASSUME NEW q \in Processes \ crowded, NEW u \in Threads[q],
                    pc'[u] = "holding"
             PROVE  owner' = {q}
  BY DEF OwnerUnlessCrowded
<1>2. u # t /\ pc[u] = "holding"
  BY <1>1
<1>3. q # p
  BY <1>1, <1>2 DEF LockInv, AloneUnlessCrowded
<1>4. owner = {q}
  BY <1>2 DEF LockInv, OwnerUnlessCrowded
<1> QED
  BY <1>3, <1>4

\* Open is the step that makes a process crowded.
LEMMA OpenKeeps ==
  ASSUME LockInv, NEW p \in Processes, NEW t \in Threads[p], Open(p, t)
  PROVE  LockInv'
<1>1. /\ Goes(t, "idle", "opened") /\ "opened" \in Steps \ Inside
      /\ crowded' = crowded \union Crowd(p, t) /\ owner' = owner /\ table' = table
  BY DEF Open, Steps, Inside
<1>2. /\ PcType' /\ pc[t] = "idle" /\ pc'[t] = "opened"
      /\ \A q \in Processes : \A u \in Threads[q] : u # t => pc'[u] = pc[u]
  BY <1>1, OneMoves DEF LockInv
<1>3. OneInside'
  BY <1>1, OneInsideKept
<1>4. InsideInTable'
  BY <1>1, InsideInTableKept
<1>5. AloneUnlessCrowded'
  <2> SUFFICES ASSUME NEW q \in Processes \ crowded', NEW u \in Threads[q], NEW v \in Threads[q],
                      pc'[u] # "idle", pc'[v] # "idle", u # v
               PROVE  FALSE
    BY DEF AloneUnlessCrowded
  <2>1. q \notin crowded
    BY <1>1
  <2>2. CASE t \notin Threads[q]
    BY <1>2, <2>1, <2>2 DEF LockInv, AloneUnlessCrowded
  <2>3. CASE t \in Threads[q]
    <3>1. q = p
      BY <2>3, ProcessOf
    <3>2. \A w \in Threads[p] \ {t} : pc[w] = "idle"
      BY <1>1, <3>1 DEF Crowd
    <3> QED
      BY <1>2, <3>1, <3>2
  <2> QED
    BY <2>2, <2>3
<1>6. OwnerUnlessCrowded'
  <2> SUFFICES ASSUME NEW q \in Processes \ crowded', NEW u \in Threads[q], pc'[u] = "holding"
               PROVE  owner = {q}
    BY <1>1 DEF OwnerUnlessCrowded
  <2>1. q \notin crowded /\ pc[u] = "holding"
    BY <1>1, <1>2
  <2> QED
    BY <2>1 DEF LockInv, OwnerUnlessCrowded
<1> QED
  BY <1>2, <1>3, <1>4, <1>5, <1>6 DEF LockInv

\* Lock is given to a process only when no other one has it.
LEMMA LockKeeps ==
  ASSUME LockInv, NEW p \in Processes, NEW t \in Threads[p], Lock(p, t)
  PROVE  LockInv'
<1>1. /\ Goes(t, "inserted", "holding") /\ "inserted" \in Inside /\ "holding" \in Steps
      /\ owner \subseteq {p} /\ owner' = {p} /\ table' = table /\ crowded' = crowded
  BY DEF Lock, Conflicts, Steps, Inside
<1>2. /\ PcType' /\ pc[t] = "inserted" /\ pc'[t] = "holding"
      /\ \A q \in Processes : \A u \in Threads[q] : u # t => pc'[u] = pc[u]
  BY <1>1, OneMoves DEF LockInv
<1>3. OneInside'
  BY <1>1, OneInsideKept
<1>4. InsideInTable'
  BY <1>1, <1>2, InsideInTableKept
<1>5. AloneUnlessCrowded'
  BY <1>1, AloneKept
<1>6. OwnerUnlessCrowded'
  <2> SUFFICES ASSUME NEW q \in Processes \ crowded, NEW u \in Threads[q], pc'[u] = "holding",
                      q # p
               PROVE  FALSE
    BY <1>1 DEF OwnerUnlessCrowded
  <2>1. u # t
    BY ProcessOf
  <2>2. owner = {q}
    BY <1>2, <2>1 DEF LockInv, OwnerUnlessCrowded
  <2> QED
    BY <1>1, <2>2
<1> QED
  BY <1>2, <1>3, <1>4, <1>5, <1>6 DEF LockInv

\* The other steps of a thread, but Open: it leaves the lock or drops it.
LEMMA ThreadKeeps ==
  ASSUME LockInv, NEW p \in Processes, NEW t \in Threads[p],
         \/ Insert(p, t) \/ Refuse(p, t) \/ CloseRefused(p, t)
         \/ LockFails(p, t) \/ RemoveFailed(p, t)
         \/ Unlock(p, t) \/ Remove(p, t) \/ Close(p, t)
  PROVE  LockInv'
<1> USE DEF Steps, Inside, CloseFile
<1>1. CASE Insert(p, t)
  <2>1. /\ Goes(t, "opened", "inserted") /\ p \notin table /\ table' = table \union {p}
        /\ owner' = owner /\ crowded' = crowded
    BY <1>1 DEF Insert, Absent
  <2> QED
    BY <2>1, OneMoves, OneInsideKept, InsideInTableKept, AloneKept, OwnerKept DEF LockInv
<1>2. CASE Refuse(p, t)
  <2>1. /\ Goes(t, "opened", "refused")
        /\ table' = table /\ owner' = owner /\ crowded' = crowded
    BY <1>2 DEF Refuse
  <2> QED
    BY <2>1, OneMoves, OneInsideKept, InsideInTableKept, AloneKept, OwnerKept DEF LockInv
<1>3. CASE CloseRefused(p, t)
  <2>1. /\ Goes(t, "refused", "idle")
        /\ table' = table /\ owner' = owner \ {p} /\ crowded' = crowded
    BY <1>3 DEF CloseRefused
  <2> QED
    BY <2>1, OneMoves, OneInsideKept, InsideInTableKept, AloneKept, OwnerKept DEF LockInv
<1>4. CASE LockFails(p, t)
  <2>1. /\ Goes(t, "inserted", "failed")
        /\ table' = table /\ owner' = owner \ {p} /\ crowded' = crowded
    BY <1>4 DEF LockFails
  <2> QED
    BY <2>1, OneMoves, OneInsideKept, InsideInTableKept, AloneKept, OwnerKept DEF LockInv
<1>5. CASE RemoveFailed(p, t)
  <2>1. /\ Goes(t, "failed", "idle")
        /\ table' = table \ {p} /\ owner' = owner /\ crowded' = crowded
    BY <1>5 DEF RemoveFailed
  <2> QED
    BY <2>1, OneMoves, OneInsideKept, InsideInTableLeft, AloneKept, OwnerKept DEF LockInv
<1>6. CASE Unlock(p, t)
  <2>1. /\ Goes(t, "holding", "unlocked")
        /\ table' = table /\ owner' = owner \ {p} /\ crowded' = crowded
    BY <1>6 DEF Unlock
  <2> QED
    BY <2>1, OneMoves, OneInsideKept, InsideInTableKept, AloneKept, OwnerKept DEF LockInv
<1>7. CASE Remove(p, t)
  <2>1. /\ Goes(t, "unlocked", "removed")
        /\ table' = table \ {p} /\ owner' = owner /\ crowded' = crowded
    BY <1>7 DEF Remove
  <2> QED
    BY <2>1, OneMoves, OneInsideKept, InsideInTableLeft, AloneKept, OwnerKept DEF LockInv
<1>8. CASE Close(p, t)
  <2>1. /\ Goes(t, "removed", "idle")
        /\ table' = table /\ owner' = owner \ {p} /\ crowded' = crowded
    BY <1>8 DEF Close
  <2> QED
    BY <2>1, OneMoves, OneInsideKept, InsideInTableKept, AloneKept, OwnerKept DEF LockInv
<1> QED
  BY <1>1, <1>2, <1>3, <1>4, <1>5, <1>6, <1>7, <1>8

\* A process that ends leaves the file to the others.
LEMMA ExitKeeps ==
  ASSUME LockInv, NEW p \in Processes, Exit(p)
  PROVE  LockInv'
<1>1. /\ owner' = owner \ {p} /\ table' = table \ {p} /\ crowded' = crowded \ {p}
      /\ pc' = [t \in AllThreads |-> IF t \in Threads[p] THEN "idle" ELSE pc[t]]
  BY DEF Exit
<1>2. /\ \A t \in Threads[p] : pc'[t] = "idle"
      /\ \A q \in Processes : q # p => \A t \in Threads[q] : pc'[t] = pc[t]
  BY <1>1, ProcessOf DEF AllThreads
<1>3. PcType'
  BY <1>1 DEF LockInv, PcType, Steps
<1>4. OneInside'
  BY <1>2 DEF LockInv, OneInside, Inside
<1>5. InsideInTable'
  BY <1>1, <1>2 DEF LockInv, InsideInTable, Inside
<1>6. AloneUnlessCrowded'
  BY <1>1, <1>2 DEF LockInv, AloneUnlessCrowded
<1>7. OwnerUnlessCrowded'
  BY <1>1, <1>2 DEF LockInv, OwnerUnlessCrowded
<1> QED
  BY <1>3, <1>4, <1>5, <1>6, <1>7 DEF LockInv

\* Every step of LockFile and UnlockFile keeps LockInv, and the queue has no part in it.
LEMMA LockInvNext == LockInv /\ [Next]_vars => LockInv'
<1> SUFFICES ASSUME LockInv, [Next]_vars PROVE LockInv'
  OBVIOUS
<1>1. CASE Locking
  <2> PICK p \in Processes :
        \/ Exit(p)
        \/ \E t \in Threads[p] :
             \/ Open(p, t) \/ Insert(p, t) \/ Refuse(p, t) \/ CloseRefused(p, t)
             \/ Lock(p, t) \/ LockFails(p, t) \/ RemoveFailed(p, t)
             \/ Unlock(p, t) \/ Remove(p, t) \/ Close(p, t)
    BY <1>1 DEF Locking
  <2> QED
    BY ExitKeeps, OpenKeeps, LockKeeps, ThreadKeeps
<1>2. CASE UNCHANGED locking
  BY <1>2 DEF locking, LockInv, PcType, OneInside, InsideInTable, AloneUnlessCrowded,
              OwnerUnlessCrowded
<1>3. Locking \/ UNCHANGED locking
  BY DEF Next, Schedule, BGThread, Wait, Take, Finish, WakeUp, vars
<1> QED
  BY <1>1, <1>2, <1>3

\* LockInv always holds.
LEMMA LockInvariant == Spec => []LockInv
BY LockInvInit, LockInvNext, PTL DEF Spec

\* Two threads of one process never both hold the database, for any number of
\* processes and threads (LockFile, UnlockFile, PosixLockTable).
THEOREM OneThread == Spec => []OneThreadPerProcess
<1>1. LockInv => OneThreadPerProcess
  BY DEF LockInv, OneInside, OneThreadPerProcess, Inside
<1> QED
  BY <1>1, LockInvariant, PTL

\* Nor do two processes, of each of which one thread at a time uses the file
\* (LockFile, UnlockFile, LockOrUnlock).
THEOREM OneHolder == Spec => []OneHolderUnlessCrowded
<1>1. LockInv => OneHolderUnlessCrowded
  <2> SUFFICES ASSUME LockInv, NEW p \in Processes \ crowded, NEW q \in Processes \ crowded,
                      NEW t \in Threads[p], NEW u \in Threads[q],
                      pc[t] = "holding", pc[u] = "holding"
               PROVE  t = u
    BY DEF OneHolderUnlessCrowded
  <2>1. {p} = {q}
    BY DEF LockInv, OwnerUnlessCrowded
  <2>2. p = q
    BY <2>1
  <2> QED
    BY <2>2 DEF LockInv, AloneUnlessCrowded
<1> QED
  BY <1>1, LockInvariant, PTL

-----------------------------------------------------------------------------
(* The work.  Items are numbered as they are scheduled; what ran and what    *)
(* waits are together the numbers so far, in order.                          *)

WorkType ==
  /\ queue \in Seq(1 .. MaxItems) /\ ran \in Seq(1 .. MaxItems)
  /\ scheduled \in 0 .. MaxItems
  /\ background \in {"none", "ready", "waiting", "running"}

WorkInv == WorkType /\ RunInOrder

\* Nothing is scheduled at first.
LEMMA WorkInvInit == Init => WorkInv
<1> SUFFICES ASSUME Init PROVE WorkInv
  OBVIOUS
<1>1. /\ queue = << >> /\ ran = << >> /\ scheduled = 0 /\ background = "none"
  BY DEF Init
<1>2. << >> \in Seq(1 .. MaxItems)
  OBVIOUS
<1>3. WorkType
  BY <1>1, <1>2, PosixEnvAssumption DEF WorkType
<1>4. << >> \o << >> = << >>
  BY <1>2, ConcatEmptySeq
<1>5. << >> = [i \in 1 .. 0 |-> i]
  OBVIOUS
<1> QED
  BY <1>1, <1>3, <1>4, <1>5 DEF WorkInv, RunInOrder

\* A new item has the number behind all others.
LEMMA ScheduleKeeps == WorkInv /\ Schedule => WorkInv'
<1> SUFFICES ASSUME WorkInv, Schedule PROVE WorkInv'
  OBVIOUS
<1> DEFINE S == 1 .. MaxItems
           n == scheduled + 1
<1>1. queue \in Seq(S) /\ ran \in Seq(S) /\ scheduled \in 0 .. MaxItems
  BY DEF WorkInv, WorkType
<1>2. /\ scheduled < MaxItems /\ scheduled' = n /\ ran' = ran
      /\ queue' = Append(queue, n)
  BY DEF Schedule, Push
<1>3. n \in S /\ MaxItems \in Nat
  BY <1>1, <1>2, PosixEnvAssumption
<1>4. queue' \in Seq(S)
  BY <1>1, <1>2, <1>3, AppendProperties
<1>5. background' \in {"none", "ready", "waiting", "running"}
  BY DEF Schedule, Woken, WorkInv, WorkType
<1>6. WorkType'
  BY <1>1, <1>2, <1>3, <1>4, <1>5 DEF WorkType
<1>7. ran \o queue \in Seq(S)
  BY <1>1, ConcatProperties
<1>8. ran' \o queue' = Append(ran \o queue, n)
  <2>1. <<n>> \in Seq(S)
    BY <1>3
  <2>2. queue' = queue \o <<n>>
    BY <1>1, <1>2, <1>3, AppendIsConcat
  <2>3. (ran \o queue) \o <<n>> = ran \o (queue \o <<n>>)
    BY <1>1, <2>1, ConcatAssociative
  <2>4. Append(ran \o queue, n) = (ran \o queue) \o <<n>>
    BY <1>3, <1>7, AppendIsConcat
  <2> QED
    BY <1>2, <2>2, <2>3, <2>4
<1>9. ran \o queue = [i \in 1 .. scheduled |-> i]
  BY DEF WorkInv, RunInOrder
<1>10. Append([i \in 1 .. scheduled |-> i], n) = [i \in 1 .. n |-> i]
  BY <1>1, <1>3
<1> QED
  BY <1>2, <1>6, <1>8, <1>9, <1>10 DEF WorkInv, RunInOrder

\* The oldest item goes from the head of the one sequence to the end of the other.
LEMMA TakeKeeps == WorkInv /\ Take => WorkInv'
<1> SUFFICES ASSUME WorkInv, Take PROVE WorkInv'
  OBVIOUS
<1> DEFINE S == 1 .. MaxItems
<1>1. queue \in Seq(S) /\ ran \in Seq(S) /\ scheduled \in 0 .. MaxItems
  BY DEF WorkInv, WorkType
<1>2. /\ queue # << >> /\ scheduled' = scheduled /\ background' = "running"
      /\ ran' = Append(ran, Head(queue)) /\ queue' = Tail(queue)
  BY DEF Take
<1>3. Head(queue) \in S /\ Tail(queue) \in Seq(S)
  BY <1>1, <1>2, HeadTailProperties
<1>4. ran' \in Seq(S)
  BY <1>1, <1>2, <1>3, AppendProperties
<1>5. WorkType'
  BY <1>1, <1>2, <1>3, <1>4 DEF WorkType
<1>6. ran' \o queue' = ran \o queue
  <2>1. <<Head(queue)>> \in Seq(S)
    BY <1>3
  <2>2. ran' = ran \o <<Head(queue)>>
    BY <1>1, <1>2, <1>3, AppendIsConcat
  <2>3. queue = <<Head(queue)>> \o Tail(queue)
    BY <1>1, <1>2
  <2>4. (ran \o <<Head(queue)>>) \o Tail(queue) = ran \o (<<Head(queue)>> \o Tail(queue))
    BY <1>1, <1>3, <2>1, ConcatAssociative
  <2> QED
    BY <1>2, <2>2, <2>3, <2>4
<1> QED
  BY <1>2, <1>5, <1>6 DEF WorkInv, RunInOrder

\* Every step of Schedule and BGThread keeps WorkInv, and the lock has no part in it.
LEMMA WorkInvNext == WorkInv /\ [Next]_vars => WorkInv'
<1> SUFFICES ASSUME WorkInv, [Next]_vars PROVE WorkInv'
  OBVIOUS
<1>1. CASE Schedule
  BY <1>1, ScheduleKeeps
<1>2. CASE Take
  BY <1>2, TakeKeeps
<1>3. CASE Wait \/ Finish \/ WakeUp
  BY <1>3 DEF Wait, Finish, WakeUp, WorkInv, WorkType, RunInOrder
<1>4. CASE UNCHANGED working
  BY <1>4 DEF working, WorkInv, WorkType, RunInOrder
<1>5. CASE Locking
  <2>1. UNCHANGED working
    BY <1>5 DEF Locking, Exit, Open, Insert, Refuse, CloseRefused, Lock, LockFails,
                RemoveFailed, Unlock, Remove, Close
  <2> QED
    BY <2>1, <1>4
<1> QED
  BY <1>1, <1>2, <1>3, <1>4, <1>5 DEF Next, BGThread, vars

\* WorkInv always holds.
LEMMA WorkInvariant == Spec => []WorkInv
BY WorkInvInit, WorkInvNext, PTL DEF Spec

\* Nothing runs twice, out of its turn or unasked, however many items there are
\* (PosixEnv::Schedule, BGThread).
THEOREM InOrder == Spec => []RunInOrder
BY WorkInvariant, PTL DEF WorkInv

\* The type invariant, from the two inductive ones.
THEOREM EnvTypeCorrect == Spec => []TypeOK
<1> DEFINE Sets == owner \subseteq Processes /\ table \subseteq Processes /\ crowded \subseteq Processes
<1>1. Init => Sets
  BY DEF Init
<1>2. ASSUME Sets, [Next]_vars PROVE Sets'
  <2>1. CASE Locking
    BY <1>2, <2>1 DEF Locking, Exit, Open, Crowd, Insert, Refuse, CloseRefused, CloseFile, Lock,
                      LockFails, RemoveFailed, Unlock, Remove, Close
  <2>2. CASE UNCHANGED locking
    BY <1>2, <2>2 DEF locking
  <2>3. Locking \/ UNCHANGED locking
    BY <1>2 DEF Next, Schedule, BGThread, Wait, Take, Finish, WakeUp, vars
  <2> QED
    BY <2>1, <2>2, <2>3
<1>3. Sets /\ LockInv /\ WorkInv => TypeOK
  BY DEF LockInv, PcType, WorkInv, WorkType, TypeOK
<1> HIDE DEF Sets
<1> QED
  BY <1>1, <1>2, <1>3, LockInvariant, WorkInvariant, PTL DEF Spec

-----------------------------------------------------------------------------
(* The order in which the skip list has its nodes: the head before all, the *)
(* end of the list behind them.                                             *)

Key == [user : Nat, seq : Nat]
Entered == 1 .. Len(entries)
Ends == Entered \union {M!Null}      \* what a link leads to
Starts == {M!HeadNode} \union Entered
Before(x, y) == /\ x # M!Null /\ y # M!HeadNode
                /\ x = M!HeadNode \/ y = M!Null \/ M!Less(M!KeyOf(x), M!KeyOf(y))

EntriesType == entries \in Seq(UserKeys) /\ Len(entries) <= MaxEntries

\* The order of internal keys is a strict total order.
LEMMA KeyOrder ==
  ASSUME NEW a \in Key, NEW b \in Key, NEW c \in Key
  PROVE  /\ ~M!Less(a, a)
         /\ M!Less(a, b) /\ M!Less(b, c) => M!Less(a, c)
         /\ a = b \/ M!Less(a, b) \/ M!Less(b, a)
         /\ M!Less(a, b) => ~M!Less(b, a)
<1>1. a = [user |-> a.user, seq |-> a.seq] /\ b = [user |-> b.user, seq |-> b.seq]
  BY DEF Key
<1>2. a.user \in Nat /\ a.seq \in Nat /\ b.user \in Nat /\ b.seq \in Nat /\ c.user \in Nat /\ c.seq \in Nat
  BY DEF Key
<1>3. a.user = b.user /\ a.seq = b.seq => a = b
  BY <1>1
<1> QED
  BY <1>2, <1>3 DEF M!Less

\* The key of an entry.
LEMMA KeyType ==
  ASSUME EntriesType, NEW n \in Entered
  PROVE  M!KeyOf(n) \in Key /\ M!KeyOf(n).seq = n
<1>1. entries[n] \in Nat /\ n \in Nat
  BY MCMemTableAssumption DEF M!MemTableAssumption, EntriesType, Entered
<1> QED
  BY <1>1 DEF M!KeyOf, Key

\* The names of nodes are apart.
LEMMA Names ==
  ASSUME EntriesType
  PROVE  /\ M!HeadNode = 0 /\ M!Null = MaxEntries + 1 /\ M!Junk = MaxEntries + MaxHeight + 2
         /\ MaxEntries \in Nat /\ Len(entries) \in Nat
         /\ M!Null \notin Starts /\ M!Junk \notin Starts /\ M!Junk \notin Ends
         /\ M!HeadNode \notin Entered /\ M!HeadNode \notin Ends
         /\ Starts = 0 .. Len(entries)
BY MCMemTableAssumption DEF M!MemTableAssumption, EntriesType, Entered, Ends, Starts,
   M!HeadNode, M!Null, M!Junk

\* The nodes, with the head and the end, are in a strict total order.
LEMMA BeforeOrder ==
  ASSUME EntriesType,
         NEW x \in Starts \union {M!Null}, NEW y \in Starts \union {M!Null},
         NEW z \in Starts \union {M!Null}
  PROVE  /\ ~Before(x, x)
         /\ Before(x, y) /\ Before(y, z) => Before(x, z)
         /\ x = y \/ Before(x, y) \/ Before(y, x)
         /\ Before(x, y) => ~Before(y, x)
<1>1. \A n \in Entered : M!KeyOf(n) \in Key /\ M!KeyOf(n).seq = n
  BY KeyType
<1>2. \A a, b, c \in Key :
        /\ ~M!Less(a, a)
        /\ M!Less(a, b) /\ M!Less(b, c) => M!Less(a, c)
        /\ a = b \/ M!Less(a, b) \/ M!Less(b, a)
        /\ M!Less(a, b) => ~M!Less(b, a)
  BY KeyOrder
<1>3. \A n, m \in Entered : M!KeyOf(n) = M!KeyOf(m) => n = m
  BY <1>1
<1>4. \A n, m, k \in Entered :
         /\ ~M!Less(M!KeyOf(n), M!KeyOf(n))
         /\ M!Less(M!KeyOf(n), M!KeyOf(m)) /\ M!Less(M!KeyOf(m), M!KeyOf(k))
              => M!Less(M!KeyOf(n), M!KeyOf(k))
         /\ n = m \/ M!Less(M!KeyOf(n), M!KeyOf(m)) \/ M!Less(M!KeyOf(m), M!KeyOf(n))
         /\ M!Less(M!KeyOf(n), M!KeyOf(m)) => ~M!Less(M!KeyOf(m), M!KeyOf(n))
  <2> SUFFICES ASSUME NEW n \in Entered, NEW m \in Entered, NEW k \in Entered
               PROVE  /\ ~M!Less(M!KeyOf(n), M!KeyOf(n))
                      /\ M!Less(M!KeyOf(n), M!KeyOf(m)) /\ M!Less(M!KeyOf(m), M!KeyOf(k))
                           => M!Less(M!KeyOf(n), M!KeyOf(k))
                      /\ n = m \/ M!Less(M!KeyOf(n), M!KeyOf(m)) \/ M!Less(M!KeyOf(m), M!KeyOf(n))
                      /\ M!Less(M!KeyOf(n), M!KeyOf(m)) => ~M!Less(M!KeyOf(m), M!KeyOf(n))
    OBVIOUS
  <2>1. M!KeyOf(n) \in Key /\ M!KeyOf(m) \in Key /\ M!KeyOf(k) \in Key
    BY <1>1
  <2> QED
    BY <2>1, KeyOrder, <1>3
<1>5. M!HeadNode # M!Null /\ M!Null \notin Entered /\ M!HeadNode \notin Entered
  BY Names DEF Starts
<1> HIDE DEF Entered
<1>6. x \in Entered \/ x = M!HeadNode \/ x = M!Null
  BY DEF Starts
<1>7. y \in Entered \/ y = M!HeadNode \/ y = M!Null
  BY DEF Starts
<1>8. z \in Entered \/ z = M!HeadNode \/ z = M!Null
  BY DEF Starts
<1> QED
  BY <1>4, <1>5, <1>6, <1>7, <1>8 DEF Before

\* Sets of numbers.
LEMMA LeastNumber ==
  ASSUME NEW S, S \subseteq Nat, S # {}
  PROVE  \E m \in S : \A n \in S : m <= n
<1>1. IsWellFoundedOn(OpToRel(<, Nat), Nat)
  BY NatLessThanWellFounded
<1>2. PICK x \in S : \A y \in S : ~ (<<y, x>> \in OpToRel(<, Nat))
  BY <1>1, WFMin
<1>3. \A y \in S : ~ (y < x)
  BY <1>2 DEF OpToRel
<1> QED
  BY <1>3

\* A set of numbers with a bound has a greatest one.
LEMMA MaxNumber ==
  ASSUME NEW n \in Nat, NEW S, S \subseteq 0 .. n, S # {}
  PROVE  M!Max(S) \in S /\ \A y \in S : y <= M!Max(S)
<1> DEFINE T == {n - y : y \in S}
<1>1. T \subseteq Nat /\ T # {}
  <2>1. \A y \in S : n - y \in Nat
    OBVIOUS
  <2> QED
    BY <2>1
<1>2. PICK m \in T : \A k \in T : m <= k
  <2> HIDE DEF T
  <2> QED BY <1>1, LeastNumber
<1>3. n - m \in S /\ \A y \in S : n - m >= y
  BY <1>2
<1>4. \E x \in S : \A y \in S : x >= y
  BY <1>3
<1>5. M!Max(S) \in S /\ \A y \in S : M!Max(S) >= y
  BY <1>4 DEF M!Max
<1> QED
  BY <1>5

-----------------------------------------------------------------------------
(* Memory.                                                                  *)

StoreType == [node : Nat, slot : 0 .. MaxHeight, value : Nat, release : BOOLEAN]
Fields(i, node, slot, value) ==
  stores[i].node = node /\ stores[i].slot = slot /\ stores[i].value = value
Has(x, slot, clock) == \E i \in M!StoresTo(x, slot) : i <= clock
LinkOf(j, s) == stores[j].slot = 1 /\ stores[j].release /\ stores[j].value = s
Top == M!Latest(M!HeadNode, 0)
Held(i, x, n) == IF i = 0 THEN x = M!HeadNode /\ n = M!Null
                 ELSE i \in M!StoresTo(x, 1) /\ stores[i].value = n

MemType == /\ EntriesType /\ stores \in Seq(StoreType)
           /\ \A i \in DOMAIN stores : /\ stores[i].node \in Starts
                                       /\ stores[i].slot # 0 => stores[i].value \in Ends

Plain(node, slot, value) == M!Store(node, slot, value, FALSE)
Released(node, slot, value) == M!Store(node, slot, value, TRUE)

\* What Insert stores for a node: b is the number of the stores before its own.
Inserted(mem, b, prev, x, h) ==
  /\ Len(mem) = b + 1 + 2 * h /\ DOMAIN mem = 1 .. Len(mem)
  /\ b = IF h > Top THEN Len(stores) + 1 ELSE Len(stores)
  /\ \A i \in DOMAIN stores : mem[i] = stores[i]
  /\ h > Top => mem[b] = Plain(M!HeadNode, 0, h)
  /\ mem[b + 1] = Plain(x, 0, x)
  /\ \A l \in 1 .. h : /\ mem[b + 2 * l] = Plain(x, l, M!Latest(prev[l], l))
                       /\ mem[b + 2 * l + 1] = Released(prev[l], l, x)
  /\ \A i \in DOMAIN mem :
       \/ i \in DOMAIN stores
       \/ h > Top /\ i = b
       \/ i = b + 1
       \/ \E l \in 1 .. h : i = b + 2 * l \/ i = b + 2 * l + 1

\* Pairs in a row.
LEMMA PairsInARow ==
  ASSUME NEW h \in Nat, NEW i \in 1 .. 2 * h
  PROVE  /\ (i + 1) \div 2 \in 1 .. h
         /\ i % 2 = 1 => i = 2 * ((i + 1) \div 2) - 1
         /\ i % 2 # 1 => i = 2 * ((i + 1) \div 2)
OBVIOUS
\* Two entries in a row, for the plain and for the released store of each level.
LEMMA PairOf ==
  ASSUME NEW l \in Nat \ {0}
  PROVE  /\ (2 * l - 1 + 1) \div 2 = l /\ (2 * l - 1) % 2 = 1
         /\ (2 * l + 1) \div 2 = l /\ (2 * l) % 2 # 1
OBVIOUS

\* What two sequences, one behind the other, hold.
LEMMA Cat ==
  ASSUME NEW A, NEW s \in Seq(A), NEW t \in Seq(A)
  PROVE  /\ s \o t \in Seq(A) /\ Len(s \o t) = Len(s) + Len(t) /\ Len(s) \in Nat /\ Len(t) \in Nat
         /\ \A i \in 1 .. Len(s) : (s \o t)[i] = s[i]
         /\ \A i \in 1 .. Len(t) : (s \o t)[Len(s) + i] = t[i]
OBVIOUS

\* Perhaps a store, one store, and pairs of stores behind the stores so far.
InRows(s, p, q, r) == s \o ((p \o <<q>>) \o r)
AreInRows(w, A, s, p, q, r, h, b) ==
  /\ w \in Seq(A) /\ Len(w) = b + 1 + 2 * h
  /\ \A i \in 1 .. Len(s) : w[i] = s[i]
  /\ \A i \in 1 .. Len(p) : w[Len(s) + i] = p[i]
  /\ w[b + 1] = q
  /\ \A l \in 1 .. h : w[b + 2 * l] = r[2 * l - 1] /\ w[b + 2 * l + 1] = r[2 * l]
\* Where the parts of an insert's stores are.
LEMMA Rows ==
  ASSUME NEW A, NEW s \in Seq(A), NEW p \in Seq(A), NEW q \in A, NEW r \in Seq(A),
         NEW h \in Nat, Len(r) = 2 * h, NEW b \in Nat, b = Len(s) + Len(p),
         NEW w, w = InRows(s, p, q, r)
  PROVE  AreInRows(w, A, s, p, q, r, h, b)
<1> DEFINE pq == p \o <<q>>
           t == pq \o r
<1>w. w = s \o t
  BY DEF InRows
<1>1. pq \in Seq(A) /\ Len(pq) = Len(p) + 1 /\ pq[Len(p) + 1] = q /\ \A i \in 1 .. Len(p) : pq[i] = p[i]
  OBVIOUS
<1> HIDE DEF pq
<1>2. t \in Seq(A) /\ Len(t) = Len(p) + 1 + 2 * h /\ (\A i \in 1 .. Len(p) + 1 : t[i] = pq[i])
      /\ \A i \in 1 .. 2 * h : t[Len(p) + 1 + i] = r[i]
  <2>0. pq \in Seq(A) /\ r \in Seq(A) /\ Len(p) \in Nat
    BY <1>1
  <2>1. /\ t \in Seq(A) /\ Len(t) = Len(pq) + Len(r) /\ Len(pq) \in Nat
        /\ \A i \in 1 .. Len(pq) : t[i] = pq[i]
        /\ \A i \in 1 .. Len(r) : t[Len(pq) + i] = r[i]
    BY ONLY <2>0, Cat
  <2> HIDE DEF t
  <2>2. Len(t) = Len(p) + 1 + 2 * h
    BY <1>1, <2>0, <2>1
  <2>3. \A i \in 1 .. 2 * h : t[Len(p) + 1 + i] = r[i]
    BY <1>1, <2>0, <2>1
  <2> QED
    BY <1>1, <2>1, <2>2, <2>3
<1> HIDE DEF t
<1>3. w \in Seq(A) /\ Len(w) = b + 1 + 2 * h /\ (\A i \in 1 .. Len(s) : w[i] = s[i])
      /\ \A i \in 1 .. Len(t) : w[Len(s) + i] = t[i]
  <2>1. Len(w) = Len(s) + Len(t) /\ Len(s) \in Nat /\ Len(p) \in Nat
    BY <1>2, <1>w, Cat
  <2>2. /\ s \o t \in Seq(A)
        /\ \A i \in 1 .. Len(s) : (s \o t)[i] = s[i]
        /\ \A i \in 1 .. Len(t) : (s \o t)[Len(s) + i] = t[i]
    BY <1>2, Cat
  <2> HIDE DEF t
  <2> QED
    BY ONLY <2>1, <2>2, <1>2, <1>w, b = Len(s) + Len(p), b \in Nat, h \in Nat
<1>4. \A i \in 1 .. Len(p) : w[Len(s) + i] = p[i]
  BY <1>1, <1>2, <1>3
<1>5. w[b + 1] = q
  BY <1>1, <1>2, <1>3
<1>6. ASSUME NEW l \in 1 .. h PROVE w[b + 2 * l] = r[2 * l - 1] /\ w[b + 2 * l + 1] = r[2 * l]
  <2>1. 2 * l - 1 \in 1 .. 2 * h /\ 2 * l \in 1 .. 2 * h /\ Len(s) \in Nat /\ Len(p) \in Nat
    OBVIOUS
  <2>2. t[Len(p) + 1 + (2 * l - 1)] = r[2 * l - 1] /\ t[Len(p) + 1 + 2 * l] = r[2 * l]
    BY <2>1, <1>2
  <2>3. /\ b + 2 * l = Len(s) + (Len(p) + 1 + (2 * l - 1)) /\ Len(p) + 1 + (2 * l - 1) \in 1 .. Len(t)
        /\ b + 2 * l + 1 = Len(s) + (Len(p) + 1 + 2 * l) /\ Len(p) + 1 + 2 * l \in 1 .. Len(t)
    BY <2>1, <1>2
  <2> QED
    BY <2>2, <2>3, <1>3
<1> QED
  BY <1>3, <1>4, <1>5, <1>6 DEF AreInRows

\* Every number behind them is that of one of these.
LEMMA RowNumbers ==
  ASSUME NEW n \in Nat, NEW b \in {n, n + 1},
         NEW h \in Nat, NEW i \in 1 .. b + 1 + 2 * h
  PROVE  \/ i \in 1 .. n
         \/ b = n + 1 /\ i = b
         \/ i = b + 1
         \/ \E l \in 1 .. h : i = b + 2 * l \/ i = b + 2 * l + 1
<1>1. CASE i > b + 1
  <2>1. i - b - 1 \in 1 .. 2 * h
    BY <1>1
  <2>2. LET l == (i - b - 1 + 1) \div 2
        IN  l \in 1 .. h /\ (i - b - 1 = 2 * l - 1 \/ i - b - 1 = 2 * l)
    BY <2>1, PairsInARow
  <2>3. PICK l \in 1 .. h : i - b - 1 = 2 * l - 1 \/ i - b - 1 = 2 * l
    BY <2>2
  <2> QED
    BY <2>3
<1>2. CASE i <= b + 1
  BY <1>2
<1> QED
  BY <1>1, <1>2

\* What an insert stores and where: the key and the height, then for each level
\* the new node's own link and the link to it.
LEMMA InsertLayout ==
  ASSUME stores \in Seq(StoreType), Top \in Nat, NEW user, NEW x \in Nat, NEW h \in 1 .. MaxHeight,
         NEW prev, prev = M!FindPrev([user |-> user, seq |-> x], Top),
         \A l \in 1 .. h : prev[l] \in Nat /\ M!Latest(prev[l], l) \in Nat
  PROVE  \E b \in Nat : /\ Inserted(stores \o M!Insert(user, x, h), b, prev, x, h)
                        /\ stores \o M!Insert(user, x, h) \in Seq(StoreType)
<1> DEFINE Level(i) == (i + 1) \div 2
           taller == h > Top
           p == IF taller THEN <<Plain(M!HeadNode, 0, h)>> ELSE << >>
           q == Plain(x, 0, x)
           r == [i \in 1 .. 2 * h |->
                   M!Link(prev[Level(i)], Level(i), x)[IF i % 2 = 1 THEN 1 ELSE 2]]
           b == IF taller THEN Len(stores) + 1 ELSE Len(stores)
           w == stores \o M!Insert(user, x, h)
<1>0. h \in Nat /\ MaxHeight \in Nat /\ M!HeadNode = 0 /\ Len(stores) \in Nat
  BY MCMemTableAssumption DEF M!MemTableAssumption, M!HeadNode
<1>1. M!Insert(user, x, h) = (p \o <<q>>) \o r
  BY DEF M!Insert, Top, Plain
<1>t. taller \in BOOLEAN
  BY <1>0
<1>2. \A n \in Nat, l \in 0 .. MaxHeight, v \in Nat :
         Plain(n, l, v) \in StoreType /\ Released(n, l, v) \in StoreType
  BY DEF M!Store, StoreType, Plain, Released
<1>3. \A l \in 1 .. h : M!Link(prev[l], l, x)[1] \in StoreType /\ M!Link(prev[l], l, x)[2] \in StoreType
  <2> SUFFICES ASSUME NEW l \in 1 .. h
               PROVE  M!Link(prev[l], l, x)[1] \in StoreType /\ M!Link(prev[l], l, x)[2] \in StoreType
    OBVIOUS
  <2>1. l \in 0 .. MaxHeight
    BY <1>0
  <2> QED
    BY <2>1, <1>2 DEF M!Link, Plain, Released
<1>4. \A i \in 1 .. 2 * h : Level(i) \in 1 .. h
  BY PairsInARow, <1>0
<1>5. \A l \in 1 .. h : /\ r[2 * l - 1] = Plain(x, l, M!Latest(prev[l], l))
                        /\ r[2 * l] = Released(prev[l], l, x)
  <2> SUFFICES ASSUME NEW l \in 1 .. h
               PROVE  /\ r[2 * l - 1] = Plain(x, l, M!Latest(prev[l], l))
                      /\ r[2 * l] = Released(prev[l], l, x)
    OBVIOUS
  <2>1. 2 * l - 1 \in 1 .. 2 * h /\ 2 * l \in 1 .. 2 * h /\ l \in Nat \ {0}
    BY <1>0
  <2>2. Level(2 * l - 1) = l /\ (2 * l - 1) % 2 = 1 /\ Level(2 * l) = l /\ (2 * l) % 2 # 1
    BY <2>1, PairOf
  <2> HIDE DEF Level
  <2>3. r[2 * l - 1] = M!Link(prev[l], l, x)[1] /\ r[2 * l] = M!Link(prev[l], l, x)[2]
    BY <2>1, <2>2
  <2> QED
    BY <2>3 DEF M!Link, Plain, Released
<1>6. r \in Seq(StoreType) /\ Len(r) = 2 * h
  <2>1. \A i \in 1 .. 2 * h : r[i] \in StoreType
    <3> HIDE DEF Level
    <3> QED
      BY <1>3, <1>4
  <2>2. r = [i \in 1 .. 2 * h |-> r[i]]
    OBVIOUS
  <2> HIDE DEF r
  <2>3. r \in [1 .. 2 * h -> StoreType] /\ 2 * h \in Nat
    BY <2>1, <2>2, <1>0
  <2> QED
    BY <2>3
<1>7. /\ p \in Seq(StoreType) /\ q \in StoreType
      /\ IF taller THEN Len(p) = 1 /\ p[1] = Plain(M!HeadNode, 0, h) ELSE Len(p) = 0
  <2> DEFINE s == Plain(M!HeadNode, 0, h)
  <2>1. s \in StoreType /\ q \in StoreType
    BY <1>0 DEF M!Store, StoreType, Plain
  <2> HIDE DEF s, q
  <2>2. << >> \in Seq(StoreType) /\ <<s>> \in Seq(StoreType) /\ Len(<<s>>) = 1 /\ Len(<< >>) = 0 /\ <<s>>[1] = s
    BY <2>1
  <2>3. p = IF taller THEN <<s>> ELSE << >>
    BY DEF s
  <2> HIDE DEF p, taller
  <2>4. IF taller THEN Len(p) = 1 /\ p[1] = s ELSE Len(p) = 0
    BY <2>2, <2>3
  <2>5. p \in Seq(StoreType)
    BY <2>2, <2>3
  <2> QED
    BY <2>1, <2>4, <2>5 DEF s
<1>8. w = InRows(stores, p, q, r)
  BY <1>1 DEF InRows
<1> HIDE DEF p, q, r, w, taller
<1>9. b = Len(stores) + Len(p) /\ b \in Nat
  <2>1. CASE taller
    <3>1. Len(p) = 1
      BY <1>7, <2>1
    <3>2. b = Len(stores) + 1
      BY <2>1
    <3>3. Len(stores) \in Nat
      BY <1>0
    <3> HIDE DEF b
    <3> QED
      BY ONLY <3>1, <3>2, <3>3
  <2>2. CASE ~taller
    BY <1>7, <1>0, <2>2
  <2> QED
    BY <2>1, <2>2, <1>t
<1>b. b = IF taller THEN Len(stores) + 1 ELSE Len(stores)
  OBVIOUS
<1> HIDE DEF b
<1>10. /\ w \in Seq(StoreType) /\ Len(w) = b + 1 + 2 * h
       /\ \A i \in 1 .. Len(stores) : w[i] = stores[i]
       /\ \A i \in 1 .. Len(p) : w[Len(stores) + i] = p[i]
       /\ w[b + 1] = q
       /\ \A l \in 1 .. h : w[b + 2 * l] = r[2 * l - 1] /\ w[b + 2 * l + 1] = r[2 * l]
  <2>1. /\ stores \in Seq(StoreType) /\ p \in Seq(StoreType) /\ q \in StoreType /\ r \in Seq(StoreType)
        /\ h \in Nat /\ b \in Nat /\ Len(r) = 2 * h /\ b = Len(stores) + Len(p)
    BY <1>0, <1>6, <1>7, <1>9
  <2>2. AreInRows(w, StoreType, stores, p, q, r, h, b)
    BY ONLY <2>1, <1>8, Rows
  <2> QED
    BY ONLY <2>2 DEF AreInRows
<1>11. DOMAIN w = 1 .. Len(w) /\ DOMAIN stores = 1 .. Len(stores)
  BY <1>10
<1>12. taller => w[b] = Plain(M!HeadNode, 0, h)
  <2> SUFFICES ASSUME taller PROVE w[b] = Plain(M!HeadNode, 0, h)
    OBVIOUS
  <2>1. Len(p) = 1 /\ p[1] = Plain(M!HeadNode, 0, h) /\ b = Len(stores) + 1
    BY ONLY <1>7, <1>b, taller
  <2> QED
    BY ONLY <2>1, <1>0, <1>10
<1>13. ASSUME NEW i \in DOMAIN w
       PROVE  \/ i \in DOMAIN stores
              \/ taller /\ i = b
              \/ i = b + 1
              \/ \E l \in 1 .. h : i = b + 2 * l \/ i = b + 2 * l + 1
  <2>1. i \in 1 .. b + 1 + 2 * h /\ b = IF taller THEN Len(stores) + 1 ELSE Len(stores)
    BY <1>10, <1>11, <1>b
  <2>2. b \in {Len(stores), Len(stores) + 1} /\ (b = Len(stores) + 1 => taller)
    BY <1>0, <1>b, <1>t
  <2>3. \/ i \in 1 .. Len(stores)
        \/ b = Len(stores) + 1 /\ i = b
        \/ i = b + 1
        \/ \E l \in 1 .. h : i = b + 2 * l \/ i = b + 2 * l + 1
    <3> DEFINE n == Len(stores)
    <3>1. n \in Nat /\ h \in Nat
      BY <1>0
    <3>2. b \in {n, n + 1} /\ i \in 1 .. b + 1 + 2 * h
      BY <2>1, <2>2
    <3> HIDE DEF n
    <3>3. \/ i \in 1 .. n
          \/ b = n + 1 /\ i = b
          \/ i = b + 1
          \/ \E l \in 1 .. h : i = b + 2 * l \/ i = b + 2 * l + 1
      BY ONLY <3>1, <3>2, RowNumbers
    <3> QED
      BY <3>3 DEF n
  <2> QED
    BY <2>2, <2>3, <1>11
<1>14. Inserted(w, b, prev, x, h)
  BY <1>5, <1>10, <1>11, <1>12, <1>13, <1>b DEF Inserted, q, taller
<1> QED
  BY <1>9, <1>10, <1>14 DEF w

-----------------------------------------------------------------------------
(* The links.  A node that a pointer leads to was whole before the pointer was *)
(* stored, a link leads onward in the order, a link stored without release is  *)
(* the first in its place, and every entry follows its predecessor in the list *)
(* of the lowest level.                                                        *)

TopRight == /\ Top \in 1 .. MaxHeight /\ \A i \in DOMAIN stores : stores[i].slot <= Top
            /\ \A i \in DOMAIN stores : \A n : Fields(i, M!HeadNode, 0, n) => n \in 1 .. MaxHeight
WholeFirst ==
  \A i \in DOMAIN stores : \A x, l, n : Fields(i, x, l, n) /\ l # 0 /\ n # M!Null =>
    \A m \in 0 .. l : Has(n, m, i - 1)
Sorted ==
  \A i \in DOMAIN stores : \A x, l, n : Fields(i, x, l, n) /\ l # 0 => Before(x, n)
PlainFirst ==
  \A i \in DOMAIN stores : \A x, l, n : Fields(i, x, l, n) /\ l # 0 /\ ~stores[i].release =>
    x # M!HeadNode /\ \A j \in M!StoresTo(x, l) : i <= j
Successors ==
  \A x \in Starts :
    /\ M!Latest(x, 1) \in Ends /\ Before(x, M!Latest(x, 1))
    /\ \A s \in Entered : ~(Before(x, s) /\ Before(s, M!Latest(x, 1)))
AllLinked == \A s \in Entered : \E j \in DOMAIN stores : LinkOf(j, s)
\* What was linked after a link was stored that leads past it, was linked behind a
\* newer store to the same place, and no link leads past what is in the list.
NonePassed ==
  \A s \in Entered, x \in Starts, n \in Ends, i \in 0 .. Len(stores), j \in DOMAIN stores :
    LinkOf(j, s) /\ Held(i, x, n) /\ Before(x, s) /\ Before(s, n)
      => i < j /\ \E k \in i + 1 .. j : k \in M!StoresTo(x, 1)

LinkInv == TopRight /\ WholeFirst /\ Sorted
Reached(x, level) == x = M!HeadNode \/ \A m \in 0 .. level : Has(x, m, Len(stores))

\* The stores to a place, and the latest of them.
LEMMA LatestStore ==
  ASSUME stores \in Seq(StoreType), NEW x, NEW l, M!StoresTo(x, l) # {}
  PROVE  \E i \in M!StoresTo(x, l) : /\ M!Latest(x, l) = stores[i].value
                                     /\ \A j \in M!StoresTo(x, l) : j <= i
<1>1. M!StoresTo(x, l) \subseteq 0 .. Len(stores) /\ Len(stores) \in Nat
  BY DEF M!StoresTo
<1>2. M!Max(M!StoresTo(x, l)) \in M!StoresTo(x, l)
      /\ \A j \in M!StoresTo(x, l) : j <= M!Max(M!StoresTo(x, l))
  BY <1>1, MaxNumber
<1> QED
  BY <1>2 DEF M!Latest

\* Where the latest link of a node leads.
LEMMA LatestLink ==
  ASSUME MemType, LinkInv, NEW x \in Starts, NEW l \in 1 .. MaxHeight, Reached(x, l)
  PROVE  /\ M!Latest(x, l) \in Ends /\ Before(x, M!Latest(x, l))
         /\ M!Latest(x, l) # M!Null => Reached(M!Latest(x, l), l)
<1>0. MaxHeight \in Nat /\ l \in Nat \ {0} /\ l \in 0 .. l
  BY MCMemTableAssumption DEF M!MemTableAssumption
<1>1. CASE M!StoresTo(x, l) = {}
  <2>1. x = M!HeadNode
    BY <1>0, <1>1 DEF Reached, Has
  <2>2. M!Latest(x, l) = M!Null
    BY <2>1, <1>0, <1>1 DEF M!Latest, M!Unset
  <2> QED
    BY <2>1, <2>2, Names DEF Ends, Before, MemType
<1>2. CASE M!StoresTo(x, l) # {}
  <2>1. PICK i \in M!StoresTo(x, l) : M!Latest(x, l) = stores[i].value
    BY <1>2, LatestStore DEF MemType
  <2>2. i \in DOMAIN stores /\ stores[i].node = x /\ stores[i].slot = l /\ i <= Len(stores) /\ i \in Nat
    BY <2>1 DEF M!StoresTo, MemType
  <2>3. stores[i].value \in Ends /\ Before(x, stores[i].value)
    BY <2>2, <1>0 DEF MemType, LinkInv, Sorted, Fields
  <2>4. ASSUME stores[i].value # M!Null, NEW m \in 0 .. l
        PROVE  Has(stores[i].value, m, Len(stores))
    <3>1. Has(stores[i].value, m, i - 1)
      BY <2>2, <2>4, <1>0 DEF LinkInv, WholeFirst, Fields
    <3>2. PICK k \in M!StoresTo(stores[i].value, m) : k <= i - 1
      BY <3>1 DEF Has
    <3>3. k \in Nat /\ Len(stores) \in Nat
      BY <3>2 DEF M!StoresTo, MemType
    <3> QED
      BY <2>2, <3>2, <3>3 DEF Has
  <2> QED
    BY <2>1, <2>3, <2>4 DEF Reached
<1> QED
  BY <1>1, <1>2

-----------------------------------------------------------------------------
(* FindGreaterOrEqual of the inserting thread.                               *)

StartOfWalk(top) == [x |-> M!HeadNode, level |-> top,
                     prev |-> [level \in 1 .. MaxHeight |-> M!HeadNode]]
Walks(f, key, top, N) ==
  f = [n \in 0 .. N |-> IF n = 0 THEN StartOfWalk(top) ELSE M!Turn(key, f[n - 1])]
WalkOf(key, top) == CHOOSE f : Walks(f, key, top, Len(entries) + top)

\* FindPrev is the end of the walk.
LEMMA FindPrevWalks ==
  \A key, top : M!FindPrev(key, top) = WalkOf(key, top)[Len(entries) + top].prev
BY DEF M!FindPrev, WalkOf, Walks, StartOfWalk

\* However many turns it takes, there is such a walk.
LEMMA WalkExists ==
  ASSUME NEW key, NEW top, Len(entries) + top \in Nat
  PROVE  Walks(WalkOf(key, top), key, top, Len(entries) + top)
<1> DEFINE Bad == {N \in Nat : ~\E f : Walks(f, key, top, N)}
<1>1. ASSUME Bad # {} PROVE FALSE
  <2>1. PICK N \in Bad : \A m \in Bad : N <= m
    <3>1. Bad \subseteq Nat
      OBVIOUS
    <3> HIDE DEF Bad
    <3> QED
      BY <1>1, <3>1, LeastNumber
  <2>2. CASE N = 0
    <3> DEFINE g == [n \in 0 .. 0 |-> StartOfWalk(top)]
    <3>1. Walks(g, key, top, 0)
      BY DEF Walks
    <3> QED
      BY <2>1, <2>2, <3>1
  <2>3. CASE N # 0
    <3>1. N - 1 \in Nat /\ N - 1 \notin Bad /\ N \in Nat
      BY <2>1, <2>3
    <3>2. PICK f : Walks(f, key, top, N - 1)
      BY <3>1
    <3> DEFINE g == [n \in 0 .. N |-> IF n = N THEN M!Turn(key, f[N - 1]) ELSE f[n]]
               h == [n \in 0 .. N |-> IF n = 0 THEN StartOfWalk(top) ELSE M!Turn(key, g[n - 1])]
    <3>3. ASSUME NEW n \in 0 .. N PROVE g[n] = h[n]
      <4>1. CASE n = N
        <5>1. g[n - 1] = f[N - 1]
          BY <3>1, <4>1, <2>3
        <5> QED
          BY <4>1, <5>1, <2>3
      <4>2. CASE n # N
        <5>1. n \in 0 .. N - 1
          BY <4>2, <3>1
        <5>2. f[n] = IF n = 0 THEN StartOfWalk(top) ELSE M!Turn(key, f[n - 1])
          BY <3>2, <5>1 DEF Walks
        <5>3. n # 0 => g[n - 1] = f[n - 1]
          BY <5>1, <3>1
        <5> QED
          BY <4>2, <5>2, <5>3
      <4> QED
        BY <4>1, <4>2
    <3>4. g = h
      BY <3>3
    <3>5. Walks(g, key, top, N)
      BY <3>4 DEF Walks
    <3> QED
      BY <2>1, <3>5
  <2> QED
    BY <2>2, <2>3
<1>2. \E f : Walks(f, key, top, Len(entries) + top)
  BY <1>1
<1> QED
  BY <1>2 DEF WalkOf

\* How many entries are up to a node.
RankOf(x) == Cardinality({s \in Entered : s = x \/ Before(s, x)})

\* A node has at most all the others in front of it.
LEMMA RankType ==
  ASSUME EntriesType, NEW x \in Starts
  PROVE  RankOf(x) \in 0 .. Len(entries)
<1>1. IsFiniteSet(Entered) /\ Cardinality(Entered) = Len(entries) /\ Len(entries) \in Nat
  BY FS_Interval DEF Entered, EntriesType
<1>2. {s \in Entered : s = x \/ Before(s, x)} \subseteq Entered
  OBVIOUS
<1> QED
  BY <1>1, <1>2, FS_Subset, FS_CardinalityType DEF RankOf

\* It is more for a later node.
LEMMA RankGrows ==
  ASSUME EntriesType, NEW x \in Starts, NEW y \in Entered, Before(x, y)
  PROVE  RankOf(x) < RankOf(y)
<1> DEFINE S(z) == {s \in Entered : s = z \/ Before(s, z)}
<1>1. IsFiniteSet(Entered)
  BY FS_Interval DEF Entered, EntriesType
<1>2. S(y) \subseteq Entered
  OBVIOUS
<1>3. IsFiniteSet(S(y))
  BY <1>1, <1>2, FS_Subset
<1>4. S(x) \subseteq S(y)
  <2> SUFFICES ASSUME NEW s \in Entered, s = x \/ Before(s, x) PROVE s = y \/ Before(s, y)
    OBVIOUS
  <2> QED
    BY BeforeOrder DEF Starts
<1>5. y \in S(y)
  OBVIOUS
<1>6. y \notin S(x)
  BY BeforeOrder DEF Starts
<1>7. RankOf(x) = Cardinality(S(x)) /\ RankOf(y) = Cardinality(S(y))
  BY DEF RankOf
<1> HIDE DEF S
<1>8. IsFiniteSet(S(x)) /\ Cardinality(S(x)) <= Cardinality(S(y)) /\ Cardinality(S(x)) # Cardinality(S(y))
  BY <1>3, <1>4, <1>5, <1>6, FS_Subset
<1>9. Cardinality(S(x)) \in Nat /\ Cardinality(S(y)) \in Nat
  BY <1>3, <1>8, FS_CardinalityType
<1> QED
  BY <1>7, <1>8, <1>9

\* A node that is noted for a level: it is there, and the next one is not before the key.
Behind(key, x) == x = M!HeadNode \/ M!Less(M!KeyOf(x), key)
Noted(key, x, l) == Behind(key, x) /\ Reached(x, l) /\ ~M!KeyIsAfterNode(key, M!Latest(x, l))

\* What holds after n turns.
WalkInv(at, key, top, n) ==
  /\ at.x \in Starts /\ at.level \in 0 .. top /\ at.prev \in [1 .. MaxHeight -> Starts]
  /\ at = [x |-> at.x, level |-> at.level, prev |-> at.prev]
  /\ Behind(key, at.x) /\ Reached(at.x, at.level)
  /\ \A l \in 1 .. MaxHeight :
       IF l > at.level /\ l <= top THEN Noted(key, at.prev[l], l) ELSE at.prev[l] = M!HeadNode
  /\ at.level = 0 \/ n + at.level <= RankOf(at.x) + top

\* A turn of FindGreaterOrEqual goes on or goes down a level, and leaves a place for
\* the new node on every level that it is done with.
LEMMA WalkKeeps ==
  ASSUME MemType, LinkInv, NEW key \in Key, NEW at, NEW n \in Nat, WalkInv(at, key, Top, n)
  PROVE  WalkInv(M!Turn(key, at), key, Top, n + 1)
<1> DEFINE next == M!Latest(at.x, at.level)
<1>0. /\ Top \in 1 .. MaxHeight /\ MaxHeight \in Nat /\ at.level \in Nat /\ Top \in Nat
      /\ EntriesType
  BY MCMemTableAssumption DEF M!MemTableAssumption, LinkInv, TopRight, WalkInv, MemType
<1>1. CASE at.level = 0
  <2>1. M!Turn(key, at) = at
    BY <1>1 DEF M!Turn
  <2> QED
    BY <1>1, <2>1 DEF WalkInv
<1>2. CASE at.level # 0 /\ M!KeyIsAfterNode(key, next)
  <2> DEFINE new == [at EXCEPT !.x = next]
  <2>1. M!Turn(key, at) = new
    BY <1>2 DEF M!Turn
  <2>2. at.level \in 1 .. MaxHeight
    BY <1>0, <1>2 DEF WalkInv
  <2>3. next \in Ends /\ Before(at.x, next) /\ (next # M!Null => Reached(next, at.level))
    BY <2>2, LatestLink DEF WalkInv
  <2>4. next # M!Null /\ M!Less(M!KeyOf(next), key)
    BY <1>2 DEF M!KeyIsAfterNode
  <2>5. next \in Entered /\ next \in Starts
    BY <2>3, <2>4 DEF Ends, Starts
  <2>6. RankOf(at.x) < RankOf(next) /\ RankOf(at.x) \in Nat /\ RankOf(next) \in Nat
    <3>1. RankOf(at.x) \in 0 .. Len(entries) /\ RankOf(next) \in 0 .. Len(entries)
      BY <2>5, <1>0, RankType DEF WalkInv
    <3> HIDE DEF next
    <3>2. RankOf(at.x) < RankOf(next)
      BY <2>3, <2>5, <1>0, RankGrows DEF WalkInv
    <3> QED
      BY <3>1, <3>2
  <2>7. new.x = next /\ new.level = at.level /\ new.prev = at.prev
        /\ new = [x |-> new.x, level |-> new.level, prev |-> new.prev]
    BY DEF WalkInv
  <2> HIDE DEF new, next
  <2>8. n + 1 + at.level <= RankOf(next) + Top
    BY <2>6, <1>0, <1>2 DEF WalkInv
  <2>9. Behind(key, next) /\ Reached(next, at.level)
    BY <2>3, <2>4 DEF Behind
  <2> QED
    BY <2>1, <2>5, <2>7, <2>8, <2>9 DEF WalkInv
<1>3. CASE at.level # 0 /\ ~M!KeyIsAfterNode(key, next)
  <2> DEFINE new == [x |-> at.x, level |-> at.level - 1, prev |-> [at.prev EXCEPT ![at.level] = at.x]]
  <2>1. M!Turn(key, at) = new
    BY <1>3 DEF M!Turn
  <2>2. at.level \in 1 .. MaxHeight /\ at.level - 1 \in 0 .. Top
    BY <1>0, <1>3 DEF WalkInv
  <2>3. new.x = at.x /\ new.level = at.level - 1 /\ new.prev = [at.prev EXCEPT ![at.level] = at.x]
        /\ new = [x |-> new.x, level |-> new.level, prev |-> new.prev]
    OBVIOUS
  <2>4. Noted(key, at.x, at.level)
    BY <1>3 DEF WalkInv, Noted
  <2> HIDE DEF new, next
  <2>5. new.prev \in [1 .. MaxHeight -> Starts] /\ new.prev[at.level] = at.x
        /\ \A l \in 1 .. MaxHeight : l # at.level => new.prev[l] = at.prev[l]
    BY <2>2, <2>3 DEF WalkInv
  <2>6. \A l \in 1 .. MaxHeight :
          IF l > new.level /\ l <= Top THEN Noted(key, new.prev[l], l) ELSE new.prev[l] = M!HeadNode
    <3> SUFFICES ASSUME NEW l \in 1 .. MaxHeight
                 PROVE  IF l > new.level /\ l <= Top THEN Noted(key, new.prev[l], l)
                        ELSE new.prev[l] = M!HeadNode
      OBVIOUS
    <3>1. CASE l = at.level
      BY <3>1, <2>3, <2>4, <2>5, <1>0 DEF WalkInv
    <3>2. CASE l # at.level
      <4>1. new.prev[l] = at.prev[l]
        BY <3>2, <2>5
      <4>2. l > new.level <=> l > at.level
        BY <3>2, <2>3, <1>0
      <4> QED
        BY <4>1, <4>2 DEF WalkInv
    <3> QED
      BY <3>1, <3>2
  <2>7. Reached(at.x, new.level)
    <3>1. \A m \in 0 .. new.level : m \in 0 .. at.level
      BY <2>3, <1>0
    <3> QED
      BY <3>1 DEF WalkInv, Reached
  <2>8. new.level = 0 \/ n + 1 + new.level <= RankOf(at.x) + Top
    BY <2>3, <1>0, <1>3 DEF WalkInv
  <2> QED
    BY <2>1, <2>2, <2>3, <2>5, <2>6, <2>7, <2>8 DEF WalkInv
<1> QED
  BY <1>1, <1>2, <1>3

\* Where the walk has noted, at every level, the last node before the key.
LEMMA PrevFound ==
  ASSUME MemType, LinkInv, NEW key \in Key
  PROVE  LET prev == M!FindPrev(key, Top)
         IN  /\ prev \in [1 .. MaxHeight -> Starts]
             /\ \A l \in 1 .. MaxHeight : IF l <= Top THEN Noted(key, prev[l], l)
                                          ELSE prev[l] = M!HeadNode
<1> DEFINE N == Len(entries) + Top
           f == WalkOf(key, Top)
           Bad == {n \in 0 .. N : ~WalkInv(f[n], key, Top, n)}
<1>0. /\ Top \in 1 .. MaxHeight /\ MaxHeight \in Nat /\ Top \in Nat /\ Len(entries) \in Nat
      /\ N \in Nat /\ EntriesType
  BY MCMemTableAssumption DEF M!MemTableAssumption, LinkInv, TopRight, WalkInv, MemType, EntriesType
<1>1. \A n \in 0 .. N : f[n] = IF n = 0 THEN StartOfWalk(Top) ELSE M!Turn(key, f[n - 1])
  <2>1. Walks(f, key, Top, N)
    BY <1>0, WalkExists
  <2> QED
    BY <2>1 DEF Walks
<1>2. WalkInv(StartOfWalk(Top), key, Top, 0)
  <2> DEFINE s == StartOfWalk(Top)
  <2>1. s.x = M!HeadNode /\ s.level = Top /\ s.prev = [level \in 1 .. MaxHeight |-> M!HeadNode]
        /\ s = [x |-> s.x, level |-> s.level, prev |-> s.prev]
    BY DEF StartOfWalk
  <2>2. RankOf(M!HeadNode) \in Nat /\ M!HeadNode \in Starts
    BY <1>0, RankType DEF Starts
  <2> HIDE DEF s
  <2>3. s.prev \in [1 .. MaxHeight -> Starts] /\ s.x \in Starts /\ s.level \in 0 .. Top
    BY <2>1, <2>2, <1>0
  <2>4. \A l \in 1 .. MaxHeight :
          IF l > s.level /\ l <= Top THEN Noted(key, s.prev[l], l) ELSE s.prev[l] = M!HeadNode
    BY <2>1, <1>0
  <2>5. Behind(key, s.x) /\ Reached(s.x, s.level)
    BY <2>1 DEF Behind, Reached
  <2>6. 0 + s.level <= RankOf(s.x) + Top
    BY <2>1, <2>2, <1>0
  <2> QED
    <3>1. s.x \in Starts /\ s.level \in 0 .. Top /\ s.prev \in [1 .. MaxHeight -> Starts]
      BY <2>3
    <3>2. s = [x |-> s.x, level |-> s.level, prev |-> s.prev]
      BY <2>1
    <3> QED
      BY ONLY <3>1, <3>2, <2>4, <2>5, <2>6 DEF WalkInv, s
<1>3. ASSUME Bad # {} PROVE FALSE
  <2>1. PICK n \in Bad : \A m \in Bad : n <= m
    <3>1. Bad \subseteq Nat
      BY <1>0
    <3> HIDE DEF Bad
    <3> QED
      BY <1>3, <3>1, LeastNumber
  <2>2. n # 0 /\ n \in 0 .. N
    BY <1>0, <1>1, <1>2, <2>1
  <2>3. n - 1 \in 0 .. N /\ n - 1 \notin Bad /\ n - 1 \in Nat
    BY <2>1, <2>2, <1>0
  <2> HIDE DEF f
  <2>4. WalkInv(f[n - 1], key, Top, n - 1)
    BY <2>3
  <2>5. WalkInv(M!Turn(key, f[n - 1]), key, Top, n - 1 + 1)
    BY <2>3, <2>4, WalkKeeps
  <2> QED
    BY <2>1, <2>2, <2>5, <1>1
<1> HIDE DEF f
<1>4. WalkInv(f[N], key, Top, N)
  BY <1>3, <1>0
<1>5. f[N].level = 0
  <2>1. RankOf(f[N].x) \in 0 .. Len(entries)
    BY <1>4, <1>0, RankType DEF WalkInv
  <2>2. f[N].level \in Nat
    BY <1>4 DEF WalkInv
  <2> QED
    BY <1>4, <1>0, <2>1, <2>2 DEF WalkInv
<1>6. M!FindPrev(key, Top) = f[N].prev
  BY FindPrevWalks DEF f
<1> QED
  BY <1>4, <1>5, <1>6, <1>0 DEF WalkInv

-----------------------------------------------------------------------------
(* Add.                                                                      *)

MemInv == MemType /\ LinkInv /\ PlainFirst /\ Successors /\ AllLinked /\ NonePassed

New == Len(entries) + 1
NewKey(user) == [user |-> user, seq |-> New]
Ahead(key, n) == n = M!Null \/ M!Less(key, M!KeyOf(n))

\* Where the key of a new node is among those of the nodes.
LEMMA KeyAmongNodes ==
  ASSUME EntriesType, NEW key \in Key, key.seq \notin Entered,
         NEW x \in Starts, NEW s \in Entered, NEW n \in Ends
  PROVE  /\ Behind(key, x) /\ Ahead(key, n) => Before(x, n)
         /\ Behind(key, s) \/ Ahead(key, s)
         /\ ~(Behind(key, s) /\ Ahead(key, s))
         /\ Before(x, s) /\ Behind(key, s) => Behind(key, x)
         /\ Ahead(key, s) /\ Before(s, n) => Ahead(key, n)
         /\ Ahead(key, n) <=> ~M!KeyIsAfterNode(key, n)
<1>1. \A m \in Entered : M!KeyOf(m) \in Key /\ M!KeyOf(m) # key
  BY KeyType
<1>2. s # M!Null /\ s # M!HeadNode /\ x # M!Null /\ n # M!HeadNode /\ M!HeadNode # M!Null
  BY Names DEF Starts
<1>3. (x = M!HeadNode \/ x \in Entered) /\ (n = M!Null \/ n \in Entered)
  BY DEF Starts, Ends
<1>4. \A a, c \in Key : M!Less(a, key) /\ M!Less(key, c) => M!Less(a, c)
  BY KeyOrder
<1>5. \A a \in Key : (a = key \/ M!Less(a, key) \/ M!Less(key, a)) /\ ~(M!Less(a, key) /\ M!Less(key, a))
  BY KeyOrder
<1>6. \A a, c \in Key : (M!Less(a, c) /\ M!Less(c, key) => M!Less(a, key))
                        /\ (M!Less(key, a) /\ M!Less(a, c) => M!Less(key, c))
  BY KeyOrder
<1> HIDE DEF Entered, Key
<1>7. Behind(key, x) /\ Ahead(key, n) => Before(x, n)
  BY <1>1, <1>2, <1>3, <1>4 DEF Behind, Ahead, Before
<1>8. (Behind(key, s) \/ Ahead(key, s)) /\ ~(Behind(key, s) /\ Ahead(key, s))
  BY <1>1, <1>2, <1>5 DEF Behind, Ahead
<1>9. Before(x, s) /\ Behind(key, s) => Behind(key, x)
  BY <1>1, <1>2, <1>3, <1>6 DEF Behind, Before
<1>10. Ahead(key, s) /\ Before(s, n) => Ahead(key, n)
  BY <1>1, <1>2, <1>3, <1>6 DEF Ahead, Before
<1>11. Ahead(key, n) <=> ~M!KeyIsAfterNode(key, n)
  BY <1>1, <1>2, <1>3, <1>5 DEF Ahead, M!KeyIsAfterNode
<1> QED
  BY <1>7, <1>8, <1>9, <1>10, <1>11

\* The place of a new node at a level.
Placed(key, x, l) ==
  /\ x \in Starts /\ Behind(key, x) /\ Reached(x, l)
  /\ M!Latest(x, l) \in Ends /\ Ahead(key, M!Latest(x, l))
  /\ M!Latest(x, l) # M!Null => Reached(M!Latest(x, l), l)

\* What Add does to the entries and the stores: v is the new node, prev and next are
\* the nodes around it.
Adding(user, h, v, b, prev, next) ==
  /\ v = New /\ \A l \in 1 .. h : next[l] = M!Latest(prev[l], l)
  /\ user \in UserKeys /\ h \in 1 .. MaxHeight /\ b \in Nat /\ New <= MaxEntries
  /\ entries' = Append(entries, user)
  /\ stores' \in Seq(StoreType) /\ Inserted(stores', b, prev, v, h)
  /\ \A l \in 1 .. h : Placed(NewKey(user), prev[l], l)

\* The new entry and its key.
LEMMA NewEntry ==
  ASSUME EntriesType, NEW user \in UserKeys
  PROVE  /\ NewKey(user) \in Key /\ NewKey(user).seq = New /\ New \in Nat \ {0}
         /\ New \notin Entered /\ New \notin Starts /\ New # M!HeadNode
BY MCMemTableAssumption DEF M!MemTableAssumption, EntriesType, NewKey, New, Key, Entered, Starts, M!HeadNode

\* Add is one new entry, its stores, and nothing else.
LEMMA AddAdds ==
  ASSUME MemType, LinkInv, NEW user \in UserKeys, NEW h \in M!Heights, M!Add(user, h)
  PROVE  \E v, b, prev, next : Adding(user, h, v, b, prev, next)
<1> DEFINE key == NewKey(user)
           prev == M!FindPrev(key, Top)
<1>0. /\ EntriesType /\ stores \in Seq(StoreType) /\ MaxHeight \in Nat /\ h \in 1 .. MaxHeight
      /\ Top \in 1 .. MaxHeight /\ Top \in Nat
  BY MCMemTableAssumption DEF M!MemTableAssumption, M!Heights, MemType, LinkInv, TopRight
<1>1. key \in Key /\ key.seq = New /\ New \notin Entered /\ New \in Nat
  BY <1>0, NewEntry
<1>2. /\ prev \in [1 .. MaxHeight -> Starts]
      /\ \A l \in 1 .. MaxHeight : IF l <= Top THEN Noted(key, prev[l], l) ELSE prev[l] = M!HeadNode
  BY <1>1, PrevFound
<1> HIDE DEF prev, key
<1>3. ASSUME NEW l \in 1 .. MaxHeight PROVE Placed(key, prev[l], l)
  <2>1. Reached(prev[l], l) /\ Behind(key, prev[l]) /\ prev[l] \in Starts
    BY <1>2 DEF Noted, Behind, Reached
  <2>2. /\ M!Latest(prev[l], l) \in Ends
        /\ M!Latest(prev[l], l) # M!Null => Reached(M!Latest(prev[l], l), l)
    BY <2>1, LatestLink
  <2>3. Ahead(key, M!Latest(prev[l], l))
    <3>1. CASE l <= Top
      <4>1. ~M!KeyIsAfterNode(key, M!Latest(prev[l], l))
        BY <3>1, <1>2 DEF Noted
      <4>2. CASE M!Latest(prev[l], l) = M!Null
        BY <4>2 DEF Ahead
      <4>3. CASE M!Latest(prev[l], l) # M!Null
        <5>1. M!Latest(prev[l], l) \in Entered
          BY <2>2, <4>3 DEF Ends
        <5> QED
          BY <1>0, <1>1, <2>1, <2>2, <4>1, <5>1, KeyAmongNodes
      <4> QED
        BY <4>2, <4>3
    <3>2. CASE ~(l <= Top)
      <4>1. prev[l] = M!HeadNode
        BY <3>2, <1>2
      <4>2. M!StoresTo(M!HeadNode, l) = {}
        <5> SUFFICES ASSUME NEW i \in DOMAIN stores, stores[i].slot = l PROVE FALSE
          BY DEF M!StoresTo
        <5>1. stores[i].slot <= Top
          BY DEF LinkInv, TopRight
        <5> QED
          BY <5>1, <3>2
      <4>3. l # 0
        OBVIOUS
      <4> QED
        BY <4>1, <4>2, <4>3 DEF M!Latest, M!Unset, Ahead
    <3> QED
      BY <3>1, <3>2
  <2> QED
    BY <2>1, <2>2, <2>3 DEF Placed
<1>4. \A l \in 1 .. h : l \in 1 .. MaxHeight /\ prev[l] \in Nat /\ M!Latest(prev[l], l) \in Nat
  <2>1. \A l \in 1 .. h : l \in 1 .. MaxHeight
    BY <1>0
  <2>2. \A l \in 1 .. MaxHeight : prev[l] \in Starts /\ M!Latest(prev[l], l) \in Ends
    BY <1>3 DEF Placed
  <2>3. Starts \subseteq Nat /\ Ends \subseteq Nat
    BY <1>0, Names DEF Starts, Ends, Entered
  <2> QED
    BY <2>1, <2>2, <2>3
<1>5. /\ entries' = Append(entries, user) /\ stores' = stores \o M!Insert(user, New, h)
      /\ New <= MaxEntries
  BY DEF M!Add, New
<1>6. prev = M!FindPrev([user |-> user, seq |-> New], Top)
  BY DEF prev, key, NewKey
<1>7. \E b \in Nat : /\ Inserted(stores \o M!Insert(user, New, h), b, prev, New, h)
                     /\ stores \o M!Insert(user, New, h) \in Seq(StoreType)
  BY <1>0, <1>1, <1>4, <1>6, InsertLayout
<1>8. PICK b \in Nat : Inserted(stores', b, prev, New, h) /\ stores' \in Seq(StoreType)
  BY <1>5, <1>7
<1>9. Adding(user, h, New, b, prev, [l \in 1 .. h |-> M!Latest(prev[l], l)])
  BY <1>0, <1>3, <1>4, <1>5, <1>8 DEF Adding, key
<1> QED
  BY <1>9

\* The order, with the new entry in it.
LEMMA OrderAfterAdd ==
  ASSUME EntriesType, NEW user, NEW h, NEW v, NEW b, NEW prev, NEW next,
         Adding(user, h, v, b, prev, next)
  PROVE  /\ EntriesType' /\ Entered' = Entered \union {v} /\ Starts' = Starts \union {v}
         /\ Ends' = Ends \union {v}
         /\ \A x \in Starts \union Ends, y \in Starts \union Ends : Before(x, y)' <=> Before(x, y)
         /\ \A x \in Starts : Before(x, v)' <=> Behind(NewKey(user), x)
         /\ \A n \in Ends : Before(v, n)' <=> Ahead(NewKey(user), n)
         /\ ~Before(v, v)'
<1>1. /\ v = New /\ user \in UserKeys /\ New <= MaxEntries /\ entries' = Append(entries, user)
      /\ entries \in Seq(UserKeys) /\ Len(entries) \in Nat
  BY DEF Adding, EntriesType
<1>2. entries' \in Seq(UserKeys) /\ Len(entries') = v /\ entries'[v] = user
      /\ \A n \in Entered : entries'[n] = entries[n]
  BY <1>1 DEF New, Entered
<1>3. EntriesType'
  BY <1>1, <1>2 DEF EntriesType
<1>4. Entered' = Entered \union {v}
  BY <1>1, <1>2 DEF Entered, New
<1>5. Starts' = Starts \union {v} /\ Ends' = Ends \union {v}
  BY <1>4 DEF Starts, Ends
<1>6. \A n \in Entered : M!KeyOf(n)' = M!KeyOf(n)
  BY <1>2 DEF M!KeyOf
<1>7. M!KeyOf(v)' = NewKey(user)
  BY <1>1, <1>2 DEF M!KeyOf, NewKey
<1>8. /\ v # M!Null /\ v # M!HeadNode /\ M!HeadNode # M!Null
      /\ M!HeadNode \notin Entered /\ M!Null \notin Entered /\ M!HeadNode \notin Ends /\ M!Null \notin Starts
  BY <1>1, Names DEF New, Starts, Ends
<1>9. ASSUME NEW x \in Starts \union Ends, NEW y \in Starts \union Ends
      PROVE  Before(x, y)' <=> Before(x, y)
  <2>1. /\ x \in Entered \/ x = M!HeadNode \/ x = M!Null
        /\ y \in Entered \/ y = M!HeadNode \/ y = M!Null
    BY DEF Starts, Ends
  <2> QED
    BY <1>6, <1>8, <2>1 DEF Before
<1>10. ASSUME NEW x \in Starts PROVE Before(x, v)' <=> Behind(NewKey(user), x)
  <2>1. x \in Entered \/ x = M!HeadNode
    BY DEF Starts
  <2> QED
    BY <1>6, <1>7, <1>8, <2>1 DEF Before, Behind
<1>11. ASSUME NEW n \in Ends PROVE Before(v, n)' <=> Ahead(NewKey(user), n)
  <2>1. n \in Entered \/ n = M!Null
    BY DEF Ends
  <2> QED
    BY <1>6, <1>7, <1>8, <2>1 DEF Before, Ahead
<1>12. ~Before(v, v)'
  <2>1. NewKey(user) \in Key
    BY <1>1, NewEntry
  <2>2. ~M!Less(NewKey(user), NewKey(user))
    BY <2>1, KeyOrder
  <2> QED
    BY <1>7, <1>8, <2>2 DEF Before
<1> QED
  BY <1>3, <1>4, <1>5, <1>9, <1>10, <1>11, <1>12

\* What the new stores are.
LEMMA NewStores ==
  ASSUME MemType, NEW user, NEW h, NEW v, NEW b, NEW prev, NEW next,
         Adding(user, h, v, b, prev, next)
  PROVE  /\ Len(stores) \in Nat /\ b \in Nat /\ h \in 1 .. MaxHeight /\ h \in Nat
         /\ IF h > Top THEN b = Len(stores) + 1 /\ Fields(b, M!HeadNode, 0, h)' ELSE b = Len(stores)
         /\ DOMAIN stores = 1 .. Len(stores) /\ DOMAIN stores' = 1 .. b + 1 + 2 * h
         /\ \A i \in DOMAIN stores : stores'[i] = stores[i]
         /\ Fields(b + 1, v, 0, v)'
         /\ \A l \in 1 .. h :
              /\ Fields(b + 2 * l, v, l, next[l])' /\ ~stores'[b + 2 * l].release
              /\ Fields(b + 2 * l + 1, prev[l], l, v)' /\ stores'[b + 2 * l + 1].release
         /\ \A i \in DOMAIN stores' :
              \/ i \in DOMAIN stores
              \/ h > Top /\ i = b
              \/ i = b + 1
              \/ \E l \in 1 .. h : i = b + 2 * l \/ i = b + 2 * l + 1
<1>1. /\ stores \in Seq(StoreType) /\ stores' \in Seq(StoreType) /\ b \in Nat /\ h \in 1 .. MaxHeight
      /\ Inserted(stores', b, prev, v, h) /\ MaxHeight \in Nat
      /\ \A l \in 1 .. h : next[l] = M!Latest(prev[l], l)
  BY MCMemTableAssumption DEF M!MemTableAssumption, MemType, Adding
<1>2. /\ Len(stores) \in Nat /\ DOMAIN stores = 1 .. Len(stores) /\ h \in Nat
  BY <1>1
<1>3. /\ Len(stores') = b + 1 + 2 * h /\ DOMAIN stores' = 1 .. Len(stores')
      /\ b = IF h > Top THEN Len(stores) + 1 ELSE Len(stores)
      /\ \A i \in DOMAIN stores : stores'[i] = stores[i]
      /\ h > Top => stores'[b] = Plain(M!HeadNode, 0, h)
      /\ stores'[b + 1] = Plain(v, 0, v)
      /\ \A i \in DOMAIN stores' :
           \/ i \in DOMAIN stores
           \/ h > Top /\ i = b
           \/ i = b + 1
           \/ \E l \in 1 .. h : i = b + 2 * l \/ i = b + 2 * l + 1
  BY <1>1 DEF Inserted
<1>4. ASSUME NEW l \in 1 .. h
      PROVE  stores'[b + 2 * l] = Plain(v, l, next[l]) /\ stores'[b + 2 * l + 1] = Released(prev[l], l, v)
  BY <1>1 DEF Inserted
<1>5. ASSUME NEW n, NEW l, NEW x
      PROVE  /\ Plain(n, l, x).node = n /\ Plain(n, l, x).slot = l /\ Plain(n, l, x).value = x
             /\ ~Plain(n, l, x).release
             /\ Released(n, l, x).node = n /\ Released(n, l, x).slot = l /\ Released(n, l, x).value = x
             /\ Released(n, l, x).release
  BY DEF Plain, Released, M!Store
<1>6. h > Top => Fields(b, M!HeadNode, 0, h)'
  BY <1>3, <1>5 DEF Fields
<1>7. Fields(b + 1, v, 0, v)'
  BY <1>3, <1>5 DEF Fields
<1>8. ASSUME NEW l \in 1 .. h
      PROVE  /\ Fields(b + 2 * l, v, l, next[l])' /\ ~stores'[b + 2 * l].release
             /\ Fields(b + 2 * l + 1, prev[l], l, v)' /\ stores'[b + 2 * l + 1].release
  BY <1>4, <1>5 DEF Fields
<1> QED
  BY <1>1, <1>2, <1>3, <1>6, <1>7, <1>8

\* How many stores there are after Add.
LEMMA AddSizes ==
  ASSUME MemType, NEW user, NEW h, NEW v, NEW b, NEW prev, NEW next,
         Adding(user, h, v, b, prev, next)
  PROVE  /\ Len(stores) \in Nat /\ b \in Nat /\ h \in Nat /\ b >= Len(stores)
         /\ MaxHeight \in Nat /\ h \in 1 .. MaxHeight
         /\ DOMAIN stores = 1 .. Len(stores) /\ DOMAIN stores' = 1 .. b + 1 + 2 * h
         /\ stores' \in Seq(StoreType)
<1>1. /\ Len(stores) \in Nat /\ b \in Nat /\ h \in Nat /\ h \in 1 .. MaxHeight
      /\ DOMAIN stores = 1 .. Len(stores) /\ DOMAIN stores' = 1 .. b + 1 + 2 * h
      /\ b = Len(stores) \/ b = Len(stores) + 1
  BY NewStores
<1>2. MaxHeight \in Nat /\ stores' \in Seq(StoreType)
  BY MCMemTableAssumption DEF M!MemTableAssumption, Adding
<1>3. b >= Len(stores)
  <2>1. Len(stores) \in Nat /\ (b = Len(stores) \/ b = Len(stores) + 1)
    BY <1>1
  <2> QED
    BY ONLY <2>1
<1> QED
  BY ONLY <1>1, <1>2, <1>3

\* Which stores Add makes to which links.
LEMMA StoresAfterAdd ==
  ASSUME MemType, NEW user, NEW h, NEW v, NEW b, NEW prev, NEW next,
         Adding(user, h, v, b, prev, next)
  PROVE  /\ \A x, l : M!StoresTo(x, l) \subseteq M!StoresTo(x, l)'
         /\ \A x, l, c : Has(x, l, c) => Has(x, l, c)'
         /\ b + 1 \in M!StoresTo(v, 0)'
         /\ \A l \in 1 .. h : /\ b + 2 * l \in M!StoresTo(v, l)'
                              /\ b + 2 * l + 1 \in M!StoresTo(prev[l], l)'
         /\ \A l \in 1 .. MaxHeight : \A i \in M!StoresTo(v, l)' : l <= h /\ i = b + 2 * l
         /\ \A x \in Starts, l \in 1 .. MaxHeight : \A i \in M!StoresTo(x, l)' :
              i \in M!StoresTo(x, l) \/ (l <= h /\ x = prev[l] /\ i = b + 2 * l + 1)
         /\ \A i \in M!StoresTo(M!HeadNode, 0)' : i \in M!StoresTo(M!HeadNode, 0) \/ (h > Top /\ i = b)
<1>0. /\ Len(stores) \in Nat /\ b \in Nat /\ h \in 1 .. MaxHeight /\ h \in Nat /\ MaxHeight \in Nat
      /\ b >= Len(stores)
      /\ DOMAIN stores = 1 .. Len(stores) /\ DOMAIN stores' = 1 .. b + 1 + 2 * h
      /\ \A i \in DOMAIN stores : stores'[i] = stores[i]
  BY NewStores, MCMemTableAssumption DEF M!MemTableAssumption
<1>1. v \notin Starts /\ v # M!HeadNode /\ EntriesType /\ \A l \in 1 .. h : prev[l] \in Starts
  BY NewEntry DEF Adding, MemType, Placed
<1>2. \A x, l : M!StoresTo(x, l) \subseteq M!StoresTo(x, l)'
  BY <1>0 DEF M!StoresTo
<1>3. \A x, l, c : Has(x, l, c) => Has(x, l, c)'
  <2> SUFFICES ASSUME NEW x, NEW l, NEW c, NEW i \in M!StoresTo(x, l), i <= c PROVE Has(x, l, c)'
    BY DEF Has
  <2>1. i \in M!StoresTo(x, l)'
    BY <1>2
  <2> QED
    BY <2>1 DEF Has
<1>4. Fields(b + 1, v, 0, v)' /\ b + 1 \in DOMAIN stores'
  BY <1>0, NewStores
<1>5. ASSUME NEW l \in 1 .. h
      PROVE  /\ Fields(b + 2 * l, v, l, next[l])' /\ Fields(b + 2 * l + 1, prev[l], l, v)'
             /\ b + 2 * l \in DOMAIN stores' /\ b + 2 * l + 1 \in DOMAIN stores'
  <2>1. Fields(b + 2 * l, v, l, next[l])' /\ Fields(b + 2 * l + 1, prev[l], l, v)'
    BY NewStores
  <2>2. b + 2 * l \in 1 .. b + 1 + 2 * h /\ b + 2 * l + 1 \in 1 .. b + 1 + 2 * h
    BY <1>0
  <2> QED
    BY <2>1, <2>2, <1>0
<1>6. b + 1 \in M!StoresTo(v, 0)'
  BY <1>4 DEF M!StoresTo, Fields
<1>7. ASSUME NEW l \in 1 .. h
      PROVE  b + 2 * l \in M!StoresTo(v, l)' /\ b + 2 * l + 1 \in M!StoresTo(prev[l], l)'
  BY <1>5 DEF M!StoresTo, Fields
<1>8. ASSUME NEW i \in DOMAIN stores'
      PROVE  \/ i \in DOMAIN stores
             \/ h > Top /\ i = b
             \/ i = b + 1
             \/ \E l \in 1 .. h : i = b + 2 * l \/ i = b + 2 * l + 1
  BY NewStores
<1>9. h > Top => Fields(b, M!HeadNode, 0, h)'
  BY NewStores
<1>10. ASSUME NEW i \in DOMAIN stores PROVE stores'[i] = stores[i] /\ stores[i].node \in Starts
  BY <1>0 DEF MemType
<1>11. ASSUME NEW l \in 1 .. MaxHeight, NEW i \in M!StoresTo(v, l)'
       PROVE  l <= h /\ i = b + 2 * l
  <2>1. i \in DOMAIN stores' /\ stores'[i].node = v /\ stores'[i].slot = l /\ l # 0
    BY DEF M!StoresTo
  <2>2. i \notin DOMAIN stores
    BY <2>1, <1>1, <1>10
  <2>3. ~(h > Top /\ i = b) /\ i # b + 1
    BY <2>1, <1>1, <1>4, <1>9 DEF Fields
  <2>4. PICK m \in 1 .. h : i = b + 2 * m \/ i = b + 2 * m + 1
    BY <2>1, <2>2, <2>3, <1>8
  <2>5. i = b + 2 * m
    BY <2>1, <2>4, <1>1, <1>5 DEF Fields
  <2>6. m = l
    BY <2>1, <2>5, <1>5 DEF Fields
  <2> QED
    BY <2>4, <2>5, <2>6
<1>12. ASSUME NEW x \in Starts, NEW l \in 1 .. MaxHeight, NEW i \in M!StoresTo(x, l)'
       PROVE  i \in M!StoresTo(x, l) \/ (l <= h /\ x = prev[l] /\ i = b + 2 * l + 1)
  <2>1. i \in DOMAIN stores' /\ stores'[i].node = x /\ stores'[i].slot = l /\ l # 0 /\ x # v
    BY <1>1 DEF M!StoresTo
  <2>2. CASE i \in DOMAIN stores
    BY <2>1, <2>2, <1>10 DEF M!StoresTo
  <2>3. CASE i \notin DOMAIN stores
    <3>1. ~(h > Top /\ i = b) /\ i # b + 1
      BY <2>1, <1>1, <1>4, <1>9 DEF Fields
    <3>2. PICK m \in 1 .. h : i = b + 2 * m \/ i = b + 2 * m + 1
      BY <2>1, <2>3, <3>1, <1>8
    <3>3. i = b + 2 * m + 1
      BY <2>1, <3>2, <1>5 DEF Fields
    <3>4. m = l /\ prev[m] = x
      BY <2>1, <3>3, <1>5 DEF Fields
    <3> QED
      BY <3>2, <3>3, <3>4
  <2> QED
    BY <2>2, <2>3
<1>13. ASSUME NEW i \in M!StoresTo(M!HeadNode, 0)'
       PROVE  i \in M!StoresTo(M!HeadNode, 0) \/ (h > Top /\ i = b)
  <2>1. i \in DOMAIN stores' /\ stores'[i].node = M!HeadNode /\ stores'[i].slot = 0
    BY DEF M!StoresTo
  <2>2. i # b + 1 /\ ~\E l \in 1 .. h : i = b + 2 * l \/ i = b + 2 * l + 1
    BY <2>1, <1>1, <1>4, <1>5 DEF Fields
  <2> QED
    BY <2>1, <2>2, <1>8, <1>10 DEF M!StoresTo
<1> QED
  BY <1>2, <1>3, <1>6, <1>7, <1>11, <1>12, <1>13

\* A node that was there is there for whoever sees what was stored before.
LEMMA ReachedAfterAdd ==
  ASSUME MemType, NEW user, NEW h, NEW v, NEW b, NEW prev, NEW next,
         Adding(user, h, v, b, prev, next),
         NEW x, NEW l \in Nat, Reached(x, l), x # M!HeadNode, NEW c \in Nat, c >= Len(stores)
  PROVE  \A m \in 0 .. l : Has(x, m, c)'
<1> SUFFICES ASSUME NEW m \in 0 .. l PROVE Has(x, m, c)'
  OBVIOUS
<1>1. PICK i \in M!StoresTo(x, m) : i <= Len(stores)
  BY DEF Reached, Has
<1>2. i \in Nat /\ Len(stores) \in Nat
  BY <1>1 DEF M!StoresTo, MemType
<1>3. Has(x, m, c)
  BY <1>1, <1>2 DEF Has
<1> QED
  BY <1>3, StoresAfterAdd

\* A store after Add is one of before, one to slot 0, or one of those of a level.
LEMMA StoreAfterAdd ==
  ASSUME MemType, NEW user, NEW h, NEW v, NEW b, NEW prev, NEW next,
         Adding(user, h, v, b, prev, next),
         NEW i \in DOMAIN stores', NEW x, NEW l, NEW n, Fields(i, x, l, n)'
  PROVE  \/ /\ i \in DOMAIN stores /\ Fields(i, x, l, n) /\ stores'[i].release = stores[i].release
            /\ i <= Len(stores)
         \/ l = 0 /\ i = b /\ x = M!HeadNode /\ n = h /\ h > Top
         \/ l = 0 /\ i = b + 1 /\ x = v /\ n = v
         \/ l \in 1 .. h /\ i = b + 2 * l /\ x = v /\ n = next[l] /\ ~stores'[i].release
         \/ l \in 1 .. h /\ i = b + 2 * l + 1 /\ x = prev[l] /\ n = v /\ stores'[i].release
<1>1. \/ i \in DOMAIN stores
      \/ h > Top /\ i = b
      \/ i = b + 1
      \/ \E m \in 1 .. h : i = b + 2 * m \/ i = b + 2 * m + 1
  BY NewStores
<1>2. CASE i \in DOMAIN stores
  <2>1. stores'[i] = stores[i] /\ DOMAIN stores = 1 .. Len(stores) /\ Len(stores) \in Nat
    BY <1>2, NewStores
  <2> QED
    BY <2>1, <1>2 DEF Fields
<1>3. CASE h > Top /\ i = b
  <2>1. Fields(b, M!HeadNode, 0, h)'
    BY <1>3, NewStores
  <2> QED
    BY <2>1, <1>3 DEF Fields
<1>4. CASE i = b + 1
  <2>1. Fields(b + 1, v, 0, v)'
    BY NewStores
  <2> QED
    BY <2>1, <1>4 DEF Fields
<1>5. ASSUME NEW m \in 1 .. h, i = b + 2 * m
      PROVE  l \in 1 .. h /\ i = b + 2 * l /\ x = v /\ n = next[l] /\ ~stores'[i].release
  <2>1. Fields(b + 2 * m, v, m, next[m])' /\ ~stores'[b + 2 * m].release
    BY NewStores
  <2>2. l = m
    BY <2>1, <1>5 DEF Fields
  <2> QED
    BY <2>1, <2>2, <1>5 DEF Fields
<1>6. ASSUME NEW m \in 1 .. h, i = b + 2 * m + 1
      PROVE  l \in 1 .. h /\ i = b + 2 * l + 1 /\ x = prev[l] /\ n = v /\ stores'[i].release
  <2>1. Fields(b + 2 * m + 1, prev[m], m, v)' /\ stores'[b + 2 * m + 1].release
    BY NewStores
  <2>2. l = m
    BY <2>1, <1>6 DEF Fields
  <2> QED
    BY <2>1, <2>2, <1>6 DEF Fields
<1> QED
  BY <1>1, <1>2, <1>3, <1>4, <1>5, <1>6

\* Add keeps the types.
LEMMA AddKeepsType ==
  ASSUME MemType, NEW user, NEW h, NEW v, NEW b, NEW prev, NEW next,
         Adding(user, h, v, b, prev, next)
  PROVE  MemType'
<1>1. EntriesType /\ EntriesType' /\ Starts' = Starts \union {v} /\ Ends' = Ends \union {v}
  BY OrderAfterAdd DEF MemType
<1>2. stores' \in Seq(StoreType)
  BY DEF Adding
<1>3. \A l \in 1 .. h : prev[l] \in Starts /\ next[l] \in Ends
  BY DEF Adding, Placed
<1>4. M!HeadNode \in Starts
  BY DEF Starts
<1>5. ASSUME NEW i \in DOMAIN stores', NEW x, NEW l, NEW n, Fields(i, x, l, n)'
      PROVE  x \in Starts' /\ (l # 0 => n \in Ends')
  <2>1. CASE i \in DOMAIN stores /\ Fields(i, x, l, n)
    BY <2>1, <1>1 DEF MemType, Fields
  <2> QED
    BY <2>1, <1>1, <1>3, <1>4, <1>5, StoreAfterAdd
<1>6. \A i \in DOMAIN stores' : /\ stores'[i].node \in Starts'
                                /\ stores'[i].slot # 0 => stores'[i].value \in Ends'
  BY <1>5 DEF Fields
<1> QED
  BY <1>1, <1>2, <1>6 DEF MemType

\* A new node is whole before any link leads to it.
LEMMA AddKeepsWhole ==
  ASSUME MemType, WholeFirst, NEW user, NEW h, NEW v, NEW b, NEW prev, NEW next,
         Adding(user, h, v, b, prev, next)
  PROVE  WholeFirst'
<1>0. /\ Len(stores) \in Nat /\ b \in Nat /\ h \in Nat /\ b >= Len(stores)
      /\ DOMAIN stores = 1 .. Len(stores) /\ stores' \in Seq(StoreType)
  BY AddSizes
<1>1. ASSUME NEW i \in DOMAIN stores', NEW x, NEW l, NEW n, Fields(i, x, l, n)', l # 0, n # M!Null,
             NEW m \in 0 .. l
      PROVE  Has(n, m, i - 1)'
  <2>0. i \in Nat
    BY <1>0
  <2>1. CASE i \in DOMAIN stores /\ Fields(i, x, l, n)
    <3>1. Has(n, m, i - 1)
      BY <2>1, <1>1 DEF WholeFirst
    <3> QED
      BY <3>1, StoresAfterAdd
  <2>2. CASE l \in 1 .. h /\ i = b + 2 * l /\ n = next[l]
    <3>1. Reached(n, l) /\ n # M!HeadNode
      <4>1. n \in Ends /\ Reached(n, l)
        BY <1>1, <2>2 DEF Adding, Placed
      <4> QED
        BY <4>1, Names DEF MemType
    <3>2. l \in Nat /\ i - 1 \in Nat /\ i - 1 >= Len(stores)
      BY <1>0, <2>2
    <3> QED
      BY <3>1, <3>2, ReachedAfterAdd
  <2>3. CASE l \in 1 .. h /\ i = b + 2 * l + 1 /\ n = v
    <3>1. b + 1 \in M!StoresTo(v, 0)' /\ \A k \in 1 .. h : b + 2 * k \in M!StoresTo(v, k)'
      BY StoresAfterAdd
    <3>2. CASE m = 0
      <4>1. b + 1 <= i - 1
        BY <2>3, <1>0
      <4> QED
        BY <2>3, <3>1, <3>2, <4>1 DEF Has
    <3>3. CASE m # 0
      <4>1. m \in 1 .. h /\ b + 2 * m <= i - 1
        BY <2>3, <3>3, <1>0
      <4> QED
        BY <2>3, <3>1, <4>1 DEF Has
    <3> QED
      BY <3>2, <3>3
  <2> QED
    BY <2>1, <2>2, <2>3, <1>1, StoreAfterAdd
<1>2. \A i \in DOMAIN stores' : \A x, l, n : Fields(i, x, l, n)' /\ l # 0 /\ n # M!Null =>
        \A m \in 0 .. l : Has(n, m, i - 1)'
  BY <1>1
<1> QED
  BY <1>2 DEF WholeFirst

\* What any store of a link leads to is behind the node of the link.
LEMMA AddKeepsSorted ==
  ASSUME MemType, Sorted, NEW user, NEW h, NEW v, NEW b, NEW prev, NEW next,
         Adding(user, h, v, b, prev, next)
  PROVE  Sorted'
<1>0. /\ EntriesType
      /\ \A x \in Starts \union Ends, y \in Starts \union Ends : Before(x, y)' <=> Before(x, y)
      /\ \A x \in Starts : Before(x, v)' <=> Behind(NewKey(user), x)
      /\ \A n \in Ends : Before(v, n)' <=> Ahead(NewKey(user), n)
  BY OrderAfterAdd DEF MemType
<1>1. ASSUME NEW i \in DOMAIN stores', NEW x, NEW l, NEW n, Fields(i, x, l, n)', l # 0
      PROVE  Before(x, n)'
  <2>1. CASE i \in DOMAIN stores /\ Fields(i, x, l, n)
    <3>1. x \in Starts /\ n \in Ends /\ Before(x, n)
      BY <2>1, <1>1 DEF MemType, Sorted, Fields
    <3> QED
      BY <3>1, <1>0
  <2>2. CASE l \in 1 .. h /\ x = v /\ n = next[l]
    <3>1. n \in Ends /\ Ahead(NewKey(user), n)
      BY <2>2 DEF Adding, Placed
    <3> QED
      BY <3>1, <2>2, <1>0
  <2>3. CASE l \in 1 .. h /\ x = prev[l] /\ n = v
    <3>1. x \in Starts /\ Behind(NewKey(user), x)
      BY <2>3 DEF Adding, Placed
    <3> QED
      BY <3>1, <2>3, <1>0
  <2> QED
    BY <2>1, <2>2, <2>3, <1>1, StoreAfterAdd
<1>2. \A i \in DOMAIN stores' : \A x, l, n : Fields(i, x, l, n)' /\ l # 0 => Before(x, n)'
  BY <1>1
<1> QED
  BY <1>2 DEF Sorted

\* Only the first store of a link is a plain one.
LEMMA AddKeepsPlain ==
  ASSUME MemType, PlainFirst, NEW user, NEW h, NEW v, NEW b, NEW prev, NEW next,
         Adding(user, h, v, b, prev, next)
  PROVE  PlainFirst'
<1>0. /\ Len(stores) \in Nat /\ b \in Nat /\ h \in Nat /\ b >= Len(stores)
      /\ DOMAIN stores = 1 .. Len(stores) /\ stores' \in Seq(StoreType)
      /\ MaxHeight \in Nat /\ h \in 1 .. MaxHeight
  BY AddSizes
<1>1. ASSUME NEW i \in DOMAIN stores', NEW x, NEW l, NEW n, Fields(i, x, l, n)', l # 0,
             ~stores'[i].release
      PROVE  x # M!HeadNode /\ \A j \in M!StoresTo(x, l)' : i <= j
  <2>0. i \in Nat
    BY <1>0
  <2>1. CASE i \in DOMAIN stores /\ Fields(i, x, l, n) /\ stores'[i].release = stores[i].release
    <3>1. x \in Starts /\ l \in 1 .. MaxHeight
      <4>1. stores[i] \in StoreType
        BY <2>1, <1>0 DEF MemType
      <4> QED
        BY <2>1, <1>1, <4>1 DEF MemType, StoreType, Fields
    <3>2. x # M!HeadNode /\ \A j \in M!StoresTo(x, l) : i <= j
      BY <2>1, <1>1 DEF PlainFirst
    <3>3. ASSUME NEW j \in M!StoresTo(x, l)' PROVE i <= j
      <4>1. j \in M!StoresTo(x, l) \/ (l <= h /\ j = b + 2 * l + 1)
        BY <3>1, StoresAfterAdd
      <4>2. l <= h /\ j = b + 2 * l + 1 => i <= j
        BY <3>1, <1>0, <2>1
      <4> QED
        BY <4>1, <4>2, <3>2
    <3> QED
      BY <3>2, <3>3
  <2>2. CASE l \in 1 .. h /\ i = b + 2 * l /\ x = v
    <3>1. v # M!HeadNode
      BY NewEntry DEF Adding, MemType
    <3>2. l \in 1 .. MaxHeight
      BY <2>2, <1>0
    <3>3. \A j \in M!StoresTo(v, l)' : j = b + 2 * l
      BY <3>2, StoresAfterAdd
    <3> QED
      BY <2>2, <3>1, <3>3, <2>0
  <2> QED
    BY <2>1, <2>2, <1>1, StoreAfterAdd
<1>2. \A i \in DOMAIN stores' : \A x, l, n : Fields(i, x, l, n)' /\ l # 0 /\ ~stores'[i].release =>
        x # M!HeadNode /\ \A j \in M!StoresTo(x, l)' : i <= j
  BY <1>1
<1> QED
  BY <1>2 DEF PlainFirst

\* The list's height after Add.
LEMMA TopAfterAdd ==
  ASSUME MemType, NEW user, NEW h, NEW v, NEW b, NEW prev, NEW next,
         Adding(user, h, v, b, prev, next)
  PROVE  Top' = IF h > Top THEN h ELSE Top
<1>1. CASE h > Top
  <2>1. b \in M!StoresTo(M!HeadNode, 0)' /\ stores'[b].value = h
    <3>1. b = Len(stores) + 1 /\ Fields(b, M!HeadNode, 0, h)'
      BY <1>1, NewStores
    <3>2. b \in DOMAIN stores'
      BY <3>1, AddSizes
    <3> QED
      BY <3>1, <3>2 DEF Fields, M!StoresTo
  <2>2. \A j \in M!StoresTo(M!HeadNode, 0)' : j <= b
    <3>1. \A j \in M!StoresTo(M!HeadNode, 0)' : j \in M!StoresTo(M!HeadNode, 0) \/ j = b
      BY StoresAfterAdd
    <3>2. \A j \in M!StoresTo(M!HeadNode, 0) : j \in Nat /\ j <= Len(stores)
      BY AddSizes DEF M!StoresTo
    <3>3. b \in Nat /\ b >= Len(stores) /\ Len(stores) \in Nat
      BY AddSizes
    <3> QED
      BY <3>1, <3>2, <3>3
  <2>3. M!StoresTo(M!HeadNode, 0)' \subseteq 0 .. b + 1 + 2 * h /\ b + 1 + 2 * h \in Nat
    BY AddSizes DEF M!StoresTo
  <2>4. LET m == M!Max(M!StoresTo(M!HeadNode, 0)')
        IN  m \in M!StoresTo(M!HeadNode, 0)' /\ \A j \in M!StoresTo(M!HeadNode, 0)' : j <= m
    BY <2>1, <2>3, MaxNumber
  <2>5. M!Max(M!StoresTo(M!HeadNode, 0)') = b
    BY <2>1, <2>2, <2>3, <2>4
  <2> QED
    BY <1>1, <2>1, <2>5 DEF Top, M!Latest
<1>2. CASE ~(h > Top)
  <2>1. M!StoresTo(M!HeadNode, 0)' = M!StoresTo(M!HeadNode, 0)
    <3>1. \A j \in M!StoresTo(M!HeadNode, 0)' : j \in M!StoresTo(M!HeadNode, 0)
      BY <1>2, StoresAfterAdd
    <3>2. M!StoresTo(M!HeadNode, 0) \subseteq M!StoresTo(M!HeadNode, 0)'
      BY StoresAfterAdd
    <3> QED
      BY <3>1, <3>2
  <2>2. \A i \in M!StoresTo(M!HeadNode, 0) : stores'[i] = stores[i]
    BY NewStores DEF M!StoresTo
  <2>3. M!StoresTo(M!HeadNode, 0) # {} =>
          M!Max(M!StoresTo(M!HeadNode, 0)) \in M!StoresTo(M!HeadNode, 0)
    <3>1. M!StoresTo(M!HeadNode, 0) \subseteq 0 .. Len(stores) /\ Len(stores) \in Nat
      BY AddSizes DEF M!StoresTo
    <3> QED
      BY <3>1, MaxNumber
  <2> QED
    BY <1>2, <2>1, <2>2, <2>3 DEF Top, M!Latest
<1> QED
  BY <1>1, <1>2

\* The height of the list covers every store, and was stored to the head.
LEMMA AddKeepsTop ==
  ASSUME MemType, TopRight, NEW user, NEW h, NEW v, NEW b, NEW prev, NEW next,
         Adding(user, h, v, b, prev, next)
  PROVE  TopRight'
<1>0. Top \in 1 .. MaxHeight /\ \A i \in DOMAIN stores : stores[i].slot <= Top
  BY DEF TopRight
<1>s. /\ MaxHeight \in Nat /\ h \in 1 .. MaxHeight /\ h \in Nat /\ Top \in Nat
      /\ stores' \in Seq(StoreType)
  BY <1>0, AddSizes
<1>1. Top' \in 1 .. MaxHeight /\ Top' >= h /\ Top' >= Top
  <2>1. Top' = IF h > Top THEN h ELSE Top
    BY TopAfterAdd
  <2> QED
    BY <1>0, <1>s, <2>1
<1>2. ASSUME NEW i \in DOMAIN stores', NEW x, NEW l \in Nat, NEW n, Fields(i, x, l, n)'
      PROVE  l <= Top'
  <2>1. CASE i \in DOMAIN stores /\ Fields(i, x, l, n)
    <3>1. l <= Top
      BY <1>0, <2>1 DEF Fields
    <3> QED
      BY <3>1, <1>s, <1>1
  <2>2. CASE l = 0 \/ l \in 1 .. h
    BY <2>2, <1>s, <1>1
  <2> QED
    BY <2>1, <2>2, <1>2, StoreAfterAdd
<1>3. \A i \in DOMAIN stores' : stores'[i].slot <= Top'
  <2>1. \A i \in DOMAIN stores' : stores'[i].slot \in Nat
    <3>1. \A i \in DOMAIN stores' : stores'[i] \in StoreType
      BY <1>s
    <3> QED
      BY <3>1, <1>s DEF StoreType
  <2>2. ASSUME NEW i \in DOMAIN stores', NEW l, l = stores'[i].slot PROVE l <= Top'
    <3>1. l \in Nat
      BY <2>1, <2>2
    <3>2. \E x, n : Fields(i, x, l, n)'
      BY <2>2 DEF Fields
    <3> QED
      BY <3>1, <3>2, <1>2
  <2> QED
    BY <2>2
<1>4. ASSUME NEW i \in DOMAIN stores', NEW n, Fields(i, M!HeadNode, 0, n)'
      PROVE  n \in 1 .. MaxHeight
  <2>1. v # M!HeadNode
    BY NewEntry DEF Adding, MemType
  <2>2. i \in DOMAIN stores /\ Fields(i, M!HeadNode, 0, n) => n \in 1 .. MaxHeight
    BY DEF TopRight
  <2> QED
    BY <1>4, <1>s, <2>1, <2>2, StoreAfterAdd
<1> QED
  BY <1>1, <1>3, <1>4 DEF TopRight

\* Where the links lead after Add.
LEMMA LatestIs ==
  ASSUME NEW n \in Nat, DOMAIN stores' = 1 .. n, NEW x, NEW l, NEW i \in M!StoresTo(x, l)',
         \A j \in M!StoresTo(x, l)' : j <= i
  PROVE  M!Latest(x, l)' = stores'[i].value
<1>1. M!StoresTo(x, l)' \subseteq 0 .. n
  BY DEF M!StoresTo
<1>2. /\ M!Max(M!StoresTo(x, l)') \in M!StoresTo(x, l)'
      /\ \A j \in M!StoresTo(x, l)' : j <= M!Max(M!StoresTo(x, l)')
  BY <1>1, MaxNumber
<1>3. M!Max(M!StoresTo(x, l)') = i
  BY <1>1, <1>2
<1> QED
  BY <1>3 DEF M!Latest

\* The links after Add.
LEMMA LatestAfterAdd ==
  ASSUME MemType, NEW user, NEW h, NEW v, NEW b, NEW prev, NEW next,
         Adding(user, h, v, b, prev, next)
  PROVE  /\ \A l \in 1 .. h : M!Latest(v, l)' = next[l] /\ M!Latest(prev[l], l)' = v
         /\ \A x \in Starts, l \in 1 .. MaxHeight :
              ~(l <= h /\ x = prev[l]) => M!Latest(x, l)' = M!Latest(x, l)
<1> DEFINE N == b + 1 + 2 * h
<1>0. /\ Len(stores) \in Nat /\ b \in Nat /\ h \in Nat /\ b >= Len(stores)
      /\ MaxHeight \in Nat /\ h \in 1 .. MaxHeight
      /\ DOMAIN stores = 1 .. Len(stores) /\ DOMAIN stores' = 1 .. N /\ N \in Nat
  BY AddSizes
<1>1. ASSUME NEW l \in 1 .. h PROVE M!Latest(v, l)' = next[l] /\ M!Latest(prev[l], l)' = v
  <2>0. l \in 1 .. MaxHeight /\ l <= h /\ l \in Nat /\ prev[l] \in Starts
    BY <1>0 DEF Adding, Placed
  <2>1. b + 2 * l \in M!StoresTo(v, l)' /\ b + 2 * l + 1 \in M!StoresTo(prev[l], l)'
    BY StoresAfterAdd
  <2>2. \A i \in M!StoresTo(v, l)' : i <= b + 2 * l
    <3>1. \A i \in M!StoresTo(v, l)' : i = b + 2 * l
      BY <2>0, StoresAfterAdd
    <3>2. b + 2 * l <= b + 2 * l
      BY <1>0, <2>0
    <3> QED
      BY <3>1, <3>2
  <2>3. \A i \in M!StoresTo(prev[l], l)' : i <= b + 2 * l + 1
    <3>1. \A i \in M!StoresTo(prev[l], l)' : i \in M!StoresTo(prev[l], l) \/ i = b + 2 * l + 1
      BY <2>0, StoresAfterAdd
    <3>2. \A i \in M!StoresTo(prev[l], l) : i <= b + 2 * l + 1
      BY <1>0, <2>0 DEF M!StoresTo
    <3>3. b + 2 * l + 1 <= b + 2 * l + 1
      BY <1>0, <2>0
    <3> QED
      BY <3>1, <3>2, <3>3
  <2>4. Fields(b + 2 * l, v, l, next[l])' /\ Fields(b + 2 * l + 1, prev[l], l, v)'
    BY NewStores
  <2> HIDE DEF N
  <2>5. M!Latest(v, l)' = stores'[b + 2 * l].value
    BY <1>0, <2>1, <2>2, LatestIs
  <2>6. M!Latest(prev[l], l)' = stores'[b + 2 * l + 1].value
    BY <1>0, <2>1, <2>3, LatestIs
  <2> QED
    BY <2>4, <2>5, <2>6 DEF Fields
<1>2. ASSUME NEW x \in Starts, NEW l \in 1 .. MaxHeight, ~(l <= h /\ x = prev[l])
      PROVE  M!Latest(x, l)' = M!Latest(x, l)
  <2>1. M!StoresTo(x, l)' = M!StoresTo(x, l)
    <3>1. \A i \in M!StoresTo(x, l)' : i \in M!StoresTo(x, l)
      BY <1>2, StoresAfterAdd
    <3>2. M!StoresTo(x, l) \subseteq M!StoresTo(x, l)'
      BY StoresAfterAdd
    <3> QED
      BY <3>1, <3>2
  <2>2. \A i \in M!StoresTo(x, l) : stores'[i] = stores[i]
    BY NewStores DEF M!StoresTo
  <2>3. M!StoresTo(x, l) # {} => M!Max(M!StoresTo(x, l)) \in M!StoresTo(x, l)
    <3>1. M!StoresTo(x, l) \subseteq 0 .. Len(stores)
      BY <1>0 DEF M!StoresTo
    <3> QED
      BY <3>1, <1>0, MaxNumber
  <2> QED
    BY <2>1, <2>2, <2>3 DEF M!Latest
<1> QED
  BY <1>1, <1>2

\* The place of the new node in the list of the lowest level is the only one it could have.
LEMMA OnePlace ==
  ASSUME EntriesType, Successors, NEW key \in Key, key.seq \notin Entered,
         NEW p \in Starts, Behind(key, p), Ahead(key, M!Latest(p, 1)),
         NEW x \in Starts, Behind(key, x), Ahead(key, M!Latest(x, 1))
  PROVE  x = p
<1>1. /\ M!Latest(x, 1) \in Ends /\ M!Latest(p, 1) \in Ends
      /\ \A s \in Entered : ~(Before(x, s) /\ Before(s, M!Latest(x, 1)))
      /\ \A s \in Entered : ~(Before(p, s) /\ Before(s, M!Latest(p, 1)))
  BY DEF Successors
<1>2. x = p \/ Before(x, p) \/ Before(p, x)
  BY BeforeOrder
<1>3. ASSUME Before(x, p) PROVE FALSE
  <2>1. p \in Entered
    BY <1>3 DEF Before, Starts
  <2>2. Before(p, M!Latest(x, 1))
    BY <1>1, <2>1, KeyAmongNodes
  <2> QED
    BY <1>1, <1>3, <2>1, <2>2
<1>4. ASSUME Before(p, x) PROVE FALSE
  <2>1. x \in Entered
    BY <1>4 DEF Before, Starts
  <2>2. Before(x, M!Latest(p, 1))
    BY <1>1, <2>1, KeyAmongNodes
  <2> QED
    BY <1>1, <1>4, <2>1, <2>2
<1> QED
  BY <1>2, <1>3, <1>4

\* On the lowest level no entry is between a node and the next one.
LEMMA AddKeepsSuccessors ==
  ASSUME MemType, Successors, NEW user, NEW h, NEW v, NEW b, NEW prev, NEW next,
         Adding(user, h, v, b, prev, next)
  PROVE  Successors'
<1> DEFINE key == NewKey(user)
           p == prev[1]
           nx == next[1]
<1>0. /\ EntriesType /\ Starts' = Starts \union {v} /\ Ends' = Ends \union {v}
      /\ Entered' = Entered \union {v}
      /\ \A x \in Starts \union Ends, y \in Starts \union Ends : Before(x, y)' <=> Before(x, y)
      /\ \A x \in Starts : Before(x, v)' <=> Behind(key, x)
      /\ \A n \in Ends : Before(v, n)' <=> Ahead(key, n)
      /\ ~Before(v, v)'
  BY OrderAfterAdd DEF MemType
<1>1. key \in Key /\ key.seq \notin Entered
  BY NewEntry DEF Adding, MemType
<1>2. 1 \in 1 .. h /\ 1 \in 1 .. MaxHeight /\ 1 <= h
  BY AddSizes
<1>3. /\ p \in Starts /\ Behind(key, p) /\ nx = M!Latest(p, 1)
      /\ nx \in Ends /\ Ahead(key, nx)
  BY <1>2 DEF Adding, Placed
<1>4. /\ M!Latest(v, 1)' = nx /\ M!Latest(p, 1)' = v
      /\ \A x \in Starts : x # p => M!Latest(x, 1)' = M!Latest(x, 1)
  BY <1>2, LatestAfterAdd
<1>5. Entered \subseteq Starts /\ Entered \subseteq Ends
  BY DEF Starts, Ends
<1>6. \A x \in Starts : /\ M!Latest(x, 1) \in Ends /\ Before(x, M!Latest(x, 1))
                        /\ \A s \in Entered : ~(Before(x, s) /\ Before(s, M!Latest(x, 1)))
  BY DEF Successors
<1> HIDE DEF key, p, nx, Starts, Ends, Entered
<1>7. ASSUME NEW x \in Starts', NEW n, n = M!Latest(x, 1)'
      PROVE  /\ n \in Ends' /\ Before(x, n)'
             /\ \A s \in Entered' : ~(Before(x, s)' /\ Before(s, n)')
  <2>1. CASE x = v
    <3>1. n = nx /\ n \in Ends /\ Before(v, n)'
      BY <2>1, <1>0, <1>3, <1>4, <1>7
    <3>2. ASSUME NEW s \in Entered, Before(v, s)', Before(s, n)' PROVE FALSE
      <4>1. Ahead(key, s) /\ Before(s, nx)
        BY <3>1, <3>2, <1>0, <1>3, <1>5
      <4>2. ~Before(p, s)
        BY <1>3, <1>6, <4>1
      <4>3. s = p \/ Before(s, p)
        BY <1>0, <1>3, <1>5, <4>2, BeforeOrder
      <4>4. CASE s = p
        BY <4>1, <4>4, <1>0, <1>1, <1>3, KeyAmongNodes
      <4>5. CASE Before(s, p)
        <5>1. p \in Entered
          BY <4>5, <1>3 DEF Before, Starts
        <5>2. Behind(key, s)
          BY <5>1, <4>5, <1>0, <1>1, <1>3, <1>5, KeyAmongNodes
        <5> QED
          BY <5>2, <4>1, <1>0, <1>1, <1>3, KeyAmongNodes
      <4> QED
        BY <4>3, <4>4, <4>5
    <3> QED
      BY <2>1, <3>1, <3>2, <1>0
  <2>2. CASE x = p
    <3>1. n = v /\ Before(x, n)' /\ n \in Ends'
      BY <2>2, <1>0, <1>3, <1>4, <1>7
    <3>2. ASSUME NEW s \in Entered, Before(x, s)', Before(s, n)' PROVE FALSE
      <4>1. Before(p, s) /\ Behind(key, s)
        BY <2>2, <3>1, <3>2, <1>0, <1>3, <1>5
      <4>2. Before(s, nx)
        BY <4>1, <1>0, <1>1, <1>3, <1>5, KeyAmongNodes
      <4> QED
        BY <4>1, <4>2, <1>3, <1>6
    <3> QED
      BY <3>1, <3>2, <1>0
  <2>3. CASE x \in Starts /\ x # p
    <3>1. n = M!Latest(x, 1) /\ n \in Ends /\ Before(x, n)
      BY <2>3, <1>4, <1>6, <1>7
    <3>2. ASSUME Before(x, v)', Before(v, n)' PROVE FALSE
      <4>1. Behind(key, x) /\ Ahead(key, n)
        BY <2>3, <3>1, <3>2, <1>0
      <4> QED
        BY <2>3, <3>1, <4>1, <1>0, <1>1, <1>3, OnePlace
    <3>3. ASSUME NEW s \in Entered, Before(x, s)', Before(s, n)' PROVE FALSE
      <4>1. Before(x, s) /\ Before(s, n)
        BY <2>3, <3>1, <3>3, <1>0, <1>5
      <4> QED
        BY <2>3, <3>1, <4>1, <1>6
    <3> QED
      BY <2>3, <3>1, <3>2, <3>3, <1>0
  <2> QED
    BY <2>1, <2>2, <2>3, <1>0
<1> QED
  BY <1>7 DEF Successors

\* Each entry is linked on the lowest level by a released store.
LEMMA AddKeepsLinked ==
  ASSUME MemType, AllLinked, NEW user, NEW h, NEW v, NEW b, NEW prev, NEW next,
         Adding(user, h, v, b, prev, next)
  PROVE  AllLinked'
<1>1. Entered' = Entered \union {v}
  BY OrderAfterAdd DEF MemType
<1>2. ASSUME NEW s \in Entered PROVE \E j \in DOMAIN stores' : LinkOf(j, s)'
  <2>1. PICK j \in DOMAIN stores : LinkOf(j, s)
    BY DEF AllLinked
  <2>2. j \in DOMAIN stores' /\ stores'[j] = stores[j]
    <3>1. \A i \in DOMAIN stores : stores'[i] = stores[i]
      BY NewStores
    <3>2. DOMAIN stores \subseteq DOMAIN stores'
      BY AddSizes
    <3> QED
      BY <3>1, <3>2
  <2> QED
    BY <2>1, <2>2 DEF LinkOf
<1>3. LinkOf(b + 3, v)' /\ b + 3 \in DOMAIN stores'
  <2>1. 1 \in 1 .. h /\ b + 2 * 1 + 1 = b + 3 /\ b + 3 \in DOMAIN stores'
    BY AddSizes
  <2>2. Fields(b + 2 * 1 + 1, prev[1], 1, v)' /\ stores'[b + 2 * 1 + 1].release
    BY <2>1, NewStores
  <2> QED
    BY <2>1, <2>2 DEF LinkOf, Fields
<1> QED
  BY <1>1, <1>2, <1>3 DEF AllLinked

\* A link that leads past an entry was replaced by a newer one when the entry was linked.
LEMMA AddKeepsPassed ==
  ASSUME MemType, Successors, NonePassed,
         NEW user, NEW h, NEW v, NEW b, NEW prev, NEW next,
         Adding(user, h, v, b, prev, next)
  PROVE  NonePassed'
<1>0. /\ Starts' = Starts \union {v} /\ Ends' = Ends \union {v} /\ Entered' = Entered \union {v}
      /\ \A x \in Starts \union Ends, y \in Starts \union Ends : Before(x, y)' <=> Before(x, y)
      /\ ~Before(v, v)' /\ v \notin Starts /\ M!HeadNode \in Starts /\ EntriesType
      /\ Entered \subseteq Starts /\ Entered \subseteq Ends /\ v \notin Ends
  <2>1. EntriesType
    BY DEF MemType
  <2>2. v \notin Starts /\ v \notin Ends
    <3>1. v = New /\ user \in UserKeys /\ New <= MaxEntries
      BY DEF Adding
    <3>2. v \notin Entered /\ v \notin Starts /\ v # M!Null
      BY <2>1, <3>1, NewEntry, Names
    <3> QED
      BY <3>2 DEF Ends
  <2>3. M!HeadNode \in Starts /\ Entered \subseteq Starts /\ Entered \subseteq Ends
    BY DEF Starts, Ends
  <2> QED
    BY <2>1, <2>2, <2>3, OrderAfterAdd
<1>1. /\ Len(stores) \in Nat /\ b \in Nat /\ h \in Nat /\ b >= Len(stores) /\ 1 \in 1 .. h
      /\ DOMAIN stores = 1 .. Len(stores) /\ DOMAIN stores' = 1 .. b + 1 + 2 * h
      /\ 1 \in 1 .. MaxHeight /\ b + 2 * 1 = b + 2 /\ b + 2 * 1 + 1 = b + 3 /\ 1 # 0
      /\ Len(stores') \in Nat
  BY AddSizes
<1>2. /\ M!Latest(v, 1)' = next[1] /\ M!Latest(prev[1], 1)' = v
      /\ \A x \in Starts : x # prev[1] => M!Latest(x, 1)' = M!Latest(x, 1)
  BY <1>1, LatestAfterAdd
<1>3. \A x \in Starts', s \in Entered' : ~(Before(x, s)' /\ Before(s, M!Latest(x, 1))')
  BY AddKeepsSuccessors DEF Successors
<1>4. \A i \in DOMAIN stores : stores[i].slot # 0 =>
        /\ stores[i].node \in Starts /\ stores[i].value \in Ends
        /\ stores[i].value # M!Null => stores[i].value \in Entered
  BY DEF MemType, Ends
<1>5. ASSUME NEW s \in Entered', NEW x \in Starts', NEW n \in Ends', NEW i \in 0 .. Len(stores'),
             NEW j \in DOMAIN stores', LinkOf(j, s)', Held(i, x, n)', Before(x, s)', Before(s, n)'
      PROVE  i < j /\ \E k \in i + 1 .. j : k \in M!StoresTo(x, 1)'
  <2>1. i \in Nat /\ j \in Nat
    BY <1>1
  <2>2. n # M!Latest(x, 1)'
    <3> SUFFICES ASSUME n = M!Latest(x, 1)' PROVE FALSE
      OBVIOUS
    <3>1. Before(s, M!Latest(x, 1))'
      BY <1>5
    <3> QED
      BY <1>3, <1>5, <3>1
  <2>3. /\ i <= Len(stores)
        /\ Held(i, x, n) /\ x \in Starts /\ n \in Ends
    <3>1. CASE i = 0
      <4>1. x = M!HeadNode /\ n = M!Null
        BY <1>5, <3>1 DEF Held
      <4> QED
        BY <4>1, <3>1, <1>0, <1>1 DEF Held, Ends
    <3>2. CASE i # 0
      <4>1. i \in DOMAIN stores' /\ Fields(i, x, 1, n)'
        BY <1>5, <3>2 DEF Held, Fields, M!StoresTo
      <4>2. ~(i = b + 2 /\ x = v /\ n = next[1])
        BY <1>2, <2>2
      <4>3. ~(i = b + 3 /\ x = prev[1] /\ n = v)
        BY <1>2, <2>2
      <4>4. i \in DOMAIN stores /\ Fields(i, x, 1, n) /\ i <= Len(stores)
        BY <4>1, <4>2, <4>3, <1>1, StoreAfterAdd
      <4> QED
        BY <4>4, <3>2, <1>4, <1>1 DEF Held, Fields, M!StoresTo
    <3> QED
      BY <3>1, <3>2
  <2>4. CASE j \in DOMAIN stores
    <3>1. LinkOf(j, s)
      <4>1. stores'[j] = stores[j]
        BY <2>4, NewStores
      <4> QED
        BY <4>1, <1>5 DEF LinkOf
    <3>2. s \in Entered
      <4>1. s \in Ends /\ (s # M!Null => s \in Entered)
        BY <2>4, <3>1, <1>1, <1>4 DEF LinkOf
      <4>2. s # M!Null
        BY <1>5 DEF Before
      <4> QED
        BY <4>1, <4>2
    <3>3. Before(x, s) /\ Before(s, n)
      BY <1>5, <2>3, <3>2, <1>0
    <3>4. i \in 0 .. Len(stores)
      BY <2>1, <2>3, <1>1
    <3>5. i < j /\ \E k \in i + 1 .. j : k \in M!StoresTo(x, 1)
      BY <2>3, <2>4, <3>1, <3>2, <3>3, <3>4 DEF NonePassed
    <3> QED
      BY <3>5, StoresAfterAdd
  <2>5. CASE j \notin DOMAIN stores
    <3>1. s = v /\ j = b + 3
      <4>1. PICK y : Fields(j, y, 1, s)' /\ stores'[j].release
        BY <1>5 DEF LinkOf, Fields
      <4> QED
        BY <4>1, <2>5, <1>1, StoreAfterAdd
    <3>2. i < j /\ j \in i + 1 .. j
      BY <2>1, <2>3, <3>1, <1>1
    <3>3. CASE x = prev[1]
      <4>1. j \in M!StoresTo(x, 1)'
        <5>1. b + 2 * 1 + 1 \in M!StoresTo(prev[1], 1)'
          BY <1>1, StoresAfterAdd, SMTT(30)
        <5> QED
          BY <5>1, <3>1, <3>3, <1>1
      <4> QED
        BY <3>2, <4>1
    <3>4. CASE x # prev[1]
      <4>1. M!Latest(x, 1) # n
        BY <1>2, <2>2, <2>3, <3>4
      <4>2. \E k \in M!StoresTo(x, 1) : k > i
        <5> SUFFICES ASSUME \A k \in M!StoresTo(x, 1) : ~(k > i) PROVE FALSE
          OBVIOUS
        <5>1. M!StoresTo(x, 1) \subseteq 0 .. Len(stores) /\ \A k \in M!StoresTo(x, 1) : k <= i /\ k # 0
          BY <1>1, <2>1 DEF M!StoresTo
        <5>2. CASE i = 0
          <6>1. M!StoresTo(x, 1) = {}
            BY <5>1, <5>2
          <6> QED
            BY <6>1, <5>2, <4>1, <2>3 DEF Held, M!Latest, M!Unset
        <5>3. CASE i # 0
          <6>1. i \in M!StoresTo(x, 1) /\ stores[i].value = n
            BY <5>3, <2>3 DEF Held
          <6>2. PICK m \in M!StoresTo(x, 1) : /\ M!Latest(x, 1) = stores[m].value
                                              /\ \A k \in M!StoresTo(x, 1) : k <= m
            BY <6>1, LatestStore DEF MemType
          <6>3. m = i
            BY <6>1, <6>2, <5>1, <2>1, <1>1
          <6> QED
            BY <6>1, <6>2, <6>3, <4>1
        <5> QED
          BY <5>2, <5>3
      <4>3. PICK k \in M!StoresTo(x, 1) : k > i
        BY <4>2
      <4>4. k \in M!StoresTo(x, 1)' /\ k \in 1 .. Len(stores)
        BY <4>3, <1>1, StoresAfterAdd DEF M!StoresTo
      <4>5. k \in i + 1 .. j
        BY <4>3, <4>4, <2>1, <3>1, <1>1
      <4> QED
        BY <3>2, <4>4, <4>5
    <3> QED
      BY <3>3, <3>4
  <2> QED
    BY <2>4, <2>5
<1> QED
  BY <1>5 DEF NonePassed

\* Add keeps the invariant of the memory.
LEMMA AddKeeps ==
  ASSUME MemInv, NEW user \in UserKeys, NEW h \in M!Heights, M!Add(user, h)
  PROVE  MemInv'
<1>1. PICK v, b, prev, next : Adding(user, h, v, b, prev, next)
  BY AddAdds DEF MemInv
<1>2. MemType' /\ TopRight' /\ WholeFirst' /\ Sorted' /\ PlainFirst'
  BY <1>1, AddKeepsType, AddKeepsTop, AddKeepsWhole, AddKeepsSorted, AddKeepsPlain
  DEF MemInv, LinkInv
<1>3. Successors' /\ AllLinked' /\ NonePassed'
  BY <1>1, AddKeepsSuccessors, AddKeepsLinked, AddKeepsPassed DEF MemInv
<1> QED
  BY <1>2, <1>3 DEF MemInv, LinkInv

-----------------------------------------------------------------------------
(* Loads.                                                                    *)

Visible(x, l, clock) == x = M!HeadNode \/ \A m \in 0 .. l : Has(x, m, clock)
\* Whoever has this clock has every link to the entries up to n.
Links(n, clock) == \A s \in 1 .. n, j \in DOMAIN stores : LinkOf(j, s) => j <= clock

\* The clock after a load.
LEMMA MaxOfTwo ==
  ASSUME NEW c \in Nat, NEW i \in Nat
  PROVE  M!Max({c, i}) = IF i <= c THEN c ELSE i
<1>1. {c, i} \subseteq 0 .. c + i /\ {c, i} # {} /\ c + i \in Nat
  OBVIOUS
<1>2. M!Max({c, i}) \in {c, i} /\ \A y \in {c, i} : y <= M!Max({c, i})
  BY <1>1, MaxNumber
<1> QED
  BY <1>2

\* What a load of a link returns.
LEMMA LoadOfLink ==
  ASSUME MemInv, refs # 0, NEW c \in 0 .. Len(stores), NEW x \in Starts, NEW l \in 1 .. MaxHeight,
         Visible(x, l, c), NEW load \in M!Loads(c, x, l),
         NEW last \in 0 .. Len(entries), Links(last, c)
  PROVE  /\ load.clock \in c .. Len(stores) /\ load.value \in Ends /\ Before(x, load.value)
         /\ load.value # M!Null => Visible(load.value, l, load.clock)
         /\ M!Whole(load)
         /\ l = 1 => \A s \in 1 .. last : ~(Before(x, s) /\ Before(s, load.value))
<1> DEFINE past == {i \in M!StoresTo(x, l) : i <= c}
<1>0. /\ Len(stores) \in Nat /\ c \in Nat /\ l \in Nat \ {0} /\ MaxHeight \in Nat /\ Len(entries) \in Nat
      /\ last \in Nat /\ EntriesType
      /\ DOMAIN stores = 1 .. Len(stores) /\ \A y, m : M!StoresTo(y, m) \subseteq 1 .. Len(stores)
  BY MCMemTableAssumption DEF M!MemTableAssumption, MemInv, MemType, EntriesType, M!StoresTo
<1>1. x # M!HeadNode => past # {}
  BY <1>0 DEF Visible, Has
<1>2. past # {} => M!Max(past) \in past /\ \A y \in past : y <= M!Max(past)
  <2>1. past \subseteq 0 .. Len(stores)
    BY <1>0
  <2> HIDE DEF past
  <2> QED
    BY <1>0, <2>1, MaxNumber
<1>3. ASSUME NEW s \in 1 .. last
      PROVE  s \in Entered /\ \E j \in DOMAIN stores : LinkOf(j, s) /\ j <= c /\ j \in Nat
  <2>1. s \in Entered
    BY <1>0 DEF Entered
  <2> QED
    BY <1>0, <2>1 DEF MemInv, AllLinked, Links
<1>4. ASSUME NEW i \in M!StoresTo(x, l)
      PROVE  /\ stores[i].value \in Ends /\ Before(x, stores[i].value)
             /\ stores[i].value # M!Null => \A m \in 0 .. l : Has(stores[i].value, m, i - 1)
             /\ i > c => stores[i].release
             /\ Held(i, x, stores[i].value) \/ l # 1
  <2>1. i \in DOMAIN stores /\ Fields(i, x, l, stores[i].value) /\ i \in Nat /\ i # 0 /\ l # 0
    BY <1>0 DEF M!StoresTo, Fields
  <2>2. stores[i].value \in Ends /\ Before(x, stores[i].value)
    BY <2>1 DEF MemInv, MemType, LinkInv, Sorted, Fields
  <2>3. stores[i].value # M!Null => \A m \in 0 .. l : Has(stores[i].value, m, i - 1)
    BY <2>1 DEF MemInv, LinkInv, WholeFirst
  <2>4. ASSUME i > c, ~stores[i].release PROVE FALSE
    <3>1. x # M!HeadNode /\ \A j \in M!StoresTo(x, l) : i <= j
      BY <2>1, <2>4 DEF MemInv, PlainFirst
    <3>2. PICK j \in M!StoresTo(x, l) : j <= c
      BY <3>1, <1>1
    <3> QED
      BY <3>1, <3>2, <2>1, <2>4, <1>0
  <2> QED
    BY <2>1, <2>2, <2>3, <2>4 DEF Held
<1>5. ASSUME NEW i \in M!StoresTo(x, l), past # {}, i = M!Max(past),
             load.value = stores[i].value, load.clock = c
      PROVE  /\ load.value # M!Null => Visible(load.value, l, load.clock)
             /\ l = 1 => \A s \in 1 .. last : ~(Before(x, s) /\ Before(s, load.value))
  <2>1. i <= c /\ i \in Nat /\ i # 0 /\ \A y \in past : y <= i
    BY <1>0, <1>2, <1>5
  <2>2. ASSUME load.value # M!Null, NEW m \in 0 .. l PROVE Has(load.value, m, c)
    <3>1. PICK k \in M!StoresTo(load.value, m) : k <= i - 1
      BY <2>2, <1>4, <1>5 DEF Has
    <3> QED
      BY <3>1, <2>1, <1>0 DEF Has
  <2>3. ASSUME l = 1, NEW s \in 1 .. last, Before(x, s), Before(s, load.value) PROVE FALSE
    <3>1. PICK j \in DOMAIN stores : LinkOf(j, s) /\ j <= c /\ s \in Entered /\ j \in Nat
      BY <1>3
    <3>2. Held(i, x, load.value) /\ load.value \in Ends /\ i \in 0 .. Len(stores)
      BY <2>1, <2>3, <1>0, <1>4, <1>5
    <3>3. PICK k \in i + 1 .. j : k \in M!StoresTo(x, 1)
      BY <3>1, <3>2, <2>3 DEF MemInv, NonePassed
    <3>4. k \in past /\ k > i
      BY <3>1, <3>3, <2>1, <2>3, <1>0
    <3> QED
      BY <3>4, <2>1, <1>0
  <2> QED
    BY <2>2, <2>3, <1>5 DEF Visible
<1>6. ASSUME NEW i \in M!StoresTo(x, l), i > c, load.value = stores[i].value, load.clock = i
      PROVE  /\ load.value # M!Null => Visible(load.value, l, load.clock)
             /\ l = 1 => \A s \in 1 .. last : ~(Before(x, s) /\ Before(s, load.value))
  <2>1. i \in Nat /\ i \in 1 .. Len(stores)
    BY <1>0
  <2>2. ASSUME load.value # M!Null, NEW m \in 0 .. l PROVE Has(load.value, m, i)
    <3>1. PICK k \in M!StoresTo(load.value, m) : k <= i - 1
      BY <2>2, <1>4, <1>6 DEF Has
    <3> QED
      BY <3>1, <2>1, <1>0 DEF Has
  <2>3. ASSUME l = 1, NEW s \in 1 .. last, Before(x, s), Before(s, load.value) PROVE FALSE
    <3>1. PICK j \in DOMAIN stores : LinkOf(j, s) /\ j <= c /\ s \in Entered /\ j \in Nat
      BY <1>3
    <3>2. Held(i, x, load.value) /\ load.value \in Ends /\ i \in 0 .. Len(stores)
      BY <2>1, <2>3, <1>0, <1>4, <1>6
    <3>3. i < j
      BY <3>1, <3>2, <2>3 DEF MemInv, NonePassed
    <3> QED
      BY <3>1, <3>3, <2>1, <1>0, <1>6
  <2> QED
    BY <2>2, <2>3, <1>6 DEF Visible
<1>7. ASSUME past = {}, load.value = M!Unset(x, l), load.clock = c
      PROVE  /\ load.value = M!Null /\ x = M!HeadNode
             /\ l = 1 => \A s \in 1 .. last : ~(Before(x, s) /\ Before(s, load.value))
  <2>1. x = M!HeadNode /\ load.value = M!Null
    BY <1>0, <1>1, <1>7 DEF M!Unset
  <2>2. ASSUME l = 1, NEW s \in 1 .. last, Before(x, s), Before(s, load.value) PROVE FALSE
    <3>1. PICK j \in DOMAIN stores : LinkOf(j, s) /\ j <= c /\ s \in Entered /\ j \in Nat
      BY <1>3
    <3>2. Held(0, x, load.value) /\ load.value \in Ends /\ 0 \in 0 .. Len(stores)
      BY <2>1, <1>0 DEF Held, Ends
    <3>3. PICK k \in 0 + 1 .. j : k \in M!StoresTo(x, 1)
      BY <3>1, <3>2, <2>2 DEF MemInv, NonePassed
    <3>4. k \in past
      BY <3>1, <3>3, <2>2, <1>0
    <3> QED
      BY <3>4, <1>7
  <2> QED
    BY <2>1, <2>2
<1> DEFINE seen == {i \in M!StoresTo(x, l) : i > c} \union (IF past = {} THEN {} ELSE {M!Max(past)})
           Clock(i) == IF stores[i].release THEN M!Max({c, i}) ELSE c
           Goal == /\ load.clock \in c .. Len(stores) /\ load.value \in Ends /\ Before(x, load.value)
                   /\ load.value # M!Null => Visible(load.value, l, load.clock)
                   /\ l = 1 => \A s \in 1 .. last : ~(Before(x, s) /\ Before(s, load.value))
<1>8. \/ \E i \in seen : load = [value |-> stores[i].value, clock |-> Clock(i)]
      \/ past = {} /\ load = [value |-> M!Unset(x, l), clock |-> c]
  <2>1. load \in {[value |-> stores[i].value, clock |-> Clock(i)] : i \in seen}
                  \union (IF past # {} THEN {} ELSE {[value |-> M!Unset(x, l), clock |-> c]})
    BY DEF M!Loads
  <2> HIDE DEF past, seen, Clock
  <2> QED
    BY <2>1
<1>9. ASSUME NEW i \in seen, load = [value |-> stores[i].value, clock |-> Clock(i)] PROVE Goal
  <2>1. i \in M!StoresTo(x, l) /\ (i > c \/ (past # {} /\ i = M!Max(past)))
    BY <1>2
  <2>2. i \in Nat /\ i <= Len(stores) /\ M!Max({c, i}) = IF i <= c THEN c ELSE i
    BY <2>1, <1>0, MaxOfTwo
  <2>3. load.value = stores[i].value /\ load.value \in Ends /\ Before(x, load.value)
    BY <2>1, <1>4, <1>9
  <2>c. load.clock = IF stores[i].release THEN M!Max({c, i}) ELSE c
    BY <1>9
  <2> HIDE DEF past, seen, Clock
  <2>4. CASE i > c
    <3>1. load.clock = i
      <4>1. stores[i].release /\ ~(i <= c)
        BY <2>1, <2>2, <2>4, <1>4, <1>0
      <4> QED
        BY <4>1, <2>2, <2>c
    <3>2. load.clock \in c .. Len(stores)
      BY <2>2, <2>4, <3>1, <1>0
    <3> QED
      BY <2>1, <2>3, <2>4, <3>1, <3>2, <1>6
  <2>5. CASE ~(i > c)
    <3>1. past # {} /\ i = M!Max(past)
      BY <2>1, <2>5
    <3>2. load.clock = c
      BY <2>2, <2>5, <2>c, <1>0
    <3>3. load.clock \in c .. Len(stores)
      BY <3>2, <1>0
    <3> QED
      BY <2>1, <2>3, <3>1, <3>2, <3>3, <1>5
  <2> QED
    BY <2>4, <2>5
<1>10. ASSUME past = {}, load = [value |-> M!Unset(x, l), clock |-> c] PROVE Goal
  <2>1. /\ load.value = M!Null /\ x = M!HeadNode /\ load.clock = c
        /\ l = 1 => \A s \in 1 .. last : ~(Before(x, s) /\ Before(s, load.value))
    BY <1>10, <1>7
  <2>2. M!Null \in Ends /\ Before(M!HeadNode, M!Null) /\ c \in c .. Len(stores)
    BY <1>0, Names DEF Ends, Before
  <2> QED
    BY <2>1, <2>2
<1> HIDE DEF seen, past, Clock
<1>11. Goal
  BY <1>8, <1>9, <1>10
<1>12. M!Whole(load)
  <2>1. load.value \notin {M!Junk, M!HeadNode}
    BY <1>0, <1>11, Names
  <2>2. load.value # M!Null => Has(load.value, 0, load.clock)
    BY <1>0, <1>11, <2>1 DEF Visible
  <2> QED
    BY <2>1, <2>2 DEF M!Whole, Has
<1> QED
  BY <1>11, <1>12

-----------------------------------------------------------------------------
(* The reader.                                                               *)

Phases == {"off", "idle", "search"}
Ops == {"none", "seek", "prev", "last", "first", "next"}
ReaderType == [phase : Phases, op : Ops, target : Key, from : Starts \union Ends, node : Ends,
               x : Starts, level : 0 .. MaxHeight, clock : 0 .. Len(stores),
               snapshot : 0 .. Len(entries)]

\* None of the first entries is between two nodes.
Gap(x, n, last) == \A s \in 1 .. last : ~(Before(x, s) /\ Before(s, n))
OrHead(n) == IF n = M!Null THEN M!HeadNode ELSE n
\* Where an operation of the iterator lands.
Right(op, target, from, node, last) ==
  /\ op = "seek" => /\ \A s \in 1 .. last : Behind(target, s) \/ ~Before(s, node)
                    /\ node = M!Null \/ ~Behind(target, node)
  /\ op = "first" => Gap(M!HeadNode, node, last)
  /\ op = "next" => from \in Entered /\ Gap(from, node, last) /\ Before(from, node)
  /\ op = "prev" => /\ Behind(target, OrHead(node))
                    /\ \A s \in 1 .. last : ~(Before(OrHead(node), s) /\ Behind(target, s))
  /\ op = "last" => Gap(OrHead(node), M!Null, last)

ReaderOK(r) ==
  /\ r \in ReaderType
  /\ r.op = "seek" => r.target.seq = r.snapshot /\ r.target.user \in UserKeys
  /\ r.phase # "off" => /\ Links(r.snapshot, r.clock)
                        /\ r.node = M!Null \/ Visible(r.node, 1, r.clock)
  /\ r.phase = "search" => /\ r.level # 0 /\ r.op \in {"seek", "prev", "last"}
                           /\ Visible(r.x, r.level, r.clock)
                           /\ r.op = "last" \/ Behind(r.target, r.x)
  /\ r.phase = "idle" => Right(r.op, r.target, r.from, r.node, r.snapshot)

ReaderInv == \A r \in {reader} : ReaderOK(r)
PublishedInv == /\ published \in [last : 0 .. Len(entries), stores : 0 .. Len(stores)]
                /\ \A last \in {published.last}, clock \in {published.stores} : Links(last, clock)
RefsInv == /\ owned \in BOOLEAN
           /\ refs = (IF owned THEN 1 ELSE 0) + (IF reader.phase = "off" THEN 0 ELSE 1)
SharedInv == MemInv /\ PublishedInv /\ RefsInv /\ ReaderInv

\* Reading changes none of what the memory means.
LEMMA Unstirred ==
  ASSUME entries' = entries, stores' = stores, MemInv
  PROVE  MemInv' /\ \A r : ReaderOK(r)' <=> ReaderOK(r)
<1>1. /\ Entered' = Entered /\ Starts' = Starts /\ Ends' = Ends /\ ReaderType' = ReaderType
  BY DEF Entered, Starts, Ends, ReaderType
<1>2. \A x, y : Before(x, y)' <=> Before(x, y)
  BY DEF Before, M!KeyOf
<1>3. \A k, x : Behind(k, x)' <=> Behind(k, x)
  BY DEF Behind, M!KeyOf
<1>4. \A x, l : M!StoresTo(x, l)' = M!StoresTo(x, l)
  BY DEF M!StoresTo
<1>5. \A x, l : M!Latest(x, l)' = M!Latest(x, l)
  BY <1>4 DEF M!Latest
<1>6. \A x, l, c : Has(x, l, c)' <=> Has(x, l, c)
  BY <1>4 DEF Has
<1>7. \A i, x, l, n : Fields(i, x, l, n)' <=> Fields(i, x, l, n)
  BY DEF Fields
<1>8. \A j, s : LinkOf(j, s)' <=> LinkOf(j, s)
  BY DEF LinkOf
<1>9. \A i, x, n : Held(i, x, n)' <=> Held(i, x, n)
  BY <1>4 DEF Held
<1>10. MemInv'
  <2>1. MemType'
    BY <1>1 DEF MemInv, MemType, EntriesType
  <2>2. TopRight'
    BY <1>5, <1>7 DEF MemInv, LinkInv, TopRight, Top
  <2>3. WholeFirst' /\ Sorted' /\ PlainFirst'
    BY <1>2, <1>4, <1>6, <1>7 DEF MemInv, LinkInv, WholeFirst, Sorted, PlainFirst
  <2>4. Successors'
    <3>1. ASSUME NEW x \in Starts, NEW n, n = M!Latest(x, 1)'
          PROVE  /\ n \in Ends /\ Before(x, n)' /\ \A s \in Entered : ~(Before(x, s)' /\ Before(s, n)')
      BY <3>1, <1>2, <1>5 DEF MemInv, Successors
    <3> QED
      BY <3>1, <1>1 DEF Successors
  <2>5. AllLinked' /\ NonePassed'
    BY <1>1, <1>2, <1>4, <1>8, <1>9 DEF MemInv, AllLinked, NonePassed
  <2> QED
    BY <2>1, <2>2, <2>3, <2>4, <2>5 DEF MemInv, LinkInv
<1>11. ASSUME NEW r PROVE ReaderOK(r)' <=> ReaderOK(r)
  <2>1. \A x, n, last : Gap(x, n, last)' <=> Gap(x, n, last)
    BY <1>2 DEF Gap
  <2>2. \A op, target, from, node, last :
           Right(op, target, from, node, last)' <=> Right(op, target, from, node, last)
    BY <1>1, <1>2, <1>3, <2>1 DEF Right
  <2>3. \A n, c : Links(n, c)' <=> Links(n, c)
    BY <1>8 DEF Links
  <2>4. \A x, l, c : Visible(x, l, c)' <=> Visible(x, l, c)
    BY <1>6 DEF Visible
  <2> QED
    BY <1>1, <1>3, <2>2, <2>3, <2>4 DEF ReaderOK
<1> QED
  BY <1>10, <1>11

\* A reader sees no less after Add.
LEMMA ReaderAfterAdd ==
  ASSUME MemType, NEW user, NEW h, NEW v, NEW b, NEW prev, NEW next,
         Adding(user, h, v, b, prev, next)
  PROVE  /\ \A n \in 0 .. Len(entries) : \A c : Links(n, c) => Links(n, c)'
         /\ \A r : ReaderOK(r) => ReaderOK(r)'
<1>0. /\ EntriesType /\ Starts' = Starts \union {v} /\ Ends' = Ends \union {v}
      /\ Entered' = Entered \union {v}
      /\ \A x \in Starts \union Ends, y \in Starts \union Ends : Before(x, y)' <=> Before(x, y)
  BY OrderAfterAdd DEF MemType
<1>1. /\ Len(stores) \in Nat /\ Len(stores') \in Nat /\ Len(stores) <= Len(stores')
      /\ Len(entries) \in Nat /\ Len(entries') = Len(entries) + 1 /\ v = Len(entries) + 1
      /\ b \in Nat /\ h \in Nat
  <2>1. /\ Len(stores) \in Nat /\ b \in Nat /\ h \in Nat /\ b >= Len(stores)
        /\ DOMAIN stores' = 1 .. b + 1 + 2 * h /\ stores' \in Seq(StoreType)
    BY AddSizes
  <2>2. Len(stores') = b + 1 + 2 * h
    BY DEF Adding, Inserted
  <2>3. entries' = Append(entries, user) /\ entries \in Seq(UserKeys) /\ v = Len(entries) + 1
    BY DEF Adding, New, MemType, EntriesType
  <2>4. Len(stores') \in Nat /\ Len(stores) <= Len(stores')
    BY <2>1, <2>2
  <2> QED
    BY <2>1, <2>3, <2>4
<1>2. \A k : \A x \in Starts \union Ends : x # M!Null => (Behind(k, x)' <=> Behind(k, x))
  <2>1. \A n \in Entered : entries'[n] = entries[n]
    BY DEF Adding, MemType, EntriesType, Entered
  <2>2. \A n \in Entered : M!KeyOf(n)' = M!KeyOf(n)
    BY <2>1 DEF M!KeyOf
  <2>3. \A x \in Starts \union Ends : x = M!Null \/ x = M!HeadNode \/ x \in Entered
    BY DEF Starts, Ends
  <2> QED
    BY <2>2, <2>3 DEF Behind
<1>3. ASSUME NEW n \in 0 .. Len(entries), NEW c, Links(n, c) PROVE Links(n, c)'
  <2> SUFFICES ASSUME NEW s \in 1 .. n, NEW j \in DOMAIN stores', LinkOf(j, s)' PROVE j <= c
    BY DEF Links
  <2>1. PICK y : Fields(j, y, 1, s)'
    BY DEF LinkOf, Fields
  <2>2. s # v
    BY <1>1
  <2>3. stores'[j].release
    BY DEF LinkOf
  <2>4. j \in DOMAIN stores /\ Fields(j, y, 1, s)
    BY <2>1, <2>2, <2>3, StoreAfterAdd
  <2>5. LinkOf(j, s)
    <3>1. stores'[j] = stores[j]
      BY <2>4, NewStores
    <3> QED
      BY <2>3, <2>4, <3>1 DEF LinkOf, Fields
  <2> QED
    BY <1>3, <2>4, <2>5 DEF Links
<1>4. ASSUME NEW r, ReaderOK(r) PROVE ReaderOK(r)'
  <2>1. r \in ReaderType
    BY <1>4 DEF ReaderOK
  <2>2. /\ r.from \in Starts \union Ends /\ r.node \in Ends /\ r.x \in Starts
        /\ r.snapshot \in 0 .. Len(entries) /\ 1 .. r.snapshot \subseteq Entered
        /\ Entered \subseteq Starts
    BY <2>1, <1>1 DEF ReaderType, Entered, Starts
  <2>3. r \in ReaderType'
    <3>1. 0 .. Len(stores) \subseteq 0 .. Len(stores') /\ 0 .. Len(entries) \subseteq 0 .. Len(entries')
      BY <1>1
    <3> QED
      BY <2>1, <3>1, <1>0 DEF ReaderType
  <2>4. \A x \in Starts \union Ends, n \in Starts \union Ends : Gap(x, n, r.snapshot)' <=> Gap(x, n, r.snapshot)
    BY <1>0, <2>2 DEF Gap
  <2>5. OrHead(r.node) \in Starts \union Ends /\ OrHead(r.node) # M!Null
        /\ M!Null \in Starts \union Ends /\ M!HeadNode \in Starts \union Ends
    BY <1>0, <2>2, Names DEF OrHead, Starts, Ends
  <2>6. /\ r.node # M!Null => (Behind(r.target, r.node)' <=> Behind(r.target, r.node))
        /\ Behind(r.target, OrHead(r.node))' <=> Behind(r.target, OrHead(r.node))
        /\ \A s \in 1 .. r.snapshot : Behind(r.target, s)' <=> Behind(r.target, s)
        /\ Behind(r.target, r.x)' <=> Behind(r.target, r.x)
    <3>1. \A s \in 1 .. r.snapshot : s # M!Null /\ s \in Starts \union Ends
      BY <1>0, <2>2, Names DEF Starts
    <3>2. r.x # M!Null
      BY <1>0, <2>2, Names
    <3> QED
      BY <1>2, <2>2, <2>5, <3>1, <3>2
  <2>7. Right(r.op, r.target, r.from, r.node, r.snapshot)
          => Right(r.op, r.target, r.from, r.node, r.snapshot)'
    BY <1>0, <2>2, <2>4, <2>5, <2>6 DEF Right
  <2>8. \A x, l, c : Visible(x, l, c) => Visible(x, l, c)'
    BY StoresAfterAdd DEF Visible
  <2> QED
    BY <1>3, <1>4, <2>2, <2>3, <2>6, <2>7, <2>8 DEF ReaderOK
<1> QED
  BY <1>3, <1>4

\* A key that is behind one node and not behind another.
LEMMA KeyAround ==
  ASSUME NEW k \in Key, NEW a \in Key, NEW b \in Key, M!Less(a, k), ~M!Less(b, k)
  PROVE  M!Less(a, b)
<1>1. M!Less(b, a) /\ M!Less(a, k) => M!Less(b, k)
  BY KeyOrder
<1>2. a = b \/ M!Less(a, b) \/ M!Less(b, a)
  BY KeyOrder
<1> QED
  BY <1>1, <1>2

\* From a gap that an operation has found to where it lands.
LEMMA LandsRight ==
  ASSUME EntriesType, NEW key \in Key, NEW x \in Starts, NEW n \in Ends,
         NEW last \in 0 .. Len(entries), Gap(x, n, last), NEW from,
         NEW this, this = IF x = M!HeadNode THEN M!Null ELSE x
  PROVE  /\ Behind(key, x) /\ (n = M!Null \/ ~Behind(key, n)) =>
              Right("seek", key, from, n, last) /\ Right("prev", key, from, this, last)
         /\ n = M!Null => Right("last", key, from, this, last)
         /\ x = M!HeadNode => Right("first", key, from, n, last)
         /\ x \in Entered /\ Before(x, n) => Right("next", key, x, n, last)
         /\ this \in Ends
<1>0. /\ M!Null \notin Starts /\ M!HeadNode \notin Ends /\ M!HeadNode # M!Null
      /\ 1 .. last \subseteq Entered /\ Entered \subseteq Starts /\ Entered \subseteq Ends
  BY Names DEF Starts, Ends, Entered
<1>1. this \in Ends /\ OrHead(this) = x
  BY <1>0 DEF OrHead, Starts, Ends
<1>2. \A s \in Entered : M!KeyOf(s) \in Key
  BY KeyType
<1>4. x = M!HeadNode \/ x \in Entered
  BY DEF Starts
<1>5. n = M!Null \/ n \in Entered
  BY DEF Ends
<1>6. ASSUME Behind(key, x), n = M!Null \/ ~Behind(key, n), NEW s \in 1 .. last
      PROVE  /\ Behind(key, s) \/ ~Before(s, n)
             /\ ~(Before(x, s) /\ Behind(key, s))
  <2>0. s \in Entered /\ s # M!HeadNode /\ s # M!Null /\ n # M!HeadNode /\ x # M!Null
    BY <1>0, <1>4, <1>5
  <2>1. ASSUME ~Behind(key, s) PROVE Before(x, s)
    <3>1. ~M!Less(M!KeyOf(s), key)
      BY <2>1 DEF Behind
    <3>2. x \in Entered => M!Less(M!KeyOf(x), key)
      BY <1>0, <1>6 DEF Behind
    <3>3. x \in Entered => M!Less(M!KeyOf(x), M!KeyOf(s))
      BY <2>0, <3>1, <3>2, <1>2, KeyAround
    <3> QED
      BY <2>0, <3>3, <1>0, <1>4 DEF Before
  <2>2. ASSUME Behind(key, s) PROVE Before(s, n)
    <3>1. M!Less(M!KeyOf(s), key)
      BY <2>0, <2>2 DEF Behind
    <3>2. n \in Entered => ~M!Less(M!KeyOf(n), key)
      BY <1>0, <1>6 DEF Behind
    <3>3. n \in Entered => M!Less(M!KeyOf(s), M!KeyOf(n))
      BY <2>0, <3>1, <3>2, <1>2, KeyAround
    <3> QED
      BY <2>0, <3>3, <1>0, <1>5 DEF Before
  <2> QED
    BY <2>1, <2>2 DEF Gap
<1>7. x # M!HeadNode => x = this
  OBVIOUS
<1> QED
  BY <1>0, <1>1, <1>6 DEF Right

\* What a reader sees it sees ever after, and the lower levels of it.
LEMMA VisibleLonger ==
  ASSUME stores \in Seq(StoreType), NEW x, NEW l \in Nat, NEW m \in 0 .. l,
         NEW c \in 0 .. Len(stores), NEW d \in c .. Len(stores), Visible(x, l, c)
  PROVE  Visible(x, m, d)
<1>0. Len(stores) \in Nat
  OBVIOUS
<1>1. ASSUME x # M!HeadNode, NEW k \in 0 .. m PROVE Has(x, k, d)
  <2>1. k \in 0 .. l
    OBVIOUS
  <2>2. PICK i \in M!StoresTo(x, k) : i <= c
    BY <1>1, <2>1 DEF Visible, Has
  <2>3. i \in Nat
    BY <2>2 DEF M!StoresTo
  <2> QED
    BY <2>2, <2>3, <1>0 DEF Has
<1> QED
  BY <1>1 DEF Visible

\* A clock beyond which no entry up to n was linked, moved on.
LEMMA LinksLater ==
  ASSUME stores \in Seq(StoreType), NEW n, NEW c \in 0 .. Len(stores), NEW d \in c .. Len(stores),
         Links(n, c)
  PROVE  Links(n, d)
BY DEF Links

\* A load by the reader.
LEMMA ReaderLoads ==
  ASSUME SharedInv, NEW x \in Starts, NEW l \in 1 .. MaxHeight, reader.phase # "off",
         Visible(x, l, reader.clock), NEW load \in M!Loads(reader.clock, x, l)
  PROVE  /\ load.clock \in reader.clock .. Len(stores) /\ load.value \in Ends
         /\ load.clock \in 0 .. Len(stores)
         /\ Before(x, load.value) /\ M!Whole(load)
         /\ load.value # M!Null => Visible(load.value, l, load.clock)
         /\ Links(reader.snapshot, load.clock)
         /\ l = 1 => Gap(x, load.value, reader.snapshot)
         /\ reader.node = M!Null \/ Visible(reader.node, 1, load.clock)
<1>0. ReaderOK(reader) /\ MemInv /\ stores \in Seq(StoreType) /\ Len(stores) \in Nat
  BY DEF SharedInv, ReaderInv, MemInv, MemType
<1>1. reader.clock \in 0 .. Len(stores) /\ reader.snapshot \in 0 .. Len(entries)
      /\ Links(reader.snapshot, reader.clock)
      /\ (reader.node = M!Null \/ Visible(reader.node, 1, reader.clock))
  BY <1>0 DEF ReaderOK, ReaderType
<1>2. refs # 0
  BY DEF SharedInv, RefsInv
<1>3. /\ load.clock \in reader.clock .. Len(stores) /\ load.value \in Ends /\ Before(x, load.value)
      /\ load.value # M!Null => Visible(load.value, l, load.clock)
      /\ M!Whole(load)
      /\ l = 1 => \A s \in 1 .. reader.snapshot : ~(Before(x, s) /\ Before(s, load.value))
  BY <1>0, <1>1, <1>2, LoadOfLink
<1>4. load.clock \in 0 .. Len(stores)
  BY <1>0, <1>1, <1>3
<1>5. Links(reader.snapshot, load.clock)
  BY <1>0, <1>1, <1>3, LinksLater
<1>6. reader.node = M!Null \/ Visible(reader.node, 1, load.clock)
  BY <1>0, <1>1, <1>3, VisibleLonger
<1> QED
  BY <1>3, <1>4, <1>5, <1>6 DEF Gap

\* A step that adds nothing.
LEMMA AddsNothing ==
  ASSUME SharedInv, entries' = entries, stores' = stores,
         published' = published \/ published' = M!Now,
         RefsInv', \A r : r = reader' => ReaderOK(r)
  PROVE  SharedInv'
<1>0. MemInv /\ MemInv' /\ \A r : ReaderOK(r)' <=> ReaderOK(r)
  BY Unstirred DEF SharedInv
<1>1. ReaderInv'
  <2>1. \A r \in {reader'} : ReaderOK(r)'
    BY <1>0
  <2> QED
    BY <2>1 DEF ReaderInv
<1>2. PublishedInv'
  <2>1. CASE published' = published
    BY <2>1 DEF SharedInv, PublishedInv, Links, LinkOf
  <2>2. CASE published' = M!Now
    <3>1. /\ Len(stores) \in Nat /\ Len(entries) \in Nat /\ DOMAIN stores = 1 .. Len(stores)
          /\ Len(stores) \in 0 .. Len(stores) /\ Len(entries) \in 0 .. Len(entries)
      BY <1>0 DEF MemInv, MemType, EntriesType
    <3>2. published' = [last |-> Len(entries), stores |-> Len(stores)]
      BY <2>2 DEF M!Now
    <3>3. published' \in [last : 0 .. Len(entries'), stores : 0 .. Len(stores')]
      BY <3>1, <3>2
    <3>4. published'.stores = Len(stores)
      BY <3>2
    <3>5. \A last, clock : clock = published'.stores => Links(last, clock)'
      BY <3>1, <3>4 DEF Links
    <3> QED
      BY <3>3, <3>5 DEF PublishedInv
  <2> QED
    BY <2>1, <2>2
<1> QED
  BY <1>0, <1>1, <1>2 DEF SharedInv

\* A step of the reader alone.
LEMMA ReadsOn ==
  ASSUME SharedInv, UNCHANGED <<entries, stores, published, arena, refs, owned>>,
         reader.phase # "off",
         \A r : r = reader' => ReaderOK(r) /\ r.phase # "off"
  PROVE  SharedInv'
<1>1. RefsInv'
  <2>1. reader'.phase # "off"
    OBVIOUS
  <2> QED
    BY <2>1 DEF SharedInv, RefsInv
<1> QED
  BY <1>1, AddsNothing

\* A step of a search, whatever its load returns.
LEMMA SearchStepKeeps ==
  ASSUME SharedInv, M!SearchStep
  PROVE  SharedInv'
<1>0. /\ ReaderOK(reader) /\ MemInv /\ stores \in Seq(StoreType) /\ Len(stores) \in Nat /\ EntriesType
      /\ MaxHeight \in Nat
  BY MCMemTableAssumption DEF SharedInv, ReaderInv, MemInv, MemType, M!MemTableAssumption
<1>1. PICK load \in M!Loads(reader.clock, reader.x, reader.level) :
        M!Read(IF ~M!Whole(load) THEN M!Torn(reader)
               ELSE IF M!GoesOn(load.value)
               THEN [reader EXCEPT !.x = load.value, !.clock = load.clock]
               ELSE IF reader.level > 1
               THEN [reader EXCEPT !.level = @ - 1, !.clock = load.clock]
               ELSE M!Landed(reader, load, M!Found(load.value)))
  BY DEF M!SearchStep
<1>2. reader.phase = "search"
  BY DEF M!SearchStep
<1>3. /\ reader \in ReaderType /\ reader.op \in {"seek", "prev", "last"}
      /\ reader.level \in 1 .. MaxHeight /\ reader.x \in Starts
      /\ Visible(reader.x, reader.level, reader.clock)
      /\ reader.op = "last" \/ Behind(reader.target, reader.x)
      /\ reader.target \in Key /\ reader.snapshot \in 0 .. Len(entries)
      /\ reader.op = "seek" => reader.target.seq = reader.snapshot /\ reader.target.user \in UserKeys
      /\ reader.clock \in 0 .. Len(stores)
  BY <1>0, <1>2 DEF ReaderOK, ReaderType
<1>4. /\ load.clock \in reader.clock .. Len(stores) /\ load.value \in Ends
      /\ load.clock \in 0 .. Len(stores)
      /\ Before(reader.x, load.value) /\ M!Whole(load)
      /\ load.value # M!Null => Visible(load.value, reader.level, load.clock)
      /\ Links(reader.snapshot, load.clock)
      /\ reader.level = 1 => Gap(reader.x, load.value, reader.snapshot)
      /\ reader.node = M!Null \/ Visible(reader.node, 1, load.clock)
  BY <1>2, <1>3, ReaderLoads
<1>5. /\ UNCHANGED <<entries, stores, published, arena, refs, owned>>
      /\ reader' = IF M!GoesOn(load.value)
               THEN [reader EXCEPT !.x = load.value, !.clock = load.clock]
               ELSE IF reader.level > 1
               THEN [reader EXCEPT !.level = @ - 1, !.clock = load.clock]
               ELSE M!Landed(reader, load, M!Found(load.value))
  BY <1>1, <1>4 DEF M!Read
<1>6. ASSUME NEW r, r = reader' PROVE ReaderOK(r) /\ r.phase # "off"
  <2>1. CASE M!GoesOn(load.value)
    <3>1. r = [reader EXCEPT !.x = load.value, !.clock = load.clock]
      BY <1>5, <1>6, <2>1
    <3>2. load.value # M!Null /\ (reader.op = "last" \/ M!Less(M!KeyOf(load.value), reader.target))
      BY <2>1 DEF M!GoesOn, M!KeyIsAfterNode
    <3>3. load.value \in Starts /\ (reader.op = "last" \/ Behind(reader.target, load.value))
      BY <3>2, <1>4 DEF Starts, Ends, Behind
    <3>4. r \in ReaderType
      BY <3>1, <3>3, <1>3, <1>4 DEF ReaderType
    <3> QED
      BY <3>1, <3>2, <3>3, <3>4, <1>2, <1>3, <1>4 DEF ReaderOK, ReaderType
  <2>2. CASE ~M!GoesOn(load.value) /\ reader.level > 1
    <3>1. r = [reader EXCEPT !.level = reader.level - 1, !.clock = load.clock]
      BY <1>5, <1>6, <2>2
    <3>2. /\ reader.level - 1 \in 0 .. MaxHeight /\ reader.level - 1 \in 0 .. reader.level
          /\ reader.level \in Nat /\ reader.level - 1 # 0
      BY <2>2, <1>0, <1>3
    <3>3. r \in ReaderType
      BY <3>1, <3>2, <1>3, <1>4 DEF ReaderType
    <3>4. Visible(reader.x, reader.level - 1, load.clock)
      BY <3>2, <1>0, <1>3, <1>4, VisibleLonger
    <3> QED
      BY <3>1, <3>2, <3>3, <3>4, <1>2, <1>3, <1>4 DEF ReaderOK, ReaderType
  <2>3. CASE ~M!GoesOn(load.value) /\ ~(reader.level > 1)
    <3> DEFINE n == M!Found(load.value)
    <3>1. r = [reader EXCEPT !.phase = "idle", !.node = n, !.clock = load.clock,
                             !.x = M!HeadNode, !.level = 0]
      BY <1>4, <1>5, <1>6, <2>3 DEF M!Landed
    <3>2. reader.level = 1 /\ Gap(reader.x, load.value, reader.snapshot)
      BY <2>3, <1>3, <1>4
    <3>3. load.value = M!Null \/ (reader.op # "last" /\ ~Behind(reader.target, load.value))
      <4>1. load.value # M!HeadNode
        BY <1>0, <1>4, Names
      <4> QED
        BY <4>1, <2>3 DEF M!GoesOn, M!KeyIsAfterNode, Behind
    <3> DEFINE this == IF reader.x = M!HeadNode THEN M!Null ELSE reader.x
    <3>4. /\ Behind(reader.target, reader.x) /\ (load.value = M!Null \/ ~Behind(reader.target, load.value)) =>
              /\ Right("seek", reader.target, reader.from, load.value, reader.snapshot)
              /\ Right("prev", reader.target, reader.from, this, reader.snapshot)
          /\ load.value = M!Null => Right("last", reader.target, reader.from, this, reader.snapshot)
          /\ this \in Ends
      BY <3>2, <1>0, <1>3, <1>4, LandsRight
    <3>5. n = IF reader.op = "seek" THEN load.value ELSE this
      BY DEF M!Found
    <3>6. this = M!Null \/ Visible(this, 1, load.clock)
      BY <3>2, <1>0, <1>3, <1>4, VisibleLonger
    <3>7. load.value = M!Null \/ Visible(load.value, 1, load.clock)
      BY <3>2, <1>4
    <3> HIDE DEF this, n
    <3>8. /\ Right(reader.op, reader.target, reader.from, n, reader.snapshot) /\ n \in Ends
          /\ n = M!Null \/ Visible(n, 1, load.clock)
      BY <3>3, <3>4, <3>5, <3>6, <3>7, <1>3, <1>4
    <3>9. M!HeadNode \in Starts /\ 0 \in 0 .. MaxHeight
      BY <1>0 DEF Starts
    <3>10. r \in ReaderType
      BY <3>1, <3>8, <3>9, <1>3, <1>4 DEF ReaderType, Phases
    <3> QED
      BY <3>1, <3>8, <3>10, <1>3, <1>4 DEF ReaderOK, ReaderType
  <2> QED
    BY <2>1, <2>2, <2>3
<1> QED
  BY <1>2, <1>5, <1>6, ReadsOn

\* A load of max_height_.
LEMMA LoadOfHeight ==
  ASSUME MemInv, refs # 0, NEW c \in 0 .. Len(stores), NEW load \in M!Loads(c, M!HeadNode, 0)
  PROVE  load.value \in 1 .. MaxHeight
<1> DEFINE past == {i \in M!StoresTo(M!HeadNode, 0) : i <= c}
           seen == {i \in M!StoresTo(M!HeadNode, 0) : i > c}
                     \union (IF past = {} THEN {} ELSE {M!Max(past)})
           Clock(i) == IF stores[i].release THEN M!Max({c, i}) ELSE c
<1>0. /\ Len(stores) \in Nat /\ MaxHeight \in Nat \ {0} /\ past \subseteq 0 .. Len(stores)
      /\ \A i \in M!StoresTo(M!HeadNode, 0) : stores[i].value \in 1 .. MaxHeight
  <2>1. \A i \in M!StoresTo(M!HeadNode, 0) : Fields(i, M!HeadNode, 0, stores[i].value)
    BY DEF M!StoresTo, Fields
  <2>2. \A i \in M!StoresTo(M!HeadNode, 0) : stores[i].value \in 1 .. MaxHeight
    BY <2>1 DEF MemInv, LinkInv, TopRight, M!StoresTo
  <2> QED
    BY <2>2, MCMemTableAssumption DEF M!MemTableAssumption, MemInv, MemType, M!StoresTo
<1>1. past # {} => M!Max(past) \in past
  <2> HIDE DEF past
  <2> QED
    BY <1>0, MaxNumber
<1>2. \/ \E i \in seen : load = [value |-> stores[i].value, clock |-> Clock(i)]
      \/ past = {} /\ load = [value |-> M!Unset(M!HeadNode, 0), clock |-> c]
  <2>1. load \in {[value |-> stores[i].value, clock |-> Clock(i)] : i \in seen}
                  \union (IF past # {} THEN {} ELSE {[value |-> M!Unset(M!HeadNode, 0), clock |-> c]})
    BY DEF M!Loads
  <2> HIDE DEF past, seen, Clock
  <2> QED
    BY <2>1
<1>3. \A i \in seen : i \in M!StoresTo(M!HeadNode, 0)
  BY <1>1
<1>4. M!Unset(M!HeadNode, 0) = 1
  BY DEF M!Unset
<1> HIDE DEF past, seen, Clock
<1> QED
  BY <1>0, <1>2, <1>3, <1>4

\* The start of a search.
LEMMA BeginSearchKeeps ==
  ASSUME SharedInv, NEW op \in {"seek", "prev", "last"}, NEW target \in Key,
         M!BeginSearch(op, target),
         op = "seek" => target.seq = reader.snapshot /\ target.user \in UserKeys
  PROVE  SharedInv'
<1>0. /\ ReaderOK(reader) /\ MemInv /\ refs # 0 /\ EntriesType
  BY DEF SharedInv, ReaderInv, MemInv, MemType, RefsInv, M!BeginSearch
<1>1. reader.phase = "idle" /\ reader \in ReaderType /\ reader.clock \in 0 .. Len(stores)
      /\ Links(reader.snapshot, reader.clock)
      /\ (reader.node = M!Null \/ Visible(reader.node, 1, reader.clock))
  BY <1>0 DEF M!BeginSearch, ReaderOK, ReaderType
<1>2. PICK load \in M!Loads(reader.clock, M!HeadNode, 0) :
        M!Read(IF load.value = M!Junk THEN M!Torn(reader)
               ELSE [reader EXCEPT !.phase = "search", !.op = op, !.target = target,
                                   !.from = reader.node, !.x = M!HeadNode, !.level = load.value])
  BY DEF M!BeginSearch
<1>3. load.value \in 1 .. MaxHeight
  BY <1>0, <1>1, LoadOfHeight
<1>3a. load.value \in 0 .. MaxHeight /\ load.value # 0
  BY <1>3, MCMemTableAssumption DEF M!MemTableAssumption
<1>4. /\ UNCHANGED <<entries, stores, published, arena, refs, owned>>
      /\ \/ reader' = M!Torn(reader) /\ load.value = M!Junk
         \/ reader' = [reader EXCEPT !.phase = "search", !.op = op, !.target = target,
                                   !.from = reader.node, !.x = M!HeadNode, !.level = load.value]
  BY <1>2 DEF M!Read
<1>5. load.value # M!Junk
  BY <1>3, <1>0, Names, MCMemTableAssumption DEF M!MemTableAssumption
<1>6. ASSUME NEW r, r = reader' PROVE ReaderOK(r) /\ r.phase # "off"
  <2>1. r = [reader EXCEPT !.phase = "search", !.op = op, !.target = target,
                           !.from = reader.node, !.x = M!HeadNode, !.level = load.value]
    BY <1>4, <1>5, <1>6
  <2>2. r \in ReaderType
    BY <2>1, <1>1, <1>3a DEF ReaderType, Phases, Ops, Starts
  <2> QED
    BY <2>1, <2>2, <1>1, <1>3a DEF ReaderOK, ReaderType, Visible, Behind
<1> QED
  BY <1>1, <1>4, <1>6, ReadsOn

\* A step along the lowest level.
LEMMA FollowKeeps ==
  ASSUME SharedInv, NEW op \in {"first", "next"}, NEW node,
         op = "first" => node = M!HeadNode, op = "next" => node = reader.node,
         M!Follow(op, node)
  PROVE  SharedInv'
<1>0. /\ ReaderOK(reader) /\ MemInv /\ EntriesType /\ MaxHeight \in Nat \ {0}
  BY MCMemTableAssumption DEF SharedInv, ReaderInv, MemInv, MemType, M!MemTableAssumption
<1>1. reader.phase = "idle" /\ reader \in ReaderType /\ reader.target \in Key
      /\ reader.snapshot \in 0 .. Len(entries)
      /\ (reader.node = M!Null \/ Visible(reader.node, 1, reader.clock))
  BY <1>0 DEF M!Follow, ReaderOK, ReaderType
<1>2. PICK load \in M!Loads(reader.clock, node, 1) :
        M!Read(M!Landed([reader EXCEPT !.op = op, !.from = node], load, load.value))
  BY DEF M!Follow
<1>3. node \in Starts /\ (op = "next" => node \in Entered) /\ Visible(node, 1, reader.clock)
  <2>1. CASE op = "first"
    BY <2>1 DEF Starts, Visible
  <2>2. CASE op = "next"
    <3>1. node # M!Null /\ node \in Ends
      BY <2>2, <1>1 DEF M!Follow, ReaderType
    <3> QED
      BY <2>2, <3>1, <1>1 DEF Starts, Ends
  <2> QED
    BY <2>1, <2>2
<1>4. 1 \in 1 .. MaxHeight /\ 0 \in 0 .. MaxHeight /\ M!HeadNode \in Starts
  BY <1>0 DEF Starts
<1>5. /\ load.clock \in 0 .. Len(stores) /\ load.value \in Ends
      /\ Before(node, load.value) /\ M!Whole(load)
      /\ load.value # M!Null => Visible(load.value, 1, load.clock)
      /\ Links(reader.snapshot, load.clock)
      /\ Gap(node, load.value, reader.snapshot)
  BY <1>1, <1>3, <1>4, ReaderLoads
<1>6. /\ UNCHANGED <<entries, stores, published, arena, refs, owned>>
      /\ reader' = [[reader EXCEPT !.op = op, !.from = node] EXCEPT
                      !.phase = "idle", !.node = load.value, !.clock = load.clock,
                      !.x = M!HeadNode, !.level = 0]
  BY <1>2, <1>5 DEF M!Read, M!Landed
<1>7. Right(op, reader.target, node, load.value, reader.snapshot)
  <2>1. /\ node = M!HeadNode => Right("first", reader.target, node, load.value, reader.snapshot)
        /\ node \in Entered /\ Before(node, load.value) =>
              Right("next", reader.target, node, load.value, reader.snapshot)
    BY <1>0, <1>1, <1>3, <1>5, LandsRight
  <2> QED
    BY <2>1, <1>3, <1>5
<1>8. ASSUME NEW r, r = reader' PROVE ReaderOK(r) /\ r.phase # "off"
  <2>1. r = [phase |-> "idle", op |-> op, target |-> reader.target, from |-> node,
             node |-> load.value, x |-> M!HeadNode, level |-> 0, clock |-> load.clock,
             snapshot |-> reader.snapshot]
    BY <1>6, <1>8, <1>1 DEF ReaderType
  <2>2. r \in ReaderType
    BY <2>1, <1>1, <1>3, <1>4, <1>5 DEF ReaderType, Phases, Ops
  <2> QED
    BY <2>1, <2>2, <1>1, <1>5, <1>7 DEF ReaderOK
<1> QED
  BY <1>1, <1>6, <1>8, ReadsOn

\* A reader takes a memtable and gives it back.
LEMMA ReadingKeeps ==
  ASSUME SharedInv, M!StartReading \/ M!StopReading
  PROVE  SharedInv'
<1>0. /\ MemInv /\ PublishedInv /\ ReaderOK(reader) /\ MaxHeight \in Nat
      /\ Len(stores) \in Nat /\ Len(entries) \in Nat
  BY MCMemTableAssumption DEF SharedInv, ReaderInv, M!MemTableAssumption, MemInv, MemType, EntriesType
<1>1. UNCHANGED <<entries, stores, published, arena, owned>>
  BY DEF M!StartReading, M!StopReading
<1>2. /\ 0 \in 0 .. MaxHeight /\ 0 \in 0 .. Len(stores) /\ 0 \in 0 .. Len(entries)
      /\ M!HeadNode \in Starts /\ M!Null \in Ends /\ M!Off.target \in Key
      /\ published.last \in 0 .. Len(entries) /\ published.stores \in 0 .. Len(stores)
      /\ Links(published.last, published.stores)
  BY <1>0 DEF Starts, Ends, M!Off, Key, PublishedInv
<1>3. CASE M!StartReading
  <2>1. /\ reader' = [phase |-> "idle", op |-> "none", target |-> M!Off.target, from |-> M!HeadNode,
                      node |-> M!Null, x |-> M!HeadNode, level |-> 0, clock |-> published.stores,
                      snapshot |-> published.last]
        /\ reader.phase = "off" /\ refs' = refs + 1
    BY <1>3 DEF M!StartReading, M!Off
  <2>2. reader' \in ReaderType
    BY <2>1, <1>2 DEF ReaderType, Phases, Ops
  <2>3. \A r : r = reader' => ReaderOK(r)
    BY <2>1, <2>2, <1>2 DEF ReaderOK, Right
  <2>4. RefsInv'
    <3>1. reader'.phase # "off" /\ reader.phase = "off" /\ refs' = refs + 1 /\ owned' = owned
      BY <2>1, <1>1
    <3> QED
      BY <3>1 DEF SharedInv, RefsInv
  <2> QED
    BY <2>3, <2>4, <1>1, AddsNothing
<1>4. CASE M!StopReading
  <2>1. reader' = M!Off /\ reader.phase = "idle" /\ refs' = refs - 1
    BY <1>4 DEF M!StopReading, M!Unref
  <2>2. M!Off \in ReaderType /\ M!Off.phase = "off" /\ M!Off.op = "none"
    BY <1>2 DEF ReaderType, Phases, Ops, M!Off
  <2>3. \A r : r = reader' => ReaderOK(r)
    BY <2>1, <2>2 DEF ReaderOK
  <2>4. RefsInv'
    <3>1. reader'.phase = "off" /\ reader.phase # "off" /\ refs' = refs - 1 /\ owned' = owned
      BY <2>1, <2>2, <1>1
    <3> QED
      BY <3>1 DEF SharedInv, RefsInv
  <2> QED
    BY <2>3, <2>4, <1>1, AddsNothing
<1> QED
  BY <1>3, <1>4

\* The writer publishes what it has inserted.
LEMMA PublishKeeps ==
  ASSUME SharedInv, M!Publish
  PROVE  SharedInv'
<1>1. UNCHANGED <<entries, stores, refs, owned, reader>> /\ published' = M!Now
  BY DEF M!Publish
<1>2. RefsInv'
  BY <1>1 DEF SharedInv, RefsInv
<1>3. ReaderOK(reader) /\ reader' = reader
  BY <1>1 DEF SharedInv, ReaderInv
<1> QED
  BY <1>1, <1>2, <1>3, AddsNothing

\* The database gives its reference up.
LEMMA DropKeeps ==
  ASSUME SharedInv, M!Drop
  PROVE  SharedInv'
<1>1. UNCHANGED <<entries, stores, published, reader>> /\ owned /\ owned' = FALSE /\ refs' = refs - 1
  BY DEF M!Drop, M!Unref
<1>2. RefsInv'
  <2>1. refs = 1 + (IF reader.phase = "off" THEN 0 ELSE 1)
    BY <1>1 DEF SharedInv, RefsInv
  <2>2. refs' = (IF reader'.phase = "off" THEN 0 ELSE 1)
    BY <1>1, <2>1
  <2>3. (IF owned' THEN 1 ELSE 0) = 0 /\ owned' \in BOOLEAN
    BY <1>1
  <2>4. refs' = (IF owned' THEN 1 ELSE 0) + (IF reader'.phase = "off" THEN 0 ELSE 1)
    BY <2>2, <2>3
  <2> QED
    BY <2>3, <2>4 DEF RefsInv
<1>3. ReaderOK(reader) /\ reader' = reader
  BY <1>1 DEF SharedInv, ReaderInv
<1> QED
  BY <1>1, <1>2, <1>3, AddsNothing

\* An insert while a reader searches.
LEMMA AddKeepsAll ==
  ASSUME SharedInv, NEW user \in UserKeys, NEW h \in M!Heights, M!Add(user, h)
  PROVE  SharedInv'
<1>1. MemInv'
  BY AddKeeps DEF SharedInv
<1>2. UNCHANGED <<published, refs, owned, reader>>
  BY DEF M!Add
<1>3. PICK v, b, prev, next : Adding(user, h, v, b, prev, next)
  BY AddAdds DEF SharedInv, MemInv
<1>4. /\ \A n \in 0 .. Len(entries) : \A c : Links(n, c) => Links(n, c)'
      /\ \A r : ReaderOK(r) => ReaderOK(r)'
  BY <1>3, ReaderAfterAdd DEF SharedInv, MemInv
<1>5. RefsInv'
  BY <1>2 DEF SharedInv, RefsInv
<1>6. ReaderInv'
  <2>1. \A r \in {reader'} : ReaderOK(r)'
    BY <1>2, <1>4 DEF SharedInv, ReaderInv
  <2> QED
    BY <2>1 DEF ReaderInv
<1>7. PublishedInv'
  <2>1. published.last \in 0 .. Len(entries) /\ Links(published.last, published.stores)
    BY DEF SharedInv, PublishedInv
  <2>2. \A last, clock : last = published'.last /\ clock = published'.stores => Links(last, clock)'
    BY <2>1, <1>2, <1>4
  <2>3. 0 .. Len(entries) \subseteq 0 .. Len(entries') /\ 0 .. Len(stores) \subseteq 0 .. Len(stores')
    <3>1. /\ Len(stores) \in Nat /\ b \in Nat /\ h \in Nat /\ b >= Len(stores) /\ Len(entries) \in Nat
      BY <1>3, AddSizes DEF SharedInv, MemInv, MemType, EntriesType
    <3>2. Len(stores') = b + 1 + 2 * h /\ Len(entries') = Len(entries) + 1
      BY <1>3 DEF Adding, Inserted, SharedInv, MemInv, MemType, EntriesType
    <3> QED
      BY <3>1, <3>2
  <2>4. published' \in [last : 0 .. Len(entries'), stores : 0 .. Len(stores')]
    BY <2>3, <1>2 DEF SharedInv, PublishedInv
  <2> QED
    BY <2>2, <2>4 DEF PublishedInv
<1> QED
  BY <1>1, <1>5, <1>6, <1>7 DEF SharedInv

\* A new memtable.
LEMMA SharedInit ==
  ASSUME M!Init
  PROVE  SharedInv
<1>0. /\ entries = << >> /\ stores = << >> /\ published = [last |-> 0, stores |-> 0]
      /\ refs = 1 /\ owned = TRUE /\ reader = M!Off
  BY DEF M!Init
<1>1. /\ Len(entries) = 0 /\ Len(stores) = 0 /\ DOMAIN stores = {} /\ Entered = {}
      /\ entries \in Seq(UserKeys) /\ stores \in Seq(StoreType) /\ Starts = {M!HeadNode} /\ Ends = {M!Null}
      /\ MaxHeight \in Nat \ {0} /\ MaxEntries \in Nat
  <2>1. << >> \in Seq(UserKeys)
    OBVIOUS
  <2>2. << >> \in Seq(StoreType)
    OBVIOUS
  <2> QED
    BY <1>0, <2>1, <2>2, MCMemTableAssumption DEF M!MemTableAssumption, Entered, Starts, Ends
<1>2. MemType
  BY <1>1 DEF MemType, EntriesType
<1>3. \A x, l : M!StoresTo(x, l) = {}
  BY <1>1 DEF M!StoresTo
<1>4. \A x, l : M!Latest(x, l) = M!Unset(x, l)
  BY <1>3 DEF M!Latest
<1>5. Top = 1 /\ M!Latest(M!HeadNode, 1) = M!Null
  BY <1>4 DEF Top, M!Unset
<1>6. LinkInv /\ PlainFirst /\ AllLinked /\ NonePassed
  BY <1>1, <1>5 DEF LinkInv, TopRight, WholeFirst, Sorted, PlainFirst, AllLinked, NonePassed
<1>7. Successors
  BY <1>1, <1>2, <1>5, Names DEF Successors, Before, MemType
<1>8. M!Off \in ReaderType /\ M!Off.phase = "off" /\ M!Off.op = "none"
  BY <1>0, <1>1 DEF ReaderType, Phases, Ops, M!Off, Key
<1>9. ReaderInv
  BY <1>0, <1>8 DEF ReaderInv, ReaderOK
<1>10. PublishedInv
  BY <1>0, <1>1 DEF PublishedInv, Links
<1>11. RefsInv
  BY <1>0, <1>8 DEF RefsInv
<1> QED
  BY <1>2, <1>6, <1>7, <1>9, <1>10, <1>11 DEF SharedInv, MemInv

\* Every step keeps them.
LEMMA SharedStep ==
  ASSUME SharedInv, M!Next
  PROVE  SharedInv'
<1>0. ReaderOK(reader) /\ EntriesType /\ reader.snapshot \in Nat
  BY DEF SharedInv, ReaderInv, MemInv, MemType, ReaderOK, ReaderType, EntriesType
<1>1. CASE \E user \in UserKeys, height \in M!Heights : M!Add(user, height)
  BY <1>1, AddKeepsAll
<1>2. CASE M!Publish \/ M!Drop \/ M!StartReading \/ M!StopReading
  BY <1>2, PublishKeeps, DropKeeps, ReadingKeeps
<1>3. CASE M!Search
  <2>1. ASSUME NEW user \in UserKeys,
               M!BeginSearch("seek", [user |-> user, seq |-> reader.snapshot])
        PROVE  SharedInv'
    <3>1. [user |-> user, seq |-> reader.snapshot] \in Key
      BY <1>0, MCMemTableAssumption DEF M!MemTableAssumption, Key
    <3> QED
      BY <2>1, <3>1, BeginSearchKeeps
  <2>2. ASSUME reader.node \notin {M!Null, M!Junk}, M!BeginSearch("prev", M!KeyOf(reader.node))
        PROVE  SharedInv'
    <3>1. reader.node \in Entered
      BY <1>0, <2>2 DEF ReaderOK, ReaderType, Ends
    <3>2. M!KeyOf(reader.node) \in Key
      BY <1>0, <3>1, KeyType
    <3> QED
      BY <2>2, <3>2, BeginSearchKeeps
  <2>3. ASSUME M!BeginSearch("last", M!Off.target) PROVE SharedInv'
    <3>1. M!Off.target \in Key
      BY DEF M!Off, Key
    <3> QED
      BY <2>3, <3>1, BeginSearchKeeps
  <2> QED
    BY <1>3, <2>1, <2>2, <2>3 DEF M!Search
<1>4. CASE M!SearchStep
  BY <1>4, SearchStepKeeps
<1>5. CASE M!Follow("first", M!HeadNode) \/ M!Follow("next", reader.node)
  BY <1>5, FollowKeeps
<1> QED
  BY <1>1, <1>2, <1>3, <1>4, <1>5 DEF M!Next

-----------------------------------------------------------------------------
(* What the invariant says of the searches.                                  *)

\* A search that has ended has skipped nothing.
LEMMA OpsRight ==
  ASSUME SharedInv, reader.phase = "idle"
  PROVE  M!SkipsNothing
<1> DEFINE last == reader.snapshot
           node == reader.node
           key == reader.target
<1>0. /\ ReaderOK(reader) /\ EntriesType
  BY DEF SharedInv, ReaderInv, MemInv, MemType
<1>1. /\ reader.op \in Ops /\ key \in Key /\ node \in Ends /\ last \in 0 .. Len(entries)
      /\ Right(reader.op, key, reader.from, node, last)
  BY <1>0 DEF ReaderOK, ReaderType
<1>2. /\ M!Surely = 1 .. last /\ 1 .. last \subseteq Entered
      /\ \A n \in Entered : M!KeyOf(n) \in Key /\ n # M!HeadNode /\ n # M!Null
      /\ M!HeadNode # M!Null /\ node # M!HeadNode /\ (node = M!Null \/ node \in Entered)
  <2>1. M!Surely = 1 .. last /\ 1 .. last \subseteq Entered
    BY <1>1, <1>0, Names DEF M!Surely, Entered
  <2>2. \A n \in Entered : M!KeyOf(n) \in Key
    BY <1>0, KeyType
  <2> QED
    BY <1>0, <1>1, <2>1, <2>2, Names DEF Starts, Ends
<1>3. \A a \in Key, c \in Key : ~M!Less(a, c) => a = c \/ M!Less(c, a)
  BY KeyOrder
<1>4. \A n, m \in Entered : M!KeyOf(n) = M!KeyOf(m) => n = m
  BY <1>0, KeyType
<1>5. CASE reader.op = "seek"
  <2>1. /\ \A s \in 1 .. last : Behind(key, s) \/ ~Before(s, node)
        /\ node = M!Null \/ ~Behind(key, node)
    BY <1>1, <1>5 DEF Right
  <2>2. M!UpTo(key, node) = {}
    BY <2>1, <1>2 DEF M!UpTo, M!Between, Behind, Before
  <2> QED
    BY <2>1, <2>2, <1>2, <1>5 DEF M!SkipsNothing, Behind
<1>6. CASE reader.op = "first"
  <2>1. \A s \in 1 .. last : ~Before(s, node)
    BY <1>1, <1>2, <1>6 DEF Right, Gap, Before
  <2>2. IF node = M!Null THEN M!Surely = {} ELSE M!Preceding(M!KeyOf(node)) = {}
    BY <2>1, <1>2 DEF M!Preceding, Before
  <2> QED
    BY <2>2, <1>6 DEF M!SkipsNothing
<1>7. CASE reader.op = "next"
  <2>1. reader.from \in Entered /\ Gap(reader.from, node, last) /\ Before(reader.from, node)
    BY <1>1, <1>7 DEF Right
  <2>2. M!UpTo(M!KeyOf(reader.from), node) \subseteq {reader.from}
    BY <2>1, <1>2, <1>3, <1>4 DEF M!UpTo, M!Between, Gap, Before
  <2> QED
    BY <2>1, <2>2, <1>2, <1>7 DEF M!SkipsNothing, Before
<1>8. CASE reader.op = "prev"
  <2>1. /\ Behind(key, OrHead(node))
        /\ \A s \in 1 .. last : ~(Before(OrHead(node), s) /\ Behind(key, s))
    BY <1>1, <1>8 DEF Right
  <2>2. CASE node = M!Null
    <3>1. M!Preceding(key) = {}
      BY <2>1, <2>2, <1>2 DEF M!Preceding, OrHead, Before, Behind
    <3> QED
      BY <3>1, <2>2, <1>8 DEF M!SkipsNothing
  <2>3. CASE node # M!Null
    <3>1. OrHead(node) = node /\ M!Less(M!KeyOf(node), key)
      BY <2>1, <2>3, <1>2 DEF OrHead, Behind
    <3>2. M!Between(M!KeyOf(node), key) \subseteq {node}
      BY <2>1, <2>3, <3>1, <1>2, <1>3, <1>4 DEF M!Between, Before, Behind
    <3> QED
      BY <3>1, <3>2, <2>3, <1>8 DEF M!SkipsNothing
  <2> QED
    BY <2>2, <2>3
<1>9. CASE reader.op = "last"
  <2>1. \A s \in 1 .. last : ~Before(OrHead(node), s)
    BY <1>1, <1>2, <1>9 DEF Right, Gap, Before
  <2>2. IF node = M!Null THEN M!Surely = {} ELSE M!Following(M!KeyOf(node)) = {}
    BY <2>1, <1>2 DEF M!Following, Before, OrHead
  <2> QED
    BY <2>2, <1>9 DEF M!SkipsNothing
<1>10. CASE reader.op = "none"
  BY <1>10 DEF M!SkipsNothing
<1> QED
  BY <1>1, <1>5, <1>6, <1>7, <1>8, <1>9, <1>10 DEF Ops

\* The entry that Get finds is the newest that the snapshot covers.
LEMMA NewestFound ==
  ASSUME SharedInv, reader.phase = "idle", reader.op = "seek"
  PROVE  M!GetsNewest
<1> DEFINE last == reader.snapshot
           node == reader.node
           key == reader.target
           V == M!Versions(key.user)
<1>0. /\ ReaderOK(reader) /\ EntriesType
  BY DEF SharedInv, ReaderInv, MemInv, MemType
<1>1. /\ key \in Key /\ node \in Ends /\ last \in 0 .. Len(entries) /\ Len(entries) \in Nat
      /\ key.seq = last
      /\ \A s \in 1 .. last : Behind(key, s) \/ ~Before(s, node)
      /\ node = M!Null \/ ~Behind(key, node)
  BY <1>0 DEF ReaderOK, ReaderType, Right, EntriesType
<1>2. /\ 1 .. last \subseteq Entered /\ \A n \in Entered : n # M!HeadNode /\ n # M!Null
      /\ (node = M!Null \/ node \in Entered) /\ node # M!HeadNode
  BY <1>0, <1>1, Names DEF Entered, Ends, Starts
<1>3. V = {s \in 1 .. last : entries[s] = key.user}
  BY DEF M!Versions, M!Surely
<1>4. \A n \in Entered : n \in Nat /\ entries[n] \in Nat /\ M!KeyOf(n) = [user |-> entries[n], seq |-> n]
  <2>1. \A n \in Entered : entries[n] \in UserKeys /\ n \in Nat
    BY <1>0 DEF EntriesType, Entered
  <2> QED
    BY <2>1, MCMemTableAssumption DEF M!MemTableAssumption, M!KeyOf
<1>5. key.user \in Nat /\ key.seq \in Nat
  BY <1>1 DEF Key
<1>6. \A n \in Entered : M!Less(M!KeyOf(n), key) <=>
         entries[n] < key.user \/ (entries[n] = key.user /\ n > last)
  BY <1>1, <1>4 DEF M!Less
<1> HIDE DEF V
<1>7. ASSUME NEW s \in V PROVE node \in Entered /\ entries[node] = key.user /\ node >= s /\ node \in V
  <2>1. s \in 1 .. last /\ entries[s] = key.user /\ s \in Entered /\ s <= last
    BY <1>1, <1>2, <1>3
  <2>2. ~Behind(key, s)
    BY <2>1, <1>1, <1>2, <1>4, <1>5, <1>6 DEF Behind
  <2>3. node # M!Null /\ ~M!Less(M!KeyOf(s), M!KeyOf(node))
    BY <2>1, <2>2, <1>1, <1>2 DEF Before
  <2>4. node \in Entered /\ ~M!Less(M!KeyOf(node), key)
    BY <2>3, <1>1, <1>2 DEF Behind
  <2>5. /\ ~(entries[node] < key.user) /\ ~(entries[node] = key.user /\ node > last)
    BY <2>4, <1>6
  <2>5a. ~(entries[s] < entries[node] \/ (entries[s] = entries[node] /\ s > node))
    <3>1. M!KeyOf(s) = [user |-> entries[s], seq |-> s] /\ M!KeyOf(node) = [user |-> entries[node], seq |-> node]
      BY <2>1, <2>4, <1>4
    <3> QED
      BY <2>3, <3>1 DEF M!Less
  <2>5b. entries[node] \in Nat /\ node \in Nat /\ s \in Nat /\ last \in Nat
    <3>1. entries[node] \in Nat /\ node \in Nat /\ s \in Nat
      BY <2>1, <2>4, <1>4
    <3>2. last \in Nat
      BY ONLY <1>1
    <3> QED
      BY <3>1, <3>2
  <2>6. entries[node] = key.user /\ node >= s /\ node <= last
    <3> HIDE DEF key, node, last
    <3> QED
      BY ONLY <2>1, <2>5, <2>5a, <2>5b, <1>5
  <2>7. node \in 1 .. last
    BY <2>4, <2>6, <1>1 DEF Entered
  <2> QED
    BY <2>4, <2>6, <2>7, <1>3
<1>8. CASE V = {}
  <2>1. ~(node # M!Null /\ entries[node] = key.user)
    <3> SUFFICES ASSUME node # M!Null, entries[node] = key.user PROVE FALSE
      OBVIOUS
    <3>1. node \in Entered /\ ~M!Less(M!KeyOf(node), key)
      BY <1>1, <1>2 DEF Behind
    <3>2. node <= last /\ node \in 1 .. last
      BY <3>1, <1>1, <1>4, <1>6 DEF Entered
    <3> QED
      BY <3>2, <1>3, <1>8
  <2> QED
    BY <2>1, <1>8 DEF M!GetsNewest, V
<1>9. CASE V # {}
  <2>1. node \in V /\ node \in Entered /\ entries[node] = key.user /\ \A s \in V : s <= node
    BY <1>7, <1>9, <1>2, <1>4
  <2>2. V \subseteq 0 .. last /\ last \in Nat
    BY <1>1, <1>3
  <2>3. M!Max(V) \in V /\ \A s \in V : s <= M!Max(V)
    BY <2>1, <2>2, MaxNumber
  <2>4. M!Max(V) = node
    BY <2>1, <2>2, <2>3
  <2> QED
    BY <2>4, <1>9 DEF M!GetsNewest, V
<1> QED
  BY <1>8, <1>9

-----------------------------------------------------------------------------
(* The arena.                                                                *)

RegionType == [block : Nat, at : Nat, bytes : Nat \ {0}, unit : Nat]
ArenaType == [block : Nat, at : Nat, left : 0 .. BlockSize, blocks : Seq(Nat), usage : Nat,
              given : SUBSET RegionType]

\* What is in use: the blocks, and a pointer to each.
Sums(f, blocks, N) ==
  f = [n \in 0 .. N |-> IF n = 0 THEN 0 ELSE f[n - 1] + blocks[n] + Align]
UsedBy(blocks) == (CHOOSE f : Sums(f, blocks, Len(blocks)))[Len(blocks)]

\* The arena is right: regions are in their blocks, where they had to be, and apart;
\* those of the current block are behind where allocation goes on.
ArenaOK(a) ==
  /\ a \in ArenaType
  /\ a.block \in 0 .. Len(a.blocks)
  /\ IF a.block = 0 THEN a.left = 0 ELSE a.at + a.left = a.blocks[a.block]
  /\ \A p \in a.given : /\ p.block \in 1 .. Len(a.blocks)
                        /\ p.at + p.bytes <= a.blocks[p.block]
                        /\ p.at % p.unit = 0
                        /\ p.block = a.block => p.at + p.bytes <= a.at
  /\ \A p, q \in a.given : p # q => M!Apart(p, q)
  /\ IsFiniteSet(a.given)
  /\ a.usage = UsedBy(a.blocks)

ArenaInv == /\ \A a \in {arena} : ArenaOK(a)
            /\ Cardinality(arena.given) = 1 + 2 * Len(entries)

\* The sizes of blocks can be added up.
LEMMA SumsExist ==
  ASSUME NEW blocks, NEW L \in Nat
  PROVE  \E f : Sums(f, blocks, L)
<1> DEFINE Bad == {N \in Nat : ~\E f : Sums(f, blocks, N)}
<1>1. ASSUME Bad # {} PROVE FALSE
  <2>1. PICK N \in Bad : \A m \in Bad : N <= m
    <3>1. Bad \subseteq Nat
      OBVIOUS
    <3> HIDE DEF Bad
    <3> QED
      BY <1>1, <3>1, LeastNumber
  <2>2. CASE N = 0
    <3> DEFINE g == [n \in 0 .. 0 |-> 0]
    <3>1. Sums(g, blocks, 0)
      BY DEF Sums
    <3> QED
      BY <2>1, <2>2, <3>1
  <2>3. CASE N # 0
    <3>1. N - 1 \in Nat /\ N - 1 \notin Bad /\ N \in Nat
      BY <2>1, <2>3
    <3>2. PICK f : Sums(f, blocks, N - 1)
      BY <3>1
    <3> DEFINE g == [n \in 0 .. N |-> IF n = N THEN f[N - 1] + blocks[N] + Align ELSE f[n]]
               h == [n \in 0 .. N |-> IF n = 0 THEN 0 ELSE g[n - 1] + blocks[n] + Align]
    <3>3. ASSUME NEW n \in 0 .. N PROVE g[n] = h[n]
      <4>1. CASE n = N
        <5>1. g[n - 1] = f[N - 1]
          BY <3>1, <4>1, <2>3
        <5> QED
          BY <4>1, <5>1, <2>3
      <4>2. CASE n # N
        <5>1. n \in 0 .. N - 1
          BY <4>2, <3>1
        <5>2. f[n] = IF n = 0 THEN 0 ELSE f[n - 1] + blocks[n] + Align
          BY <3>2, <5>1 DEF Sums
        <5>3. n # 0 => g[n - 1] = f[n - 1]
          BY <5>1, <3>1
        <5> QED
          BY <4>2, <5>2, <5>3
      <4> QED
        BY <4>1, <4>2
    <3>4. g = h
      BY <3>3
    <3>5. Sums(g, blocks, N)
      BY <3>4 DEF Sums
    <3> QED
      BY <2>1, <3>5
  <2> QED
    BY <2>2, <2>3
<1> QED
  BY <1>1

\* One more block adds its size and its place in blocks_.
LEMMA UsedByBlocks ==
  ASSUME NEW blocks \in Seq(Nat), NEW bytes \in Nat
  PROVE  /\ UsedBy(<< >>) = 0
         /\ UsedBy(Append(blocks, bytes)) = UsedBy(blocks) + bytes + Align
<1> DEFINE L == Len(blocks)
           more == Append(blocks, bytes)
           f == CHOOSE g : Sums(g, blocks, L)
           h == CHOOSE g : Sums(g, more, L + 1)
<1>0. L \in Nat /\ L + 1 \in Nat /\ Len(more) = L + 1 /\ more[L + 1] = bytes
      /\ \A n \in 1 .. L : more[n] = blocks[n]
  OBVIOUS
<1> HIDE DEF more
<1>1. Sums(f, blocks, L) /\ Sums(h, more, L + 1)
  BY <1>0, SumsExist
<1>2. /\ \A n \in 0 .. L : f[n] = IF n = 0 THEN 0 ELSE f[n - 1] + blocks[n] + Align
      /\ \A n \in 0 .. L + 1 : h[n] = IF n = 0 THEN 0 ELSE h[n - 1] + more[n] + Align
  BY <1>1 DEF Sums
<1> DEFINE Bad == {n \in 0 .. L : h[n] # f[n]}
<1>3. ASSUME Bad # {} PROVE FALSE
  <2>1. PICK n \in Bad : \A m \in Bad : n <= m
    <3>1. Bad \subseteq Nat
      BY <1>0
    <3> HIDE DEF Bad
    <3> QED
      BY <1>3, <3>1, LeastNumber
  <2> HIDE DEF f, h, L
  <2>2. n \in 0 .. L /\ n \in 0 .. L + 1 /\ h[n] # f[n]
    BY <2>1, <1>0
  <2>3. n # 0
    BY <2>2, <1>2
  <2>4. n - 1 \in 0 .. L /\ n - 1 \notin Bad /\ n \in 1 .. L
    BY <2>1, <2>2, <2>3, <1>0
  <2>5. h[n - 1] = f[n - 1]
    BY <2>4
  <2> QED
    BY <2>2, <2>3, <2>4, <2>5, <1>0, <1>2
<1>4. UsedBy(blocks) = f[L] /\ UsedBy(more) = h[L + 1]
  BY <1>0 DEF UsedBy
<1>5. h[L + 1] = f[L] + bytes + Align
  <2> HIDE DEF f, h, L
  <2>1. L \in 0 .. L /\ L + 1 \in 0 .. L + 1 /\ L + 1 # 0 /\ L + 1 - 1 = L
    BY <1>0
  <2>2. h[L + 1] = h[L] + more[L + 1] + Align
    BY <2>1, <1>2
  <2>3. h[L] = f[L]
    BY <2>1, <1>3
  <2> QED
    BY <2>2, <2>3, <1>0
<1>6. UsedBy(<< >>) = 0
  <2> DEFINE z == CHOOSE g : Sums(g, << >>, 0)
  <2>1. Sums(z, << >>, 0)
    BY SumsExist
  <2>2. z[0] = 0
    BY <2>1 DEF Sums
  <2> QED
    BY <2>2 DEF UsedBy
<1> QED
  BY <1>4, <1>5, <1>6 DEF more

\* The padding of AllocateAligned.
LEMMA Sloppy ==
  ASSUME NEW d \in Nat \ {0}, NEW a \in Nat
  PROVE  (d - (a % d)) % d \in Nat /\ (a + ((d - (a % d)) % d)) % d = 0
<1>1. (a + ((d - (a % d)) % d)) % d = 0
  OBVIOUS
<1>2. (d - (a % d)) % d \in Nat
  <2>1. a % d \in 0 .. d - 1
    OBVIOUS
  <2>2. d - (a % d) \in Nat
    BY <2>1
  <2> QED
    BY <2>2
<1> QED
  BY <1>1, <1>2

\* A region from the rest of the block.
LEMMA TakenOK ==
  ASSUME NEW a, ArenaOK(a), NEW slop \in Nat, NEW bytes \in Nat \ {0}, NEW unit \in Nat \ {0},
         M!Fits(a, slop + bytes), (a.at + slop) % unit = 0
  PROVE  /\ ArenaOK(M!Taken(a, slop, bytes, unit))
         /\ Cardinality(M!Taken(a, slop, bytes, unit).given) = Cardinality(a.given) + 1
<1> DEFINE r == M!Region(a.block, a.at + slop, bytes, unit)
           t == M!Taken(a, slop, bytes, unit)
<1>0. /\ a \in ArenaType /\ BlockSize \in Nat /\ a.at \in Nat /\ a.left \in 0 .. BlockSize /\ a.block \in Nat
      /\ slop + bytes <= a.left /\ a.blocks \in Seq(Nat) /\ a.given \subseteq RegionType
      /\ IsFiniteSet(a.given) /\ a.usage \in Nat
  BY MCMemTableAssumption DEF M!MemTableAssumption, ArenaOK, ArenaType, M!Fits
<1>1. a.block \in 1 .. Len(a.blocks) /\ a.at + a.left = a.blocks[a.block] /\ a.block # 0
  BY <1>0 DEF ArenaOK
<1>2. r = [block |-> a.block, at |-> a.at + slop, bytes |-> bytes, unit |-> unit]
  BY DEF M!Region
<1>3. t = [block |-> a.block, at |-> a.at + slop + bytes, left |-> a.left - (slop + bytes),
           blocks |-> a.blocks, usage |-> a.usage, given |-> a.given \union {r}]
  <2> DEFINE b == [a EXCEPT !.at = a.at + slop + bytes]
             c == [b EXCEPT !.left = b.left - (slop + bytes)]
  <2>1. a = [block |-> a.block, at |-> a.at, left |-> a.left, blocks |-> a.blocks,
             usage |-> a.usage, given |-> a.given]
    BY <1>0 DEF ArenaType
  <2>2. b = [block |-> a.block, at |-> a.at + slop + bytes, left |-> a.left, blocks |-> a.blocks,
             usage |-> a.usage, given |-> a.given]
    BY ONLY <2>1
  <2>t. t = [c EXCEPT !.given = a.given \union {r}]
    BY <2>2 DEF M!Taken
  <2> HIDE DEF b, t, r
  <2>3. c = [block |-> a.block, at |-> a.at + slop + bytes, left |-> a.left - (slop + bytes),
             blocks |-> a.blocks, usage |-> a.usage, given |-> a.given]
    BY ONLY <2>2
  <2> HIDE DEF c
  <2> QED
    BY ONLY <2>3, <2>t
<1> HIDE DEF r, t
<1>4. r \in RegionType /\ r.block = a.block /\ r.at = a.at + slop /\ r.bytes = bytes /\ r.unit = unit
  BY <1>0, <1>2 DEF RegionType
<1>5. t \in ArenaType
  BY <1>0, <1>3, <1>4 DEF ArenaType
<1>6. ASSUME NEW p \in a.given PROVE M!Apart(p, r) /\ M!Apart(r, p) /\ p # r
  <2>1. p \in RegionType /\ p.at \in Nat /\ p.bytes \in Nat \ {0}
    BY <1>0 DEF RegionType
  <2>2. p.block = a.block => p.at + p.bytes <= a.at
    BY DEF ArenaOK
  <2>3. p.block = a.block => p.at + p.bytes <= r.at
    BY <2>1, <2>2, <1>0, <1>4, SMTT(30)
  <2>4. M!Apart(p, r) /\ M!Apart(r, p)
    BY <2>3, <1>4 DEF M!Apart
  <2>5. p # r
    BY <2>1, <2>3, <1>0, <1>4, SMTT(30)
  <2> QED
    BY <2>4, <2>5
<1>7. \A p, q \in t.given : p # q => M!Apart(p, q)
  <2>1. \A p, q \in a.given : p # q => M!Apart(p, q)
    BY DEF ArenaOK
  <2>2. t.given = a.given \union {r}
    BY <1>3
  <2> QED
    BY <2>1, <2>2, <1>6
<1>8. ASSUME NEW p \in t.given
      PROVE  /\ p.block \in 1 .. Len(t.blocks) /\ p.at + p.bytes <= t.blocks[p.block]
             /\ p.at % p.unit = 0 /\ (p.block = t.block => p.at + p.bytes <= t.at)
  <2>1. CASE p \in a.given
    <3>1. /\ p.block \in 1 .. Len(a.blocks) /\ p.at + p.bytes <= a.blocks[p.block]
          /\ p.at % p.unit = 0 /\ (p.block = a.block => p.at + p.bytes <= a.at)
      BY <2>1 DEF ArenaOK
    <3>2. p.at \in Nat /\ p.bytes \in Nat
      BY <2>1, <1>0 DEF RegionType
    <3>3. t.block = a.block /\ t.blocks = a.blocks /\ t.at = a.at + slop + bytes
      BY <1>3
    <3>4. p.at + p.bytes <= a.at => p.at + p.bytes <= a.at + slop + bytes
      BY <1>0, <3>2
    <3> QED
      BY <3>1, <3>3, <3>4
  <2>2. CASE p = r
    <3>1. t.block = a.block /\ t.blocks = a.blocks /\ t.at = a.at + slop + bytes
      BY <1>3
    <3>2. r.at + r.bytes = a.at + slop + bytes /\ r.at % r.unit = 0
      BY <1>4
    <3>3. a.at + slop + bytes <= a.blocks[a.block]
      BY <1>0, <1>1, SMTT(30)
    <3>4. a.at + slop + bytes <= a.at + slop + bytes
      BY <1>0
    <3> QED
      BY <2>2, <3>1, <3>2, <3>3, <3>4, <1>1, <1>4
  <2> QED
    BY <2>1, <2>2, <1>3
<1>9. t.block \in 0 .. Len(t.blocks) /\ t.at + t.left = t.blocks[t.block] /\ t.block # 0
  <2>1. t.block = a.block /\ t.blocks = a.blocks /\ t.at = a.at + slop + bytes
        /\ t.left = a.left - (slop + bytes)
    BY <1>3
  <2>2. a.at + slop + bytes + (a.left - (slop + bytes)) = a.at + a.left
    BY <1>0, SMTT(30)
  <2>3. a.block \in 0 .. Len(a.blocks)
    BY DEF ArenaOK
  <2> QED
    BY <2>1, <2>2, <2>3, <1>1
<1>10. IsFiniteSet(t.given) /\ Cardinality(t.given) = Cardinality(a.given) + 1
  BY <1>0, <1>3, <1>6, FS_AddElement
<1>11. t.usage = UsedBy(t.blocks)
  BY <1>3 DEF ArenaOK
<1> QED
  BY <1>5, <1>7, <1>8, <1>9, <1>10, <1>11 DEF ArenaOK, t

\* An arena of these fields.
Arena(block, at, left, blocks, usage, given) ==
  [block |-> block, at |-> at, left |-> left, blocks |-> blocks, usage |-> usage, given |-> given]

\* A region in a block of its own or in a new one.
LEMMA NewBlockOK ==
  ASSUME NEW a, ArenaOK(a), NEW bytes \in Nat \ {0}, NEW unit \in Nat \ {0}, NEW size \in Nat, bytes <= size,
         NEW block, NEW at, NEW left,
         \/ block = a.block /\ at = a.at /\ left = a.left
         \/ block = Len(a.blocks) + 1 /\ at = bytes /\ left = size - bytes /\ size <= BlockSize
  PROVE  /\ ArenaOK(Arena(block, at, left, Append(a.blocks, size), a.usage + size + Align,
                          a.given \union {M!Region(Len(a.blocks) + 1, 0, bytes, unit)}))
         /\ Cardinality(a.given \union {M!Region(Len(a.blocks) + 1, 0, bytes, unit)})
              = Cardinality(a.given) + 1
<1> DEFINE n == Len(a.blocks) + 1
           r == M!Region(n, 0, bytes, unit)
           t == Arena(block, at, left, Append(a.blocks, size), a.usage + size + Align,
                      a.given \union {r})
<1>a. n = Len(a.blocks) + 1 /\ r = M!Region(n, 0, bytes, unit)
  OBVIOUS
<1>b. \/ block = a.block /\ at = a.at /\ left = a.left
      \/ block = n /\ at = bytes /\ left = size - bytes /\ size <= BlockSize
  OBVIOUS
<1>c. t = [block |-> block, at |-> at, left |-> left, blocks |-> Append(a.blocks, size),
           usage |-> a.usage + size + Align, given |-> a.given \union {r}]
  BY DEF Arena
<1> HIDE DEF n, r, t
<1>0. /\ a \in ArenaType /\ BlockSize \in Nat /\ a.at \in Nat /\ a.left \in 0 .. BlockSize /\ a.block \in Nat
      /\ a.blocks \in Seq(Nat) /\ a.given \subseteq RegionType /\ Len(a.blocks) \in Nat
      /\ IsFiniteSet(a.given) /\ a.usage \in Nat /\ Align \in Nat
  BY MCMemTableAssumption DEF M!MemTableAssumption, ArenaOK, ArenaType
<1>1. /\ Append(a.blocks, size) \in Seq(Nat) /\ Len(Append(a.blocks, size)) = n /\ n \in Nat
      /\ Append(a.blocks, size)[n] = size /\ n \in 1 .. n
      /\ \A i \in 1 .. Len(a.blocks) : Append(a.blocks, size)[i] = a.blocks[i] /\ i \in 1 .. n /\ i # n
  <2> DEFINE more == Append(a.blocks, size)
  <2>1. more \in Seq(Nat) /\ Len(more) = Len(a.blocks) + 1
    BY <1>0
  <2>2. more[Len(a.blocks) + 1] = size /\ \A i \in 1 .. Len(a.blocks) : more[i] = a.blocks[i]
    BY <1>0
  <2>3. \A i \in 1 .. Len(a.blocks) : i \in 1 .. n /\ i # n
    <3>1. Len(a.blocks) \in Nat
      BY <1>0
    <3> QED
      BY ONLY <3>1, <1>a
  <2> HIDE DEF more
  <2>4. n \in Nat /\ n \in 1 .. n
    BY <1>0, <1>a
  <2> QED
    BY <2>1, <2>2, <2>3, <2>4, <1>a DEF more
<1>2. r.block = n /\ r.at = 0 /\ r.bytes = bytes /\ r.unit = unit /\ r \in RegionType
  BY <1>1, <1>a DEF M!Region, RegionType
<1>3. /\ t.block = block /\ t.at = at /\ t.left = left /\ t.blocks = Append(a.blocks, size)
      /\ t.usage = a.usage + size + Align /\ t.given = a.given \union {r}
  BY <1>c
<1>4. block \in Nat /\ at \in Nat /\ left \in 0 .. BlockSize
  BY <1>0, <1>1, <1>b
<1>5. t \in ArenaType
  BY <1>0, <1>1, <1>2, <1>4, <1>c, SMTT(30) DEF ArenaType
<1>6. ASSUME NEW p \in a.given PROVE M!Apart(p, r) /\ M!Apart(r, p) /\ p # r
  <2>1. p.block \in 1 .. Len(a.blocks)
    BY DEF ArenaOK
  <2>2. p.block # n
    BY <2>1, <1>1
  <2> QED
    BY <2>2, <1>2 DEF M!Apart
<1>7. \A p, q \in t.given : p # q => M!Apart(p, q)
  <2>1. \A p, q \in a.given : p # q => M!Apart(p, q)
    BY DEF ArenaOK
  <2> QED
    BY <2>1, <1>3, <1>6
<1>8. ASSUME NEW p \in t.given
      PROVE  /\ p.block \in 1 .. Len(t.blocks) /\ p.at + p.bytes <= t.blocks[p.block]
             /\ p.at % p.unit = 0 /\ (p.block = t.block => p.at + p.bytes <= t.at)
  <2>1. CASE p \in a.given
    <3>1. /\ p.block \in 1 .. Len(a.blocks) /\ p.at + p.bytes <= a.blocks[p.block]
          /\ p.at % p.unit = 0 /\ (p.block = a.block => p.at + p.bytes <= a.at)
      BY <2>1 DEF ArenaOK
    <3>2. p.block # n /\ p.block \in 1 .. n /\ t.blocks[p.block] = a.blocks[p.block] /\ Len(t.blocks) = n
      BY <3>1, <1>1, <1>3
    <3> QED
      BY <3>1, <3>2, <1>3
  <2>2. CASE p = r
    <3>1. 0 % unit = 0 /\ 0 + bytes = bytes /\ bytes <= bytes
      OBVIOUS
    <3>2. a.block # n
      BY <1>0, <1>a DEF ArenaOK
    <3>3. t.blocks[n] = size /\ Len(t.blocks) = n /\ n \in 1 .. n
      BY <1>1, <1>3
    <3>4. t.block = n => t.at = bytes
      BY <1>3, <3>2, <1>b
    <3> QED
      BY <2>2, <3>1, <3>3, <3>4, <1>2
  <2> QED
    BY <2>1, <2>2, <1>3
<1>9. t.block \in 0 .. Len(t.blocks) /\ IF t.block = 0 THEN t.left = 0 ELSE t.at + t.left = t.blocks[t.block]
  <2>1. CASE block = a.block /\ at = a.at /\ left = a.left
    <3>1. a.block \in 0 .. Len(a.blocks) /\ IF a.block = 0 THEN a.left = 0 ELSE a.at + a.left = a.blocks[a.block]
      BY DEF ArenaOK
    <3>2. a.block # 0 => t.blocks[a.block] = a.blocks[a.block]
      BY <3>1, <1>0, <1>1, <1>3
    <3>3. a.block \in 0 .. Len(t.blocks)
      BY <3>1, <1>0, <1>1, <1>3
    <3> QED
      BY <2>1, <3>1, <3>2, <3>3, <1>3
  <2>2. CASE block = n /\ at = bytes /\ left = size - bytes
    <3>1. bytes + (size - bytes) = size /\ n # 0 /\ n \in 0 .. n
      BY <1>0, <1>1
    <3> QED
      BY <2>2, <3>1, <1>1, <1>3
  <2> QED
    BY <2>1, <2>2, <1>b
<1>10. IsFiniteSet(t.given) /\ Cardinality(t.given) = Cardinality(a.given) + 1
  <2>1. r \notin a.given
    BY <1>6
  <2>2. IsFiniteSet(a.given \union {r}) /\ Cardinality(a.given \union {r}) = Cardinality(a.given) + 1
    BY <2>1, <1>0, FS_AddElement
  <2> QED
    BY <2>2, <1>3
<1>11. t.usage = UsedBy(t.blocks)
  <2>1. a.usage = UsedBy(a.blocks)
    BY DEF ArenaOK
  <2>2. UsedBy(Append(a.blocks, size)) = UsedBy(a.blocks) + size + Align
    BY <1>0, UsedByBlocks
  <2> QED
    BY <2>1, <2>2, <1>3
<1> QED
  <2>1. ArenaOK(t) /\ Cardinality(a.given \union {r}) = Cardinality(a.given) + 1
    BY <1>3, <1>5, <1>7, <1>8, <1>9, <1>10, <1>11 DEF ArenaOK
  <2> QED
    BY <2>1 DEF t, r, n

\* An arena with a field changed.
WithBlock(a, v) == [a EXCEPT !.block = v]
WithAt(a, v) == [a EXCEPT !.at = v]
WithLeft(a, v) == [a EXCEPT !.left = v]
WithBlocks(a, v) == [a EXCEPT !.blocks = v]
WithUsage(a, v) == [a EXCEPT !.usage = v]
WithGiven(a, v) == [a EXCEPT !.given = v]
\* One field of an arena after another.
LEMMA FieldChanged ==
  ASSUME NEW b, NEW at, NEW l, NEW bs, NEW u, NEW g, NEW v
  PROVE  /\ WithBlock(Arena(b, at, l, bs, u, g), v) = Arena(v, at, l, bs, u, g)
         /\ WithAt(Arena(b, at, l, bs, u, g), v) = Arena(b, v, l, bs, u, g)
         /\ WithLeft(Arena(b, at, l, bs, u, g), v) = Arena(b, at, v, bs, u, g)
         /\ WithBlocks(Arena(b, at, l, bs, u, g), v) = Arena(b, at, l, v, u, g)
         /\ WithUsage(Arena(b, at, l, bs, u, g), v) = Arena(b, at, l, bs, v, g)
         /\ WithGiven(Arena(b, at, l, bs, u, g), v) = Arena(b, at, l, bs, u, v)
         /\ Arena(b, at, l, bs, u, g).usage = u
BY DEF Arena, WithBlock, WithAt, WithLeft, WithBlocks, WithUsage, WithGiven

\* AllocateFallback.
LEMMA FallbackOK ==
  ASSUME NEW a, ArenaOK(a), NEW bytes \in Nat \ {0}, NEW unit \in Nat \ {0}
  PROVE  /\ ArenaOK(M!AllocateFallback(a, bytes, unit))
         /\ Cardinality(M!AllocateFallback(a, bytes, unit).given) = Cardinality(a.given) + 1
<1> DEFINE n == Len(a.blocks) + 1
           r == M!Region(n, 0, bytes, unit)
           given == a.given \union {r}
           t == M!AllocateFallback(a, bytes, unit)
<1>0. a \in ArenaType /\ BlockSize \in Nat /\ BlockSize \div 4 <= BlockSize /\ BlockSize \div 4 \in Nat
  BY MCMemTableAssumption DEF M!MemTableAssumption, ArenaOK
<1>1. a = Arena(a.block, a.at, a.left, a.blocks, a.usage, a.given)
  BY <1>0 DEF ArenaType, Arena
<1>2. ASSUME NEW size
      PROVE  M!AllocateNewBlock(a, size)
               = Arena(a.block, a.at, a.left, Append(a.blocks, size), a.usage + size + Align, a.given)
  <2> DEFINE b == WithBlocks(a, Append(a.blocks, size))
  <2>1. b = Arena(a.block, a.at, a.left, Append(a.blocks, size), a.usage, a.given)
    BY <1>1, FieldChanged
  <2>2. M!AllocateNewBlock(a, size) = WithUsage(b, b.usage + size + Align)
    BY DEF M!AllocateNewBlock, WithUsage, WithBlocks
  <2> HIDE DEF b
  <2>3. b.usage = a.usage
    BY <2>1 DEF Arena
  <2> QED
    BY <2>1, <2>2, <2>3, FieldChanged
<1>3. CASE bytes > BlockSize \div 4
  <2> DEFINE b == M!AllocateNewBlock(a, bytes)
  <2>1. t = WithGiven(b, given)
    BY <1>3 DEF M!AllocateFallback, WithGiven
  <2> HIDE DEF b, t, r, n, given
  <2>2. t = Arena(a.block, a.at, a.left, Append(a.blocks, bytes), a.usage + bytes + Align, given)
    BY <1>2, <2>1, FieldChanged DEF b
  <2>3. bytes <= bytes /\ bytes \in Nat
    OBVIOUS
  <2>4. t = Arena(a.block, a.at, a.left, Append(a.blocks, bytes), a.usage + bytes + Align,
                  a.given \union {M!Region(Len(a.blocks) + 1, 0, bytes, unit)})
    BY <2>2 DEF given, r, n
  <2>5. ArenaOK(t) /\ Cardinality(a.given \union {M!Region(Len(a.blocks) + 1, 0, bytes, unit)})
                        = Cardinality(a.given) + 1
    BY ONLY ArenaOK(a), bytes \in Nat \ {0}, unit \in Nat \ {0}, <2>3, <2>4, NewBlockOK
  <2>6. t.given = a.given \union {M!Region(Len(a.blocks) + 1, 0, bytes, unit)}
    BY <2>4 DEF Arena
  <2> QED
    BY <2>5, <2>6 DEF t
<1>4. CASE ~(bytes > BlockSize \div 4)
  <2> DEFINE b == M!AllocateNewBlock(a, BlockSize)
             c == WithBlock(b, n)
             d == WithAt(c, bytes)
             e == WithLeft(d, BlockSize - bytes)
             blocks == Append(a.blocks, BlockSize)
             usage == a.usage + BlockSize + Align
  <2>1. t = WithGiven(e, given)
    BY <1>4 DEF M!AllocateFallback, WithGiven, WithLeft, WithAt, WithBlock
  <2>2. b = Arena(a.block, a.at, a.left, blocks, usage, a.given)
    BY <1>2
  <2> HIDE DEF b, t, r, n, given, blocks, usage
  <2>3. c = Arena(n, a.at, a.left, blocks, usage, a.given)
    BY <2>2, FieldChanged
  <2> HIDE DEF c
  <2>4. d = Arena(n, bytes, a.left, blocks, usage, a.given)
    BY <2>3, FieldChanged
  <2> HIDE DEF d
  <2>5. e = Arena(n, bytes, BlockSize - bytes, blocks, usage, a.given)
    BY <2>4, FieldChanged
  <2> HIDE DEF e
  <2>6. t = Arena(n, bytes, BlockSize - bytes, blocks, usage, given)
    BY <2>1, <2>5, FieldChanged
  <2>7. bytes <= BlockSize /\ BlockSize <= BlockSize
    BY <1>0, <1>4
  <2>8. t = Arena(Len(a.blocks) + 1, bytes, BlockSize - bytes, Append(a.blocks, BlockSize),
                  a.usage + BlockSize + Align,
                  a.given \union {M!Region(Len(a.blocks) + 1, 0, bytes, unit)})
    BY <2>6 DEF given, r, n, blocks, usage
  <2>9. ArenaOK(t) /\ Cardinality(a.given \union {M!Region(Len(a.blocks) + 1, 0, bytes, unit)})
                        = Cardinality(a.given) + 1
    BY ONLY ArenaOK(a), bytes \in Nat \ {0}, unit \in Nat \ {0}, <1>0, <2>7, <2>8, NewBlockOK
  <2>10. t.given = a.given \union {M!Region(Len(a.blocks) + 1, 0, bytes, unit)}
    BY <2>8 DEF Arena
  <2> QED
    BY <2>9, <2>10 DEF t
<1> QED
  BY <1>3, <1>4

\* Both kinds of allocation, in the block of now or beyond it.
LEMMA AllocateOK ==
  ASSUME NEW a, ArenaOK(a), NEW bytes \in Nat \ {0}
  PROVE  /\ ArenaOK(M!Allocate(a, bytes)) /\ ArenaOK(M!AllocateAligned(a, bytes))
         /\ Cardinality(M!Allocate(a, bytes).given) = Cardinality(a.given) + 1
         /\ Cardinality(M!AllocateAligned(a, bytes).given) = Cardinality(a.given) + 1
<1>0. a.at \in Nat /\ Align \in Nat \ {0} /\ 0 \in Nat /\ 1 \in Nat \ {0} /\ 0 + bytes = bytes /\ (a.at + 0) % 1 = 0
  BY MCMemTableAssumption DEF M!MemTableAssumption, ArenaOK, ArenaType
<1>1. M!Slop(a) \in Nat /\ (a.at + M!Slop(a)) % Align = 0
  BY <1>0, Sloppy DEF M!Slop
<1>2. /\ ArenaOK(M!Allocate(a, bytes))
      /\ Cardinality(M!Allocate(a, bytes).given) = Cardinality(a.given) + 1
  <2>1. CASE M!Fits(a, bytes)
    <3>1. M!Allocate(a, bytes) = M!Taken(a, 0, bytes, 1)
      BY <2>1 DEF M!Allocate
    <3> QED
      BY <2>1, <3>1, <1>0, TakenOK
  <2>2. CASE ~M!Fits(a, bytes)
    <3>1. M!Allocate(a, bytes) = M!AllocateFallback(a, bytes, 1)
      BY <2>2 DEF M!Allocate
    <3> QED
      BY <3>1, <1>0, FallbackOK
  <2> QED
    BY <2>1, <2>2
<1>3. /\ ArenaOK(M!AllocateAligned(a, bytes))
      /\ Cardinality(M!AllocateAligned(a, bytes).given) = Cardinality(a.given) + 1
  <2>1. CASE M!Fits(a, M!Slop(a) + bytes)
    <3>1. M!AllocateAligned(a, bytes) = M!Taken(a, M!Slop(a), bytes, Align)
      BY <2>1 DEF M!AllocateAligned
    <3> QED
      <4>1. M!Slop(a) \in Nat /\ bytes \in Nat \ {0} /\ Align \in Nat \ {0}
            /\ (a.at + M!Slop(a)) % Align = 0 /\ M!Fits(a, M!Slop(a) + bytes) /\ ArenaOK(a)
        BY <2>1, <1>0, <1>1
      <4>2. /\ ArenaOK(M!Taken(a, M!Slop(a), bytes, Align))
            /\ Cardinality(M!Taken(a, M!Slop(a), bytes, Align).given) = Cardinality(a.given) + 1
        BY ONLY <4>1, TakenOK
      <4> QED
        BY <3>1, <4>2
  <2>2. CASE ~M!Fits(a, M!Slop(a) + bytes)
    <3>1. M!AllocateAligned(a, bytes) = M!AllocateFallback(a, bytes, Align)
      BY <2>2 DEF M!AllocateAligned
    <3> QED
      <4>1. ArenaOK(a) /\ bytes \in Nat \ {0} /\ Align \in Nat \ {0}
        BY <1>0
      <4>2. /\ ArenaOK(M!AllocateFallback(a, bytes, Align))
            /\ Cardinality(M!AllocateFallback(a, bytes, Align).given) = Cardinality(a.given) + 1
        BY ONLY <4>1, FallbackOK
      <4> QED
        BY <3>1, <4>2
  <2> QED
    BY <2>1, <2>2
<1> QED
  BY <1>2, <1>3

-----------------------------------------------------------------------------
(* The arena's share of a step.                                              *)

\* A node takes some bytes.
LEMMA NodeSizes ==
  ASSUME NEW height \in Nat
  PROVE  M!NodeSize(height) \in Nat \ {0}
<1>0. Align \in Nat \ {0}
  BY MCMemTableAssumption DEF M!MemTableAssumption
<1>1. \A x \in Nat \ {0}, y \in Nat \ {0} : x * y \in Nat \ {0}
  OBVIOUS
<1>2. 1 + height \in Nat \ {0}
  OBVIOUS
<1> QED
  BY ONLY <1>0, <1>1, <1>2 DEF M!NodeSize

\* A new arena has given the head of the list.
LEMMA ArenaInit ==
  ASSUME M!Init
  PROVE  ArenaInv
<1>0. BlockSize \in Nat /\ MaxHeight \in Nat
  BY MCMemTableAssumption DEF M!MemTableAssumption
<1>1. UsedBy(<< >>) = 0
  <2>1. << >> \in Seq(Nat) /\ 0 \in Nat
    OBVIOUS
  <2> QED
    BY <2>1, UsedByBlocks
<1>2. ArenaOK(M!NewArena)
  <2>1. M!NewArena \in ArenaType
    BY <1>0 DEF M!NewArena, ArenaType
  <2>2. IsFiniteSet({})
    BY FS_EmptySet
  <2> QED
    BY <2>1, <2>2, <1>1 DEF M!NewArena, ArenaOK
<1>3. Cardinality(M!NewArena.given) = 0
  BY FS_EmptySet DEF M!NewArena
<1>4. ArenaOK(arena) /\ Cardinality(arena.given) = 1
  <2>1. arena = M!AllocateAligned(M!NewArena, M!NodeSize(MaxHeight))
    BY DEF M!Init
  <2>2. M!NodeSize(MaxHeight) \in Nat \ {0}
    BY <1>0, NodeSizes
  <2>3. /\ ArenaOK(M!AllocateAligned(M!NewArena, M!NodeSize(MaxHeight)))
        /\ Cardinality(M!AllocateAligned(M!NewArena, M!NodeSize(MaxHeight)).given)
             = Cardinality(M!NewArena.given) + 1
    BY ONLY <2>2, <1>2, AllocateOK
  <2> QED
    BY <2>1, <2>3, <1>3
<1>5. Len(entries) = 0
  BY DEF M!Init
<1> QED
  BY <1>4, <1>5 DEF ArenaInv

\* An insert allocates the entry and then its node.
LEMMA ArenaAdds ==
  ASSUME EntriesType, ArenaInv, NEW user \in UserKeys, NEW height \in M!Heights, M!Add(user, height)
  PROVE  ArenaInv'
<1> DEFINE one == M!Allocate(arena, EntrySizes[user])
           two == M!AllocateAligned(one, M!NodeSize(height))
<1>0. /\ EntrySizes[user] \in Nat \ {0} /\ height \in Nat
      /\ entries \in Seq(UserKeys) /\ Len(entries) \in Nat
  BY MCMemTableAssumption DEF M!MemTableAssumption, M!Heights, EntriesType
<1>1. ArenaOK(arena) /\ Cardinality(arena.given) = 1 + 2 * Len(entries)
  BY DEF ArenaInv
<1>2. ArenaOK(one) /\ Cardinality(one.given) = Cardinality(arena.given) + 1
  BY <1>0, <1>1, AllocateOK
<1>3. ArenaOK(two) /\ Cardinality(two.given) = Cardinality(one.given) + 1
  <2>1. M!NodeSize(height) \in Nat \ {0}
    BY <1>0, NodeSizes
  <2> HIDE DEF one
  <2> QED
    BY <2>1, <1>2, AllocateOK
<1>4. arena' = two /\ Len(entries') = Len(entries) + 1
  BY <1>0 DEF M!Add
<1> HIDE DEF one, two
<1>5. Cardinality(two.given) = 1 + 2 * (Len(entries) + 1)
  BY <1>0, <1>1, <1>2, <1>3
<1>6. Cardinality(arena'.given) = 1 + 2 * Len(entries')
  BY <1>4, <1>5
<1>7. \A a \in {arena'} : ArenaOK(a)
  BY <1>3, <1>4
<1> QED
  BY <1>6, <1>7 DEF ArenaInv

\* Nothing but an insert allocates.
LEMMA ArenaStep ==
  ASSUME EntriesType, ArenaInv, M!Next \/ UNCHANGED memtableVars
  PROVE  ArenaInv'
<1>1. CASE \E user \in UserKeys, height \in M!Heights : M!Add(user, height)
  BY <1>1, ArenaAdds
<1>2. CASE UNCHANGED <<arena, entries>>
  BY <1>2 DEF ArenaInv
<1>3. UNCHANGED memtableVars => UNCHANGED <<arena, entries>>
  BY DEF memtableVars
<1> QED
  BY <1>1, <1>2, <1>3
  DEF M!Next, M!Publish, M!Drop, M!StartReading, M!StopReading, M!Search, M!BeginSearch,
      M!SearchStep, M!Follow, M!Read

\* The invariant says of the arena what RegionsApart does.
LEMMA ArenaRight ==
  ASSUME ArenaInv
  PROVE  M!RegionsApart
<1>1. ArenaOK(arena) /\ Cardinality(arena.given) = 1 + 2 * Len(entries)
  BY DEF ArenaInv
<1>2. arena.usage = M!Used
  <2>1. arena.usage = UsedBy(arena.blocks)
    BY <1>1 DEF ArenaOK
  <2>2. UsedBy(arena.blocks) = M!Used
    BY DEF UsedBy, Sums, M!Used
  <2> QED
    BY <2>1, <2>2
<1>3. \A p \in arena.given : /\ p.at + p.bytes <= arena.blocks[p.block]
                             /\ p.at % p.unit = 0
                             /\ \A q \in arena.given \ {p} : M!Apart(p, q)
  BY <1>1 DEF ArenaOK
<1>4. M!Cardinality(arena.given) = Cardinality(arena.given)
  BY DEF M!Cardinality, Cardinality
<1> QED
  BY <1>1, <1>2, <1>3, <1>4 DEF M!RegionsApart

\* Every state of the invariant is one of the types.
LEMMA TypesRight ==
  ASSUME SharedInv, ArenaInv
  PROVE  M!TypeOK
<1>1. /\ ReaderOK(reader) /\ EntriesType /\ ArenaOK(arena)
      /\ published \in [last : 0 .. Len(entries), stores : 0 .. Len(stores)]
  BY DEF SharedInv, ReaderInv, MemInv, MemType, PublishedInv, ArenaInv
<1>2. reader.node \in Ends /\ reader.clock \in 0 .. Len(stores)
  BY <1>1 DEF ReaderOK, ReaderType
<1>3. reader.node \in 1 .. M!Null
  BY <1>1, <1>2, MCMemTableAssumption DEF M!MemTableAssumption, Ends, Entered, EntriesType, M!Null
<1>4. refs \in 0 .. 2 /\ owned \in BOOLEAN
  BY DEF SharedInv, RefsInv
<1>5. arena.left \in 0 .. BlockSize
  BY <1>1 DEF ArenaOK, ArenaType
<1> QED
  BY <1>1, <1>2, <1>3, <1>4, <1>5 DEF EntriesType, M!TypeOK

\* The other parts of the run leave the memtable alone.
LEMMA SharedStutters ==
  ASSUME SharedInv, UNCHANGED memtableVars
  PROVE  SharedInv'
<1>1. /\ entries' = entries /\ stores' = stores /\ published' = published
      /\ refs' = refs /\ owned' = owned /\ reader' = reader
  BY DEF memtableVars
<1>2. MemInv'
  BY <1>1, Unstirred DEF SharedInv
<1>3. \A r : ReaderOK(r)' <=> ReaderOK(r)
  BY <1>1, Unstirred DEF SharedInv
<1>4. PublishedInv'
  BY <1>1 DEF SharedInv, PublishedInv, Links, LinkOf
<1>5. RefsInv'
  BY <1>1 DEF SharedInv, RefsInv
<1>6. ReaderInv'
  BY <1>1, <1>3 DEF SharedInv, ReaderInv
<1> QED
  BY <1>2, <1>4, <1>5, <1>6 DEF SharedInv

\* A search of a memtable that is being inserted into misses nothing that was
\* there when it started, finds the newest entry of a key, and reads nothing that
\* is half written; the arena hands out no byte twice.  (SkipList, Arena, MemTable.)
THEOREM SearchesAreSound == MCSpec => []SearchesSound
<1>1. MCInit => SharedInv /\ ArenaInv
  BY SharedInit, ArenaInit DEF MCInit
<1>2. SharedInv /\ ArenaInv /\ [MCNext]_<<part, vars, memtableVars, cacheVars>>
        => (SharedInv /\ ArenaInv)'
  <2> SUFFICES ASSUME SharedInv, ArenaInv, [MCNext]_<<part, vars, memtableVars, cacheVars>>
               PROVE  SharedInv' /\ ArenaInv'
    OBVIOUS
  <2>1. M!Next \/ UNCHANGED memtableVars
    BY DEF MCNext
  <2>2. EntriesType
    BY DEF SharedInv, MemInv, MemType
  <2> QED
    BY <2>1, <2>2, SharedStep, SharedStutters, ArenaStep
<1>3. SharedInv /\ ArenaInv => SearchesSound
  <2> SUFFICES ASSUME SharedInv, ArenaInv PROVE SearchesSound
    OBVIOUS
  <2>1. M!TypeOK /\ M!RegionsApart
    BY TypesRight, ArenaRight
  <2>2. M!NothingTorn
    BY DEF SharedInv, ReaderInv, ReaderOK, ReaderType, Phases, M!NothingTorn
  <2>3. M!SkipsNothing
    BY OpsRight DEF M!SkipsNothing
  <2>4. M!GetsNewest
    BY NewestFound DEF M!GetsNewest
  <2> QED
    BY <2>1, <2>2, <2>3, <2>4 DEF SearchesSound
<1> QED
  BY <1>1, <1>2, <1>3, PTL DEF MCSpec

-----------------------------------------------------------------------------
(* The lists and chains of the cache: a list has each entry of a set, once.  *)

Lists(s, S) ==
  /\ s \in Seq(Slots)
  /\ \A i, j \in 1 .. Len(s) : s[i] = s[j] => i = j
  /\ \A i \in 1 .. Len(s) : s[i] \in S
  /\ \A e \in S : \E i \in 1 .. Len(s) : s[i] = e

\* A list of a set has its entries, each in one place.
LEMMA ListRange ==
  ASSUME NEW s, NEW S, Lists(s, S)
  PROVE  /\ C!Range(s) = S /\ C!IsInjective(s) /\ DOMAIN s = 1 .. Len(s) /\ Len(s) \in Nat
         /\ S \subseteq Slots
<1>1. s \in Seq(Slots) /\ DOMAIN s = 1 .. Len(s) /\ Len(s) \in Nat
  BY DEF Lists
<1>2. \A i \in 1 .. Len(s) : s[i] \in Slots
  BY <1>1
<1>3. C!Range(s) = S
  BY <1>1 DEF Lists, C!Range
<1>4. C!IsInjective(s)
  BY <1>1 DEF Lists, C!IsInjective
<1>5. S \subseteq Slots
  BY <1>2 DEF Lists
<1> QED
  BY <1>1, <1>3, <1>4, <1>5

\* The list of nothing.
LEMMA NothingListed == Lists(<< >>, {})
BY DEF Lists

\* One more entry, at the end or at the front.
LEMMA ListAppend ==
  ASSUME NEW s, NEW S, Lists(s, S), NEW e \in Slots, e \notin S
  PROVE  Lists(Append(s, e), S \union {e}) /\ Lists(<<e>> \o s, S \union {e})
<1>1. s \in Seq(Slots) /\ Len(s) \in Nat
  BY DEF Lists
<1>2. Lists(Append(s, e), S \union {e})
  <2> DEFINE t == Append(s, e)
  <2>1. /\ t \in Seq(Slots) /\ Len(t) = Len(s) + 1 /\ t[Len(s) + 1] = e
        /\ \A i \in 1 .. Len(s) : t[i] = s[i]
    BY <1>1
  <2>2. \A i \in 1 .. Len(s) + 1 : i = Len(s) + 1 \/ i \in 1 .. Len(s)
    BY <1>1
  <2>3. \A i \in 1 .. Len(s) : i # Len(s) + 1 /\ i \in 1 .. Len(s) + 1
    BY <1>1
  <2>4. Len(s) + 1 \in 1 .. Len(s) + 1
    BY <1>1
  <2> HIDE DEF t
  <2>5. \A i \in 1 .. Len(s) : s[i] # e
    BY DEF Lists
  <2>6. \A i, j \in 1 .. Len(t) : t[i] = t[j] => i = j
    BY <2>1, <2>2, <2>3, <2>5 DEF Lists
  <2>7. \A i \in 1 .. Len(t) : t[i] \in S \union {e}
    BY <2>1, <2>2 DEF Lists
  <2>8. \A d \in S \union {e} : \E i \in 1 .. Len(t) : t[i] = d
    BY <2>1, <2>3, <2>4 DEF Lists
  <2> QED
    BY <2>1, <2>6, <2>7, <2>8 DEF Lists, t
<1>3. Lists(<<e>> \o s, S \union {e})
  <2> DEFINE t == <<e>> \o s
  <2>1. /\ t \in Seq(Slots) /\ Len(t) = Len(s) + 1 /\ t[1] = e
        /\ \A i \in 2 .. Len(s) + 1 : t[i] = s[i - 1]
    BY <1>1
  <2>2. \A i \in 1 .. Len(s) + 1 : i = 1 \/ (i \in 2 .. Len(s) + 1 /\ i - 1 \in 1 .. Len(s))
    BY <1>1
  <2>3. \A i \in 1 .. Len(s) : i + 1 \in 2 .. Len(s) + 1 /\ i + 1 \in 1 .. Len(s) + 1 /\ i + 1 - 1 = i
    BY <1>1
  <2>4. 1 \in 1 .. Len(s) + 1
    BY <1>1
  <2> HIDE DEF t
  <2>5. \A i \in 1 .. Len(s) : s[i] # e
    BY DEF Lists
  <2>6. ASSUME NEW i \in 1 .. Len(t), NEW j \in 1 .. Len(t), t[i] = t[j] PROVE i = j
    <3>1. CASE i = 1
      BY <3>1, <2>1, <2>2, <2>5, <2>6
    <3>2. CASE j = 1
      BY <3>2, <2>1, <2>2, <2>5, <2>6
    <3>3. CASE i # 1 /\ j # 1
      <4>1. i - 1 \in 1 .. Len(s) /\ j - 1 \in 1 .. Len(s) /\ t[i] = s[i - 1] /\ t[j] = s[j - 1]
        BY <3>3, <2>1, <2>2
      <4>2. i - 1 = j - 1
        BY <4>1, <2>6 DEF Lists
      <4> QED
        BY <4>2, <2>1, <1>1
    <3> QED
      BY <3>1, <3>2, <3>3
  <2>7. \A i \in 1 .. Len(t) : t[i] \in S \union {e}
    BY <2>1, <2>2 DEF Lists
  <2>8. ASSUME NEW d \in S \union {e} PROVE \E i \in 1 .. Len(t) : t[i] = d
    <3>1. CASE d = e
      BY <3>1, <2>1, <2>4
    <3>2. CASE d \in S
      <4>1. PICK i \in 1 .. Len(s) : s[i] = d
        BY <3>2 DEF Lists
      <4>2. t[i + 1] = s[i + 1 - 1] /\ i + 1 \in 1 .. Len(t) /\ i + 1 - 1 = i
        BY <2>1, <2>3
      <4> QED
        BY <4>1, <4>2
    <3> QED
      BY <3>1, <3>2
  <2> QED
    BY <2>1, <2>6, <2>7, <2>8 DEF Lists, t
<1> QED
  BY <1>2, <1>3

\* An entry taken off a list.
LEMMA ListWithout ==
  ASSUME NEW s, NEW S, Lists(s, S), NEW e
  PROVE  Lists(C!Without(s, e), S \ {e})
<1>1. /\ C!Range(s) = S /\ DOMAIN s = 1 .. Len(s) /\ Len(s) \in Nat
      /\ s \in Seq(Slots)
  BY ListRange DEF Lists
<1>2. CASE e \notin S
  <2>1. C!Without(s, e) = s /\ S \ {e} = S
    BY <1>1, <1>2 DEF C!Without
  <2> QED
    BY <2>1
<1>3. CASE e \in S
  <2> DEFINE k == CHOOSE i \in DOMAIN s : s[i] = e
             t == C!Without(s, e)
  <2>1. k \in 1 .. Len(s) /\ s[k] = e
    BY <1>1, <1>3 DEF Lists
  <2>2. t = SubSeq(s, 1, k - 1) \o SubSeq(s, k + 1, Len(s))
    BY <1>1, <1>3 DEF C!Without, C!RemoveAt
  <2> HIDE DEF k, t
  <2> DEFINE u == SubSeq(s, 1, k - 1)
             v == SubSeq(s, k + 1, Len(s))
  <2>3. /\ u \in Seq(Slots) /\ Len(u) = k - 1
        /\ \A i \in 1 .. k - 1 : u[i] = s[i]
    BY <1>1, <2>1
  <2>4. /\ v \in Seq(Slots) /\ Len(v) = Len(s) - k
        /\ \A i \in 1 .. Len(s) - k : v[i] = s[k + i]
    <3>1. \A i \in k + 1 .. Len(s) : s[i] \in Slots
      BY <1>1, <2>1
    <3>2. k \in Int /\ k + 1 \in Int /\ Len(s) \in Int /\ k <= Len(s) /\ Len(s) - (k + 1) + 1 = Len(s) - k
      BY <1>1, <2>1
    <3>3. /\ v \in Seq(Slots) /\ Len(v) = IF k + 1 <= Len(s) THEN Len(s) - (k + 1) + 1 ELSE 0
          /\ \A i \in 1 .. Len(s) - (k + 1) + 1 : v[i] = s[k + 1 + i - 1]
      BY ONLY <3>1, <3>2, SubSeqProperties
    <3> HIDE DEF v
    <3>4. Len(v) = Len(s) - k
      <4>1. CASE k + 1 <= Len(s)
        BY <4>1, <3>2, <3>3
      <4>2. CASE ~(k + 1 <= Len(s))
        <5>0. \A a, b \in Int : a <= b /\ ~(a + 1 <= b) => b - a = 0
          OBVIOUS
        <5>1. Len(s) - k = 0
          BY ONLY <4>2, <3>2, <5>0
        <5> QED
          BY <4>2, <5>1, <3>3
      <4> QED
        BY <4>1, <4>2
    <3>5. \A i \in 1 .. Len(s) - k : v[i] = s[k + i]
      <4>1. \A i \in 1 .. Len(s) - k : k + 1 + i - 1 = k + i
        BY <3>2
      <4> QED
        BY <3>2, <3>3, <4>1
    <3> QED
      BY <3>3, <3>4, <3>5
  <2> HIDE DEF u, v
  <2>5. /\ t \in Seq(Slots) /\ Len(t) = Len(s) - 1
        /\ \A i \in 1 .. k - 1 : t[i] = s[i]
        /\ \A i \in k .. Len(s) - 1 : t[i] = s[i + 1]
    <3>1. t = u \o v
      BY <2>2 DEF u, v
    <3>2. t \in Seq(Slots) /\ Len(t) = Len(u) + Len(v)
          /\ \A i \in 1 .. Len(u) + Len(v) : t[i] = IF i <= Len(u) THEN u[i] ELSE v[i - Len(u)]
      BY ONLY <3>1, <2>3, <2>4, ConcatProperties
    <3>3. \A i \in 1 .. Len(t) : t[i] = IF i <= k - 1 THEN u[i] ELSE v[i - (k - 1)]
      BY <3>2, <2>3, <2>4
    <3>4. Len(t) = Len(s) - 1
      BY <3>2, <2>3, <2>4, <1>1, <2>1
    <3>5. ASSUME NEW i \in 1 .. k - 1 PROVE t[i] = s[i]
      BY <3>3, <3>4, <2>3, <2>1, <1>1
    <3>6. ASSUME NEW i \in k .. Len(s) - 1 PROVE t[i] = s[i + 1]
      <4>1. i \in 1 .. Len(t) /\ ~(i <= k - 1) /\ i - (k - 1) \in 1 .. Len(s) - k
            /\ k + (i - (k - 1)) = i + 1
        BY <3>4, <2>1, <1>1
      <4> QED
        BY <4>1, <3>3, <2>4
    <3> QED
      BY <3>2, <3>4, <3>5, <3>6
  <2> DEFINE Of(i) == IF i < k THEN i ELSE i + 1
  <2>6. /\ \A i \in 1 .. Len(t) : Of(i) \in 1 .. Len(s) /\ Of(i) # k /\ t[i] = s[Of(i)]
        /\ \A i, j \in 1 .. Len(t) : Of(i) = Of(j) => i = j
    <3>1. \A i \in 1 .. Len(t) : i \in Nat /\ (i < k => i \in 1 .. k - 1) /\ (~(i < k) => i \in k .. Len(s) - 1)
      BY <2>5, <2>1, <1>1
    <3>2. k \in Nat
      BY <2>1
    <3>3. ASSUME NEW i \in 1 .. Len(t) PROVE Of(i) \in 1 .. Len(s) /\ Of(i) # k /\ t[i] = s[Of(i)]
      <4>1. CASE i < k
        BY <4>1, <3>1, <2>5, <2>1, <1>1
      <4>2. CASE ~(i < k)
        BY <4>2, <3>1, <2>5, <2>1, <1>1
      <4> QED
        BY <4>1, <4>2
    <3>4. ASSUME NEW i \in 1 .. Len(t), NEW j \in 1 .. Len(t), Of(i) = Of(j) PROVE i = j
      BY <3>1, <3>2, <3>4
    <3> QED
      BY <3>3, <3>4
  <2>7. \A j \in 1 .. Len(s) : j # k => \E i \in 1 .. Len(t) : Of(i) = j
    <3>1. ASSUME NEW j \in 1 .. Len(s), j < k PROVE j \in 1 .. Len(t) /\ Of(j) = j
      BY <3>1, <2>5, <2>1, <1>1
    <3>2. ASSUME NEW j \in 1 .. Len(s), j > k PROVE j - 1 \in 1 .. Len(t) /\ Of(j - 1) = j
      BY <3>2, <2>5, <2>1, <1>1
    <3> QED
      BY <3>1, <3>2, <2>1, <1>1
  <2> HIDE DEF Of
  <2>8. \A i, j \in 1 .. Len(t) : t[i] = t[j] => i = j
    <3>1. \A i, j \in 1 .. Len(s) : s[i] = s[j] => i = j
      BY DEF Lists
    <3>2. ASSUME NEW i \in 1 .. Len(t), NEW j \in 1 .. Len(t), t[i] = t[j] PROVE i = j
      <4>1. s[Of(i)] = s[Of(j)] /\ Of(i) \in 1 .. Len(s) /\ Of(j) \in 1 .. Len(s)
        BY <2>6, <3>2
      <4>2. Of(i) = Of(j)
        BY <3>1, <4>1
      <4> QED
        BY <2>6, <4>2
    <3> QED
      BY <3>2
  <2>9. \A i \in 1 .. Len(t) : t[i] \in S \ {e}
    BY <2>6, <2>1 DEF Lists
  <2>10. \A d \in S \ {e} : \E i \in 1 .. Len(t) : t[i] = d
    BY <2>6, <2>7, <2>1 DEF Lists
  <2> QED
    BY <2>5, <2>8, <2>9, <2>10 DEF Lists, t
<1> QED
  BY <1>2, <1>3

\* An entry in the place of another.
LEMMA ListSwap ==
  ASSUME NEW s, NEW S, Lists(s, S), NEW o \in S, NEW e \in Slots, e \notin S, NEW old, old = {o}
  PROVE  Lists([i \in DOMAIN s |-> IF s[i] \in old THEN e ELSE s[i]], (S \ {o}) \union {e})
<1> DEFINE t == [i \in DOMAIN s |-> IF s[i] \in old THEN e ELSE s[i]]
<1>1. s \in Seq(Slots) /\ Len(s) \in Nat /\ DOMAIN s = 1 .. Len(s)
  BY DEF Lists
<1>2. t = [i \in 1 .. Len(s) |-> IF s[i] = o THEN e ELSE s[i]]
  BY <1>1
<1>3. t \in Seq(Slots) /\ Len(t) = Len(s)
  <2>1. \A i \in 1 .. Len(s) : s[i] \in Slots
    BY <1>1
  <2> QED
    BY <1>1, <1>2, <2>1
<1>4. \A i \in 1 .. Len(s) : t[i] = IF s[i] = o THEN e ELSE s[i]
  BY <1>2
<1> HIDE DEF t
<1>5. \A i, j \in 1 .. Len(t) : t[i] = t[j] => i = j
  BY <1>3, <1>4 DEF Lists
<1>6. \A i \in 1 .. Len(t) : t[i] \in (S \ {o}) \union {e}
  BY <1>3, <1>4 DEF Lists
<1>7. \A d \in (S \ {o}) \union {e} : \E i \in 1 .. Len(t) : t[i] = d
  BY <1>3, <1>4 DEF Lists
<1> QED
  BY <1>3, <1>5, <1>6, <1>7 DEF Lists, t

-----------------------------------------------------------------------------
(* Loops, which the model writes as functions of the number of turns.        *)

Looping(f, N, base, step) ==
  f = [n \in 0 .. N |-> IF n = 0 THEN base ELSE step[n][f[n - 1]]]

\* A loop of N turns has its results.
LEMMA LoopExists ==
  ASSUME NEW N \in Nat, NEW base, NEW step
  PROVE  \E f : Looping(f, N, base, step)
<1> DEFINE Loop(f, n) == f = [i \in 0 .. n |-> IF i = 0 THEN base ELSE step[i][f[i - 1]]]
           Bad == {n \in Nat : ~\E f : Loop(f, n)}
<1>1. ASSUME Bad # {} PROVE FALSE
  <2>1. PICK n \in Bad : \A m \in Bad : n <= m
    <3>1. Bad \subseteq Nat
      OBVIOUS
    <3> HIDE DEF Bad
    <3> QED
      BY <1>1, <3>1, LeastNumber
  <2>2. CASE n = 0
    <3> DEFINE g == [i \in 0 .. 0 |-> base]
    <3>1. Loop(g, 0)
      OBVIOUS
    <3> QED
      BY <2>1, <2>2, <3>1
  <2>3. CASE n # 0
    <3>1. n - 1 \in Nat /\ n - 1 \notin Bad /\ n \in Nat
      <4>1. n \in Nat
        BY <2>1
      <4> HIDE DEF Bad
      <4>2. \A m \in Bad : n <= m
        BY <2>1
      <4>3. n - 1 \in Nat /\ ~(n <= n - 1)
        BY <4>1, <2>3
      <4> QED
        BY <4>1, <4>2, <4>3
    <3>2. PICK f : Loop(f, n - 1)
      BY <3>1
    <3> DEFINE g == [i \in 0 .. n |-> IF i = n THEN step[n][f[n - 1]] ELSE f[i]]
               h == [i \in 0 .. n |-> IF i = 0 THEN base ELSE step[i][g[i - 1]]]
    <3>3. ASSUME NEW i \in 0 .. n PROVE g[i] = h[i]
      <4>1. CASE i = n
        <5>1. g[i - 1] = f[n - 1]
          BY <3>1, <4>1, <2>3
        <5> QED
          BY <4>1, <5>1, <2>3
      <4>2. CASE i # n
        <5>1. i \in 0 .. n - 1
          BY <4>2, <3>1
        <5>2. f[i] = IF i = 0 THEN base ELSE step[i][f[i - 1]]
          BY <3>2, <5>1
        <5>3. i # 0 => g[i - 1] = f[i - 1]
          BY <5>1, <3>1
        <5> QED
          BY <4>2, <5>2, <5>3
      <4> QED
        BY <4>1, <4>2
    <3>4. g = h
      BY <3>3
    <3>5. Loop(g, n)
      BY <3>4
    <3> QED
      BY <2>1, <3>5
  <2> QED
    BY <2>2, <2>3
<1> QED
  BY <1>1 DEF Looping

\* What each turn of a loop keeps, the loop keeps.
LEMMA LoopKeeps ==
  ASSUME NEW N \in Nat, NEW f, NEW good, f[0] \in good[0],
         \A n \in 1 .. N : f[n - 1] \in good[n - 1] => f[n] \in good[n]
  PROVE  \A n \in 0 .. N : f[n] \in good[n]
<1> DEFINE Bad == {n \in 0 .. N : f[n] \notin good[n]}
<1>1. ASSUME Bad # {} PROVE FALSE
  <2>1. PICK n \in Bad : \A m \in Bad : n <= m
    <3>1. Bad \subseteq Nat
      OBVIOUS
    <3> HIDE DEF Bad
    <3> QED
      BY <1>1, <3>1, LeastNumber
  <2>2. n # 0
    BY <2>1
  <2>3. n \in 1 .. N /\ n - 1 \in 0 .. N /\ n - 1 \notin Bad
    BY <2>1, <2>2
  <2> QED
    BY <2>1, <2>3
<1> QED
  BY <1>1

\* A loop whose turns lead from each set to the next.
LEMMA LoopGood ==
  ASSUME NEW N \in Nat, NEW base, NEW step, NEW good, base \in good[0],
         \A n \in 1 .. N : \A x \in good[n - 1] : step[n][x] \in good[n]
  PROVE  \E f : /\ Looping(f, N, base, step)
                /\ \A n \in 0 .. N : f[n] \in good[n]
<1>1. PICK f : Looping(f, N, base, step)
  BY LoopExists
<1>2. \A n \in 0 .. N : f[n] = IF n = 0 THEN base ELSE step[n][f[n - 1]]
  BY <1>1 DEF Looping
<1>3. f[0] \in good[0]
  BY <1>2
<1>4. \A n \in 1 .. N : f[n - 1] \in good[n - 1] => f[n] \in good[n]
  BY <1>2
<1>5. \A n \in 0 .. N : f[n] \in good[n]
  BY <1>3, <1>4, LoopKeeps
<1> QED
  BY <1>1, <1>5

\* A list behind another one.
LEMMA ListConcat ==
  ASSUME NEW s, NEW S, NEW t, NEW T, Lists(s, S), Lists(t, T), S \cap T = {}
  PROVE  Lists(s \o t, S \union T)
<1> DEFINE u == s \o t
<1>1. s \in Seq(Slots) /\ t \in Seq(Slots) /\ Len(s) \in Nat /\ Len(t) \in Nat
  BY DEF Lists
<1>2. /\ u \in Seq(Slots) /\ Len(u) = Len(s) + Len(t)
      /\ \A i \in 1 .. Len(s) + Len(t) : u[i] = IF i <= Len(s) THEN s[i] ELSE t[i - Len(s)]
  BY ONLY <1>1, ConcatProperties
<1> HIDE DEF u
<1>3. ASSUME NEW i \in 1 .. Len(u)
      PROVE  \/ i \in 1 .. Len(s) /\ u[i] = s[i]
             \/ i \notin 1 .. Len(s) /\ i - Len(s) \in 1 .. Len(t) /\ u[i] = t[i - Len(s)]
  BY <1>1, <1>2
<1>4. \A i \in 1 .. Len(s) : s[i] \in S
  BY DEF Lists
<1>5. \A i \in 1 .. Len(t) : t[i] \in T
  BY DEF Lists
<1>6. ASSUME NEW i \in 1 .. Len(u), NEW j \in 1 .. Len(u), u[i] = u[j] PROVE i = j
  <2>1. CASE i \in 1 .. Len(s) /\ j \in 1 .. Len(s)
    <3>1. u[i] = s[i] /\ u[j] = s[j]
      BY <2>1, <1>3
    <3> QED
      BY <2>1, <3>1, <1>6 DEF Lists
  <2>2. CASE i \notin 1 .. Len(s) /\ j \notin 1 .. Len(s)
    <3>1. i - Len(s) \in 1 .. Len(t) /\ u[i] = t[i - Len(s)] /\ j - Len(s) \in 1 .. Len(t) /\ u[j] = t[j - Len(s)]
      BY <2>2, <1>3
    <3>2. i - Len(s) = j - Len(s)
      BY <3>1, <1>6 DEF Lists
    <3> QED
      BY <3>2, <1>1, <1>2
  <2>3. ASSUME NEW a \in 1 .. Len(u), NEW b \in 1 .. Len(u),
               a \in 1 .. Len(s), b \notin 1 .. Len(s), u[a] = u[b]
        PROVE  FALSE
    <3>1. u[a] = s[a] /\ b - Len(s) \in 1 .. Len(t) /\ u[b] = t[b - Len(s)]
      BY <2>3, <1>3
    <3> QED
      BY <3>1, <2>3, <1>4, <1>5
  <2> QED
    BY <2>1, <2>2, <2>3, <1>6
<1>7. \A i \in 1 .. Len(u) : u[i] \in S \union T
  BY <1>3, <1>4, <1>5
<1>8. ASSUME NEW d \in S \union T PROVE \E i \in 1 .. Len(u) : u[i] = d
  <2>1. CASE d \in S
    <3>1. PICK i \in 1 .. Len(s) : s[i] = d
      BY <2>1 DEF Lists
    <3>2. i \in 1 .. Len(u) /\ i \in 1 .. Len(s) + Len(t) /\ i <= Len(s)
      BY <1>1, <1>2
    <3>3. u[i] = s[i]
      BY <3>2, <1>2
    <3> QED
      BY <3>1, <3>2, <3>3
  <2>2. CASE d \in T
    <3>1. PICK i \in 1 .. Len(t) : t[i] = d
      BY <2>2 DEF Lists
    <3>2. Len(s) + i \in 1 .. Len(s) + Len(t) /\ ~(Len(s) + i <= Len(s)) /\ Len(s) + i - Len(s) = i
      BY <1>1
    <3>3. u[Len(s) + i] = t[i]
      BY <3>2, <1>2
    <3> QED
      BY <3>1, <3>2, <3>3, <1>2
  <2> QED
    BY <2>1, <2>2
<1> QED
  BY <1>2, <1>6, <1>7, <1>8 DEF Lists, u

\* The length of the hash table.
LEMMA LengthsFor ==
  ASSUME NEW elems \in Nat
  PROVE  C!LengthFor(elems) \in Nat \ {0}
<1> DEFINE good == [n \in 0 .. elems |-> Nat \ {0}]
           step == [n \in 1 .. elems |-> [x \in Nat \ {0} |-> C!Doubled(x, elems)]]
           Is(f) == f = [n \in 0 .. elems |-> IF n = 0 THEN MinLength ELSE C!Doubled(f[n - 1], elems)]
           g == CHOOSE f : Is(f)
<1>0. MinLength \in Nat \ {0}
  BY MCTableCacheAssumption DEF C!TableCacheAssumption
<1>1. \A n \in 1 .. elems : \A x \in good[n - 1] : step[n][x] \in good[n]
  BY DEF C!Doubled
<1>2. \A n \in 0 .. elems : good[n] = Nat \ {0}
  OBVIOUS
<1>3. \A n \in 1 .. elems : n - 1 \in 0 .. elems /\ n \in 0 .. elems /\ n # 0
  OBVIOUS
<1>4. \A n \in 1 .. elems : \A x \in Nat \ {0} : step[n][x] = C!Doubled(x, elems)
  OBVIOUS
<1>4a. MinLength \in good[0]
  BY <1>0, <1>2
<1> HIDE DEF good, step
<1>5. PICK f : /\ Looping(f, elems, MinLength, step)
               /\ \A n \in 0 .. elems : f[n] \in good[n]
  BY ONLY elems \in Nat, <1>1, <1>4a, LoopGood
<1>6. Is(f)
  <2>1. f = [n \in 0 .. elems |-> IF n = 0 THEN MinLength ELSE step[n][f[n - 1]]]
    BY <1>5 DEF Looping
  <2>2. \A n \in 0 .. elems : n # 0 => step[n][f[n - 1]] = C!Doubled(f[n - 1], elems)
    BY <1>2, <1>3, <1>4, <1>5
  <2> QED
    BY <2>1, <2>2
<1>7. Is(g)
  BY <1>6
<1> HIDE DEF g
<1>8. /\ g[0] = MinLength /\ \A n \in 1 .. elems : g[n] = C!Doubled(g[n - 1], elems)
  BY <1>7, <1>3
<1>9. \A n \in 1 .. elems : g[n - 1] \in good[n - 1] => g[n] \in good[n]
  <2>1. \A x \in Nat \ {0} : C!Doubled(x, elems) \in Nat \ {0}
    BY DEF C!Doubled
  <2> QED
    BY <2>1, <1>2, <1>3, <1>8
<1>10. \A n \in 0 .. elems : g[n] \in good[n]
  BY <1>0, <1>2, <1>8, <1>9, LoopKeeps
<1>11. g[elems] \in Nat \ {0}
  BY <1>2, <1>10
<1> QED
  BY <1>11 DEF C!LengthFor, g

\* The chains after each other, read from their fronts.
LEMMA AllChains ==
  ASSUME NEW buckets \in Seq(Seq(Slots)), Len(buckets) # 0, NEW Of,
         \A b \in 1 .. Len(buckets) : Lists(buckets[b], Of[b]),
         \A a, b \in 1 .. Len(buckets) : a # b => Of[a] \cap Of[b] = {}
  PROVE  Lists(C!FlattenSeq(buckets), UNION {Of[b] : b \in 1 .. Len(buckets)})
<1> DEFINE N == Len(buckets)
           Upto(n) == UNION {Of[b] : b \in 1 .. n}
           good == [n \in 0 .. N |-> {s \in Seq(Slots) : Lists(s, Upto(n))}]
           step == [n \in 1 .. N |-> [s \in Seq(Slots) |-> s \o buckets[n]]]
           Is(h) == h = [i \in 1 .. N |-> IF i = 1 THEN buckets[i] ELSE h[i - 1] \o buckets[i]]
           g == CHOOSE h : Is(h)
<1>0. /\ N \in Nat /\ N # 0 /\ N = Len(buckets)
      /\ \A n \in 1 .. N : n - 1 \in 0 .. N /\ n \in 0 .. N /\ n # 0 /\ buckets[n] \in Seq(Slots)
      /\ \A n \in 1 .. N : n # 1 => n - 1 \in 1 .. N
  BY DEF Lists
<1> HIDE DEF N
<1>1. \A n \in 0 .. N : \A s : s \in good[n] <=> Lists(s, Upto(n))
  BY DEF Lists
<1>2. \A n \in 1 .. N : \A s \in Seq(Slots) : step[n][s] = s \o buckets[n]
  OBVIOUS
<1> HIDE DEF good, step, Upto
<1>3. ASSUME NEW n \in 1 .. N, NEW s \in good[n - 1] PROVE s \o buckets[n] \in good[n] /\ s \in Seq(Slots)
  <2>1. Lists(s, Upto(n - 1)) /\ Lists(buckets[n], Of[n]) /\ s \in Seq(Slots)
    <3>1. Lists(s, Upto(n - 1))
      BY <1>0, <1>1
    <3>2. Lists(buckets[n], Of[n])
      BY <1>0
    <3> QED
      BY <3>1, <3>2 DEF Lists
  <2>2. Upto(n - 1) \cap Of[n] = {}
    <3>1. \A b \in 1 .. n - 1 : b # n /\ b \in 1 .. Len(buckets) /\ n \in 1 .. Len(buckets)
      BY <1>0
    <3> QED
      BY <3>1 DEF Upto
  <2>3. Upto(n - 1) \union Of[n] = Upto(n)
    <3>1. n \in 1 .. n /\ \A b : b \in 1 .. n <=> b \in 1 .. n - 1 \/ b = n
      BY <1>0
    <3> QED
      BY <3>1 DEF Upto
  <2>4. Lists(s \o buckets[n], Upto(n - 1) \union Of[n])
    BY <2>1, <2>2, ListConcat
  <2> QED
    BY <2>1, <2>3, <2>4, <1>0, <1>1
<1>4. << >> \in good[0]
  <2>1. Upto(0) = {}
    BY DEF Upto
  <2>2. Lists(<< >>, Upto(0)) /\ 0 \in 0 .. N
    <3>1. Lists(<< >>, Upto(0))
      BY ONLY <2>1, NothingListed
    <3>2. 0 \in 0 .. N
      BY <1>0
    <3> QED
      BY <3>1, <3>2
  <2> QED
    BY ONLY <2>2, <1>1
<1>5. PICK f : /\ Looping(f, N, << >>, step)
               /\ \A n \in 0 .. N : f[n] \in good[n]
  <2>1. \A n \in 1 .. N : \A s \in good[n - 1] : step[n][s] \in good[n]
    BY <1>2, <1>3
  <2> QED
    BY ONLY <1>0, <2>1, <1>4, LoopGood
<1>6. \E h : Is(h)
  <2> DEFINE h == [i \in 1 .. N |-> f[i]]
  <2>1. \A n \in 0 .. N : f[n] = IF n = 0 THEN << >> ELSE step[n][f[n - 1]]
    BY <1>5 DEF Looping
  <2>2. \A n \in 1 .. N : f[n] = f[n - 1] \o buckets[n]
    BY <2>1, <1>0, <1>2, <1>3, <1>5
  <2>3. 1 \in 1 .. N /\ f[0] = << >> /\ 1 - 1 = 0
    BY <2>1, <1>0
  <2>4. f[1] = buckets[1]
    <3>1. f[1] = << >> \o buckets[1] /\ buckets[1] \in Seq(Slots)
      BY <2>2, <2>3, <1>0
    <3> QED
      BY <3>1, ConcatEmptySeq
  <2>5. \A i \in 1 .. N : h[i] = IF i = 1 THEN buckets[i] ELSE h[i - 1] \o buckets[i]
    BY <2>2, <2>4, <1>0
  <2>6. Is(h)
    BY <2>5
  <2> QED
    BY <2>6
<1>7. Is(g)
  BY <1>6
<1> HIDE DEF g
<1> DEFINE k == [n \in 0 .. N |-> IF n = 0 THEN << >> ELSE g[n]]
<1>8. k[0] \in good[0] /\ \A n \in 1 .. N : k[n] = k[n - 1] \o buckets[n]
  <2>1. k[0] = << >> /\ \A n \in 1 .. N : k[n] = g[n]
    BY <1>0
  <2>2. ASSUME NEW n \in 1 .. N PROVE k[n] = k[n - 1] \o buckets[n]
    <3>1. g[n] = IF n = 1 THEN buckets[n] ELSE g[n - 1] \o buckets[n]
      BY <1>7
    <3>2. CASE n = 1
      <4>1. k[n - 1] = << >> /\ buckets[n] \in Seq(Slots)
        BY <3>2, <2>1, <1>0
      <4>2. << >> \o buckets[n] = buckets[n]
        BY <4>1, ConcatEmptySeq
      <4> QED
        BY <4>1, <4>2, <3>1, <3>2, <2>1
    <3>3. CASE n # 1
      <4>1. k[n - 1] = g[n - 1]
        BY <3>3, <2>1, <1>0
      <4> QED
        BY <4>1, <3>1, <3>3, <2>1
    <3> QED
      BY <3>2, <3>3
  <2> QED
    BY <2>1, <2>2, <1>4
<1>9. k[N] = g[N]
  BY <1>0
<1> HIDE DEF k
<1>10. \A n \in 1 .. N : k[n - 1] \in good[n - 1] => k[n] \in good[n]
  BY <1>3, <1>8
<1>11. \A n \in 0 .. N : k[n] \in good[n]
  BY <1>0, <1>8, <1>10, LoopKeeps
<1>12. Lists(g[N], Upto(N))
  <2>1. N \in 0 .. N
    BY <1>0
  <2> QED
    BY <2>1, <1>1, <1>9, <1>11
<1>13. C!FlattenSeq(buckets) = g[N]
  BY <1>0 DEF C!FlattenSeq, g, N
<1> QED
  BY <1>12, <1>13 DEF N, Upto

-----------------------------------------------------------------------------
(* The charges add up.                                                       *)

ChargeOf(x) == IF x.inCache THEN Charge[x.key] ELSE 0

\* The entries are numbered, and there are finitely many.
LEMMA SlotNumbers ==
  /\ Cardinality(Slots) \in Nat /\ Slots = 1 .. Cardinality(Slots) /\ IsFiniteSet(Slots)
  /\ \A S : C!Cardinality(S) = Cardinality(S)
<1>1. \A S : C!Cardinality(S) = Cardinality(S)
  BY DEF C!Cardinality, Cardinality
<1>2. \A S : C!IsFiniteSet(S) = IsFiniteSet(S)
  BY DEF C!IsFiniteSet, IsFiniteSet
<1>3. IsFiniteSet(Slots) /\ Slots = 1 .. Cardinality(Slots)
  BY <1>1, <1>2, MCTableCacheAssumption DEF C!TableCacheAssumption
<1>4. Cardinality(Slots) \in Nat
  BY <1>3, FS_CardinalityType
<1> QED
  BY <1>1, <1>3, <1>4

\* The sums of the charges of the first n entries, up to all of them.
AddsUp(a, f, N) ==
  /\ f[0] = 0
  /\ \A n \in 1 .. N : f[n] = f[n - 1] + ChargeOf(a[n])
  /\ \A n \in 0 .. N : f[n] \in Nat
  /\ C!Charges(a) = f[N]

\* The charges can be added up, one entry after the other.
LEMMA ChargesSum ==
  ASSUME NEW a, \A d \in Slots : ChargeOf(a[d]) \in Nat, NEW N, N = Cardinality(Slots)
  PROVE  \E f : AddsUp(a, f, N)
<1> DEFINE good == [n \in 0 .. N |-> Nat]
           step == [n \in 1 .. N |-> [x \in Nat |-> x + ChargeOf(a[n])]]
           Is(f) == f = [n \in {0} \union Slots |->
                          IF n = 0 THEN 0
                          ELSE f[n - 1] + IF a[n].inCache THEN Charge[a[n].key] ELSE 0]
           g == CHOOSE f : Is(f)
<1>0. /\ N \in Nat /\ Slots = 1 .. N /\ {0} \union Slots = 0 .. N /\ C!Cardinality(Slots) = N
      /\ \A n \in 1 .. N : n - 1 \in 0 .. N /\ n \in 0 .. N /\ n # 0 /\ n \in Slots
  BY SlotNumbers
<1>1. /\ \A n \in 0 .. N : good[n] = Nat
      /\ \A n \in 1 .. N : \A x \in Nat : step[n][x] = x + ChargeOf(a[n])
  OBVIOUS
<1> HIDE DEF good, step
<1>a. \A n \in 1 .. N : ChargeOf(a[n]) \in Nat
  BY <1>0
<1>2. \A n \in 1 .. N : \A x \in good[n - 1] : step[n][x] \in good[n]
  <2> SUFFICES ASSUME NEW n \in 1 .. N, NEW x \in good[n - 1] PROVE step[n][x] \in good[n]
    OBVIOUS
  <2>1. good[n - 1] = Nat /\ good[n] = Nat
    BY <1>0, <1>1
  <2>2. step[n][x] = x + ChargeOf(a[n]) /\ x \in Nat /\ ChargeOf(a[n]) \in Nat
    BY <2>1, <1>1, <1>a
  <2> QED
    BY <2>1, <2>2
<1>3. 0 \in good[0]
  BY <1>0, <1>1
<1>4. PICK f : /\ Looping(f, N, 0, step)
               /\ \A n \in 0 .. N : f[n] \in good[n]
  BY ONLY <1>0, <1>2, <1>3, LoopGood
<1>5. Is(f)
  <2>1. f = [n \in 0 .. N |-> IF n = 0 THEN 0 ELSE step[n][f[n - 1]]]
    BY <1>4 DEF Looping
  <2>2. \A n \in 0 .. N : n # 0 => step[n][f[n - 1]] = f[n - 1] + ChargeOf(a[n])
    <3> SUFFICES ASSUME NEW n \in 0 .. N, n # 0 PROVE step[n][f[n - 1]] = f[n - 1] + ChargeOf(a[n])
      OBVIOUS
    <3>1. n \in 1 .. N /\ n - 1 \in 0 .. N
      BY <1>0
    <3>2. f[n - 1] \in Nat
      BY <3>1, <1>1, <1>4
    <3> QED
      BY <3>1, <3>2, <1>1
  <2>3. f = [n \in {0} \union Slots |-> IF n = 0 THEN 0 ELSE step[n][f[n - 1]]]
    BY <2>1, <1>0
  <2>4. \A n \in {0} \union Slots :
          n # 0 => step[n][f[n - 1]] = f[n - 1] + IF a[n].inCache THEN Charge[a[n].key] ELSE 0
    BY <2>2, <1>0 DEF ChargeOf
  <2> QED
    BY ONLY <2>3, <2>4
<1>6. Is(g)
  BY <1>5
<1> HIDE DEF g
<1>7. g[0] = 0
  BY <1>6, <1>0 DEF ChargeOf
<1>8. \A n \in 1 .. N : g[n] = g[n - 1] + ChargeOf(a[n])
  BY <1>6, <1>0 DEF ChargeOf
<1>9. \A n \in 1 .. N : g[n - 1] \in good[n - 1] => g[n] \in good[n]
  <2> SUFFICES ASSUME NEW n \in 1 .. N, g[n - 1] \in good[n - 1] PROVE g[n] \in good[n]
    OBVIOUS
  <2>1. good[n - 1] = Nat /\ good[n] = Nat
    BY <1>0, <1>1
  <2>2. g[n] = g[n - 1] + ChargeOf(a[n]) /\ ChargeOf(a[n]) \in Nat
    BY <1>a, <1>8
  <2> QED
    BY <2>1, <2>2
<1>10. g[0] \in good[0]
  BY <1>3, <1>7
<1>11. \A n \in 0 .. N : g[n] \in good[n]
  BY ONLY <1>0, <1>9, <1>10, LoopKeeps
<1>12. C!Charges(a) = g[N]
  BY <1>0 DEF C!Charges, g
<1> QED
  BY <1>1, <1>7, <1>8, <1>11, <1>12 DEF AddsUp

\* When one entry changes, the sum changes by the charge of that entry.
LEMMA ChargesChange ==
  ASSUME NEW a, NEW b, NEW e \in Slots,
         \A d \in Slots : ChargeOf(a[d]) \in Nat /\ ChargeOf(b[d]) \in Nat,
         \A d \in Slots \ {e} : ChargeOf(b[d]) = ChargeOf(a[d])
  PROVE  /\ C!Charges(a) \in Nat /\ C!Charges(b) \in Nat
         /\ C!Charges(b) + ChargeOf(a[e]) = C!Charges(a) + ChargeOf(b[e])
<1> DEFINE N == Cardinality(Slots)
<1>0. N \in Nat /\ Slots = 1 .. N /\ N = Cardinality(Slots)
  BY SlotNumbers
<1> HIDE DEF N
<1>1. PICK f : /\ f[0] = 0
               /\ \A n \in 1 .. N : f[n] = f[n - 1] + ChargeOf(a[n])
               /\ \A n \in 0 .. N : f[n] \in Nat
               /\ C!Charges(a) = f[N]
  <2>1. \A d \in Slots : ChargeOf(a[d]) \in Nat
    OBVIOUS
  <2>2. \E h : AddsUp(a, h, N)
    BY ONLY <1>0, <2>1, ChargesSum
  <2> QED
    BY <2>2 DEF AddsUp
<1>2. PICK g : /\ g[0] = 0
               /\ \A n \in 1 .. N : g[n] = g[n - 1] + ChargeOf(b[n])
               /\ \A n \in 0 .. N : g[n] \in Nat
               /\ C!Charges(b) = g[N]
  <2>1. \A d \in Slots : ChargeOf(b[d]) \in Nat
    OBVIOUS
  <2>2. \E h : AddsUp(b, h, N)
    BY ONLY <1>0, <2>1, ChargesSum
  <2> QED
    BY <2>2 DEF AddsUp
<1> DEFINE Same(n) == IF n < e THEN g[n] = f[n] ELSE g[n] + ChargeOf(a[e]) = f[n] + ChargeOf(b[e])
           Bad == {n \in 0 .. N : ~Same(n)}
<1>3. ASSUME Bad # {} PROVE FALSE
  <2>1. PICK n \in Bad : \A m \in Bad : n <= m
    <3>1. Bad \subseteq Nat
      OBVIOUS
    <3> HIDE DEF Bad
    <3> QED
      BY <1>3, <3>1, LeastNumber
  <2>2. n \in 0 .. N /\ ~Same(n) /\ e \in 1 .. N
    BY <2>1, <1>0
  <2>3. n # 0
    BY <2>2, <1>1, <1>2
  <2>4. n - 1 \in 0 .. N /\ n - 1 \notin Bad /\ n \in 1 .. N
    BY <2>1, <2>2, <2>3, <1>0
  <2>5. Same(n - 1)
    BY <2>4
  <2>6. /\ f[n] = f[n - 1] + ChargeOf(a[n]) /\ g[n] = g[n - 1] + ChargeOf(b[n])
        /\ f[n - 1] \in Nat /\ g[n - 1] \in Nat /\ ChargeOf(a[n]) \in Nat /\ ChargeOf(b[n]) \in Nat
        /\ ChargeOf(a[e]) \in Nat /\ ChargeOf(b[e]) \in Nat /\ e \in Nat /\ n \in Nat
        /\ n # e => ChargeOf(b[n]) = ChargeOf(a[n])
    BY <2>2, <2>4, <1>0, <1>1, <1>2
  <2>7. CASE n < e
    <3>1. n - 1 < e
      BY <2>6, <2>7
    <3> QED
      BY <2>2, <2>5, <2>6, <2>7, <3>1
  <2>8. CASE n = e
    <3>1. n - 1 < e /\ ~(n < e)
      BY <2>6, <2>8
    <3>2. g[n - 1] = f[n - 1]
      BY <2>5, <3>1
    <3>3. g[n] + ChargeOf(a[e]) = f[n] + ChargeOf(b[e])
      BY <2>6, <2>8, <3>2
    <3> QED
      BY <2>2, <3>1, <3>3
  <2>9. CASE ~(n < e) /\ n # e
    <3>1. ~(n - 1 < e)
      BY <2>6, <2>9
    <3>2. g[n - 1] + ChargeOf(a[e]) = f[n - 1] + ChargeOf(b[e])
      BY <2>5, <3>1
    <3>3. g[n] + ChargeOf(a[e]) = f[n] + ChargeOf(b[e])
      BY <2>6, <2>9, <3>2
    <3> QED
      BY <2>2, <2>9, <3>3
  <2> QED
    BY <2>7, <2>8, <2>9
<1>4. Same(N)
  <2>1. N \in 0 .. N
    BY <1>0
  <2> QED
    BY <2>1, <1>3
<1>5. ~(N < e) /\ N \in 0 .. N
  BY <1>0
<1> QED
  BY <1>1, <1>2, <1>4, <1>5

-----------------------------------------------------------------------------
(* A cache by its parts.  How many handles there are to an entry, what the  *)
(* holders of a handle take its table to be, and which files clients have   *)
(* open that belong to no entry yet is given: H, K and F.  An entry in out  *)
(* is in the cache and not, or no longer, in the hash table.                *)

Kinds == {"mmap", "fd"}
EntryType == [key : {0} \union Tables, file : {"none", "mmap", "fd", "temporary"},
              refs : Nat, inCache : BOOLEAN, live : BOOLEAN]
CacheEntries == [Slots -> EntryType]

\* An entry with h handles, whose holders take its table to be k: its references are
\* the handles and the cache's own.  A slot without an entry has no handle.
EntryOK(x, h, k) ==
  IF x.live
  THEN /\ x.key \in Tables /\ x.file # "none" /\ x.refs # 0
       /\ x.refs = h + IF x.inCache THEN 1 ELSE 0
       /\ h # 0 => x.key = k
  ELSE x = C!NoEntry /\ h = 0

\* What is in the cache, on lru_ and on in_use_, in a chain, and open.
Cached(en) == {d \in Slots : en[d].inCache}
OnlyCached(en) == {d \in Slots : en[d].inCache /\ en[d].refs = 1}
InUse(en) == {d \in Slots : en[d].inCache /\ en[d].refs # 1}
InBucket(en, out, b, length) ==
  {d \in Slots \ out : en[d].inCache /\ 1 + (en[d].key % length) = b}
OfKind(en, kind) == {d \in Slots : en[d].live /\ en[d].file = kind}

\* The entries, the two lists, the hash table and the files are sound.
EntriesOK(en, H, K) == en \in CacheEntries /\ \A d \in Slots : EntryOK(en[d], H[d], K[d])
ListsOK(en, lru, inUse) == Lists(lru, OnlyCached(en)) /\ Lists(inUse, InUse(en))
\* Two entries of a key are one.
OnePerTable(en, out) ==
  \A d, e \in Slots \ out : en[d].inCache /\ en[e].inCache /\ en[d].key = en[e].key => d = e
ChainsOK(en, bu, out) ==
  /\ bu \in Seq(Seq(Slots)) /\ Len(bu) # 0
  /\ \A b \in 1 .. Len(bu) : Lists(bu[b], InBucket(en, out, b, Len(bu)))
FilesOK(en, al, F) ==
  /\ al \in [Kinds -> Nat]
  /\ \A kind \in Kinds : al[kind] + Cardinality(OfKind(en, kind)) + F[kind] = Limits[kind]

\* The cache of these parts, and the invariant of it.
Parts(en, bu, lr, iu, us, al) ==
  [entries |-> en, buckets |-> bu, lru |-> lr, inUse |-> iu, usage |-> us, allowed |-> al]
Whole(c) == c = Parts(c.entries, c.buckets, c.lru, c.inUse, c.usage, c.allowed)
PartsOK(en, bu, lr, iu, us, al, H, K, F, out) ==
  /\ EntriesOK(en, H, K) /\ ListsOK(en, lr, iu) /\ ChainsOK(en, bu, out) /\ OnePerTable(en, out)
  /\ us = C!Charges(en) /\ FilesOK(en, al, F)
CacheOK(c, H, K, F, out) ==
  /\ Whole(c)
  /\ PartsOK(c.entries, c.buckets, c.lru, c.inUse, c.usage, c.allowed, H, K, F, out)

\* One field of a cache or of an entry after another.
WithEntries(c, v) == [c EXCEPT !.entries = v]
WithBuckets(c, v) == [c EXCEPT !.buckets = v]
WithLru(c, v) == [c EXCEPT !.lru = v]
WithInUse(c, v) == [c EXCEPT !.inUse = v]
WithCharge(c, v) == [c EXCEPT !.usage = v]
WithAllowed(c, v) == [c EXCEPT !.allowed = v]

\* A field of a cache after another.
LEMMA PartChanged ==
  ASSUME NEW en, NEW bu, NEW lr, NEW iu, NEW us, NEW al, NEW v, NEW c,
         c = Parts(en, bu, lr, iu, us, al)
  PROVE  /\ WithEntries(c, v) = Parts(v, bu, lr, iu, us, al)
         /\ WithBuckets(c, v) = Parts(en, v, lr, iu, us, al)
         /\ WithLru(c, v) = Parts(en, bu, v, iu, us, al)
         /\ WithInUse(c, v) = Parts(en, bu, lr, v, us, al)
         /\ WithCharge(c, v) = Parts(en, bu, lr, iu, v, al)
         /\ WithAllowed(c, v) = Parts(en, bu, lr, iu, us, v)
         /\ c.entries = en /\ c.buckets = bu /\ c.lru = lr /\ c.inUse = iu /\ c.usage = us
         /\ c.allowed = al
BY DEF Parts, WithEntries, WithBuckets, WithLru, WithInUse, WithCharge, WithAllowed

\* One field of an entry after another.
WithRefs(x, v) == [x EXCEPT !.refs = v]
WithInCache(x, v) == [x EXCEPT !.inCache = v]

\* A field of an entry after another.
LEMMA FieldOfEntry ==
  ASSUME NEW x \in EntryType, NEW v
  PROVE  /\ v \in Nat => WithRefs(x, v) \in EntryType
         /\ v \in BOOLEAN => WithInCache(x, v) \in EntryType
         /\ WithRefs(x, v).refs = v /\ WithRefs(x, v).inCache = x.inCache
         /\ WithRefs(x, v).live = x.live /\ WithRefs(x, v).key = x.key
         /\ WithRefs(x, v).file = x.file
         /\ WithInCache(x, v).refs = x.refs /\ WithInCache(x, v).inCache = v
         /\ WithInCache(x, v).live = x.live /\ WithInCache(x, v).key = x.key
         /\ WithInCache(x, v).file = x.file
BY DEF EntryType, WithRefs, WithInCache

\* An entry with other references.
LEMMA RefsChanged ==
  ASSUME NEW x \in EntryType, NEW v \in Nat, NEW y, y = WithRefs(x, v)
  PROVE  /\ y \in EntryType /\ y.refs = v /\ y.inCache = x.inCache /\ y.live = x.live
         /\ y.key = x.key /\ y.file = x.file
BY FieldOfEntry

\* What an entry is.
LEMMA EntryFields ==
  ASSUME NEW x \in EntryType
  PROVE  /\ x.key \in {0} \union Tables /\ x.key \in Nat /\ x.refs \in Nat
         /\ x.inCache \in BOOLEAN /\ x.live \in BOOLEAN
         /\ x.file \in {"none", "mmap", "fd", "temporary"}
<1>1. /\ x.key \in {0} \union Tables /\ x.refs \in Nat
      /\ x.inCache \in BOOLEAN /\ x.live \in BOOLEAN
      /\ x.file \in {"none", "mmap", "fd", "temporary"}
  BY DEF EntryType
<1>2. Tables \subseteq Nat
  BY MCTableCacheAssumption DEF C!TableCacheAssumption
<1>3. x.key = 0 \/ x.key \in Tables
  BY <1>1
<1>4. x.key \in Nat
  <2>1. CASE x.key = 0
    BY <2>1
  <2>2. CASE x.key \in Tables
    BY <2>2, <1>2
  <2> QED
    BY <1>3, <2>1, <2>2
<1> QED
  BY <1>1, <1>4

\* No entry is none of these.
LEMMA NoEntryIs ==
  /\ C!NoEntry \in EntryType /\ C!NoEntry.live = FALSE /\ C!NoEntry.inCache = FALSE
  /\ C!NoEntry.refs = 0 /\ C!NoEntry.key = 0 /\ C!NoEntry.file = "none"
BY DEF C!NoEntry, EntryType

Replaced(en, e, x) == [en EXCEPT ![e] = x]
OneLess(en, e) == Replaced(en, e, WithRefs(en[e], en[e].refs - 1))

\* What one entry changes of the sets that the lists and chains are about.
LEMMA OneEntry ==
  ASSUME NEW en \in CacheEntries, NEW e \in Slots, NEW x \in EntryType,
         NEW new, new = Replaced(en, e, x)
  PROVE  /\ new \in CacheEntries /\ new[e] = x /\ \A d \in Slots \ {e} : new[d] = en[d]
         /\ Cached(new) = IF x.inCache THEN Cached(en) \union {e} ELSE Cached(en) \ {e}
         /\ OnlyCached(new) = IF x.inCache /\ x.refs = 1 THEN OnlyCached(en) \union {e}
                              ELSE OnlyCached(en) \ {e}
         /\ InUse(new) = IF x.inCache /\ x.refs # 1 THEN InUse(en) \union {e}
                         ELSE InUse(en) \ {e}
         /\ \A kind : OfKind(new, kind) = IF x.live /\ x.file = kind
                                          THEN OfKind(en, kind) \union {e}
                                          ELSE OfKind(en, kind) \ {e}
<1>1. new \in CacheEntries /\ new[e] = x /\ \A d \in Slots \ {e} : new[d] = en[d]
  BY DEF CacheEntries, Replaced
<1> QED
  BY <1>1 DEF Cached, OnlyCached, InUse, OfKind

\* A slot that is freed.
LEMMA Freed ==
  ASSUME NEW en \in CacheEntries, NEW e \in Slots, NEW new, new = Replaced(en, e, C!NoEntry)
  PROVE  /\ new \in CacheEntries /\ new[e] = C!NoEntry /\ \A d \in Slots \ {e} : new[d] = en[d]
         /\ Cached(new) = Cached(en) \ {e}
         /\ OnlyCached(new) = OnlyCached(en) \ {e}
         /\ InUse(new) = InUse(en) \ {e}
         /\ \A kind : OfKind(new, kind) = OfKind(en, kind) \ {e}
<1>1. C!NoEntry \in EntryType
  BY NoEntryIs
<1>2. new \in CacheEntries /\ new[e] = C!NoEntry /\ \A d \in Slots \ {e} : new[d] = en[d]
  BY <1>1 DEF CacheEntries, Replaced
<1>3. new[e].inCache = FALSE /\ new[e].live = FALSE
  BY <1>2, NoEntryIs
<1> QED
  BY <1>2, <1>3 DEF Cached, OnlyCached, InUse, OfKind

\* The entries of a cache, one by one.
LEMMA EntriesRead ==
  ASSUME NEW en \in CacheEntries, NEW d \in Slots
  PROVE  /\ en[d] \in EntryType /\ en[d].key \in Nat /\ en[d].refs \in Nat
         /\ en[d].inCache \in BOOLEAN /\ en[d].live \in BOOLEAN
         /\ en[d].file \in {"none", "mmap", "fd", "temporary"}
<1>1. en[d] \in EntryType
  BY DEF CacheEntries
<1> QED
  BY <1>1, EntryFields

\* The charge of an entry.
LEMMA ChargeNat ==
  ASSUME NEW en, NEW H, NEW K, EntriesOK(en, H, K)
  PROVE  \A d \in Slots : ChargeOf(en[d]) \in Nat
<1> SUFFICES ASSUME NEW d \in Slots PROVE ChargeOf(en[d]) \in Nat
  OBVIOUS
<1>1. EntryOK(en[d], H[d], K[d]) /\ Charge \in [Tables -> Nat]
  BY MCTableCacheAssumption DEF C!TableCacheAssumption, EntriesOK
<1>2. en[d].inCache => en[d].key \in Tables
  BY <1>1, NoEntryIs DEF EntryOK
<1> QED
  BY <1>1, <1>2 DEF ChargeOf

\* What does not touch who is in the cache under which key.
LEMMA SameCached ==
  ASSUME NEW en \in CacheEntries, NEW new \in CacheEntries, NEW e \in Slots,
         \A d \in Slots \ {e} : new[d] = en[d],
         new[e].inCache = en[e].inCache, new[e].inCache => new[e].key = en[e].key,
         NEW bu, NEW out
  PROVE  /\ Cached(new) = Cached(en)
         /\ ChainsOK(en, bu, out) => ChainsOK(new, bu, out)
         /\ OnePerTable(en, out) => OnePerTable(new, out)
         /\ \A d \in Slots : ChargeOf(new[d]) = ChargeOf(en[d])
<1>1. \A d \in Slots : /\ new[d].inCache = en[d].inCache
                       /\ new[d].inCache => new[d].key = en[d].key
  OBVIOUS
<1>2. \A b, length : InBucket(new, out, b, length) = InBucket(en, out, b, length)
  BY <1>1 DEF InBucket
<1>3. Cached(new) = Cached(en)
  BY <1>1 DEF Cached
<1>4. \A d \in Slots : ChargeOf(new[d]) = ChargeOf(en[d])
  BY <1>1 DEF ChargeOf
<1>5. OnePerTable(en, out) => OnePerTable(new, out)
  BY <1>1 DEF OnePerTable
<1> QED
  BY <1>2, <1>3, <1>4, <1>5 DEF ChainsOK

\* The sum of the charges when one of them changes.
LEMMA SameCharges ==
  ASSUME NEW en, NEW H, NEW K, EntriesOK(en, H, K), NEW new,
         NEW e \in Slots, \A d \in Slots \ {e} : new[d] = en[d],
         ChargeOf(new[e]) = ChargeOf(en[e])
  PROVE  C!Charges(new) = C!Charges(en) /\ C!Charges(en) \in Nat
<1>1. \A d \in Slots : ChargeOf(en[d]) \in Nat /\ ChargeOf(new[d]) \in Nat
  <2>1. \A d \in Slots : ChargeOf(en[d]) \in Nat
    BY ChargeNat
  <2>2. \A d \in Slots : ChargeOf(new[d]) = ChargeOf(en[d])
    OBVIOUS
  <2> QED
    BY <2>1, <2>2
<1>2. \A d \in Slots \ {e} : ChargeOf(new[d]) = ChargeOf(en[d])
  OBVIOUS
<1>3. /\ C!Charges(en) \in Nat /\ C!Charges(new) \in Nat
      /\ C!Charges(new) + ChargeOf(en[e]) = C!Charges(en) + ChargeOf(new[e])
  BY <1>1, <1>2, ChargesChange
<1>4. ChargeOf(en[e]) \in Nat
  BY <1>1
<1> QED
  BY <1>3, <1>4

\* Sets of slots are finite.
LEMMA SlotSets ==
  ASSUME NEW S, S \subseteq Slots
  PROVE  IsFiniteSet(S) /\ Cardinality(S) \in Nat
BY SlotNumbers, FS_Subset, FS_CardinalityType

\* A file that an entry gives up is allowed again.
LEMMA EntryReleases ==
  ASSUME NEW en \in CacheEntries, NEW al, NEW F \in [Kinds -> Nat], FilesOK(en, al, F),
         NEW e \in Slots, en[e].live,
         NEW new, new = Replaced(en, e, C!NoEntry)
  PROVE  FilesOK(new, C!Release(al, en[e].file), F)
<1> DEFINE file == en[e].file
           given == C!Release(al, file)
<1>1. /\ new[e] = C!NoEntry /\ \A d \in Slots \ {e} : new[d] = en[d]
      /\ \A kind : OfKind(new, kind) = OfKind(en, kind) \ {e}
  BY Freed
<1>2. al \in [Kinds -> Nat]
  BY DEF FilesOK
<1>3. /\ given \in [Kinds -> Nat]
      /\ \A kind \in Kinds : given[kind] = IF kind = file THEN al[kind] + 1 ELSE al[kind]
  BY <1>2 DEF C!Release
<1> HIDE DEF given
<1>4. ASSUME NEW kind \in Kinds
      PROVE  given[kind] + Cardinality(OfKind(new, kind)) + F[kind] = Limits[kind]
  <2>1. al[kind] + Cardinality(OfKind(en, kind)) + F[kind] = Limits[kind]
    BY DEF FilesOK
  <2>2. IsFiniteSet(OfKind(en, kind)) /\ Cardinality(OfKind(en, kind)) \in Nat
    BY SlotSets DEF OfKind
  <2>3. CASE kind = file
    <3>1. e \in OfKind(en, kind)
      BY <2>3 DEF OfKind
    <3>2. Cardinality(OfKind(en, kind) \ {e}) = Cardinality(OfKind(en, kind)) - 1
      BY <2>2, <3>1, FS_RemoveElement
    <3>3. /\ given[kind] = al[kind] + 1 /\ al[kind] \in Nat /\ F[kind] \in Nat
          /\ Cardinality(OfKind(new, kind)) = Cardinality(OfKind(en, kind)) - 1
      BY <1>1, <1>2, <1>3, <2>3, <3>2
    <3> QED
      BY ONLY <2>1, <2>2, <3>3
  <2>4. CASE kind # file
    <3>1. OfKind(new, kind) = OfKind(en, kind)
      BY <1>1, <2>4 DEF OfKind
    <3> QED
      BY <1>3, <2>1, <2>4, <3>1
  <2> QED
    BY <2>3, <2>4
<1> QED
  BY <1>3, <1>4 DEF FilesOK, given

\* Nor does what touches no file.
LEMMA SameFiles ==
  ASSUME NEW en, NEW new, NEW e \in Slots, \A d \in Slots \ {e} : new[d] = en[d],
         new[e].live = en[e].live, new[e].file = en[e].file,
         NEW al, NEW F, FilesOK(en, al, F)
  PROVE  FilesOK(new, al, F)
<1>1. \A kind : OfKind(new, kind) = OfKind(en, kind)
  BY DEF OfKind
<1> QED
  BY <1>1 DEF FilesOK

-----------------------------------------------------------------------------
(* References.                                                              *)

\* What DeleteEntry and Unref do to the parts.
LEMMA DeleteIs ==
  ASSUME NEW c, NEW e, Whole(c)
  PROVE  C!DeleteEntry(c, e)
           = Parts(Replaced(c.entries, e, C!NoEntry), c.buckets, c.lru, c.inUse, c.usage,
                   C!Release(c.allowed, c.entries[e].file))
<1> DEFINE v == Replaced(c.entries, e, C!NoEntry)
           w == C!Release(c.allowed, c.entries[e].file)
           d == WithEntries(c, v)
<1>0. c = Parts(c.entries, c.buckets, c.lru, c.inUse, c.usage, c.allowed)
  BY DEF Whole
<1>1. C!DeleteEntry(c, e) = WithAllowed(d, w)
  BY DEF C!DeleteEntry, WithAllowed, WithEntries, Replaced
<1> HIDE DEF v, w
<1>3. d = Parts(v, c.buckets, c.lru, c.inUse, c.usage, c.allowed)
  BY <1>0, PartChanged
<1> HIDE DEF d
<1>4. WithAllowed(d, w) = Parts(v, c.buckets, c.lru, c.inUse, c.usage, w)
  BY <1>3, PartChanged
<1> QED
  BY <1>1, <1>4 DEF v, w

\* What Unref does in each of its three cases.
LEMMA UnrefIs ==
  ASSUME NEW c, NEW e, Whole(c)
  PROVE  /\ c.entries[e].refs - 1 = 0 => C!Unref(c, e) = C!DeleteEntry(c, e)
         /\ c.entries[e].refs - 1 # 0 /\ ~(c.entries[e].refs - 1 = 1 /\ c.entries[e].inCache)
              => C!Unref(c, e) = Parts(OneLess(c.entries, e), c.buckets, c.lru, c.inUse,
                                       c.usage, c.allowed)
         /\ c.entries[e].refs - 1 # 0 /\ c.entries[e].refs - 1 = 1 /\ c.entries[e].inCache
              => C!Unref(c, e) = Parts(OneLess(c.entries, e), c.buckets, Append(c.lru, e),
                                       C!Without(c.inUse, e), c.usage, c.allowed)
<1> DEFINE left == c.entries[e].refs - 1
           v == OneLess(c.entries, e)
           d == WithEntries(c, v)
<1>1. c = Parts(c.entries, c.buckets, c.lru, c.inUse, c.usage, c.allowed)
  BY DEF Whole
<1>2. ASSUME left = 0 PROVE C!Unref(c, e) = C!DeleteEntry(c, e)
  BY <1>2 DEF C!Unref
<1>3. ASSUME left # 0, ~(left = 1 /\ c.entries[e].inCache)
      PROVE  C!Unref(c, e) = Parts(v, c.buckets, c.lru, c.inUse, c.usage, c.allowed)
  <2> DEFINE f == WithInUse(d, c.inUse)
  <2>1. C!Unref(c, e) = WithLru(f, c.lru)
    BY <1>3 DEF C!Unref, WithLru, WithInUse, WithEntries, Replaced, WithRefs, OneLess
  <2> HIDE DEF v
  <2>2. d = Parts(v, c.buckets, c.lru, c.inUse, c.usage, c.allowed)
    BY <1>1, PartChanged
  <2> HIDE DEF d
  <2>3. f = Parts(v, c.buckets, c.lru, c.inUse, c.usage, c.allowed)
    BY <2>2, PartChanged
  <2> HIDE DEF f
  <2>4. WithLru(f, c.lru) = Parts(v, c.buckets, c.lru, c.inUse, c.usage, c.allowed)
    BY <2>3, PartChanged
  <2> QED
    BY <2>1, <2>4
<1>4. ASSUME left # 0, left = 1, c.entries[e].inCache
      PROVE  C!Unref(c, e) = Parts(v, c.buckets, Append(c.lru, e), C!Without(c.inUse, e),
                                   c.usage, c.allowed)
  <2> DEFINE l == Append(c.lru, e)
             i == C!Without(c.inUse, e)
             f == WithInUse(d, i)
  <2>1. C!Unref(c, e) = WithLru(f, l)
    BY <1>4 DEF C!Unref, WithLru, WithInUse, WithEntries, Replaced, WithRefs, OneLess
  <2> HIDE DEF v, l, i
  <2>2. d = Parts(v, c.buckets, c.lru, c.inUse, c.usage, c.allowed)
    BY <1>1, PartChanged
  <2> HIDE DEF d
  <2>3. f = Parts(v, c.buckets, c.lru, i, c.usage, c.allowed)
    BY <2>2, PartChanged
  <2> HIDE DEF f
  <2>4. WithLru(f, l) = Parts(v, c.buckets, l, i, c.usage, c.allowed)
    BY <2>3, PartChanged
  <2> QED
    BY <2>1, <2>4 DEF l, i
<1> QED
  BY <1>2, <1>3, <1>4

\* A cache is sound when its parts are.
LEMMA CacheOfParts ==
  ASSUME NEW en, NEW bu, NEW lr, NEW iu, NEW us, NEW al, NEW H, NEW K, NEW F, NEW out,
         NEW c, c = Parts(en, bu, lr, iu, us, al)
  PROVE  CacheOK(c, H, K, F, out) <=> PartsOK(en, bu, lr, iu, us, al, H, K, F, out)
<1>1. /\ c.entries = en /\ c.buckets = bu /\ c.lru = lr /\ c.inUse = iu /\ c.usage = us
      /\ c.allowed = al
  BY DEF Parts
<1> QED
  BY <1>1 DEF CacheOK, Whole

\* A handle given back: the entry goes to lru_ when only the cache refers to it any
\* more, and is deleted when nobody does.
LEMMA UnrefOK ==
  ASSUME NEW c, NEW H \in [Slots -> Nat], NEW K, NEW F \in [Kinds -> Nat], NEW out,
         CacheOK(c, H, K, F, out),
         NEW e \in Slots, H[e] # 0, NEW G, G = Replaced(H, e, H[e] - 1)
  PROVE  CacheOK(C!Unref(c, e), G, K, F, out)
<1> DEFINE en == c.entries
           bu == c.buckets
           lr == c.lru
           iu == c.inUse
           us == c.usage
           al == c.allowed
           left == en[e].refs - 1
           x == WithRefs(en[e], left)
<1>a. PartsOK(en, bu, lr, iu, us, al, H, K, F, out) /\ Whole(c)
  BY DEF CacheOK
<1>b. /\ left = 0 => C!Unref(c, e) = C!DeleteEntry(c, e)
      /\ left # 0 /\ ~(left = 1 /\ en[e].inCache)
           => C!Unref(c, e) = Parts(OneLess(en, e), bu, lr, iu, us, al)
      /\ left # 0 /\ left = 1 /\ en[e].inCache
           => C!Unref(c, e) = Parts(OneLess(en, e), bu, Append(lr, e), C!Without(iu, e), us, al)
  BY <1>a, UnrefIs
<1>c. C!DeleteEntry(c, e) = Parts(Replaced(en, e, C!NoEntry), bu, lr, iu, us,
                                  C!Release(al, en[e].file))
  BY <1>a, DeleteIs
<1> HIDE DEF en, bu, lr, iu, us, al
<1>0. /\ EntriesOK(en, H, K) /\ ListsOK(en, lr, iu) /\ ChainsOK(en, bu, out) /\ OnePerTable(en, out)
      /\ us = C!Charges(en) /\ FilesOK(en, al, F)
  BY <1>a DEF PartsOK
<1>1. en \in CacheEntries /\ \A d \in Slots : EntryOK(en[d], H[d], K[d])
  BY <1>0 DEF EntriesOK
<1>2. /\ en[e] \in EntryType /\ en[e].refs \in Nat /\ en[e].inCache \in BOOLEAN
      /\ en[e].live \in BOOLEAN
  BY <1>1, EntriesRead
<1>3. H[e] \in Nat /\ G[e] = H[e] - 1 /\ G[e] \in Nat /\ \A d \in Slots \ {e} : G[d] = H[d]
  BY DEF Replaced
<1>4. /\ en[e].live /\ en[e].key \in Tables /\ en[e].file # "none" /\ en[e].refs # 0
      /\ en[e].refs = H[e] + (IF en[e].inCache THEN 1 ELSE 0)
      /\ en[e].key = K[e]
  BY <1>1 DEF EntryOK
<1>5. left \in Nat /\ left = G[e] + IF en[e].inCache THEN 1 ELSE 0
  BY <1>2, <1>3, <1>4
<1> HIDE DEF left
<1>6. CASE left = 0
  <2> DEFINE new == Replaced(en, e, C!NoEntry)
             given == C!Release(al, en[e].file)
  <2>1. ~en[e].inCache /\ G[e] = 0
    BY <1>2, <1>3, <1>5, <1>6
  <2>2. /\ new \in CacheEntries /\ new[e] = C!NoEntry /\ \A d \in Slots \ {e} : new[d] = en[d]
        /\ OnlyCached(new) = OnlyCached(en) \ {e} /\ InUse(new) = InUse(en) \ {e}
    BY <1>1, Freed
  <2>3. e \notin OnlyCached(en) /\ e \notin InUse(en)
    BY <2>1 DEF OnlyCached, InUse
  <2>4. FilesOK(new, given, F)
    BY <1>0, <1>1, <1>4, EntryReleases
  <2> HIDE DEF new, given
  <2>5. C!NoEntry.live = FALSE /\ C!NoEntry.inCache = FALSE
    BY NoEntryIs
  <2>6. EntriesOK(new, G, K)
    <3>1. ASSUME NEW d \in Slots PROVE EntryOK(new[d], G[d], K[d])
      <4>1. CASE d = e
        BY <2>1, <2>2, <2>5, <4>1 DEF EntryOK
      <4>2. CASE d # e
        BY <1>1, <1>3, <2>2, <4>2
      <4> QED
        BY <4>1, <4>2
    <3> QED
      BY <2>2, <3>1 DEF EntriesOK
  <2>7. ListsOK(new, lr, iu)
    <3>1. OnlyCached(new) = OnlyCached(en) /\ InUse(new) = InUse(en)
      BY <2>2, <2>3
    <3> QED
      BY <1>0, <3>1 DEF ListsOK
  <2>8. new[e].inCache = en[e].inCache /\ ~new[e].inCache
    BY <1>2, <2>1, <2>2, <2>5
  <2>9. ChainsOK(new, bu, out) /\ OnePerTable(new, out) /\ ChargeOf(new[e]) = ChargeOf(en[e])
    BY <1>0, <1>1, <2>2, <2>8, SameCached
  <2>10. C!Charges(new) = C!Charges(en)
    BY <1>0, <2>2, <2>9, SameCharges
  <2>11. PartsOK(new, bu, lr, iu, us, given, G, K, F, out)
    BY <1>0, <2>4, <2>6, <2>7, <2>9, <2>10 DEF PartsOK
  <2>12. C!Unref(c, e) = Parts(new, bu, lr, iu, us, given)
    BY <1>6, <1>b, <1>c DEF left, new, given
  <2> QED
    BY <2>11, <2>12, CacheOfParts
<1>7. CASE left # 0
  <2> DEFINE new == Replaced(en, e, x)
             idle == left = 1 /\ en[e].inCache
             l == IF idle THEN Append(lr, e) ELSE lr
             i == IF idle THEN C!Without(iu, e) ELSE iu
  <2>1. /\ x \in EntryType /\ x.refs = left /\ x.inCache = en[e].inCache /\ x.live = en[e].live
        /\ x.key = en[e].key /\ x.file = en[e].file
    <3>1. en[e] \in EntryType /\ left \in Nat
      BY <1>2, <1>5
    <3> QED
      BY ONLY <3>1, RefsChanged
  <2> HIDE DEF x
  <2>2. /\ new \in CacheEntries /\ new[e] = x /\ \A d \in Slots \ {e} : new[d] = en[d]
        /\ OnlyCached(new) = IF x.inCache /\ x.refs = 1 THEN OnlyCached(en) \union {e}
                             ELSE OnlyCached(en) \ {e}
        /\ InUse(new) = IF x.inCache /\ x.refs # 1 THEN InUse(en) \union {e}
                        ELSE InUse(en) \ {e}
    BY <1>1, <2>1, OneEntry
  <2> HIDE DEF new
  <2>3. EntriesOK(new, G, K)
    <3>1. ASSUME NEW d \in Slots PROVE EntryOK(new[d], G[d], K[d])
      <4>1. CASE d = e
        BY <1>4, <1>5, <1>7, <2>1, <2>2, <4>1 DEF EntryOK
      <4>2. CASE d # e
        BY <1>1, <1>3, <2>2, <4>2
      <4> QED
        BY <4>1, <4>2
    <3> QED
      BY <2>2, <3>1 DEF EntriesOK
  <2>4. ListsOK(new, l, i)
    <3>1. CASE idle
      <4>1. en[e].refs # 1 /\ en[e].inCache /\ x.inCache /\ x.refs = 1
        BY <1>2, <2>1, <3>1 DEF left
      <4>2. /\ e \notin OnlyCached(en)
            /\ OnlyCached(new) = OnlyCached(en) \union {e} /\ InUse(new) = InUse(en) \ {e}
        BY <2>2, <4>1 DEF OnlyCached
      <4>3. Lists(Append(lr, e), OnlyCached(en) \union {e}) /\ Lists(C!Without(iu, e), InUse(en) \ {e})
        BY <1>0, <4>2, ListAppend, ListWithout DEF ListsOK
      <4> QED
        BY <3>1, <4>2, <4>3 DEF ListsOK
    <3>2. CASE ~idle
      <4>1. OnlyCached(new) = OnlyCached(en) /\ InUse(new) = InUse(en)
        <5>1. CASE en[e].inCache
          <6>1. left # 1 /\ en[e].refs # 1
            BY <1>2, <1>7, <3>2, <5>1 DEF left
          <6>2. e \notin OnlyCached(en) /\ e \in InUse(en)
            BY <5>1, <6>1 DEF OnlyCached, InUse
          <6> QED
            BY <2>1, <2>2, <5>1, <6>1, <6>2
        <5>2. CASE ~en[e].inCache
          <6>1. e \notin OnlyCached(en) /\ e \notin InUse(en)
            BY <5>2 DEF OnlyCached, InUse
          <6> QED
            BY <2>1, <2>2, <5>2, <6>1
        <5> QED
          BY <5>1, <5>2
      <4> QED
        BY <1>0, <3>2, <4>1 DEF ListsOK
    <3> QED
      BY <3>1, <3>2
  <2>5. new[e].inCache = en[e].inCache /\ new[e].key = en[e].key /\ new[e].live = en[e].live
        /\ new[e].file = en[e].file
    BY <2>1, <2>2
  <2>6. ChainsOK(new, bu, out) /\ OnePerTable(new, out) /\ ChargeOf(new[e]) = ChargeOf(en[e])
    BY <1>0, <1>1, <2>2, <2>5, SameCached
  <2>7. C!Charges(new) = C!Charges(en)
    BY <1>0, <2>2, <2>6, SameCharges
  <2>8. FilesOK(new, al, F)
    BY <1>0, <2>2, <2>5, SameFiles
  <2>9. PartsOK(new, bu, l, i, us, al, G, K, F, out)
    BY <1>0, <2>3, <2>4, <2>6, <2>7, <2>8 DEF PartsOK
  <2>10. C!Unref(c, e) = Parts(new, bu, l, i, us, al)
    BY <1>7, <1>b DEF left, new, x, OneLess
  <2> QED
    BY <2>9, <2>10, CacheOfParts
<1> QED
  BY <1>6, <1>7

\* The entries with one more reference to e.
OneMore(en, e) == Replaced(en, e, WithRefs(en[e], en[e].refs + 1))

\* What Ref does in each of its two cases.
LEMMA RefIs ==
  ASSUME NEW c, NEW e, Whole(c)
  PROVE  /\ c.entries[e].refs = 1 /\ c.entries[e].inCache
              => C!Ref(c, e) = Parts(OneMore(c.entries, e), c.buckets, C!Without(c.lru, e),
                                     Append(c.inUse, e), c.usage, c.allowed)
         /\ ~(c.entries[e].refs = 1 /\ c.entries[e].inCache)
              => C!Ref(c, e) = Parts(OneMore(c.entries, e), c.buckets, c.lru, c.inUse,
                                     c.usage, c.allowed)
<1> DEFINE v == OneMore(c.entries, e)
           d == WithEntries(c, v)
<1>1. c = Parts(c.entries, c.buckets, c.lru, c.inUse, c.usage, c.allowed)
  BY DEF Whole
<1>3. ASSUME ~(c.entries[e].refs = 1 /\ c.entries[e].inCache)
      PROVE  C!Ref(c, e) = Parts(v, c.buckets, c.lru, c.inUse, c.usage, c.allowed)
  <2> DEFINE f == WithLru(d, c.lru)
  <2>1. C!Ref(c, e) = WithInUse(f, c.inUse)
    BY <1>3 DEF C!Ref, WithLru, WithInUse, WithEntries, Replaced, WithRefs, OneMore
  <2> HIDE DEF v
  <2>2. d = Parts(v, c.buckets, c.lru, c.inUse, c.usage, c.allowed)
    BY <1>1, PartChanged
  <2> HIDE DEF d
  <2>3. f = Parts(v, c.buckets, c.lru, c.inUse, c.usage, c.allowed)
    BY <2>2, PartChanged
  <2> HIDE DEF f
  <2>4. WithInUse(f, c.inUse) = Parts(v, c.buckets, c.lru, c.inUse, c.usage, c.allowed)
    BY <2>3, PartChanged
  <2> QED
    BY <2>1, <2>4
<1>4. ASSUME c.entries[e].refs = 1, c.entries[e].inCache
      PROVE  C!Ref(c, e) = Parts(v, c.buckets, C!Without(c.lru, e), Append(c.inUse, e),
                                 c.usage, c.allowed)
  <2> DEFINE l == C!Without(c.lru, e)
             i == Append(c.inUse, e)
             f == WithLru(d, l)
  <2>1. C!Ref(c, e) = WithInUse(f, i)
    BY <1>4 DEF C!Ref, WithLru, WithInUse, WithEntries, Replaced, WithRefs, OneMore
  <2> HIDE DEF v, l, i
  <2>2. d = Parts(v, c.buckets, c.lru, c.inUse, c.usage, c.allowed)
    BY <1>1, PartChanged
  <2> HIDE DEF d
  <2>3. f = Parts(v, c.buckets, l, c.inUse, c.usage, c.allowed)
    BY <2>2, PartChanged
  <2> HIDE DEF f
  <2>4. WithInUse(f, i) = Parts(v, c.buckets, l, i, c.usage, c.allowed)
    BY <2>3, PartChanged
  <2> QED
    BY <2>1, <2>4 DEF l, i
<1> QED
  BY <1>3, <1>4

\* A handle to an entry of the cache: the entry is in use from now on.
LEMMA RefOK ==
  ASSUME NEW c, NEW H \in [Slots -> Nat], NEW K, NEW F \in [Kinds -> Nat], NEW out,
         CacheOK(c, H, K, F, out),
         NEW e \in Slots, c.entries[e].inCache, c.entries[e].key = K[e],
         NEW G, G = Replaced(H, e, H[e] + 1)
  PROVE  CacheOK(C!Ref(c, e), G, K, F, out)
<1> DEFINE en == c.entries
           bu == c.buckets
           lr == c.lru
           iu == c.inUse
           us == c.usage
           al == c.allowed
           more == en[e].refs + 1
           x == WithRefs(en[e], more)
           new == Replaced(en, e, x)
           idle == en[e].refs = 1 /\ en[e].inCache
           l == IF idle THEN C!Without(lr, e) ELSE lr
           i == IF idle THEN Append(iu, e) ELSE iu
<1>a. PartsOK(en, bu, lr, iu, us, al, H, K, F, out) /\ Whole(c) /\ en[e].inCache /\ en[e].key = K[e]
  BY DEF CacheOK
<1>b. /\ idle => C!Ref(c, e) = Parts(OneMore(en, e), bu, C!Without(lr, e), Append(iu, e), us, al)
      /\ ~idle => C!Ref(c, e) = Parts(OneMore(en, e), bu, lr, iu, us, al)
  BY <1>a, RefIs
<1>c. C!Ref(c, e) = Parts(new, bu, l, i, us, al)
  BY <1>b DEF OneMore
<1> HIDE DEF en, bu, lr, iu, us, al
<1>0. /\ EntriesOK(en, H, K) /\ ListsOK(en, lr, iu) /\ ChainsOK(en, bu, out) /\ OnePerTable(en, out)
      /\ us = C!Charges(en) /\ FilesOK(en, al, F)
  BY <1>a DEF PartsOK
<1>1. en \in CacheEntries /\ \A d \in Slots : EntryOK(en[d], H[d], K[d])
  BY <1>0 DEF EntriesOK
<1>2. /\ en[e] \in EntryType /\ en[e].refs \in Nat /\ en[e].inCache \in BOOLEAN
      /\ en[e].live \in BOOLEAN
  BY <1>1, EntriesRead
<1>3. H[e] \in Nat /\ G[e] = H[e] + 1 /\ \A d \in Slots \ {e} : G[d] = H[d]
  BY DEF Replaced
<1>4. /\ en[e].live /\ en[e].key \in Tables /\ en[e].file # "none" /\ en[e].refs # 0
      /\ en[e].refs = H[e] + 1 /\ en[e].key = K[e]
  BY <1>1, <1>a, NoEntryIs DEF EntryOK
<1>5. more \in Nat /\ more = G[e] + 1 /\ more # 1 /\ more # 0
  BY <1>2, <1>3, <1>4
<1> HIDE DEF more
<1>6. /\ x \in EntryType /\ x.refs = more /\ x.inCache = en[e].inCache /\ x.live = en[e].live
      /\ x.key = en[e].key /\ x.file = en[e].file
  <2>1. en[e] \in EntryType /\ more \in Nat
    BY <1>2, <1>5
  <2> QED
    BY ONLY <2>1, RefsChanged
<1> HIDE DEF x
<1>7. /\ new \in CacheEntries /\ new[e] = x /\ \A d \in Slots \ {e} : new[d] = en[d]
      /\ OnlyCached(new) = IF x.inCache /\ x.refs = 1 THEN OnlyCached(en) \union {e}
                           ELSE OnlyCached(en) \ {e}
      /\ InUse(new) = IF x.inCache /\ x.refs # 1 THEN InUse(en) \union {e}
                      ELSE InUse(en) \ {e}
  BY <1>1, <1>6, OneEntry
<1> HIDE DEF new
<1>8. EntriesOK(new, G, K)
  <2>1. ASSUME NEW d \in Slots PROVE EntryOK(new[d], G[d], K[d])
    <3>1. CASE d = e
      BY <1>4, <1>5, <1>a, <1>6, <1>7, <3>1 DEF EntryOK
    <3>2. CASE d # e
      BY <1>1, <1>3, <1>7, <3>2
    <3> QED
      BY <3>1, <3>2
  <2> QED
    BY <1>7, <2>1 DEF EntriesOK
<1>9. OnlyCached(new) = OnlyCached(en) \ {e} /\ InUse(new) = InUse(en) \union {e}
  BY <1>a, <1>5, <1>6, <1>7
<1>10. ListsOK(new, l, i)
  <2>1. CASE idle
    <3>1. e \notin InUse(en)
      BY <2>1 DEF InUse
    <3>2. Lists(C!Without(lr, e), OnlyCached(en) \ {e}) /\ Lists(Append(iu, e), InUse(en) \union {e})
      BY <1>0, <3>1, ListAppend, ListWithout DEF ListsOK
    <3> QED
      BY <1>9, <2>1, <3>2 DEF ListsOK
  <2>2. CASE ~idle
    <3>1. e \notin OnlyCached(en) /\ e \in InUse(en)
      BY <1>a, <2>2 DEF OnlyCached, InUse
    <3>2. OnlyCached(new) = OnlyCached(en) /\ InUse(new) = InUse(en)
      BY <1>9, <3>1
    <3> QED
      BY <1>0, <2>2, <3>2 DEF ListsOK
  <2> QED
    BY <2>1, <2>2
<1>11. /\ new[e].inCache = en[e].inCache /\ new[e].key = en[e].key /\ new[e].live = en[e].live
       /\ new[e].file = en[e].file
  BY <1>6, <1>7
<1>12. ChainsOK(new, bu, out) /\ OnePerTable(new, out) /\ ChargeOf(new[e]) = ChargeOf(en[e])
  BY <1>0, <1>1, <1>7, <1>11, SameCached
<1>13. C!Charges(new) = C!Charges(en)
  BY <1>0, <1>7, <1>12, SameCharges
<1>14. FilesOK(new, al, F)
  BY <1>0, <1>7, <1>11, SameFiles
<1> HIDE DEF l, i
<1>15. PartsOK(new, bu, l, i, us, al, G, K, F, out)
  BY <1>0, <1>8, <1>10, <1>12, <1>13, <1>14 DEF PartsOK
<1> QED
  BY <1>c, <1>15, CacheOfParts

\* The holders need not agree about tables to which they have no handle.
LEMMA OnlyHeldKeys ==
  ASSUME NEW c, NEW H, NEW K, NEW J, NEW F, NEW out, CacheOK(c, H, K, F, out),
         \A d \in Slots : H[d] # 0 => c.entries[d].key = J[d]
  PROVE  CacheOK(c, H, J, F, out)
<1> DEFINE en == c.entries
<1>1. EntriesOK(en, H, K)
  BY DEF CacheOK, PartsOK
<1> HIDE DEF en
<1>2. ASSUME NEW d \in Slots, H[d] # 0 => en[d].key = J[d]
      PROVE  EntryOK(en[d], H[d], J[d])
  BY <1>1, <1>2 DEF EntriesOK, EntryOK
<1>3. EntriesOK(en, H, J)
  BY <1>1, <1>2 DEF EntriesOK, en
<1> QED
  BY <1>3 DEF CacheOK, PartsOK, en

\* An entry that is no longer in the cache.
LEMMA OutOfCache ==
  ASSUME NEW x \in EntryType
  PROVE  /\ WithInCache(x, FALSE) \in EntryType
         /\ WithInCache(x, FALSE).inCache = FALSE
         /\ WithInCache(x, FALSE).refs = x.refs /\ WithInCache(x, FALSE).live = x.live
         /\ WithInCache(x, FALSE).key = x.key /\ WithInCache(x, FALSE).file = x.file
BY DEF EntryType, WithInCache

\* The entries with e out of the cache.
Dropped(en, e) == Replaced(en, e, WithInCache(en[e], FALSE))

\* FinishErase takes an entry off its list and gives the cache's reference back.
LEMMA FinishEraseIs ==
  ASSUME NEW c, NEW e, Whole(c)
  PROVE  C!FinishErase(c, e)
           = C!Unref(Parts(Dropped(c.entries, e), c.buckets, C!Without(c.lru, e),
                           C!Without(c.inUse, e), c.usage - Charge[c.entries[e].key],
                           c.allowed), e)
<1> DEFINE v == Dropped(c.entries, e)
           l == C!Without(c.lru, e)
           i == C!Without(c.inUse, e)
           u == c.usage - Charge[c.entries[e].key]
           d == WithLru(c, l)
           f == WithInUse(d, i)
           g == WithEntries(f, v)
<1>1. c = Parts(c.entries, c.buckets, c.lru, c.inUse, c.usage, c.allowed)
  BY DEF Whole
<1>2. C!FinishErase(c, e) = C!Unref(WithCharge(g, u), e)
  BY DEF C!FinishErase, WithLru, WithInUse, WithEntries, WithCharge, Dropped, Replaced, WithInCache
<1> HIDE DEF v, l, i, u
<1>3. d = Parts(c.entries, c.buckets, l, c.inUse, c.usage, c.allowed)
  BY <1>1, PartChanged
<1> HIDE DEF d
<1>4. f = Parts(c.entries, c.buckets, l, i, c.usage, c.allowed)
  BY <1>3, PartChanged
<1> HIDE DEF f
<1>5. g = Parts(v, c.buckets, l, i, c.usage, c.allowed)
  BY <1>4, PartChanged
<1> HIDE DEF g
<1>6. WithCharge(g, u) = Parts(v, c.buckets, l, i, u, c.allowed)
  BY <1>5, PartChanged
<1> QED
  BY <1>2, <1>6 DEF v, l, i, u

\* An entry that is no longer in the hash table leaves the cache: what was the reference
\* of the cache is one more handle until Unref gives it back.
LEMMA FinishEraseOK ==
  ASSUME NEW c, NEW H \in [Slots -> Nat], NEW K, NEW F \in [Kinds -> Nat], NEW e \in Slots,
         CacheOK(c, H, K, F, {e}), c.entries[e].inCache
  PROVE  CacheOK(C!FinishErase(c, e), H, K, F, {})
<1> DEFINE en == c.entries
           bu == c.buckets
           lr == C!Without(c.lru, e)
           iu == C!Without(c.inUse, e)
           us == c.usage - Charge[en[e].key]
           al == c.allowed
           x == WithInCache(en[e], FALSE)
           new == Replaced(en, e, x)
           b == Parts(new, bu, lr, iu, us, al)
           G == Replaced(H, e, H[e] + 1)
           J == [d \in Slots |-> en[d].key]
<1>a. /\ EntriesOK(en, H, K) /\ ListsOK(en, c.lru, c.inUse) /\ ChainsOK(en, bu, {e})
      /\ OnePerTable(en, {e}) /\ c.usage = C!Charges(en) /\ FilesOK(en, al, F)
      /\ Whole(c) /\ en[e].inCache
  BY DEF CacheOK, PartsOK
<1>b. C!FinishErase(c, e) = C!Unref(b, e)
  BY <1>a, FinishEraseIs DEF Dropped
<1>0. /\ Lists(lr, OnlyCached(en) \ {e}) /\ Lists(iu, InUse(en) \ {e})
  BY <1>a, ListWithout DEF ListsOK
<1>c. /\ \A d \in Slots : J[d] = en[d].key
      /\ us = C!Charges(en) - Charge[en[e].key]
      /\ G[e] = H[e] + 1 /\ \A d \in Slots \ {e} : G[d] = H[d]
      /\ G \in [Slots -> Nat] /\ H[e] \in Nat
  BY <1>a DEF Replaced
<1> HIDE DEF en, bu, lr, iu, us, al, G, J
<1>1. en \in CacheEntries /\ \A d \in Slots : EntryOK(en[d], H[d], K[d])
  BY <1>a DEF EntriesOK
<1>2. /\ en[e] \in EntryType /\ en[e].refs \in Nat /\ en[e].inCache \in BOOLEAN
      /\ en[e].live \in BOOLEAN
  BY <1>1, EntriesRead
<1>4. /\ en[e].live /\ en[e].key \in Tables /\ en[e].file # "none" /\ en[e].refs # 0
      /\ en[e].refs = H[e] + 1
  BY <1>1, <1>a, NoEntryIs DEF EntryOK
<1>6. /\ x \in EntryType /\ x.refs = en[e].refs /\ x.inCache = FALSE /\ x.live = en[e].live
      /\ x.key = en[e].key /\ x.file = en[e].file
  BY <1>2, OutOfCache
<1> HIDE DEF x
<1>7. /\ new \in CacheEntries /\ new[e] = x /\ \A d \in Slots \ {e} : new[d] = en[d]
      /\ OnlyCached(new) = OnlyCached(en) \ {e} /\ InUse(new) = InUse(en) \ {e}
  BY <1>1, <1>6, OneEntry
<1> HIDE DEF new
<1>8. EntriesOK(new, G, J)
  <2>1. ASSUME NEW d \in Slots PROVE EntryOK(new[d], G[d], J[d])
    <3>1. CASE d = e
      <4>1. new[e] = x /\ x.live /\ x.inCache = FALSE /\ x.key \in Tables /\ x.file # "none"
        BY <1>4, <1>6, <1>7
      <4>2. x.refs = G[e] + 0 /\ x.refs # 0 /\ x.key = J[e]
        BY <1>4, <1>6, <1>c
      <4> QED
        BY <4>1, <4>2, <3>1 DEF EntryOK
    <3>2. CASE d # e
      BY <1>1, <1>c, <1>7, <3>2 DEF EntryOK
    <3> QED
      BY <3>1, <3>2
  <2> QED
    BY <1>7, <2>1 DEF EntriesOK
<1>9. ListsOK(new, lr, iu)
  BY <1>0, <1>7 DEF ListsOK
<1>10. \A d \in Slots : (d \notin {} /\ new[d].inCache) <=> (d \notin {e} /\ en[d].inCache)
  BY <1>6, <1>7
<1>11. ChainsOK(new, bu, {})
  <2>1. \A n, length : InBucket(new, {}, n, length) = InBucket(en, {e}, n, length)
    BY <1>7, <1>10 DEF InBucket
  <2> QED
    BY <1>a, <2>1 DEF ChainsOK
<1>12. OnePerTable(new, {})
  BY <1>a, <1>7, <1>10 DEF OnePerTable
<1>13. us = C!Charges(new)
  <2>1. \A d \in Slots : ChargeOf(en[d]) \in Nat
    BY <1>a, ChargeNat
  <2>2. \A d \in Slots : ChargeOf(new[d]) \in Nat
    BY <1>8, ChargeNat
  <2>3. /\ C!Charges(en) \in Nat /\ C!Charges(new) \in Nat
        /\ C!Charges(new) + ChargeOf(en[e]) = C!Charges(en) + ChargeOf(new[e])
    <3>1. \A d \in Slots \ {e} : ChargeOf(new[d]) = ChargeOf(en[d])
      BY <1>7
    <3> QED
      BY <2>1, <2>2, <3>1, ChargesChange
  <2>4. ChargeOf(en[e]) = Charge[en[e].key] /\ ChargeOf(new[e]) = 0
    BY <1>a, <1>6, <1>7 DEF ChargeOf
  <2>5. ChargeOf(en[e]) \in Nat
    BY <2>1
  <2> QED
    BY <1>c, <2>3, <2>4, <2>5
<1>14. FilesOK(new, al, F)
  BY <1>a, <1>6, <1>7, SameFiles
<1>15. PartsOK(new, bu, lr, iu, us, al, G, J, F, {})
  BY <1>8, <1>9, <1>11, <1>12, <1>13, <1>14 DEF PartsOK
<1>16. CacheOK(b, G, J, F, {})
  BY <1>15, CacheOfParts
<1>17. H = Replaced(G, e, G[e] - 1)
  BY <1>c DEF Replaced
<1>18. CacheOK(C!Unref(b, e), H, J, F, {})
  <2>1. G[e] # 0
    BY <1>c
  <2> HIDE DEF b
  <2> QED
    BY <1>c, <1>16, <1>17, <2>1, UnrefOK
<1>19. \A d \in Slots : H[d] # 0 => C!Unref(b, e).entries[d].key = K[d]
  <2> DEFINE after == C!Unref(b, e).entries
  <2>1. \A d \in Slots : EntryOK(after[d], H[d], J[d])
    BY <1>18 DEF CacheOK, PartsOK, EntriesOK
  <2> HIDE DEF after
  <2>2. ASSUME NEW d \in Slots, H[d] # 0 PROVE after[d].key = K[d]
    <3>1. after[d].key = J[d]
      BY <2>1, <2>2 DEF EntryOK
    <3>2. en[d].key = K[d]
      BY <1>1, <2>2 DEF EntryOK
    <3> QED
      BY <1>c, <3>1, <3>2
  <2> QED
    BY <2>2 DEF after
<1> QED
  BY <1>b, <1>18, <1>19, OnlyHeldKeys

-----------------------------------------------------------------------------
(* The hash table.                                                          *)

\* A key has a bucket.
LEMMA BucketIn ==
  ASSUME NEW bu, Len(bu) \in Nat, Len(bu) # 0, NEW t \in Nat
  PROVE  /\ C!Bucket(bu, t) \in 1 .. Len(bu) /\ C!Bucket(bu, t) = 1 + (t % Len(bu))
<1> DEFINE n == Len(bu)
<1> HIDE DEF n
<1>1. n \in Nat /\ n # 0
  BY DEF n
<1>2. t % n \in 0 .. n - 1
  BY <1>1
<1>3. 1 + (t % n) \in 1 .. n
  BY <1>1, <1>2
<1> QED
  BY <1>3 DEF C!Bucket, n

\* What Remove does to the parts.
LEMMA RemoveIs ==
  ASSUME NEW c, NEW e, Whole(c)
  PROVE  C!TableRemove(c, e)
           = Parts(c.entries,
                   Replaced(c.buckets, C!Bucket(c.buckets, c.entries[e].key),
                            C!Without(c.buckets[C!Bucket(c.buckets, c.entries[e].key)], e)),
                   c.lru, c.inUse, c.usage, c.allowed)
<1> DEFINE at == C!Bucket(c.buckets, c.entries[e].key)
           v == Replaced(c.buckets, at, C!Without(c.buckets[at], e))
<1>1. C!TableRemove(c, e) = WithBuckets(c, v)
  BY DEF C!TableRemove, WithBuckets, Replaced
<1> HIDE DEF v
<1>2. WithBuckets(c, v) = Parts(c.entries, v, c.lru, c.inUse, c.usage, c.allowed)
  BY PartChanged DEF Whole
<1> QED
  BY <1>1, <1>2 DEF v

\* A chain that changes.
LEMMA ChainChanged ==
  ASSUME NEW bu \in Seq(Seq(Slots)), NEW at \in 1 .. Len(bu), NEW x \in Seq(Slots),
         NEW new, new = Replaced(bu, at, x)
  PROVE  /\ new \in Seq(Seq(Slots)) /\ Len(new) = Len(bu) /\ new[at] = x
         /\ \A b \in 1 .. Len(bu) : b # at => new[b] = bu[b]
BY DEF Replaced

\* An entry that Remove takes out of the hash table.
LEMMA RemoveOK ==
  ASSUME NEW c, NEW H, NEW K, NEW F, CacheOK(c, H, K, F, {}), NEW e \in Slots,
         c.entries[e].inCache
  PROVE  CacheOK(C!TableRemove(c, e), H, K, F, {e}) /\ C!TableRemove(c, e).entries = c.entries
<1> DEFINE en == c.entries
           bu == c.buckets
           lr == c.lru
           iu == c.inUse
           us == c.usage
           al == c.allowed
           at == C!Bucket(bu, en[e].key)
           new == Replaced(bu, at, C!Without(bu[at], e))
<1>a. PartsOK(en, bu, lr, iu, us, al, H, K, F, {}) /\ Whole(c) /\ en[e].inCache
  BY DEF CacheOK
<1>b. C!TableRemove(c, e) = Parts(en, new, lr, iu, us, al)
  BY <1>a, RemoveIs
<1> HIDE DEF en, bu, lr, iu, us, al
<1>0. /\ EntriesOK(en, H, K) /\ ListsOK(en, lr, iu) /\ ChainsOK(en, bu, {}) /\ OnePerTable(en, {})
      /\ us = C!Charges(en) /\ FilesOK(en, al, F)
  BY <1>a DEF PartsOK
<1>1. /\ bu \in Seq(Seq(Slots)) /\ Len(bu) # 0 /\ Len(bu) \in Nat
      /\ \A b \in 1 .. Len(bu) : Lists(bu[b], InBucket(en, {}, b, Len(bu)))
  BY <1>0 DEF ChainsOK
<1>2. en[e].key \in Nat
  BY <1>0, EntriesRead DEF EntriesOK
<1>3. at \in 1 .. Len(bu) /\ at = 1 + (en[e].key % Len(bu))
  BY <1>1, <1>2, BucketIn
<1> HIDE DEF at
<1>4. Lists(C!Without(bu[at], e), InBucket(en, {}, at, Len(bu)) \ {e})
  BY <1>1, <1>3, ListWithout
<1>5. /\ new \in Seq(Seq(Slots)) /\ Len(new) = Len(bu) /\ new[at] = C!Without(bu[at], e)
      /\ \A b \in 1 .. Len(bu) : b # at => new[b] = bu[b]
  <2> DEFINE x == C!Without(bu[at], e)
  <2>1. x \in Seq(Slots)
    BY <1>4 DEF Lists
  <2> HIDE DEF x
  <2>2. /\ Replaced(bu, at, x) \in Seq(Seq(Slots)) /\ Len(Replaced(bu, at, x)) = Len(bu)
        /\ Replaced(bu, at, x)[at] = x
        /\ \A b \in 1 .. Len(bu) : b # at => Replaced(bu, at, x)[b] = bu[b]
    BY <1>1, <1>3, <2>1, ChainChanged
  <2> QED
    BY <2>2 DEF x
<1> HIDE DEF new
<1>6. \A b, n : InBucket(en, {e}, b, n) = InBucket(en, {}, b, n) \ {e}
  BY DEF InBucket
<1>7. ASSUME NEW b \in 1 .. Len(bu), b # at PROVE e \notin InBucket(en, {}, b, Len(bu))
  BY <1>3, <1>7 DEF InBucket
<1>8. ASSUME NEW b \in 1 .. Len(new) PROVE Lists(new[b], InBucket(en, {e}, b, Len(new)))
  <2>1. CASE b = at
    BY <1>4, <1>5, <1>6, <2>1
  <2>2. CASE b # at
    <3>1. b \in 1 .. Len(bu) /\ new[b] = bu[b] /\ Lists(bu[b], InBucket(en, {}, b, Len(bu)))
      BY <1>1, <1>5, <2>2
    <3>2. InBucket(en, {e}, b, Len(new)) = InBucket(en, {}, b, Len(bu))
      <4>1. e \notin InBucket(en, {}, b, Len(bu))
        BY <1>7, <2>2, <3>1
      <4>2. InBucket(en, {e}, b, Len(bu)) = InBucket(en, {}, b, Len(bu)) \ {e}
        BY <1>6
      <4>3. Len(new) = Len(bu)
        BY <1>5
      <4> QED
        BY ONLY <4>1, <4>2, <4>3
    <3> QED
      BY <3>1, <3>2
  <2> QED
    BY <2>1, <2>2
<1>9. ChainsOK(en, new, {e})
  BY <1>1, <1>5, <1>8 DEF ChainsOK
<1>10. OnePerTable(en, {e})
  BY <1>0 DEF OnePerTable
<1>11. PartsOK(en, new, lr, iu, us, al, H, K, F, {e})
  BY <1>0, <1>9, <1>10 DEF PartsOK
<1>12. C!TableRemove(c, e).entries = en
  BY <1>b DEF Parts
<1> QED
  BY <1>b, <1>11, <1>12, CacheOfParts DEF en

\* What a search of the hash table ends at.
LEMMA FoundIs ==
  ASSUME NEW c, NEW H, NEW K, NEW F, NEW out, CacheOK(c, H, K, F, out), NEW t \in Nat
  PROVE  /\ C!Found(c, t) = {d \in Slots \ out : c.entries[d].inCache /\ c.entries[d].key = t}
         /\ \A d, e \in C!Found(c, t) : d = e
<1> DEFINE en == c.entries
           bu == c.buckets
           at == C!Bucket(bu, t)
<1>1. ChainsOK(en, bu, out) /\ OnePerTable(en, out)
  BY DEF CacheOK, PartsOK
<1>2. C!Found(c, t) = {d \in C!Range(bu[at]) : en[d].key = t}
  BY DEF C!Found
<1> HIDE DEF en, bu
<1>3. /\ bu \in Seq(Seq(Slots)) /\ Len(bu) # 0 /\ Len(bu) \in Nat
      /\ \A b \in 1 .. Len(bu) : Lists(bu[b], InBucket(en, out, b, Len(bu)))
  BY <1>1 DEF ChainsOK
<1>4. at \in 1 .. Len(bu) /\ at = 1 + (t % Len(bu))
  BY <1>3, BucketIn
<1> HIDE DEF at
<1>5. C!Range(bu[at]) = InBucket(en, out, at, Len(bu))
  BY <1>3, <1>4, ListRange
<1>6. C!Found(c, t) = {d \in Slots \ out : en[d].inCache /\ en[d].key = t}
  BY <1>2, <1>4, <1>5 DEF InBucket
<1>7. \A d, e \in C!Found(c, t) : d = e
  BY <1>1, <1>6 DEF OnePerTable
<1> QED
  BY <1>6, <1>7 DEF en

\* A table that is erased.
LEMMA EraseTableOK ==
  ASSUME NEW c, NEW H \in [Slots -> Nat], NEW K, NEW F \in [Kinds -> Nat], NEW t \in Nat,
         CacheOK(c, H, K, F, {})
  PROVE  CacheOK(C!EraseTable(c, t), H, K, F, {})
<1> DEFINE e == CHOOSE found \in C!Found(c, t) : TRUE
           b == C!TableRemove(c, e)
<1>1. CASE C!Found(c, t) = {}
  BY <1>1 DEF C!EraseTable
<1>2. CASE C!Found(c, t) # {}
  <2>1. e \in C!Found(c, t)
    BY <1>2
  <2>2. C!EraseTable(c, t) = C!FinishErase(b, e)
    BY <1>2 DEF C!EraseTable
  <2> HIDE DEF e
  <2>3. e \in Slots /\ c.entries[e].inCache
    BY <2>1, FoundIs
  <2>4. CacheOK(b, H, K, F, {e}) /\ b.entries = c.entries
    BY <2>3, RemoveOK
  <2>5. b.entries[e].inCache
    BY <2>3, <2>4
  <2> HIDE DEF b
  <2>6. CacheOK(C!FinishErase(b, e), H, K, F, {})
    BY <2>3, <2>4, <2>5, FinishEraseOK
  <2> QED
    BY <2>2, <2>6
<1> QED
  BY <1>1, <1>2

\* The oldest of lru_ is erased.
LEMMA EraseOldestOK ==
  ASSUME NEW c, NEW H \in [Slots -> Nat], NEW K, NEW F \in [Kinds -> Nat],
         CacheOK(c, H, K, F, {})
  PROVE  CacheOK(C!EraseOldest(c), H, K, F, {})
<1>1. CASE c.lru = << >>
  BY <1>1 DEF C!EraseOldest
<1>2. CASE c.lru # << >>
  <2> DEFINE t == c.entries[c.lru[1]].key
  <2>1. C!EraseOldest(c) = C!EraseTable(c, t)
    BY <1>2 DEF C!EraseOldest
  <2>2. c.entries \in CacheEntries /\ Lists(c.lru, OnlyCached(c.entries))
    BY DEF CacheOK, PartsOK, EntriesOK, ListsOK
  <2>3. c.lru[1] \in Slots
    BY <1>2, <2>2 DEF Lists
  <2>4. t \in Nat
    BY <2>2, <2>3, EntriesRead
  <2> HIDE DEF t
  <2> QED
    BY <2>1, <2>4, EraseTableOK
<1> QED
  BY <1>1, <1>2

\* A cache has the fields that a cache has.
CacheType == [entries : CacheEntries, buckets : Seq(Seq(Slots)), lru : Seq(Slots),
              inUse : Seq(Slots), usage : Nat, allowed : [Kinds -> Nat]]

\* A cache that is sound has the fields that a cache has.
LEMMA CacheInType ==
  ASSUME NEW c, NEW H, NEW K, NEW F, NEW out, CacheOK(c, H, K, F, out)
  PROVE  c \in CacheType
<1>1. /\ EntriesOK(c.entries, H, K) /\ c.entries \in CacheEntries
      /\ c.buckets \in Seq(Seq(Slots)) /\ c.lru \in Seq(Slots) /\ c.inUse \in Seq(Slots)
      /\ c.usage = C!Charges(c.entries) /\ c.allowed \in [Kinds -> Nat]
  BY DEF CacheOK, PartsOK, EntriesOK, ChainsOK, ListsOK, Lists, FilesOK
<1>2. c.usage \in Nat
  <2>1. \A d \in Slots : ChargeOf(c.entries[d]) \in Nat
    BY <1>1, ChargeNat
  <2> DEFINE N == Cardinality(Slots)
             en == c.entries
  <2>2. N \in Nat /\ \A d \in Slots : ChargeOf(en[d]) \in Nat
    BY <2>1, SlotNumbers
  <2>3. N = Cardinality(Slots)
    OBVIOUS
  <2> HIDE DEF N, en
  <2>4. PICK f : (\A n \in 0 .. N : f[n] \in Nat) /\ C!Charges(en) = f[N]
    <3>1. \E f : AddsUp(en, f, N)
      BY ONLY <2>2, <2>3, ChargesSum
    <3> QED
      BY <3>1 DEF AddsUp
  <2>5. C!Charges(c.entries) \in Nat
    BY <2>2, <2>4 DEF en
  <2> QED
    BY <1>1, <2>5
<1>3. c = Parts(c.entries, c.buckets, c.lru, c.inUse, c.usage, c.allowed)
  BY DEF CacheOK, Whole
<1> DEFINE en == c.entries
           bu == c.buckets
           lr == c.lru
           iu == c.inUse
           us == c.usage
           al == c.allowed
<1> HIDE DEF en, bu, lr, iu, us, al
<1>4. Parts(en, bu, lr, iu, us, al) \in CacheType
  BY <1>1, <1>2 DEF en, bu, lr, iu, us, al, Parts, CacheType
<1> QED
  BY <1>3, <1>4 DEF en, bu, lr, iu, us, al

\* The loops that erase the oldest entries.
LEMMA EvictOneOK ==
  ASSUME NEW c, NEW H \in [Slots -> Nat], NEW K, NEW F \in [Kinds -> Nat], NEW limit,
         CacheOK(c, H, K, F, {})
  PROVE  CacheOK(C!EvictOne(c, limit), H, K, F, {})
BY EraseOldestOK DEF C!EvictOne

\* The loop of Insert that erases the oldest entries while there is too much.
LEMMA EvictDownToOK ==
  ASSUME NEW c, NEW H \in [Slots -> Nat], NEW K, NEW F \in [Kinds -> Nat], NEW limit,
         CacheOK(c, H, K, F, {})
  PROVE  CacheOK(C!EvictDownTo(c, limit), H, K, F, {})
<1> DEFINE N == Len(c.lru)
           Good == {d \in CacheType : CacheOK(d, H, K, F, {})}
           good == [n \in 0 .. N |-> Good]
           step == [n \in 1 .. N |-> [d \in Good |-> C!EvictOne(d, limit)]]
           Is(f) == f = [n \in 0 .. N |-> IF n = 0 THEN c ELSE C!EvictOne(f[n - 1], limit)]
           g == CHOOSE f : Is(f)
<1>0. N \in Nat
  BY DEF CacheOK, PartsOK, ListsOK, Lists
<1>1. C!EvictDownTo(c, limit) = g[N]
  BY DEF C!EvictDownTo
<1> HIDE DEF N
<1>2. \A d : d \in Good <=> CacheOK(d, H, K, F, {})
  BY CacheInType
<1>3. \A d \in Good : C!EvictOne(d, limit) \in Good
  <2>1. ASSUME NEW d, CacheOK(d, H, K, F, {}) PROVE CacheOK(C!EvictOne(d, limit), H, K, F, {})
    BY <2>1, EvictOneOK
  <2> HIDE DEF Good
  <2> QED
    BY <1>2, <2>1
<1>4. c \in Good
  BY <1>2
<1> HIDE DEF Good
<1>5. \A n \in 1 .. N : \A x \in good[n - 1] : step[n][x] \in good[n]
  BY <1>0, <1>3
<1>6. /\ \A n \in 0 .. N : good[n] = Good
      /\ \A n \in 1 .. N : n - 1 \in 0 .. N /\ n \in 0 .. N /\ n # 0
      /\ \A n \in 1 .. N : \A x \in Good : step[n][x] = C!EvictOne(x, limit)
  BY <1>0
<1>7. c \in good[0]
  BY <1>0, <1>4, <1>6
<1> HIDE DEF good, step
<1>8. PICK f : Looping(f, N, c, step) /\ \A n \in 0 .. N : f[n] \in good[n]
  BY ONLY <1>0, <1>5, <1>7, LoopGood
<1>9. Is(f)
  <2>1. f = [n \in 0 .. N |-> IF n = 0 THEN c ELSE step[n][f[n - 1]]]
    BY <1>8 DEF Looping
  <2>2. \A n \in 0 .. N : n # 0 => step[n][f[n - 1]] = C!EvictOne(f[n - 1], limit)
    BY <1>6, <1>8
  <2> QED
    BY <2>1, <2>2
<1>10. Is(g)
  BY <1>9
<1> HIDE DEF g
<1>11. g[0] = c /\ \A n \in 1 .. N : g[n] = C!EvictOne(g[n - 1], limit)
  BY <1>0, <1>6, <1>10
<1>12. /\ g[0] \in good[0]
       /\ \A n \in 1 .. N : g[n - 1] \in good[n - 1] => g[n] \in good[n]
  BY <1>3, <1>6, <1>7, <1>11
<1>13. \A n \in 0 .. N : g[n] \in good[n]
  BY ONLY <1>0, <1>12, LoopKeeps
<1>14. g[N] \in Good
  BY <1>0, <1>6, <1>13
<1> QED
  BY <1>1, <1>2, <1>14

\* The loop of Prune.
LEMMA PruneAllOK ==
  ASSUME NEW c, NEW H \in [Slots -> Nat], NEW K, NEW F \in [Kinds -> Nat],
         CacheOK(c, H, K, F, {})
  PROVE  CacheOK(C!PruneAll(c), H, K, F, {})
<1> DEFINE N == Len(c.lru)
           Good == {d \in CacheType : CacheOK(d, H, K, F, {})}
           good == [n \in 0 .. N |-> Good]
           step == [n \in 1 .. N |-> [d \in Good |-> C!EraseOldest(d)]]
           Is(f) == f = [n \in 0 .. N |-> IF n = 0 THEN c ELSE C!EraseOldest(f[n - 1])]
           g == CHOOSE f : Is(f)
<1>0. N \in Nat
  BY DEF CacheOK, PartsOK, ListsOK, Lists
<1>1. C!PruneAll(c) = g[N]
  BY DEF C!PruneAll
<1> HIDE DEF N
<1>2. \A d : d \in Good <=> CacheOK(d, H, K, F, {})
  BY CacheInType
<1>3. \A d \in Good : C!EraseOldest(d) \in Good
  <2>1. ASSUME NEW d, CacheOK(d, H, K, F, {}) PROVE CacheOK(C!EraseOldest(d), H, K, F, {})
    BY <2>1, EraseOldestOK
  <2> HIDE DEF Good
  <2> QED
    BY <1>2, <2>1
<1>4. c \in Good
  BY <1>2
<1> HIDE DEF Good
<1>5. \A n \in 1 .. N : \A x \in good[n - 1] : step[n][x] \in good[n]
  BY <1>0, <1>3
<1>6. /\ \A n \in 0 .. N : good[n] = Good
      /\ \A n \in 1 .. N : n - 1 \in 0 .. N /\ n \in 0 .. N /\ n # 0
      /\ \A n \in 1 .. N : \A x \in Good : step[n][x] = C!EraseOldest(x)
  BY <1>0
<1>7. c \in good[0]
  BY <1>0, <1>4, <1>6
<1> HIDE DEF good, step
<1>8. PICK f : Looping(f, N, c, step) /\ \A n \in 0 .. N : f[n] \in good[n]
  BY ONLY <1>0, <1>5, <1>7, LoopGood
<1>9. Is(f)
  <2>1. f = [n \in 0 .. N |-> IF n = 0 THEN c ELSE step[n][f[n - 1]]]
    BY <1>8 DEF Looping
  <2>2. \A n \in 0 .. N : n # 0 => step[n][f[n - 1]] = C!EraseOldest(f[n - 1])
    BY <1>6, <1>8
  <2> QED
    BY <2>1, <2>2
<1>10. Is(g)
  BY <1>9
<1> HIDE DEF g
<1>11. g[0] = c /\ \A n \in 1 .. N : g[n] = C!EraseOldest(g[n - 1])
  BY <1>0, <1>6, <1>10
<1>12. /\ g[0] \in good[0]
       /\ \A n \in 1 .. N : g[n - 1] \in good[n - 1] => g[n] \in good[n]
  BY <1>3, <1>6, <1>7, <1>11
<1>13. \A n \in 0 .. N : g[n] \in good[n]
  BY ONLY <1>0, <1>12, LoopKeeps
<1>14. g[N] \in Good
  BY <1>0, <1>6, <1>13
<1> QED
  BY <1>1, <1>2, <1>14

\* What Insert does to the chain of a key.
ChainWith(bu, at, e, old) ==
  IF old = {} THEN Append(bu[at], e)
  ELSE [i \in DOMAIN bu[at] |-> IF bu[at][i] \in old THEN e ELSE bu[at][i]]

\* What Insert does to the chain of the key, and to nothing else.
LEMMA ChainIs ==
  ASSUME NEW c, NEW e, NEW old, Whole(c), NEW at, at = C!Bucket(c.buckets, c.entries[e].key)
  PROVE  C!Chain(c, e, old)
           = Parts(c.entries, Replaced(c.buckets, at, ChainWith(c.buckets, at, e, old)),
                   c.lru, c.inUse, c.usage, c.allowed)
<1> DEFINE v == Replaced(c.buckets, at, ChainWith(c.buckets, at, e, old))
<1>1. C!Chain(c, e, old) = WithBuckets(c, v)
  BY DEF C!Chain, WithBuckets, Replaced, ChainWith
<1> HIDE DEF v
<1>2. WithBuckets(c, v) = Parts(c.entries, v, c.lru, c.inUse, c.usage, c.allowed)
  BY PartChanged DEF Whole
<1> QED
  BY <1>1, <1>2 DEF v

\* Chains that change in one bucket, when one entry comes or takes the place of another.
LEMMA ChainsChange ==
  ASSUME NEW en \in CacheEntries, NEW bu, NEW out, NEW gone, ChainsOK(en, bu, out),
         NEW at \in 1 .. Len(bu), NEW x, Lists(x, InBucket(en, gone, at, Len(bu))),
         \A b \in 1 .. Len(bu) :
           b # at => InBucket(en, gone, b, Len(bu)) = InBucket(en, out, b, Len(bu))
  PROVE  ChainsOK(en, Replaced(bu, at, x), gone)
<1> DEFINE new == Replaced(bu, at, x)
<1>1. /\ bu \in Seq(Seq(Slots)) /\ Len(bu) # 0 /\ Len(bu) \in Nat
      /\ \A b \in 1 .. Len(bu) : Lists(bu[b], InBucket(en, out, b, Len(bu)))
  BY DEF ChainsOK
<1>2. /\ new \in Seq(Seq(Slots)) /\ Len(new) = Len(bu) /\ new[at] = x
      /\ \A b \in 1 .. Len(bu) : b # at => new[b] = bu[b]
  <2>1. x \in Seq(Slots)
    BY DEF Lists
  <2> QED
    BY <1>1, <2>1, ChainChanged
<1> HIDE DEF new
<1>3. ASSUME NEW b \in 1 .. Len(new) PROVE Lists(new[b], InBucket(en, gone, b, Len(new)))
  <2>1. CASE b = at
    BY <1>2, <2>1
  <2>2. CASE b # at
    BY <1>1, <1>2, <2>2
  <2> QED
    BY <2>1, <2>2
<1>4. ChainsOK(en, new, gone)
  BY <1>1, <1>2, <1>3 DEF ChainsOK
<1> QED
  BY <1>4 DEF new

\* The chains of a cache.
LEMMA ChainsRead ==
  ASSUME NEW en, NEW bu, NEW out, ChainsOK(en, bu, out)
  PROVE  /\ bu \in Seq(Seq(Slots)) /\ Len(bu) # 0 /\ Len(bu) \in Nat
         /\ \A b \in 1 .. Len(bu) : Lists(bu[b], InBucket(en, out, b, Len(bu)))
BY DEF ChainsOK

\* An entry whose table is new to the hash table.
LEMMA ChainNewOK ==
  ASSUME NEW c, NEW H, NEW K, NEW F, NEW e \in Slots, CacheOK(c, H, K, F, {e}),
         c.entries[e].inCache,
         \A d \in Slots \ {e} : c.entries[d].inCache => c.entries[d].key # c.entries[e].key
  PROVE  CacheOK(C!Chain(c, e, {}), H, K, F, {}) /\ C!Chain(c, e, {}).entries = c.entries
<1> DEFINE en == c.entries
           bu == c.buckets
           lr == c.lru
           iu == c.inUse
           us == c.usage
           al == c.allowed
           at == C!Bucket(bu, en[e].key)
           x == ChainWith(bu, at, e, {})
           new == Replaced(bu, at, x)
<1>a. /\ PartsOK(en, bu, lr, iu, us, al, H, K, F, {e}) /\ Whole(c) /\ en[e].inCache
      /\ \A d \in Slots \ {e} : en[d].inCache => en[d].key # en[e].key
  BY DEF CacheOK
<1>b. C!Chain(c, e, {}) = Parts(en, new, lr, iu, us, al)
  BY <1>a, ChainIs
<1>c. x = Append(bu[at], e)
  BY DEF ChainWith
<1> HIDE DEF en, bu, lr, iu, us, al, x
<1>0. /\ EntriesOK(en, H, K) /\ ListsOK(en, lr, iu) /\ ChainsOK(en, bu, {e}) /\ OnePerTable(en, {e})
      /\ us = C!Charges(en) /\ FilesOK(en, al, F)
  BY <1>a DEF PartsOK
<1>1. /\ bu \in Seq(Seq(Slots)) /\ Len(bu) # 0 /\ Len(bu) \in Nat
      /\ \A b \in 1 .. Len(bu) : Lists(bu[b], InBucket(en, {e}, b, Len(bu)))
  BY <1>0, ChainsRead
<1>2. en[e].key \in Nat /\ en \in CacheEntries
  BY <1>0, EntriesRead DEF EntriesOK
<1>3. at \in 1 .. Len(bu) /\ at = 1 + (en[e].key % Len(bu))
  BY <1>1, <1>2, BucketIn
<1> HIDE DEF at
<1>4. /\ InBucket(en, {}, at, Len(bu)) = InBucket(en, {e}, at, Len(bu)) \union {e}
      /\ e \notin InBucket(en, {e}, at, Len(bu))
      /\ \A b \in 1 .. Len(bu) :
           b # at => InBucket(en, {}, b, Len(bu)) = InBucket(en, {e}, b, Len(bu))
  BY <1>3, <1>a DEF InBucket
<1>5. Lists(x, InBucket(en, {}, at, Len(bu)))
  <2> DEFINE s == bu[at]
             S == InBucket(en, {e}, at, Len(bu))
  <2>1. Lists(s, S) /\ e \notin S
    BY <1>1, <1>3, <1>4
  <2>2. x = Append(s, e)
    BY <1>c
  <2> HIDE DEF s, S
  <2>3. Lists(x, S \union {e})
    BY <2>1, <2>2, ListAppend
  <2> QED
    BY <1>4, <2>3 DEF S
<1>6. ChainsOK(en, new, {})
  BY <1>0, <1>2, <1>3, <1>4, <1>5, ChainsChange
<1>7. OnePerTable(en, {})
  BY <1>0, <1>a DEF OnePerTable
<1> HIDE DEF new
<1>8. PartsOK(en, new, lr, iu, us, al, H, K, F, {})
  BY <1>0, <1>6, <1>7 DEF PartsOK
<1>9. C!Chain(c, e, {}).entries = en
  BY <1>b DEF Parts
<1> QED
  BY <1>b, <1>8, <1>9, CacheOfParts DEF en

\* An entry that takes the place of another in the hash table.
LEMMA ChainOldOK ==
  ASSUME NEW c, NEW H, NEW K, NEW F, NEW e \in Slots, CacheOK(c, H, K, F, {e}),
         c.entries[e].inCache, NEW o \in Slots \ {e}, c.entries[o].inCache,
         c.entries[o].key = c.entries[e].key, NEW old, old = {o}
  PROVE  CacheOK(C!Chain(c, e, old), H, K, F, {o}) /\ C!Chain(c, e, old).entries = c.entries
<1> DEFINE en == c.entries
           bu == c.buckets
           lr == c.lru
           iu == c.inUse
           us == c.usage
           al == c.allowed
           at == C!Bucket(bu, en[e].key)
           x == ChainWith(bu, at, e, old)
           new == Replaced(bu, at, x)
<1>a. /\ PartsOK(en, bu, lr, iu, us, al, H, K, F, {e}) /\ Whole(c) /\ en[e].inCache
      /\ en[o].inCache /\ en[o].key = en[e].key
  BY DEF CacheOK
<1>b. C!Chain(c, e, old) = Parts(en, new, lr, iu, us, al)
  BY <1>a, ChainIs
<1>c. x = [i \in DOMAIN bu[at] |-> IF bu[at][i] \in old THEN e ELSE bu[at][i]]
  BY DEF ChainWith
<1> HIDE DEF en, bu, lr, iu, us, al, x
<1>0. /\ EntriesOK(en, H, K) /\ ListsOK(en, lr, iu) /\ ChainsOK(en, bu, {e}) /\ OnePerTable(en, {e})
      /\ us = C!Charges(en) /\ FilesOK(en, al, F)
  BY <1>a DEF PartsOK
<1>1. /\ bu \in Seq(Seq(Slots)) /\ Len(bu) # 0 /\ Len(bu) \in Nat
      /\ \A b \in 1 .. Len(bu) : Lists(bu[b], InBucket(en, {e}, b, Len(bu)))
  BY <1>0, ChainsRead
<1>2. en[e].key \in Nat /\ en \in CacheEntries
  BY <1>0, EntriesRead DEF EntriesOK
<1>3. at \in 1 .. Len(bu) /\ at = 1 + (en[e].key % Len(bu)) /\ at = 1 + (en[o].key % Len(bu))
  <2>1. at \in 1 .. Len(bu) /\ at = 1 + (en[e].key % Len(bu))
    BY <1>1, <1>2, BucketIn
  <2> HIDE DEF at
  <2> QED
    BY <2>1, <1>a
<1> HIDE DEF at
<1>4. /\ InBucket(en, {o}, at, Len(bu)) = (InBucket(en, {e}, at, Len(bu)) \ {o}) \union {e}
      /\ e \notin InBucket(en, {e}, at, Len(bu)) /\ o \in InBucket(en, {e}, at, Len(bu))
      /\ \A b \in 1 .. Len(bu) :
           b # at => InBucket(en, {o}, b, Len(bu)) = InBucket(en, {e}, b, Len(bu))
  BY <1>3, <1>a DEF InBucket
<1>5. Lists(x, InBucket(en, {o}, at, Len(bu)))
  <2> DEFINE s == bu[at]
  <2> DEFINE S == InBucket(en, {e}, at, Len(bu))
  <2>1. Lists(s, S) /\ e \notin S /\ o \in S
    BY <1>1, <1>3, <1>4
  <2>2. x = [i \in DOMAIN s |-> IF s[i] \in old THEN e ELSE s[i]]
    BY <1>c
  <2> HIDE DEF s, S
  <2>3. Lists(x, (S \ {o}) \union {e})
    BY ONLY old = {o}, e \in Slots, <2>1, <2>2, ListSwap, SMTT(30)
  <2> QED
    BY <1>4, <2>3 DEF S
<1>6. ChainsOK(en, new, {o})
  BY <1>0, <1>2, <1>3, <1>4, <1>5, ChainsChange
<1>7. OnePerTable(en, {o})
  BY <1>0, <1>a DEF OnePerTable
<1> HIDE DEF new
<1>8. PartsOK(en, new, lr, iu, us, al, H, K, F, {o})
  BY <1>0, <1>6, <1>7 DEF PartsOK
<1>9. C!Chain(c, e, old).entries = en
  BY <1>b DEF Parts
<1> QED
  BY <1>b, <1>8, <1>9, CacheOfParts DEF en

\* A hash table of a length that has some of the entries, each in the chain of its key.
ChainOf(en, S, b, length) == {d \in S : 1 + (en[d].key % length) = b}
Spread(en, bu, S, length) ==
  /\ bu \in Seq(Seq(Slots)) /\ Len(bu) = length
  /\ \A b \in 1 .. length : Lists(bu[b], ChainOf(en, S, b, length))

\* A turn of Resize.
LEMMA MovedOK ==
  ASSUME NEW c, NEW en, en = c.entries, en \in CacheEntries, NEW length \in Nat, length # 0,
         NEW S \in SUBSET Slots, NEW e \in Slots, e \notin S, NEW bu, Spread(en, bu, S, length)
  PROVE  Spread(en, C!Moved(c, bu, e), S \union {e}, length)
<1> DEFINE t == en[e].key
           at == C!Bucket(bu, t)
           s == bu[at]
           x == <<e>> \o s
           new == Replaced(bu, at, x)
<1>1. C!Moved(c, bu, e) = new
  BY DEF C!Moved, Replaced
<1>2. bu \in Seq(Seq(Slots)) /\ Len(bu) = length /\ Len(bu) \in Nat /\ Len(bu) # 0
  BY DEF Spread
<1>3. \A b \in 1 .. length : Lists(bu[b], ChainOf(en, S, b, length))
  BY DEF Spread
<1>4. t \in Nat
  BY EntriesRead
<1>5. at \in 1 .. length /\ at = 1 + (t % length)
  BY <1>2, <1>4, BucketIn
<1> HIDE DEF at
<1>6. ChainOf(en, S \union {e}, at, length) = ChainOf(en, S, at, length) \union {e}
  BY <1>5 DEF ChainOf
<1>7. \A b \in 1 .. length : b # at => ChainOf(en, S \union {e}, b, length) = ChainOf(en, S, b, length)
  BY <1>5 DEF ChainOf
<1>8. Lists(s, ChainOf(en, S, at, length)) /\ e \notin ChainOf(en, S, at, length)
  BY <1>3, <1>5 DEF ChainOf
<1> HIDE DEF s
<1>9. Lists(x, ChainOf(en, S, at, length) \union {e})
  BY <1>8, ListAppend
<1> HIDE DEF x
<1>10. /\ new \in Seq(Seq(Slots)) /\ Len(new) = Len(bu) /\ new[at] = x
       /\ \A b \in 1 .. Len(bu) : b # at => new[b] = bu[b]
  <2>1. x \in Seq(Slots)
    BY <1>9 DEF Lists
  <2>2. at \in 1 .. Len(bu)
    BY <1>2, <1>5
  <2>3. bu \in Seq(Seq(Slots)) /\ new = Replaced(bu, at, x)
    BY <1>2
  <2> HIDE DEF new
  <2> QED
    BY ONLY <2>1, <2>2, <2>3 DEF Replaced
<1> HIDE DEF new
<1>11. ASSUME NEW b \in 1 .. length PROVE Lists(new[b], ChainOf(en, S \union {e}, b, length))
  <2>1. CASE b = at
    BY <1>6, <1>9, <1>10, <2>1
  <2>2. CASE b # at
    <3>1. new[b] = bu[b]
      BY <1>2, <1>10, <2>2
    <3>2. Lists(bu[b], ChainOf(en, S, b, length))
      BY <1>3
    <3> QED
      BY <1>7, <2>2, <3>1, <3>2
  <2> QED
    BY <2>1, <2>2
<1> QED
  BY <1>1, <1>2, <1>10, <1>11 DEF Spread

\* All entries of all chains.
LEMMA HandlesIs ==
  ASSUME NEW en \in CacheEntries, NEW bu, NEW out, ChainsOK(en, bu, out)
  PROVE  Lists(C!FlattenSeq(bu), Cached(en) \ out)
<1> DEFINE N == Len(bu)
           Of == [b \in 1 .. N |-> InBucket(en, out, b, N)]
<1>1. /\ bu \in Seq(Seq(Slots)) /\ N # 0 /\ N \in Nat
      /\ \A b \in 1 .. N : Lists(bu[b], InBucket(en, out, b, N))
  BY ChainsRead
<1>2. \A b \in 1 .. N : Of[b] = InBucket(en, out, b, N)
  OBVIOUS
<1> HIDE DEF N
<1>3. \A a, b \in 1 .. N : a # b => InBucket(en, out, a, N) \cap InBucket(en, out, b, N) = {}
  BY DEF InBucket
<1>4. ASSUME NEW d \in Slots PROVE 1 + (en[d].key % N) \in 1 .. N
  <2> DEFINE t == en[d].key
  <2>1. t \in Nat
    BY EntriesRead
  <2> HIDE DEF t
  <2>2. C!Bucket(bu, t) \in 1 .. N /\ C!Bucket(bu, t) = 1 + (t % N)
    BY <1>1, <2>1, BucketIn DEF N
  <2> QED
    BY <2>2 DEF t
<1>5. UNION {Of[b] : b \in 1 .. N} = Cached(en) \ out
  <2>1. \A d : d \in Cached(en) \ out <=> \E b \in 1 .. N : d \in InBucket(en, out, b, N)
    BY <1>4 DEF Cached, InBucket
  <2> HIDE DEF Of
  <2>2. \A d : d \in UNION {Of[b] : b \in 1 .. N} <=> \E b \in 1 .. N : d \in Of[b]
    OBVIOUS
  <2> QED
    BY <1>2, <2>1, <2>2
<1> HIDE DEF Of
<1>6. Lists(C!FlattenSeq(bu), UNION {Of[b] : b \in 1 .. N})
  <2>1. /\ Len(bu) # 0 /\ N = Len(bu)
        /\ \A b \in 1 .. Len(bu) : Lists(bu[b], Of[b])
        /\ \A a, b \in 1 .. Len(bu) : a # b => Of[a] \cap Of[b] = {}
    BY <1>1, <1>2, <1>3 DEF N
  <2> QED
    BY <1>1, <2>1, AllChains
<1> QED
  BY <1>5, <1>6

\* An empty hash table.
LEMMA NothingSpread ==
  ASSUME NEW en, NEW length \in Nat
  PROVE  Spread(en, [b \in 1 .. length |-> << >>], {}, length)
<1> DEFINE bu == [b \in 1 .. length |-> << >>]
<1>1. bu \in Seq(Seq(Slots)) /\ Len(bu) = length /\ \A b \in 1 .. length : bu[b] = << >>
  OBVIOUS
<1> HIDE DEF bu
<1>2. \A b : ChainOf(en, {}, b, length) = {}
  BY DEF ChainOf
<1>3. Spread(en, bu, {}, length)
  BY <1>1, <1>2, NothingListed DEF Spread
<1> QED
  BY <1>3 DEF bu

\* The length that Resize chooses.
LEMMA ResizeLength ==
  ASSUME NEW c, c.entries \in CacheEntries, NEW out, ChainsOK(c.entries, c.buckets, out)
  PROVE  C!LengthFor(C!Cardinality(C!Chained(c))) \in Nat \ {0}
<1> DEFINE S == C!Chained(c)
           bu == c.buckets
<1>1. S = UNION {C!Range(bu[b]) : b \in DOMAIN bu}
  BY DEF C!Chained
<1>1a. ChainsOK(c.entries, bu, out)
  OBVIOUS
<1> HIDE DEF bu
<1>1b. /\ bu \in Seq(Seq(Slots)) /\ DOMAIN bu = 1 .. Len(bu)
       /\ \A b \in 1 .. Len(bu) : Lists(bu[b], InBucket(c.entries, out, b, Len(bu)))
  BY <1>1a, ChainsRead
<1>2. ASSUME NEW b \in DOMAIN bu PROVE C!Range(bu[b]) \subseteq Slots
  <2> DEFINE l == bu[b]
             B == InBucket(c.entries, out, b, Len(bu))
  <2>1. Lists(l, B)
    BY <1>1b
  <2> HIDE DEF l, B
  <2>2. C!Range(l) \subseteq Slots
    BY <2>1, ListRange
  <2> QED
    BY <2>2 DEF l
<1>3. S \subseteq Slots
  BY <1>1, <1>2
<1> HIDE DEF S
<1>4. C!Cardinality(S) \in Nat
  BY <1>3, SlotSets, SlotNumbers
<1> QED
  BY <1>4, LengthsFor DEF S

\* A larger hash table has the same entries.
LEMMA ResizeSpread ==
  ASSUME NEW c, NEW en, en = c.entries, en \in CacheEntries, NEW handles, NEW S,
         Lists(handles, S), NEW N, N = Len(handles), NEW length \in Nat, length # 0,
         NEW base, base = [b \in 1 .. length |-> << >>]
  PROVE  LET after == CHOOSE f : f = [n \in 0 .. N |-> IF n = 0 THEN base
                                                       ELSE C!Moved(c, f[n - 1], handles[n])]
         IN  Spread(en, after[N], S, length)
<1> DEFINE Upto(n) == {handles[i] : i \in 1 .. n}
           good == [n \in 0 .. N |-> {bu \in Seq(Seq(Slots)) : Spread(en, bu, Upto(n), length)}]
           step == [n \in 1 .. N |-> [bu \in Seq(Seq(Slots)) |-> C!Moved(c, bu, handles[n])]]
           Is(f) == f = [n \in 0 .. N |-> IF n = 0 THEN base ELSE C!Moved(c, f[n - 1], handles[n])]
           g == CHOOSE f : Is(f)
<1>0. /\ N \in Nat
      /\ \A n \in 1 .. N : n - 1 \in 0 .. N /\ n \in 0 .. N /\ n # 0
      /\ \A n \in 1 .. N : handles[n] \in Slots
      /\ \A m, n \in 1 .. N : handles[m] = handles[n] => m = n
      /\ S = Upto(N)
  BY SMTT(30) DEF Lists
<1>1. \A n \in 0 .. N : \A bu : bu \in good[n] <=> Spread(en, bu, Upto(n), length)
  BY DEF Spread
<1>2. \A n \in 1 .. N : \A bu \in Seq(Seq(Slots)) : step[n][bu] = C!Moved(c, bu, handles[n])
  BY <1>0
<1>3. ASSUME NEW n \in 1 .. N
      PROVE  /\ Upto(n - 1) \in SUBSET Slots /\ handles[n] \notin Upto(n - 1)
             /\ Upto(n - 1) \union {handles[n]} = Upto(n)
  <2>1. \A i : i \in 1 .. n <=> i \in 1 .. n - 1 \/ i = n
    BY <1>0
  <2>2. \A i \in 1 .. n - 1 : i \in 1 .. N /\ i # n
    BY <1>0
  <2> QED
    BY <1>0, <2>1, <2>2
<1>4. Upto(0) = {}
  OBVIOUS
<1> HIDE DEF good, step, Upto
<1>5. ASSUME NEW n \in 1 .. N, NEW bu \in good[n - 1]
      PROVE  C!Moved(c, bu, handles[n]) \in good[n] /\ bu \in Seq(Seq(Slots))
  <2> DEFINE T == Upto(n - 1)
             e == handles[n]
  <2>1. Spread(en, bu, T, length) /\ T \in SUBSET Slots /\ e \notin T /\ e \in Slots
    BY <1>0, <1>1, <1>3
  <2>2. T \union {e} = Upto(n)
    BY <1>3
  <2> HIDE DEF T, e
  <2>3. Spread(en, C!Moved(c, bu, e), T \union {e}, length)
    BY <2>1, MovedOK
  <2>4. bu \in Seq(Seq(Slots))
    BY <2>1 DEF Spread
  <2> QED
    BY <2>2, <2>3, <2>4, <1>0, <1>1 DEF e
<1>6. base \in good[0]
  <2>1. 0 \in 0 .. N
    BY <1>0
  <2>2. Spread(en, base, {}, length)
    BY NothingSpread
  <2> QED
    BY <2>1, <2>2, <1>1, <1>4
<1>7. \A n \in 1 .. N : \A x \in good[n - 1] : step[n][x] \in good[n]
  BY <1>2, <1>5
<1>8. PICK f : Looping(f, N, base, step) /\ \A n \in 0 .. N : f[n] \in good[n]
  BY ONLY <1>0, <1>6, <1>7, LoopGood
<1>9. Is(f)
  <2>1. f = [n \in 0 .. N |-> IF n = 0 THEN base ELSE step[n][f[n - 1]]]
    BY <1>8 DEF Looping
  <2>2. \A n \in 1 .. N : f[n - 1] \in good[n - 1]
    BY <1>0, <1>8
  <2>3. \A n \in 1 .. N : f[n - 1] \in Seq(Seq(Slots))
    BY <1>5, <2>2
  <2>4. \A n \in 1 .. N : step[n][f[n - 1]] = C!Moved(c, f[n - 1], handles[n])
    BY <1>2, <2>3
  <2>5. \A n \in 0 .. N : n # 0 => n \in 1 .. N
    BY <1>0
  <2> QED
    BY <2>1, <2>4, <2>5
<1>10. Is(g)
  BY <1>9
<1> HIDE DEF g
<1>11. g[0] = base /\ \A n \in 1 .. N : g[n] = C!Moved(c, g[n - 1], handles[n])
  <2>1. 0 \in 0 .. N
    BY <1>0
  <2> QED
    BY <1>0, <1>10, <2>1
<1>12. g[0] \in good[0] /\ \A n \in 1 .. N : g[n - 1] \in good[n - 1] => g[n] \in good[n]
  BY <1>5, <1>6, <1>11
<1>13. \A n \in 0 .. N : g[n] \in good[n]
  BY ONLY <1>0, <1>12, LoopKeeps
<1>14. Spread(en, g[N], S, length)
  <2>1. N \in 0 .. N
    BY <1>0
  <2> QED
    BY <1>0, <1>1, <1>13, <2>1
<1> QED
  BY <1>14 DEF g

\* Resize leaves the rest alone.
LEMMA ResizeOK ==
  ASSUME NEW c, NEW H, NEW K, NEW F, NEW out, CacheOK(c, H, K, F, out)
  PROVE  CacheOK(C!Resize(c), H, K, F, out) /\ C!Resize(c).entries = c.entries
<1> DEFINE en == c.entries
           bu == c.buckets
           lr == c.lru
           iu == c.inUse
           us == c.usage
           al == c.allowed
           handles == C!FlattenSeq(bu)
           N == Len(handles)
           length == C!LengthFor(C!Cardinality(C!Chained(c)))
           base == [b \in 1 .. length |-> << >>]
           after == CHOOSE f : f = [n \in 0 .. N |-> IF n = 0 THEN base
                                                     ELSE C!Moved(c, f[n - 1], handles[n])]
           new == after[N]
<1>0. /\ EntriesOK(en, H, K) /\ ListsOK(en, lr, iu) /\ ChainsOK(en, bu, out) /\ OnePerTable(en, out)
      /\ us = C!Charges(en) /\ FilesOK(en, al, F) /\ c = Parts(en, bu, lr, iu, us, al)
  BY DEF CacheOK, PartsOK, Whole
<1>1. en \in CacheEntries /\ en = c.entries
  BY <1>0 DEF EntriesOK
<1>2. length \in Nat /\ length # 0
  BY <1>0, <1>1, ResizeLength
<1>3. C!Resize(c) = WithBuckets(c, new)
  BY DEF C!Resize, WithBuckets
<1>4. Lists(handles, Cached(en) \ out)
  BY <1>0, <1>1, HandlesIs
<1> HIDE DEF length, handles
<1>5. Spread(en, new, Cached(en) \ out, length)
  <2>1. N = Len(handles) /\ base = [b \in 1 .. length |-> << >>]
    OBVIOUS
  <2> HIDE DEF en, N, base
  <2> QED
    BY <1>1, <1>2, <1>4, <2>1, ResizeSpread, SMTT(30)
<1> HIDE DEF new
<1>6. WithBuckets(c, new) = Parts(en, new, lr, iu, us, al)
  BY <1>0, PartChanged
<1>7. ChainsOK(en, new, out)
  <2>1. \A b : ChainOf(en, Cached(en) \ out, b, length) = InBucket(en, out, b, length)
    BY DEF ChainOf, Cached, InBucket
  <2> QED
    BY <1>2, <1>5, <2>1 DEF Spread, ChainsOK
<1>8. PartsOK(en, new, lr, iu, us, al, H, K, F, out)
  BY <1>0, <1>7 DEF PartsOK
<1>9. CacheOK(C!Resize(c), H, K, F, out)
  BY <1>3, <1>6, <1>8, CacheOfParts
<1>10. C!Resize(c).entries = en
  BY <1>3, <1>6 DEF Parts
<1> QED
  BY <1>9, <1>10

\* What HandleTable::Insert does with an entry of a new table, and of one that it has.
LEMMA InsertNewOK ==
  ASSUME NEW c, NEW H, NEW K, NEW F, NEW e \in Slots, CacheOK(c, H, K, F, {e}),
         c.entries[e].inCache,
         \A d \in Slots \ {e} : c.entries[d].inCache => c.entries[d].key # c.entries[e].key
  PROVE  CacheOK(C!TableInsert(c, e, {}), H, K, F, {})
<1> DEFINE b == C!Chain(c, e, {})
<1>1. CacheOK(b, H, K, F, {})
  BY ChainNewOK
<1>2. C!TableInsert(c, e, {}) = C!Resize(b) \/ C!TableInsert(c, e, {}) = b
  BY DEF C!TableInsert
<1> HIDE DEF b
<1>3. CacheOK(C!Resize(b), H, K, F, {})
  BY <1>1, ResizeOK
<1> QED
  BY <1>1, <1>2, <1>3

\* HandleTable::Insert in the place of the entry that the key had.
LEMMA InsertOldOK ==
  ASSUME NEW c, NEW H, NEW K, NEW F, NEW e \in Slots, CacheOK(c, H, K, F, {e}),
         c.entries[e].inCache, NEW o \in Slots \ {e}, c.entries[o].inCache,
         c.entries[o].key = c.entries[e].key, NEW old, old = {o}
  PROVE  /\ CacheOK(C!TableInsert(c, e, old), H, K, F, {o})
         /\ C!TableInsert(c, e, old).entries = c.entries
<1>1. CacheOK(C!Chain(c, e, old), H, K, F, {o}) /\ C!Chain(c, e, old).entries = c.entries
  BY ChainOldOK
<1>2. C!TableInsert(c, e, old) = C!Chain(c, e, old)
  BY DEF C!TableInsert
<1> QED
  BY <1>1, <1>2

-----------------------------------------------------------------------------
(* Insert.                                                                  *)

\* The entry that Insert makes.
EntryMade(t, file) ==
  [key |-> t, file |-> file, refs |-> IF capacity > 0 THEN 2 ELSE 1,
   inCache |-> capacity > 0, live |-> TRUE]

\* The new entry has its table and its file, and two references: the caller's and the
\* cache's, when there is a cache.
LEMMA NewEntryIs ==
  ASSUME NEW t \in Tables, NEW file \in {"mmap", "fd", "temporary"}, capacity \in Nat
  PROVE  /\ EntryMade(t, file) \in EntryType
         /\ EntryMade(t, file).key = t /\ EntryMade(t, file).file = file
         /\ EntryMade(t, file).live
         /\ capacity > 0 => EntryMade(t, file).inCache /\ EntryMade(t, file).refs = 2
         /\ ~(capacity > 0) => ~EntryMade(t, file).inCache /\ EntryMade(t, file).refs = 1
<1>1. (capacity > 0) \in BOOLEAN /\ (IF capacity > 0 THEN 2 ELSE 1) \in Nat
  OBVIOUS
<1>2. file \in {"none", "mmap", "fd", "temporary"}
  OBVIOUS
<1>3. EntryMade(t, file) \in EntryType
  BY <1>1, <1>2 DEF EntryMade, EntryType
<1>4. /\ EntryMade(t, file).key = t /\ EntryMade(t, file).file = file
      /\ EntryMade(t, file).live
  BY DEF EntryMade
<1>5. EntryMade(t, file).refs = IF capacity > 0 THEN 2 ELSE 1
  BY DEF EntryMade
<1>6. ASSUME capacity > 0 PROVE EntryMade(t, file).inCache
  <2>1. (capacity > 0) = TRUE
    BY <1>6
  <2>2. EntryMade(t, file).inCache = (capacity > 0)
    BY Zenon DEF EntryMade
  <2> QED
    BY <2>1, <2>2
<1>7. ASSUME ~(capacity > 0) PROVE ~EntryMade(t, file).inCache
  <2>1. (capacity > 0) = FALSE
    BY <1>1, <1>7
  <2>2. EntryMade(t, file).inCache = (capacity > 0)
    BY Zenon DEF EntryMade
  <2> QED
    BY <2>1, <2>2
<1> QED
  BY <1>3, <1>4, <1>5, <1>6, <1>7

\* The cache that Insert starts from, with the new entry.
Given(c, e, x) == [c EXCEPT !.entries[e] = x]
NowUsed(c, e, t) == [c EXCEPT !.inUse = Append(@, e), !.usage = @ + Charge[t]]

\* The steps of Insert: the new entry, its list and its charge, the table, the entry it
\* replaces, and the oldest ones while there is too much.
LEMMA InsertIs ==
  ASSUME NEW c, NEW e, NEW t, NEW file, Whole(c), NEW v, v = Replaced(c.entries, e, EntryMade(t, file))
  PROVE  /\ ~(capacity > 0) =>
              C!Insert(c, e, t, file)
                = C!EvictDownTo(Parts(v, c.buckets, c.lru, c.inUse, c.usage, c.allowed), capacity)
         /\ capacity > 0 =>
              LET kept == C!TableInsert(Parts(v, c.buckets, c.lru, Append(c.inUse, e),
                                              c.usage + Charge[t], c.allowed), e, C!Found(c, t))
              IN  C!Insert(c, e, t, file)
                    = C!EvictDownTo(IF C!Found(c, t) = {} THEN kept
                                    ELSE C!FinishErase(kept, CHOOSE o \in C!Found(c, t) : TRUE),
                                    capacity)
<1> DEFINE b == WithEntries(c, v)
           given == Given(c, e, EntryMade(t, file))
           i == Append(c.inUse, e)
           u == c.usage + Charge[t]
           d == WithInUse(b, i)
           g == WithCharge(d, u)
           old == C!Found(c, t)
           after(x) == IF old = {} THEN x ELSE C!FinishErase(x, CHOOSE o \in old : TRUE)
<1>1. c = Parts(c.entries, c.buckets, c.lru, c.inUse, c.usage, c.allowed)
  BY DEF Whole
<1>2. given = b
  BY DEF WithEntries, Replaced, Given
<1>3. b = Parts(v, c.buckets, c.lru, c.inUse, c.usage, c.allowed)
  BY <1>1, PartChanged
<1>4. C!Insert(c, e, t, file)
        = C!EvictDownTo(IF capacity > 0 THEN after(C!TableInsert(NowUsed(given, e, t), e, old))
                        ELSE given, capacity)
  BY DEF C!Insert, EntryMade, Given, NowUsed
<1> HIDE DEF given
<1>5. NowUsed(b, e, t) = g
  <2> HIDE DEF b
  <2> QED
    BY <1>3 DEF WithInUse, WithCharge, Parts, NowUsed
<1> HIDE DEF b, i, u, old, after
<1>6. d = Parts(v, c.buckets, c.lru, i, c.usage, c.allowed)
  BY <1>3, PartChanged
<1> HIDE DEF d
<1>7. g = Parts(v, c.buckets, c.lru, i, u, c.allowed)
  BY <1>6, PartChanged
<1> HIDE DEF g
<1>8. NowUsed(given, e, t) = Parts(v, c.buckets, c.lru, i, u, c.allowed)
  BY <1>2, <1>5, <1>7
<1>9. ~(capacity > 0) => C!Insert(c, e, t, file) = C!EvictDownTo(b, capacity)
  BY <1>2, <1>4
<1>10. capacity > 0 =>
         C!Insert(c, e, t, file)
           = C!EvictDownTo(after(C!TableInsert(Parts(v, c.buckets, c.lru, i, u, c.allowed), e, old)),
                           capacity)
  BY <1>4, <1>8
<1> QED
  BY <1>3, <1>9, <1>10 DEF i, u, old, after

\* The files that are left to the clients when one of them gives this file up.
LeftFiles(F, E, file) ==
  E \in [Kinds -> Nat] /\ \A kind \in Kinds : F[kind] = E[kind] + IF kind = file THEN 1 ELSE 0

\* A file that an opened table takes over from its client.
LEMMA EntryTakes ==
  ASSUME NEW en \in CacheEntries, NEW al, NEW F \in [Kinds -> Nat], FilesOK(en, al, F),
         NEW e \in Slots, ~en[e].live, NEW x \in EntryType, x.live, NEW new, new = Replaced(en, e, x),
         NEW E, LeftFiles(F, E, x.file)
  PROVE  FilesOK(new, al, E)
<1>1. /\ new[e] = x /\ \A d \in Slots \ {e} : new[d] = en[d]
      /\ \A kind : OfKind(new, kind) = IF x.live /\ x.file = kind
                                       THEN OfKind(en, kind) \union {e}
                                       ELSE OfKind(en, kind) \ {e}
  BY OneEntry
<1>2. /\ al \in [Kinds -> Nat] /\ E \in [Kinds -> Nat]
      /\ \A kind \in Kinds : F[kind] = E[kind] + IF kind = x.file THEN 1 ELSE 0
  BY DEF FilesOK, LeftFiles
<1>3. ASSUME NEW kind \in Kinds
      PROVE  al[kind] + Cardinality(OfKind(new, kind)) + E[kind] = Limits[kind]
  <2>1. al[kind] + Cardinality(OfKind(en, kind)) + F[kind] = Limits[kind]
    BY DEF FilesOK
  <2>2. IsFiniteSet(OfKind(en, kind)) /\ Cardinality(OfKind(en, kind)) \in Nat
    BY SlotSets DEF OfKind
  <2>3. e \notin OfKind(en, kind)
    BY DEF OfKind
  <2>4. CASE kind = x.file
    <3>1. Cardinality(OfKind(en, kind) \union {e}) = Cardinality(OfKind(en, kind)) + 1
      BY <2>2, <2>3, FS_AddElement
    <3>2. /\ F[kind] = E[kind] + 1 /\ al[kind] \in Nat /\ E[kind] \in Nat
          /\ Cardinality(OfKind(new, kind)) = Cardinality(OfKind(en, kind)) + 1
      BY <1>1, <1>2, <2>4, <3>1
    <3> QED
      BY ONLY <2>1, <2>2, <3>2
  <2>5. CASE kind # x.file
    <3>1. OfKind(new, kind) = OfKind(en, kind)
      <4>1. OfKind(new, kind) = OfKind(en, kind) \ {e}
        BY <1>1, <2>5
      <4> QED
        BY ONLY <4>1, <2>3
    <3>2. F[kind] = E[kind] + 0 /\ E[kind] \in Nat
      BY <1>2, <2>5
    <3> QED
      BY <2>1, <3>1, <3>2
  <2> QED
    BY <2>4, <2>5
<1> QED
  BY <1>2, <1>3 DEF FilesOK

\* The parts of a cache that has this entry of a table in this slot, too.
WithNew(c, e, t, new, G, J, E) ==
  /\ ~c.entries[e].inCache /\ (capacity > 0 => new[e].inCache) /\ new[e].key = t
  /\ \A d \in Slots \ {e} : new[d] = c.entries[d]
  /\ ~(capacity > 0) => PartsOK(new, c.buckets, c.lru, c.inUse, c.usage, c.allowed, G, J, E, {})
  /\ capacity > 0 => PartsOK(new, c.buckets, c.lru, Append(c.inUse, e), c.usage + Charge[t],
                             c.allowed, G, J, E, {e})

\* The new entry before it is in the hash table.
LEMMA NewGiven ==
  ASSUME NEW c, NEW H \in [Slots -> Nat], NEW K \in [Slots -> Nat], NEW F \in [Kinds -> Nat],
         CacheOK(c, H, K, F, {}),
         NEW e \in Slots, ~c.entries[e].live, NEW t \in Tables, t \in Nat,
         NEW file \in {"mmap", "fd", "temporary"}, capacity \in Nat,
         NEW G, G = Replaced(H, e, 1), NEW J, J = Replaced(K, e, t),
         NEW E, LeftFiles(F, E, file),
         NEW new, new = Replaced(c.entries, e, EntryMade(t, file))
  PROVE  WithNew(c, e, t, new, G, J, E)
<1> DEFINE en == c.entries
           bu == c.buckets
           lr == c.lru
           iu == c.inUse
           us == c.usage
           al == c.allowed
<1>a. PartsOK(en, bu, lr, iu, us, al, H, K, F, {}) /\ ~en[e].live /\ new = Replaced(en, e, EntryMade(t, file))
  BY DEF CacheOK
<1> HIDE DEF en, bu, lr, iu, us, al
<1> DEFINE x == EntryMade(t, file)
<1>0. /\ EntriesOK(en, H, K) /\ ListsOK(en, lr, iu) /\ ChainsOK(en, bu, {}) /\ OnePerTable(en, {})
      /\ us = C!Charges(en) /\ FilesOK(en, al, F)
  BY <1>a DEF PartsOK
<1>1. en \in CacheEntries /\ \A d \in Slots : EntryOK(en[d], H[d], K[d])
  BY <1>0 DEF EntriesOK
<1>2. en[e] \in EntryType /\ en[e] = C!NoEntry /\ H[e] = 0 /\ ~en[e].inCache /\ ~en[e].live
      /\ en[e].inCache = FALSE
  <2>1. en[e] = C!NoEntry /\ H[e] = 0
    BY <1>1, <1>a DEF EntryOK
  <2> QED
    BY <2>1, NoEntryIs
<1>3. /\ x \in EntryType /\ x.key = t /\ x.file = file /\ x.live
      /\ capacity > 0 => x.inCache /\ x.refs = 2
      /\ ~(capacity > 0) => ~x.inCache /\ x.refs = 1
  <2>1. t \in Tables /\ file \in {"mmap", "fd", "temporary"} /\ capacity \in Nat
    OBVIOUS
  <2> QED
    BY ONLY <2>1, NewEntryIs
<1>4. G[e] = 1 /\ J[e] = t /\ \A d \in Slots \ {e} : G[d] = H[d] /\ J[d] = K[d]
  BY DEF Replaced
<1> HIDE DEF x
<1>5. /\ new \in CacheEntries /\ new[e] = x /\ \A d \in Slots \ {e} : new[d] = en[d]
      /\ OnlyCached(new) = IF x.inCache /\ x.refs = 1 THEN OnlyCached(en) \union {e}
                           ELSE OnlyCached(en) \ {e}
      /\ InUse(new) = IF x.inCache /\ x.refs # 1 THEN InUse(en) \union {e}
                      ELSE InUse(en) \ {e}
  <2>1. new = Replaced(en, e, x)
    BY <1>a DEF x
  <2> QED
    BY <1>1, <1>3, <2>1, OneEntry
<1>6. EntriesOK(new, G, J)
  <2>1. ASSUME NEW d \in Slots PROVE EntryOK(new[d], G[d], J[d])
    <3>1. CASE d = e
      <4>1. x.refs = G[e] + (IF x.inCache THEN 1 ELSE 0) /\ x.refs # 0 /\ x.live
        <5>1. CASE capacity > 0
          BY <1>3, <1>4, <5>1
        <5>2. CASE ~(capacity > 0)
          BY <1>3, <1>4, <5>2
        <5> QED
          BY <5>1, <5>2
      <4>2. x.key \in Tables /\ x.file # "none" /\ x.key = J[e]
        BY <1>3, <1>4
      <4> QED
        BY <1>5, <3>1, <4>1, <4>2 DEF EntryOK
    <3>2. CASE d # e
      BY <1>1, <1>4, <1>5, <3>2
    <3> QED
      BY <3>1, <3>2
  <2> QED
    BY <1>5, <2>1 DEF EntriesOK
<1>7. FilesOK(new, al, E)
  <2>1. new = Replaced(en, e, x) /\ x.live /\ ~en[e].live
    BY <1>2, <1>3, <1>a DEF x
  <2>2. LeftFiles(F, E, x.file)
    BY <1>3
  <2> QED
    BY <1>0, <1>1, <1>3, <2>1, <2>2, EntryTakes
<1>8. e \notin OnlyCached(en) /\ e \notin InUse(en)
  BY <1>2 DEF OnlyCached, InUse
<1>9. \A d \in Slots : ChargeOf(en[d]) \in Nat /\ ChargeOf(new[d]) \in Nat
  BY <1>0, <1>6, ChargeNat
<1>10. /\ C!Charges(en) \in Nat /\ C!Charges(new) \in Nat
       /\ C!Charges(new) + ChargeOf(en[e]) = C!Charges(en) + ChargeOf(new[e])
  <2>1. \A d \in Slots \ {e} : ChargeOf(new[d]) = ChargeOf(en[d])
    BY <1>5
  <2> QED
    BY <1>9, <2>1, ChargesChange
<1>11. ChargeOf(en[e]) = 0 /\ ChargeOf(new[e]) \in Nat
  BY <1>2, <1>9 DEF ChargeOf
<1>12. ASSUME ~(capacity > 0) PROVE PartsOK(new, bu, lr, iu, us, al, G, J, E, {})
  <2>1. x.inCache = FALSE /\ new[e].inCache = FALSE
    <3>1. x.inCache \in BOOLEAN /\ ~x.inCache
      BY <1>3, <1>12, EntryFields
    <3> QED
      BY <1>5, <3>1
  <2>2. ListsOK(new, lr, iu)
    <3>1. OnlyCached(new) = OnlyCached(en) /\ InUse(new) = InUse(en)
      BY <1>5, <1>8, <2>1
    <3> QED
      BY <1>0, <3>1 DEF ListsOK
  <2>3. new[e].inCache = en[e].inCache
    BY <1>2, <2>1
  <2>4. ChainsOK(new, bu, {}) /\ OnePerTable(new, {})
    BY <1>0, <1>1, <1>5, <2>1, <2>3, SameCached
  <2>5. us = C!Charges(new)
    <3>1. ChargeOf(new[e]) = 0
      BY <2>1 DEF ChargeOf
    <3> QED
      BY <1>0, <1>10, <1>11, <3>1
  <2> QED
    BY <1>6, <1>7, <2>2, <2>4, <2>5 DEF PartsOK
<1>13. ASSUME capacity > 0
       PROVE  PartsOK(new, bu, lr, Append(iu, e), us + Charge[t], al, G, J, E, {e})
  <2>1. x.inCache /\ x.refs = 2 /\ new[e] = x
    BY <1>3, <1>5, <1>13
  <2>2. ListsOK(new, lr, Append(iu, e))
    <3>1. OnlyCached(new) = OnlyCached(en) /\ InUse(new) = InUse(en) \union {e}
      BY <1>5, <1>8, <2>1
    <3>2. Lists(Append(iu, e), InUse(en) \union {e})
      BY <1>0, <1>8, ListAppend DEF ListsOK
    <3> QED
      BY <1>0, <3>1, <3>2 DEF ListsOK
  <2>3. \A d \in Slots : (d \notin {e} /\ new[d].inCache) <=> (d \notin {} /\ en[d].inCache)
    BY <1>2, <1>5
  <2>4. ChainsOK(new, bu, {e})
    <3>1. \A n, length : InBucket(new, {e}, n, length) = InBucket(en, {}, n, length)
      BY <1>5, <2>3 DEF InBucket
    <3> QED
      BY <1>0, <3>1 DEF ChainsOK
  <2>5. OnePerTable(new, {e})
    BY <1>0, <1>5, <2>3 DEF OnePerTable
  <2>6. us + Charge[t] = C!Charges(new)
    <3>1. ChargeOf(new[e]) = Charge[t]
      BY <1>3, <2>1 DEF ChargeOf
    <3> QED
      BY <1>0, <1>10, <1>11, <3>1
  <2> QED
    BY <1>6, <1>7, <2>2, <2>4, <2>5, <2>6 DEF PartsOK
<1>14. (capacity > 0 => new[e].inCache) /\ new[e].key = t
  BY <1>3, <1>5
<1> QED
  BY <1>2, <1>5, <1>12, <1>13, <1>14 DEF en, bu, lr, iu, us, al, WithNew

\* A table that was opened is inserted, with a handle for the client; what it
\* replaces, and what is too much, leaves the cache.
LEMMA InsertOK ==
  ASSUME NEW c, NEW H \in [Slots -> Nat], NEW K \in [Slots -> Nat], NEW F \in [Kinds -> Nat],
         CacheOK(c, H, K, F, {}),
         NEW e \in Slots, ~c.entries[e].live, NEW t \in Tables, t \in Nat,
         NEW file \in {"mmap", "fd", "temporary"}, capacity \in Nat,
         NEW G, G = Replaced(H, e, 1), NEW J, J = Replaced(K, e, t),
         NEW E, LeftFiles(F, E, file)
  PROVE  CacheOK(C!Insert(c, e, t, file), G, J, E, {})
<1> DEFINE en == c.entries
           bu == c.buckets
           lr == c.lru
           iu == c.inUse
           us == c.usage
           al == c.allowed
           new == Replaced(en, e, EntryMade(t, file))
           i == Append(iu, e)
           u == us + Charge[t]
           a == Parts(new, bu, lr, iu, us, al)
           b == Parts(new, bu, lr, i, u, al)
           old == C!Found(c, t)
           kept == C!TableInsert(b, e, old)
           o == CHOOSE x \in old : TRUE
<1>0a. E \in [Kinds -> Nat]
  BY DEF LeftFiles
<1>0. G \in [Slots -> Nat] /\ PartsOK(en, bu, lr, iu, us, al, H, K, F, {}) /\ Whole(c) /\ ~en[e].live
  BY DEF CacheOK, Replaced
<1>1. /\ ~(capacity > 0) => C!Insert(c, e, t, file) = C!EvictDownTo(a, capacity)
      /\ capacity > 0 =>
           C!Insert(c, e, t, file)
             = C!EvictDownTo(IF old = {} THEN kept ELSE C!FinishErase(kept, o), capacity)
  BY <1>0, InsertIs
<1>2. /\ ~en[e].inCache /\ (capacity > 0 => new[e].inCache) /\ new[e].key = t
      /\ \A d \in Slots \ {e} : new[d] = en[d]
      /\ ~(capacity > 0) => PartsOK(new, bu, lr, iu, us, al, G, J, E, {})
      /\ capacity > 0 => PartsOK(new, bu, lr, i, u, al, G, J, E, {e})
  <2>1. WithNew(c, e, t, new, G, J, E)
    BY NewGiven
  <2> QED
    BY <2>1 DEF WithNew
<1>3. /\ old = {d \in Slots \ {} : en[d].inCache /\ en[d].key = t}
      /\ \A d, g \in old : d = g
  BY FoundIs
<1> HIDE DEF en, bu, lr, iu, us, al, new, i, u, old
<1>4. CASE ~(capacity > 0)
  <2>1. CacheOK(a, G, J, E, {})
    BY <1>2, <1>4, CacheOfParts
  <2> HIDE DEF a
  <2>2. CacheOK(C!EvictDownTo(a, capacity), G, J, E, {})
    BY <1>0, <1>0a, <2>1, EvictDownToOK
  <2> QED
    BY <1>1, <1>4, <2>2
<1>5. CASE capacity > 0
  <2>1. CacheOK(b, G, J, E, {e}) /\ b.entries = new
    <3>1. b.entries = new
      BY DEF Parts
    <3> QED
      BY <1>2, <1>5, <3>1, CacheOfParts
  <2>2. b.entries[e].inCache /\ b.entries[e].key = t
    BY <1>2, <1>5, <2>1
  <2>3. \A d \in Slots \ {e} : b.entries[d] = en[d]
    BY <1>2, <2>1
  <2> HIDE DEF b
  <2>4. CASE old = {}
    <3>1. \A d \in Slots \ {e} : b.entries[d].inCache => b.entries[d].key # b.entries[e].key
      BY <1>3, <2>2, <2>3, <2>4
    <3>2. CacheOK(C!TableInsert(b, e, {}), G, J, E, {})
      BY <2>1, <2>2, <3>1, InsertNewOK
    <3>3. CacheOK(kept, G, J, E, {})
      BY <2>4, <3>2
    <3> HIDE DEF kept
    <3>4. CacheOK(C!EvictDownTo(kept, capacity), G, J, E, {})
      BY <1>0, <1>0a, <3>3, EvictDownToOK
    <3> QED
      BY <1>1, <1>5, <2>4, <3>4
  <2>5. CASE old # {}
    <3>1. o \in old
      BY <2>5
    <3> HIDE DEF o
    <3>2. old = {o} /\ o \in Slots \ {e} /\ en[o].inCache /\ en[o].key = t
      BY <1>3, <1>2, <3>1
    <3>3. b.entries[o].inCache /\ b.entries[o].key = b.entries[e].key
      BY <2>2, <2>3, <3>2
    <3>4. CacheOK(kept, G, J, E, {o}) /\ kept.entries = b.entries
      <4>1. /\ e \in Slots /\ CacheOK(b, G, J, E, {e}) /\ b.entries[e].inCache
            /\ o \in Slots \ {e} /\ b.entries[o].inCache
            /\ b.entries[o].key = b.entries[e].key /\ old = {o}
        BY <2>1, <2>2, <3>2, <3>3
      <4> QED
        BY ONLY <4>1, InsertOldOK
    <3>5. kept.entries[o].inCache
      BY <3>3, <3>4
    <3> HIDE DEF kept
    <3>6. CacheOK(C!FinishErase(kept, o), G, J, E, {})
      BY <1>0, <1>0a, <3>2, <3>4, <3>5, FinishEraseOK
    <3> DEFINE rest == C!FinishErase(kept, o)
    <3> HIDE DEF rest
    <3>7. CacheOK(rest, G, J, E, {})
      BY <3>6 DEF rest
    <3>8. CacheOK(C!EvictDownTo(rest, capacity), G, J, E, {})
      BY <1>0, <1>0a, <3>7, EvictDownToOK
    <3> QED
      BY <1>1, <1>5, <2>5, <3>8 DEF rest
  <2> QED
    BY <2>4, <2>5
<1> QED
  BY <1>4, <1>5

-----------------------------------------------------------------------------
(* ~LRUCache.                                                               *)

\* An entry that only the cache refers to is deleted.
LEMMA DropEntryIs ==
  ASSUME NEW c, Whole(c), NEW e \in Slots, c.entries \in CacheEntries, c.entries[e].refs = 1
  PROVE  C!DropEntry(c, e)
           = Parts(Replaced(c.entries, e, C!NoEntry), c.buckets, c.lru, c.inUse, c.usage,
                   C!Release(c.allowed, c.entries[e].file))
<1> DEFINE en == c.entries
           v == Dropped(en, e)
           b == WithEntries(c, v)
<1>0. c = Parts(en, c.buckets, c.lru, c.inUse, c.usage, c.allowed)
  BY DEF Whole
<1>1. C!DropEntry(c, e) = C!Unref(b, e)
  BY DEF C!DropEntry, WithEntries, Dropped, Replaced, WithInCache
<1>2. en[e] \in EntryType
  BY EntriesRead
<1>3. /\ v[e].refs = 1 /\ v[e].file = en[e].file
      /\ Replaced(v, e, C!NoEntry) = Replaced(en, e, C!NoEntry)
  <2>1. WithInCache(en[e], FALSE).refs = en[e].refs /\ WithInCache(en[e], FALSE).file = en[e].file
    BY <1>2, OutOfCache
  <2>2. v[e] = WithInCache(en[e], FALSE)
    BY DEF Dropped, Replaced, CacheEntries
  <2>3. Replaced(v, e, C!NoEntry) = Replaced(en, e, C!NoEntry)
    BY DEF Dropped, Replaced, CacheEntries
  <2> QED
    BY <2>1, <2>2, <2>3
<1> HIDE DEF v
<1>4. b = Parts(v, c.buckets, c.lru, c.inUse, c.usage, c.allowed)
  BY <1>0, PartChanged
<1> HIDE DEF b
<1>5. /\ b.entries = v /\ b.buckets = c.buckets /\ b.lru = c.lru /\ b.inUse = c.inUse
      /\ b.usage = c.usage /\ b.allowed = c.allowed
  BY <1>4 DEF Parts
<1>6. Whole(b)
  BY <1>4, <1>5 DEF Whole
<1>7. C!Unref(b, e) = C!DeleteEntry(b, e)
  BY <1>3, <1>5, <1>6, UnrefIs
<1>8. C!DeleteEntry(b, e) = Parts(Replaced(b.entries, e, C!NoEntry), b.buckets, b.lru, b.inUse,
                                  b.usage, C!Release(b.allowed, b.entries[e].file))
  BY <1>6, DeleteIs
<1> QED
  BY <1>1, <1>3, <1>5, <1>7, <1>8

\* What ~LRUCache has dropped so far.
Dropping(c, x, F, n) ==
  /\ x.entries \in CacheEntries /\ Whole(x) /\ FilesOK(x.entries, x.allowed, F)
  /\ \A d \in Slots : x.entries[d] = IF \E i \in 1 .. n : c.lru[i] = d
                                     THEN C!NoEntry ELSE c.entries[d]
DropType(c) == {Parts(en, c.buckets, c.lru, c.inUse, c.usage, al) :
                  en \in CacheEntries, al \in [Kinds -> Nat]}

\* A turn of ~LRUCache.
LEMMA DropTurn ==
  ASSUME NEW c, NEW S, Lists(c.lru, S), \A d \in S : c.entries[d].refs = 1 /\ c.entries[d].live,
         NEW F \in [Kinds -> Nat], NEW n \in 1 .. Len(c.lru),
         NEW x \in DropType(c), Dropping(c, x, F, n - 1)
  PROVE  /\ C!DropEntry(x, c.lru[n]) \in DropType(c)
         /\ Dropping(c, C!DropEntry(x, c.lru[n]), F, n)
<1> DEFINE e == c.lru[n]
           en == x.entries
           al == x.allowed
           new == Replaced(en, e, C!NoEntry)
           given == C!Release(al, en[e].file)
           y == C!DropEntry(x, e)
<1>0. /\ Len(c.lru) \in Nat /\ n \in Nat /\ e \in S /\ e \in Slots
      /\ \A i \in 1 .. n - 1 : c.lru[i] # e
  <2>1. Len(c.lru) \in Nat
    BY DEF Lists
  <2>2. \A i \in 1 .. n - 1 : i \in 1 .. Len(c.lru) /\ i # n
    BY <2>1
  <2> QED
    BY <2>1, <2>2 DEF Lists
<1>1. /\ en \in CacheEntries /\ Whole(x) /\ FilesOK(en, al, F)
      /\ \A d \in Slots : en[d] = IF \E i \in 1 .. n - 1 : c.lru[i] = d
                                  THEN C!NoEntry ELSE c.entries[d]
  BY DEF Dropping
<1>2. en[e] = c.entries[e] /\ en[e].refs = 1 /\ en[e].live
  BY <1>0, <1>1
<1>3. y = Parts(new, x.buckets, x.lru, x.inUse, x.usage, given)
  BY <1>0, <1>1, <1>2, DropEntryIs
<1>4. FilesOK(new, given, F)
  BY <1>0, <1>1, <1>2, EntryReleases
<1>5. /\ new \in CacheEntries /\ new[e] = C!NoEntry /\ \A d \in Slots \ {e} : new[d] = en[d]
  BY <1>0, <1>1, Freed
<1>6. given \in [Kinds -> Nat]
  BY <1>4 DEF FilesOK
<1>7. x.buckets = c.buckets /\ x.lru = c.lru /\ x.inUse = c.inUse /\ x.usage = c.usage
  BY DEF DropType, Parts
<1> HIDE DEF e, en, new, given, y
<1>8. y \in DropType(c)
  BY <1>3, <1>5, <1>6, <1>7 DEF DropType
<1>9. y.entries = new /\ y.allowed = given /\ Whole(y)
  BY <1>3 DEF Parts, Whole
<1>10. ASSUME NEW d \in Slots
       PROVE  new[d] = IF \E i \in 1 .. n : c.lru[i] = d THEN C!NoEntry ELSE c.entries[d]
  <2>1. \A i : i \in 1 .. n <=> i \in 1 .. n - 1 \/ i = n
    BY <1>0
  <2>2. CASE d = e
    BY <1>5, <2>1, <2>2 DEF e
  <2>3. CASE d # e
    <3>1. (\E i \in 1 .. n : c.lru[i] = d) <=> \E i \in 1 .. n - 1 : c.lru[i] = d
      BY <2>1, <2>3 DEF e
    <3> QED
      BY <1>1, <1>5, <2>3, <3>1
  <2> QED
    BY <2>2, <2>3
<1>11. Dropping(c, y, F, n)
  BY <1>4, <1>5, <1>9, <1>10 DEF Dropping
<1> QED
  BY <1>8, <1>11 DEF e, y

\* Without handles nothing is left.
LEMMA DropAllOK ==
  ASSUME NEW c, NEW H, NEW K, NEW F \in [Kinds -> Nat], CacheOK(c, H, K, F, {}),
         \A d \in Slots : H[d] = 0
  PROVE  /\ C!DropAll(c).entries \in CacheEntries
         /\ \A d \in Slots : C!DropAll(c).entries[d] = C!NoEntry
         /\ FilesOK(C!DropAll(c).entries, C!DropAll(c).allowed, F)
         /\ C!DropAll(c).usage \in Nat
<1> DEFINE N == Len(c.lru)
           S == OnlyCached(c.entries)
           good == [n \in 0 .. N |-> {x \in DropType(c) : Dropping(c, x, F, n)}]
           step == [n \in 1 .. N |-> [x \in DropType(c) |-> C!DropEntry(x, c.lru[n])]]
           Is(f) == f = [n \in 0 .. N |-> IF n = 0 THEN c ELSE C!DropEntry(f[n - 1], c.lru[n])]
           g == CHOOSE f : Is(f)
<1>0. /\ EntriesOK(c.entries, H, K) /\ ListsOK(c.entries, c.lru, c.inUse) /\ Whole(c)
      /\ FilesOK(c.entries, c.allowed, F) /\ c.entries \in CacheEntries
      /\ \A d \in Slots : EntryOK(c.entries[d], 0, K[d])
  BY DEF CacheOK, PartsOK, EntriesOK
<1>1. Lists(c.lru, S) /\ N \in Nat
  BY <1>0 DEF ListsOK, Lists
<1>2. \A d \in S : c.entries[d].refs = 1 /\ c.entries[d].live
  <2>1. ASSUME NEW d \in S PROVE c.entries[d].live
    <3>1. d \in Slots /\ c.entries[d].inCache
      BY DEF OnlyCached
    <3>2. EntryOK(c.entries[d], 0, K[d])
      BY <1>0, <3>1
    <3> QED
      BY <3>1, <3>2, NoEntryIs DEF EntryOK
  <2> QED
    BY <2>1 DEF OnlyCached
<1>3. C!DropAll(c) = g[N]
  BY DEF C!DropAll
<1>4. /\ \A n \in 0 .. N : \A x : x \in good[n] <=> x \in DropType(c) /\ Dropping(c, x, F, n)
      /\ \A n \in 1 .. N : n - 1 \in 0 .. N /\ n \in 0 .. N /\ n # 0
      /\ \A n \in 1 .. N : \A x \in DropType(c) : step[n][x] = C!DropEntry(x, c.lru[n])
  BY <1>1
<1>5. c \in good[0]
  <2>1. c = Parts(c.entries, c.buckets, c.lru, c.inUse, c.usage, c.allowed)
    BY <1>0 DEF Whole
  <2>2. c.entries \in CacheEntries /\ c.allowed \in [Kinds -> Nat]
    BY <1>0 DEF FilesOK
  <2>3. c \in DropType(c)
    BY <2>1, <2>2 DEF DropType
  <2>4. Dropping(c, c, F, 0)
    BY <1>0 DEF Dropping
  <2>5. 0 \in 0 .. N
    BY <1>1
  <2> HIDE DEF good
  <2> QED
    BY <1>4, <2>3, <2>4, <2>5
<1> HIDE DEF good, step, N
<1>6. ASSUME NEW n \in 1 .. N, NEW x \in good[n - 1]
      PROVE  C!DropEntry(x, c.lru[n]) \in good[n] /\ x \in DropType(c)
  <2>1. x \in DropType(c) /\ Dropping(c, x, F, n - 1) /\ n \in 1 .. Len(c.lru)
    BY <1>4 DEF N
  <2>2. /\ C!DropEntry(x, c.lru[n]) \in DropType(c)
        /\ Dropping(c, C!DropEntry(x, c.lru[n]), F, n)
    BY <1>1, <1>2, <2>1, DropTurn
  <2> QED
    BY <1>4, <2>1, <2>2
<1>7. \A n \in 1 .. N : \A x \in good[n - 1] : step[n][x] \in good[n]
  BY <1>4, <1>6
<1>8. PICK f : Looping(f, N, c, step) /\ \A n \in 0 .. N : f[n] \in good[n]
  BY ONLY <1>1, <1>5, <1>7, LoopGood
<1>9. Is(f)
  <2>1. f = [n \in 0 .. N |-> IF n = 0 THEN c ELSE step[n][f[n - 1]]]
    BY <1>8 DEF Looping
  <2>2. \A n \in 1 .. N : f[n - 1] \in good[n - 1]
    BY <1>4, <1>8
  <2>3. \A n \in 1 .. N : step[n][f[n - 1]] = C!DropEntry(f[n - 1], c.lru[n])
    BY <1>4, <1>6, <2>2
  <2>4. \A n \in 0 .. N : n # 0 => n \in 1 .. N
    BY <1>1
  <2> QED
    BY <2>1, <2>3, <2>4
<1>10. Is(g)
  BY <1>9
<1> HIDE DEF g
<1>11. g[0] = c /\ \A n \in 1 .. N : g[n] = C!DropEntry(g[n - 1], c.lru[n])
  <2>1. 0 \in 0 .. N
    BY <1>1
  <2> QED
    BY <1>4, <1>10, <2>1
<1>12. g[0] \in good[0] /\ \A n \in 1 .. N : g[n - 1] \in good[n - 1] => g[n] \in good[n]
  BY <1>5, <1>6, <1>11
<1>13. \A n \in 0 .. N : g[n] \in good[n]
  BY ONLY <1>1, <1>12, LoopKeeps
<1> DEFINE z == C!DropAll(c)
<1>14. z \in DropType(c) /\ Dropping(c, z, F, N)
  <2>1. N \in 0 .. N
    BY <1>1
  <2> QED
    BY <1>3, <1>4, <1>13, <2>1
<1> HIDE DEF z
<1>15. ASSUME NEW d \in Slots PROVE z.entries[d] = C!NoEntry
  <2>1. z.entries[d] = IF \E i \in 1 .. N : c.lru[i] = d THEN C!NoEntry ELSE c.entries[d]
    BY <1>14 DEF Dropping
  <2>2. CASE d \in S
    <3>1. \E i \in 1 .. N : c.lru[i] = d
      BY <1>1, <2>2 DEF Lists, N
    <3> QED
      BY <2>1, <3>1
  <2>3. CASE d \notin S
    <3> DEFINE y == c.entries[d]
    <3>1. EntryOK(y, 0, K[d]) /\ y.refs \in Nat /\ ~(y.inCache /\ y.refs = 1)
      BY <1>0, <2>3, EntriesRead DEF OnlyCached
    <3> HIDE DEF y
    <3>2. y = C!NoEntry
      <4>1. CASE y.live
        <5>1. y.refs # 0 /\ y.refs = 0 + IF y.inCache THEN 1 ELSE 0
          BY <3>1, <4>1 DEF EntryOK
        <5> QED
          BY <3>1, <5>1
      <4>2. CASE ~y.live
        BY <3>1, <4>2 DEF EntryOK
      <4> QED
        BY <4>1, <4>2
    <3> QED
      BY <2>1, <3>2 DEF y
  <2> QED
    BY <2>2, <2>3
<1>16. z.entries \in CacheEntries /\ FilesOK(z.entries, z.allowed, F)
  BY <1>14 DEF Dropping
<1>17. z.usage = c.usage /\ c.usage \in Nat
  <2>1. z.usage = c.usage
    BY <1>14 DEF DropType, Parts
  <2>2. c \in CacheType
    BY CacheInType
  <2> QED
    BY <2>1, <2>2 DEF CacheType
<1> QED
  BY <1>15, <1>16, <1>17 DEF z

-----------------------------------------------------------------------------
(* The clients: how many handles they have to an entry, how many files of a *)
(* kind they have open.                                                     *)

\* What a client is between two of its calls.
ClientType == [phase : {"idle", "missed", "opened", "using"}, table : {0} \union Tables,
               file : {"none", "mmap", "fd", "temporary"}, handle : {0} \union Slots]
ClientOK(x) ==
  /\ x.phase = "idle" => x = C!Idle
  /\ x.phase # "idle" => x.table \in Tables
  /\ x.phase = "opened" <=> x.file # "none"
  /\ x.phase = "using" <=> x.handle # 0
Callers == [Clients -> ClientType]

\* Who has a handle to the entry, who has a file of the kind open that is no entry's.
HoldersOf(cl, e) == {p \in Clients : cl[p].handle = e}
OpenersOf(cl, kind) == {p \in Clients : cl[p].file = kind}
Handles(cl) == [e \in Slots |-> Cardinality(HoldersOf(cl, e))]
Pending(cl) == [kind \in Kinds |-> Cardinality(OpenersOf(cl, kind))]
Keys(en) == [e \in Slots |-> en[e].key]

\* Nobody who holds nothing holds an entry.
LEMMA IdleIs ==
  /\ C!Idle \in ClientType /\ C!Idle.phase = "idle" /\ C!Idle.table = 0 /\ C!Idle.file = "none"
  /\ C!Idle.handle = 0 /\ ClientOK(C!Idle)
BY DEF C!Idle, ClientType, ClientOK

\* Slots are counted from 1.
LEMMA NoSlotZero == 0 \notin Slots /\ Slots \subseteq Nat
BY SlotNumbers

\* Sets of clients are finite.
LEMMA ClientSets ==
  ASSUME NEW S, S \subseteq Clients
  PROVE  IsFiniteSet(S) /\ Cardinality(S) \in Nat /\ Cardinality(S) <= Cardinality(Clients)
         /\ Cardinality(Clients) \in Nat /\ (Cardinality(S) = 0 <=> S = {})
         /\ C!Cardinality(S) = Cardinality(S)
<1>1. IsFiniteSet(Clients)
  BY MCTableCacheAssumption DEF C!TableCacheAssumption, C!IsFiniteSet, IsFiniteSet
<1>2. IsFiniteSet(S) /\ Cardinality(S) <= Cardinality(Clients)
  BY <1>1, FS_Subset
<1>3. Cardinality(S) \in Nat /\ Cardinality(Clients) \in Nat /\ (Cardinality(S) = 0 <=> S = {})
  BY <1>1, <1>2, FS_CardinalityType, FS_EmptySet
<1> QED
  BY <1>2, <1>3, SlotNumbers

\* The counts are numbers.
LEMMA CountsAre ==
  ASSUME NEW cl
  PROVE  Handles(cl) \in [Slots -> Nat] /\ Pending(cl) \in [Kinds -> Nat]
<1>1. \A e : Cardinality(HoldersOf(cl, e)) \in Nat
  BY ClientSets DEF HoldersOf
<1>2. \A kind : Cardinality(OpenersOf(cl, kind)) \in Nat
  BY ClientSets DEF OpenersOf
<1> QED
  BY <1>1, <1>2 DEF Handles, Pending

\* One client is counted more, or less.
LEMMA OneClient ==
  ASSUME NEW S, S \subseteq Clients, NEW p \in Clients
  PROVE  /\ p \in S => /\ Cardinality(S \ {p}) = Cardinality(S) - 1
                       /\ Cardinality(S) # 0
         /\ p \notin S => Cardinality(S \union {p}) = Cardinality(S) + 1
         /\ Cardinality(S) \in Nat /\ Cardinality(S \ {p}) \in Nat
<1>1. /\ IsFiniteSet(S) /\ Cardinality(S) \in Nat /\ (Cardinality(S) = 0 <=> S = {})
      /\ Cardinality(S \ {p}) \in Nat
  <2>1. S \ {p} \subseteq Clients
    OBVIOUS
  <2> QED
    BY <2>1, ClientSets
<1>2. p \in S => Cardinality(S \ {p}) = Cardinality(S) - 1
  BY <1>1, FS_RemoveElement
<1>3. p \notin S => Cardinality(S \union {p}) = Cardinality(S) + 1
  BY <1>1, FS_AddElement
<1>4. p \in S => Cardinality(S) # 0
  BY <1>1
<1> QED
  BY <1>1, <1>2, <1>3, <1>4

\* What a client that changes changes of the sets that are counted.
LEMMA ClientChanged ==
  ASSUME NEW cl \in Callers, NEW p \in Clients, NEW x \in ClientType,
         NEW new, new = Replaced(cl, p, x)
  PROVE  /\ new \in Callers /\ new[p] = x /\ \A q \in Clients \ {p} : new[q] = cl[q]
         /\ \A e : HoldersOf(new, e) = IF x.handle = e THEN HoldersOf(cl, e) \union {p}
                                       ELSE HoldersOf(cl, e) \ {p}
         /\ \A kind : OpenersOf(new, kind) = IF x.file = kind THEN OpenersOf(cl, kind) \union {p}
                                             ELSE OpenersOf(cl, kind) \ {p}
<1>1. new \in Callers /\ new[p] = x /\ \A q \in Clients \ {p} : new[q] = cl[q]
  BY DEF Callers, Replaced
<1> QED
  BY <1>1 DEF HoldersOf, OpenersOf

\* Handles do not change with a client whose handle does not, and so for files.
LEMMA SameHandles ==
  ASSUME NEW cl \in Callers, NEW p \in Clients, NEW x \in ClientType, x.handle = cl[p].handle
  PROVE  Handles(Replaced(cl, p, x)) = Handles(cl)
<1> DEFINE new == Replaced(cl, p, x)
<1>1. /\ new[p] = x /\ \A q \in Clients \ {p} : new[q] = cl[q]
  BY ClientChanged
<1> HIDE DEF new
<1>2. \A e : HoldersOf(new, e) = HoldersOf(cl, e)
  BY <1>1 DEF HoldersOf
<1>3. Handles(new) = Handles(cl)
  BY <1>2 DEF Handles
<1> QED
  BY <1>3 DEF new

\* A client that keeps its file.
LEMMA SamePending ==
  ASSUME NEW cl \in Callers, NEW p \in Clients, NEW x \in ClientType, x.file = cl[p].file
  PROVE  Pending(Replaced(cl, p, x)) = Pending(cl)
<1> DEFINE new == Replaced(cl, p, x)
<1>1. /\ new[p] = x /\ \A q \in Clients \ {p} : new[q] = cl[q]
  BY ClientChanged
<1> HIDE DEF new
<1>2. \A e : OpenersOf(new, e) = OpenersOf(cl, e)
  BY <1>1 DEF OpenersOf
<1>3. Pending(new) = Pending(cl)
  BY <1>2 DEF Pending
<1> QED
  BY <1>3 DEF new

\* A client that gets a handle.
LEMMA HandleTaken ==
  ASSUME NEW cl \in Callers, NEW p \in Clients, NEW x \in ClientType,
         cl[p].handle = 0, NEW e \in Slots, x.handle = e
  PROVE  Handles(Replaced(cl, p, x)) = Replaced(Handles(cl), e, Handles(cl)[e] + 1)
<1> DEFINE new == Replaced(cl, p, x)
<1>1. \A d : HoldersOf(new, d) = IF x.handle = d THEN HoldersOf(cl, d) \union {p}
                                 ELSE HoldersOf(cl, d) \ {p}
  BY ClientChanged
<1>2. 0 \notin Slots
  BY NoSlotZero
<1>3. \A d \in Slots : p \notin HoldersOf(cl, d)
  BY <1>2 DEF HoldersOf
<1> HIDE DEF new
<1>4. ASSUME NEW d \in Slots
      PROVE  Cardinality(HoldersOf(new, d)) = IF d = e THEN Cardinality(HoldersOf(cl, d)) + 1
                                              ELSE Cardinality(HoldersOf(cl, d))
  <2>1. HoldersOf(cl, d) \subseteq Clients /\ p \notin HoldersOf(cl, d)
    BY <1>3 DEF HoldersOf
  <2>2. Cardinality(HoldersOf(cl, d) \union {p}) = Cardinality(HoldersOf(cl, d)) + 1
    BY <2>1, OneClient
  <2>3. HoldersOf(cl, d) \ {p} = HoldersOf(cl, d)
    BY <2>1
  <2> QED
    BY <1>1, <2>2, <2>3
<1>5. Handles(new) = Replaced(Handles(cl), e, Handles(cl)[e] + 1)
  BY <1>4 DEF Handles, Replaced
<1> QED
  BY <1>5 DEF new

\* A client that gives its handle back.
LEMMA HandleGiven ==
  ASSUME NEW cl \in Callers, NEW p \in Clients, NEW x \in ClientType,
         x.handle = 0, NEW e \in Slots, cl[p].handle = e
  PROVE  /\ Handles(Replaced(cl, p, x)) = Replaced(Handles(cl), e, Handles(cl)[e] - 1)
         /\ Handles(cl)[e] # 0
<1> DEFINE new == Replaced(cl, p, x)
<1>1. \A d : HoldersOf(new, d) = IF x.handle = d THEN HoldersOf(cl, d) \union {p}
                                 ELSE HoldersOf(cl, d) \ {p}
  BY ClientChanged
<1>2. 0 \notin Slots
  BY NoSlotZero
<1>3. p \in HoldersOf(cl, e) /\ \A d \in Slots \ {e} : p \notin HoldersOf(cl, d)
  BY DEF HoldersOf
<1> HIDE DEF new
<1>4. ASSUME NEW d \in Slots
      PROVE  Cardinality(HoldersOf(new, d)) = IF d = e THEN Cardinality(HoldersOf(cl, d)) - 1
                                              ELSE Cardinality(HoldersOf(cl, d))
  <2>1. HoldersOf(new, d) = HoldersOf(cl, d) \ {p}
    BY <1>1, <1>2
  <2>2. CASE d = e
    <3>1. HoldersOf(cl, d) \subseteq Clients /\ p \in HoldersOf(cl, d)
      BY <1>3, <2>2 DEF HoldersOf
    <3>2. Cardinality(HoldersOf(cl, d) \ {p}) = Cardinality(HoldersOf(cl, d)) - 1
      BY <3>1, OneClient
    <3> QED
      BY <2>1, <2>2, <3>2
  <2>3. CASE d # e
    <3>1. HoldersOf(cl, d) \ {p} = HoldersOf(cl, d)
      BY <1>3, <2>3
    <3> QED
      BY <2>1, <2>3, <3>1
  <2> QED
    BY <2>2, <2>3
<1>5. Handles(new) = Replaced(Handles(cl), e, Handles(cl)[e] - 1)
  BY <1>4 DEF Handles, Replaced
<1>6. Handles(cl)[e] # 0
  <2>1. HoldersOf(cl, e) \subseteq Clients
    BY DEF HoldersOf
  <2>2. Cardinality(HoldersOf(cl, e)) # 0
    BY <1>3, <2>1, OneClient
  <2> QED
    BY <2>2 DEF Handles
<1> QED
  BY <1>5, <1>6 DEF new

\* A client that gives its file up, or gets one.
LEMMA FileGiven ==
  ASSUME NEW cl \in Callers, NEW p \in Clients, NEW x \in ClientType, x.file = "none"
  PROVE  LeftFiles(Pending(cl), Pending(Replaced(cl, p, x)), cl[p].file)
<1> DEFINE new == Replaced(cl, p, x)
<1>1. \A d : OpenersOf(new, d) = IF x.file = d THEN OpenersOf(cl, d) \union {p}
                                 ELSE OpenersOf(cl, d) \ {p}
  BY ClientChanged
<1>2. \A kind : p \in OpenersOf(cl, kind) <=> kind = cl[p].file
  BY DEF OpenersOf
<1> HIDE DEF new
<1>3. ASSUME NEW d \in Kinds
      PROVE  Cardinality(OpenersOf(cl, d)) = Cardinality(OpenersOf(new, d))
                                               + IF d = cl[p].file THEN 1 ELSE 0
  <2>1. OpenersOf(new, d) = OpenersOf(cl, d) \ {p} /\ OpenersOf(cl, d) \subseteq Clients
    BY <1>1 DEF Kinds, OpenersOf
  <2> DEFINE m == Cardinality(OpenersOf(cl, d))
             n == Cardinality(OpenersOf(new, d))
  <2>2. m \in Nat /\ n \in Nat /\ (p \in OpenersOf(cl, d) => n = m - 1)
    BY <2>1, OneClient
  <2>3. CASE d = cl[p].file
    <3>1. n = m - 1
      BY <1>2, <2>2, <2>3
    <3> HIDE DEF m, n
    <3>2. m = n + 1
      BY <2>2, <3>1
    <3> QED
      BY <2>3, <3>2 DEF m, n
  <2>4. CASE d # cl[p].file
    <3>1. n = m
      BY <1>2, <2>1, <2>4
    <3> HIDE DEF m, n
    <3>2. m = n + 0
      BY <2>2, <3>1
    <3> QED
      BY <2>4, <3>2 DEF m, n
  <2> QED
    BY <2>3, <2>4
<1>4. LeftFiles(Pending(cl), Pending(new), cl[p].file)
  BY <1>3, CountsAre DEF LeftFiles, Pending
<1> QED
  BY <1>4 DEF new

\* A client that opens a file.
LEMMA FileTaken ==
  ASSUME NEW cl \in Callers, NEW p \in Clients, NEW x \in ClientType, cl[p].file = "none"
  PROVE  LeftFiles(Pending(Replaced(cl, p, x)), Pending(cl), x.file)
<1> DEFINE new == Replaced(cl, p, x)
<1>1. new \in Callers /\ new[p] = x /\ \A q \in Clients \ {p} : new[q] = cl[q]
  BY ClientChanged
<1>2. cl = Replaced(new, p, cl[p]) /\ cl[p] \in ClientType
  BY DEF Callers, Replaced
<1> HIDE DEF new
<1>3. LeftFiles(Pending(new), Pending(Replaced(new, p, cl[p])), new[p].file)
  BY <1>1, <1>2, FileGiven
<1> QED
  BY <1>1, <1>2, <1>3 DEF new

\* Files that clients open and give back.
LEMMA ClientTakes ==
  ASSUME NEW en, NEW al, NEW F, FilesOK(en, al, F), NEW G \in [Kinds -> Nat], NEW file,
         file = C!Acquired(al), LeftFiles(G, F, file)
  PROVE  FilesOK(en, C!Acquire(al), G) /\ file \in {"mmap", "fd", "temporary"}
<1> DEFINE new == C!Acquire(al)
<1>1. /\ al \in [Kinds -> Nat] /\ F \in [Kinds -> Nat]
      /\ \A kind \in Kinds : al[kind] + Cardinality(OfKind(en, kind)) + F[kind] = Limits[kind]
      /\ \A kind \in Kinds : G[kind] = F[kind] + IF kind = file THEN 1 ELSE 0
  BY DEF FilesOK, LeftFiles
<1>2. /\ file \in {"mmap", "fd", "temporary"} /\ (file \in Kinds => al[file] # 0)
      /\ file \notin Kinds <=> file = "temporary"
  BY <1>1 DEF C!Acquired, Kinds
<1>3. \A kind \in Kinds : Cardinality(OfKind(en, kind)) \in Nat
  BY SlotSets DEF OfKind
<1>4. /\ new \in [Kinds -> Nat]
      /\ \A kind \in Kinds : new[kind] = al[kind] - IF kind = file THEN 1 ELSE 0
  BY <1>1, <1>2 DEF C!Acquire
<1> HIDE DEF new
<1>5. ASSUME NEW kind \in Kinds
      PROVE  new[kind] + Cardinality(OfKind(en, kind)) + G[kind] = Limits[kind]
  <2>1. /\ al[kind] \in Nat /\ F[kind] \in Nat /\ Cardinality(OfKind(en, kind)) \in Nat
        /\ al[kind] + Cardinality(OfKind(en, kind)) + F[kind] = Limits[kind]
        /\ G[kind] = F[kind] + IF kind = file THEN 1 ELSE 0
        /\ new[kind] = al[kind] - IF kind = file THEN 1 ELSE 0
    BY <1>1, <1>3, <1>4
  <2> QED
    BY ONLY <2>1
<1>6. FilesOK(en, new, G)
  BY <1>4, <1>5 DEF FilesOK
<1> QED
  BY <1>2, <1>6 DEF new

\* A client that closes its file gives its turn back to the limiter.
LEMMA ClientGives ==
  ASSUME NEW en, NEW al, NEW F, FilesOK(en, al, F), NEW E, NEW file, LeftFiles(F, E, file)
  PROVE  FilesOK(en, C!Release(al, file), E)
<1> DEFINE new == C!Release(al, file)
<1>1. /\ al \in [Kinds -> Nat] /\ E \in [Kinds -> Nat]
      /\ \A kind \in Kinds : al[kind] + Cardinality(OfKind(en, kind)) + F[kind] = Limits[kind]
      /\ \A kind \in Kinds : F[kind] = E[kind] + IF kind = file THEN 1 ELSE 0
  BY DEF FilesOK, LeftFiles
<1>3. \A kind \in Kinds : Cardinality(OfKind(en, kind)) \in Nat
  BY SlotSets DEF OfKind
<1>4. /\ new \in [Kinds -> Nat]
      /\ \A kind \in Kinds : new[kind] = al[kind] + IF kind = file THEN 1 ELSE 0
  BY <1>1 DEF C!Release
<1> HIDE DEF new
<1>5. ASSUME NEW kind \in Kinds
      PROVE  new[kind] + Cardinality(OfKind(en, kind)) + E[kind] = Limits[kind]
  <2>1. /\ al[kind] \in Nat /\ E[kind] \in Nat /\ Cardinality(OfKind(en, kind)) \in Nat
        /\ al[kind] + Cardinality(OfKind(en, kind)) + F[kind] = Limits[kind]
        /\ F[kind] = E[kind] + IF kind = file THEN 1 ELSE 0
        /\ new[kind] = al[kind] + IF kind = file THEN 1 ELSE 0
    BY <1>1, <1>3, <1>4
  <2> QED
    BY ONLY <2>1
<1>6. FilesOK(en, new, E)
  BY <1>4, <1>5 DEF FilesOK
<1> QED
  BY <1>6 DEF new

-----------------------------------------------------------------------------
(* The cache and its clients, as long as it is there, and when it is gone.  *)

\* The cache fits its clients: what they hold is what its entries count.
Sound(c, cl) ==
  /\ cl \in Callers /\ \A p \in Clients : ClientOK(cl[p])
  /\ CacheOK(c, Handles(cl), Keys(c.entries), Pending(cl), {})
  /\ \A p \in Clients : cl[p].handle # 0 => c.entries[cl[p].handle].key = cl[p].table
\* Nothing is left of the cache, and no client waits for anything.
Gone(c, cl) ==
  /\ cl \in Callers /\ \A p \in Clients : cl[p] = C!Idle
  /\ c.entries \in CacheEntries /\ \A e \in Slots : c.entries[e] = C!NoEntry
  /\ FilesOK(c.entries, c.allowed, Pending(cl)) /\ c.usage \in Nat

\* A step of a client, on a cache that is sound for the handles and files it has then.
LEMMA SoundStep ==
  ASSUME NEW c, NEW cl, Sound(c, cl), NEW p \in Clients, NEW x \in ClientType, ClientOK(x),
         NEW after, NEW J, NEW next, next = Replaced(cl, p, x),
         CacheOK(after, Handles(next), J, Pending(next), {}),
         \A d \in Slots : (\E q \in Clients \ {p} : cl[q].handle = d) => J[d] = c.entries[d].key,
         x.handle # 0 => J[x.handle] = x.table
  PROVE  Sound(after, next)
<1> DEFINE H == Handles(next)
           F == Pending(next)
           new == after.entries
<1>1. /\ next \in Callers /\ next[p] = x /\ \A q \in Clients \ {p} : next[q] = cl[q]
  BY ClientChanged DEF Sound
<1>2. \A q \in Clients : ClientOK(next[q])
  BY <1>1 DEF Sound
<1>3. \A d \in Slots : EntryOK(new[d], H[d], J[d])
  BY DEF CacheOK, PartsOK, EntriesOK
<1>4. ASSUME NEW d \in Slots, H[d] # 0 PROVE new[d].key = J[d]
  BY <1>3, <1>4 DEF EntryOK
<1>5. \A q \in Clients : next[q].handle # 0 => next[q].handle \in Slots
  BY <1>1 DEF Callers, ClientType
<1>6. ASSUME NEW q \in Clients, next[q].handle # 0 PROVE H[next[q].handle] # 0
  <2> DEFINE d == next[q].handle
  <2>1. d \in Slots
    BY <1>5, <1>6
  <2>2. q \in HoldersOf(next, d) /\ HoldersOf(next, d) \subseteq Clients
    BY DEF HoldersOf
  <2> HIDE DEF d
  <2>3. Cardinality(HoldersOf(next, d)) # 0
    BY <2>2, OneClient
  <2>4. H[d] = Cardinality(HoldersOf(next, d))
    BY <2>1 DEF Handles
  <2> QED
    BY <2>3, <2>4 DEF d
<1> HIDE DEF H, F, new
<1>7. ASSUME NEW q \in Clients, next[q].handle # 0 PROVE new[next[q].handle].key = next[q].table
  <2> DEFINE d == next[q].handle
  <2>1. d \in Slots /\ new[d].key = J[d]
    BY <1>4, <1>5, <1>6, <1>7
  <2>2. J[d] = next[q].table
    <3>1. CASE q = p
      BY <1>1, <1>7, <3>1
    <3>2. CASE q # p
      <4>1. cl[q].handle = d /\ next[q] = cl[q]
        BY <1>1, <3>2
      <4>2. J[d] = c.entries[d].key
        BY <2>1, <3>2, <4>1
      <4>3. c.entries[cl[q].handle].key = cl[q].table
        BY <1>7, <4>1 DEF Sound
      <4> QED
        BY <4>1, <4>2, <4>3
    <3> QED
      BY <3>1, <3>2
  <2> QED
    BY <2>1, <2>2
<1>8. CacheOK(after, H, Keys(new), F, {})
  <2>1. \A d \in Slots : H[d] # 0 => after.entries[d].key = Keys(new)[d]
    BY DEF Keys, new
  <2>2. CacheOK(after, H, J, F, {})
    BY DEF H, F
  <2> QED
    BY <2>1, <2>2, OnlyHeldKeys
<1> QED
  BY <1>1, <1>2, <1>7, <1>8 DEF Sound, H, F, new

\* A step of the database on the cache.
LEMMA SoundCache ==
  ASSUME NEW c, NEW cl, Sound(c, cl), NEW after,
         CacheOK(after, Handles(cl), Keys(c.entries), Pending(cl), {})
  PROVE  Sound(after, cl)
<1> DEFINE H == Handles(cl)
           F == Pending(cl)
           J == Keys(c.entries)
           new == after.entries
<1>1. cl \in Callers /\ \A q \in Clients : ClientOK(cl[q])
  BY DEF Sound
<1>2. \A d \in Slots : EntryOK(new[d], H[d], J[d])
  BY DEF CacheOK, PartsOK, EntriesOK
<1>3. \A q \in Clients : cl[q].handle # 0 => cl[q].handle \in Slots
  BY <1>1 DEF Callers, ClientType
<1>4. ASSUME NEW q \in Clients, cl[q].handle # 0 PROVE new[cl[q].handle].key = cl[q].table
  <2> DEFINE d == cl[q].handle
  <2>1. d \in Slots
    BY <1>3, <1>4
  <2>2. q \in HoldersOf(cl, d) /\ HoldersOf(cl, d) \subseteq Clients
    BY DEF HoldersOf
  <2>3. c.entries[d].key = cl[q].table
    BY <1>4 DEF Sound
  <2> HIDE DEF d
  <2>4. Cardinality(HoldersOf(cl, d)) # 0
    BY <2>2, OneClient
  <2>5. H[d] # 0
    BY <2>1, <2>4 DEF Handles
  <2>6. new[d].key = J[d]
    BY <1>2, <2>1, <2>5 DEF EntryOK
  <2>7. J[d] = c.entries[d].key
    BY <2>1 DEF Keys
  <2> QED
    BY <2>3, <2>6, <2>7 DEF d
<1>5. CacheOK(after, H, Keys(new), F, {})
  <2>1. \A d \in Slots : H[d] # 0 => after.entries[d].key = Keys(new)[d]
    BY DEF Keys
  <2> HIDE DEF H, J, F
  <2>2. CacheOK(after, H, J, F, {})
    BY DEF H, F, J
  <2> QED
    BY <2>1, <2>2, OnlyHeldKeys
<1> QED
  BY <1>1, <1>4, <1>5 DEF Sound

\* No charges add up to none.
LEMMA NoCharges ==
  ASSUME NEW en, \A d \in Slots : ChargeOf(en[d]) = 0
  PROVE  C!Charges(en) = 0
<1> DEFINE N == Cardinality(Slots)
           good == [n \in 0 .. N |-> {0}]
<1>0. N \in Nat /\ Slots = 1 .. N /\ N = Cardinality(Slots)
  BY SlotNumbers
<1>1. \A d \in Slots : ChargeOf(en[d]) \in Nat
  OBVIOUS
<1> HIDE DEF N
<1>2. PICK f : /\ f[0] = 0
               /\ \A n \in 1 .. N : f[n] = f[n - 1] + ChargeOf(en[n])
               /\ \A n \in 0 .. N : f[n] \in Nat
               /\ C!Charges(en) = f[N]
  <2>1. \E f : AddsUp(en, f, N)
    BY ONLY <1>0, <1>1, ChargesSum
  <2> QED
    BY <2>1 DEF AddsUp
<1>3. \A n \in 0 .. N : \A x : x \in good[n] <=> x = 0
  OBVIOUS
<1> HIDE DEF good
<1>4. \A n \in 1 .. N : n - 1 \in 0 .. N /\ n \in 0 .. N /\ ChargeOf(en[n]) = 0
  BY <1>0
<1>5. f[0] \in good[0] /\ \A n \in 1 .. N : f[n - 1] \in good[n - 1] => f[n] \in good[n]
  <2>1. 0 \in 0 .. N
    BY <1>0
  <2>2. f[0] \in good[0]
    BY <1>2, <1>3, <2>1
  <2>3. ASSUME NEW n \in 1 .. N, f[n - 1] \in good[n - 1] PROVE f[n] \in good[n]
    <3>1. f[n - 1] = 0 /\ f[n] = f[n - 1] + ChargeOf(en[n]) /\ ChargeOf(en[n]) = 0
      BY <1>2, <1>3, <1>4, <2>3
    <3> QED
      BY <1>3, <1>4, <3>1
  <2> QED
    BY <2>2, <2>3
<1>6. \A n \in 0 .. N : f[n] \in good[n]
  BY ONLY <1>0, <1>5, LoopKeeps
<1>7. f[N] = 0
  <2>1. N \in 0 .. N
    BY <1>0
  <2> QED
    BY <1>3, <1>6, <2>1
<1> QED
  BY <1>2, <1>7

\* Idle clients hold nothing.
LEMMA NothingHeld ==
  ASSUME NEW cl, \A p \in Clients : cl[p] = C!Idle
  PROVE  /\ \A e \in Slots : Handles(cl)[e] = 0
         /\ \A kind \in Kinds : Pending(cl)[kind] = 0
<1>1. C!Idle.handle = 0 /\ C!Idle.file = "none" /\ 0 \notin Slots
  BY IdleIs, NoSlotZero
<1>2. \A e \in Slots : HoldersOf(cl, e) = {}
  BY <1>1 DEF HoldersOf
<1>3. \A kind \in Kinds : OpenersOf(cl, kind) = {}
  BY <1>1 DEF OpenersOf, Kinds
<1>4. Cardinality({}) = 0
  BY FS_EmptySet
<1> QED
  BY <1>2, <1>3, <1>4 DEF Handles, Pending

\* An empty cache.
LEMMA InitSound ==
  ASSUME NEW en, en = [e \in Slots |-> C!NoEntry],
         NEW bu, bu = [b \in 1 .. MinLength |-> << >>],
         NEW c, c = Parts(en, bu, << >>, << >>, 0, Limits),
         NEW cl, cl = [p \in Clients |-> C!Idle]
  PROVE  Sound(c, cl)
<1> DEFINE H == Handles(cl)
           K == Keys(en)
           F == Pending(cl)
<1>0. /\ MinLength \in Nat \ {0} /\ Limits \in [Kinds -> Nat]
      /\ C!NoEntry \in EntryType /\ C!NoEntry.live = FALSE /\ C!NoEntry.inCache = FALSE
      /\ C!Idle \in ClientType /\ ClientOK(C!Idle) /\ C!Idle.handle = 0
  BY MCTableCacheAssumption, NoEntryIs, IdleIs DEF C!TableCacheAssumption, Kinds
<1>1. /\ cl \in Callers /\ \A p \in Clients : cl[p] = C!Idle
      /\ en \in CacheEntries /\ \A e \in Slots : en[e] = C!NoEntry
  BY <1>0 DEF Callers, CacheEntries
<1>2. (\A e \in Slots : H[e] = 0) /\ (\A kind \in Kinds : F[kind] = 0)
  BY <1>1, NothingHeld
<1> HIDE DEF H, K, F
<1>3. EntriesOK(en, H, K)
  BY <1>0, <1>1, <1>2 DEF EntriesOK, EntryOK
<1>4. OnlyCached(en) = {} /\ InUse(en) = {} /\ \A b, n : InBucket(en, {}, b, n) = {}
  BY <1>0, <1>1 DEF OnlyCached, InUse, InBucket
<1>5. ListsOK(en, << >>, << >>)
  BY <1>4, NothingListed DEF ListsOK
<1>6. ChainsOK(en, bu, {})
  <2>1. /\ bu \in Seq(Seq(Slots)) /\ Len(bu) = MinLength /\ Len(bu) # 0
        /\ \A b \in 1 .. Len(bu) : bu[b] = << >>
    BY <1>0
  <2>2. ASSUME NEW b \in 1 .. Len(bu) PROVE Lists(bu[b], InBucket(en, {}, b, Len(bu)))
    <3>1. bu[b] = << >> /\ InBucket(en, {}, b, Len(bu)) = {}
      BY <1>4, <2>1
    <3> QED
      BY ONLY <3>1, NothingListed
  <2> QED
    BY <2>1, <2>2 DEF ChainsOK
<1>7. OnePerTable(en, {})
  BY <1>0, <1>1 DEF OnePerTable
<1>8. 0 = C!Charges(en)
  <2>1. \A d \in Slots : ChargeOf(en[d]) = 0
    BY <1>0, <1>1 DEF ChargeOf
  <2> QED
    BY <2>1, NoCharges
<1>9. FilesOK(en, Limits, F)
  <2>1. \A kind \in Kinds : OfKind(en, kind) = {}
    BY <1>0, <1>1 DEF OfKind
  <2>2. Cardinality({}) = 0
    BY FS_EmptySet
  <2>3. ASSUME NEW kind \in Kinds
        PROVE  Limits[kind] + Cardinality(OfKind(en, kind)) + F[kind] = Limits[kind]
    <3>1. Cardinality(OfKind(en, kind)) = 0 /\ F[kind] = 0 /\ Limits[kind] \in Nat
      BY <1>0, <1>2, <2>1, <2>2
    <3> QED
      BY <3>1
  <2> QED
    BY <1>0, <2>3 DEF FilesOK
<1>10. PartsOK(en, bu, << >>, << >>, 0, Limits, H, K, F, {})
  BY <1>3, <1>5, <1>6, <1>7, <1>8, <1>9 DEF PartsOK
<1>11. CacheOK(c, H, K, F, {}) /\ c.entries = en
  <2>1. c.entries = en
    BY DEF Parts
  <2> QED
    BY <1>10, <2>1, CacheOfParts
<1>12. CacheOK(c, Handles(cl), Keys(c.entries), Pending(cl), {})
  BY <1>11 DEF H, K, F
<1>13. \A p \in Clients : ClientOK(cl[p]) /\ cl[p].handle = 0
  BY <1>0, <1>1
<1> QED
  BY <1>1, <1>12, <1>13 DEF Sound

-----------------------------------------------------------------------------
(* One lemma per action.                                                    *)

\* A client that changes its mind only.
LEMMA SameCacheStep ==
  ASSUME NEW c, NEW cl, Sound(c, cl), NEW p \in Clients, NEW x \in ClientType, ClientOK(x),
         x.handle = 0, cl[p].handle = 0, x.file = "none", cl[p].file = "none"
  PROVE  Sound(c, Replaced(cl, p, x))
<1> DEFINE next == Replaced(cl, p, x)
           J == Keys(c.entries)
<1>1. cl \in Callers /\ CacheOK(c, Handles(cl), J, Pending(cl), {})
  BY DEF Sound
<1>2. Handles(next) = Handles(cl) /\ Pending(next) = Pending(cl)
  BY <1>1, SameHandles, SamePending
<1>3. \A d \in Slots : J[d] = c.entries[d].key
  BY DEF Keys
<1> HIDE DEF J
<1>4. next = Replaced(cl, p, x) /\ CacheOK(c, Handles(next), J, Pending(next), {})
  BY <1>1, <1>2
<1> HIDE DEF next
<1>5. Sound(c, next)
  BY <1>3, <1>4, SoundStep
<1> QED
  BY <1>5 DEF next

\* A client that finds its table in the cache.
LEMMA RefStep ==
  ASSUME NEW c, NEW cl, Sound(c, cl), NEW p \in Clients, cl[p].handle = 0, cl[p].file = "none",
         NEW t \in Tables, t \in Nat, NEW e \in C!Found(c, t),
         NEW x \in ClientType, ClientOK(x), x.handle = e, x.table = t, x.file = "none"
  PROVE  Sound(C!Ref(c, e), Replaced(cl, p, x))
<1> DEFINE next == Replaced(cl, p, x)
           J == Keys(c.entries)
           H == Handles(cl)
           F == Pending(cl)
           G == Handles(next)
           after == C!Ref(c, e)
<1>1. cl \in Callers /\ CacheOK(c, H, J, F, {}) /\ H \in [Slots -> Nat] /\ F \in [Kinds -> Nat]
  BY CountsAre DEF Sound
<1>2. e \in Slots /\ c.entries[e].inCache /\ c.entries[e].key = t
  BY <1>1, FoundIs
<1>3. G = Replaced(H, e, H[e] + 1) /\ Pending(next) = F
  BY <1>1, <1>2, HandleTaken, SamePending
<1>4. \A d \in Slots : J[d] = c.entries[d].key
  BY DEF Keys
<1> HIDE DEF J, H, F, G
<1>5. CacheOK(after, G, J, F, {})
  BY <1>1, <1>2, <1>3, <1>4, RefOK
<1>6. /\ next = Replaced(cl, p, x) /\ CacheOK(after, Handles(next), J, Pending(next), {})
      /\ J[x.handle] = x.table
  BY <1>2, <1>3, <1>4, <1>5 DEF G
<1> HIDE DEF next, after
<1>7. Sound(after, next)
  BY <1>4, <1>6, SoundStep
<1> QED
  BY <1>7 DEF next, after

\* A client that gives its handle back.
LEMMA UnrefStep ==
  ASSUME NEW c, NEW cl, Sound(c, cl), NEW p \in Clients, NEW e \in Slots, cl[p].handle = e,
         cl[p].file = "none",
         NEW x \in ClientType, ClientOK(x), x.handle = 0, x.file = "none"
  PROVE  Sound(C!Unref(c, e), Replaced(cl, p, x))
<1> DEFINE next == Replaced(cl, p, x)
           J == Keys(c.entries)
           H == Handles(cl)
           F == Pending(cl)
           G == Handles(next)
           after == C!Unref(c, e)
<1>1. cl \in Callers /\ CacheOK(c, H, J, F, {}) /\ H \in [Slots -> Nat] /\ F \in [Kinds -> Nat]
  BY CountsAre DEF Sound
<1>3. G = Replaced(H, e, H[e] - 1) /\ H[e] # 0 /\ Pending(next) = F
  BY <1>1, HandleGiven, SamePending
<1>4. \A d \in Slots : J[d] = c.entries[d].key
  BY DEF Keys
<1> HIDE DEF J, H, F, G
<1>5. CacheOK(after, G, J, F, {})
  BY <1>1, <1>3, UnrefOK
<1>6. next = Replaced(cl, p, x) /\ CacheOK(after, Handles(next), J, Pending(next), {})
  BY <1>3, <1>5 DEF G
<1> HIDE DEF next, after
<1>7. Sound(after, next)
  BY <1>4, <1>6, SoundStep
<1> QED
  BY <1>7 DEF next, after

\* Files that are open otherwise.
LEMMA OtherFiles ==
  ASSUME NEW c, NEW H, NEW K, NEW F, NEW out, CacheOK(c, H, K, F, out),
         NEW v, NEW G, FilesOK(c.entries, v, G)
  PROVE  CacheOK(WithAllowed(c, v), H, K, G, out) /\ WithAllowed(c, v).entries = c.entries
<1> DEFINE en == c.entries
           bu == c.buckets
           lr == c.lru
           iu == c.inUse
           us == c.usage
           b == WithAllowed(c, v)
<1>1. c = Parts(en, bu, lr, iu, us, c.allowed)
  BY DEF CacheOK, Whole
<1>2. b = Parts(en, bu, lr, iu, us, v)
  BY <1>1, PartChanged
<1>3. PartsOK(en, bu, lr, iu, us, v, H, K, G, out)
  BY DEF CacheOK, PartsOK
<1> HIDE DEF b
<1>4. CacheOK(b, H, K, G, out)
  BY <1>2, <1>3, CacheOfParts
<1>5. b.entries = en
  BY <1>2 DEF Parts
<1> QED
  BY <1>4, <1>5 DEF b

\* A client that opens a file.
LEMMA OpenStep ==
  ASSUME NEW c, NEW cl, Sound(c, cl), NEW p \in Clients, cl[p].handle = 0, cl[p].file = "none",
         NEW x \in ClientType, ClientOK(x), x.handle = 0, x.file = C!Acquired(c.allowed)
  PROVE  Sound(WithAllowed(c, C!Acquire(c.allowed)), Replaced(cl, p, x))
<1> DEFINE next == Replaced(cl, p, x)
           J == Keys(c.entries)
           H == Handles(cl)
           F == Pending(cl)
           G == Pending(next)
           v == C!Acquire(c.allowed)
           after == WithAllowed(c, v)
<1>1. cl \in Callers /\ CacheOK(c, H, J, F, {}) /\ G \in [Kinds -> Nat]
  BY CountsAre DEF Sound
<1>2. Handles(next) = H /\ LeftFiles(G, F, x.file)
  BY <1>1, SameHandles, FileTaken
<1>3. \A d \in Slots : J[d] = c.entries[d].key
  BY DEF Keys
<1>4. FilesOK(c.entries, c.allowed, F)
  BY <1>1 DEF CacheOK, PartsOK
<1> HIDE DEF J, H, F, G
<1>5. FilesOK(c.entries, v, G)
  BY <1>1, <1>2, <1>4, ClientTakes
<1> HIDE DEF v
<1>6. CacheOK(after, H, J, G, {})
  BY <1>1, <1>5, OtherFiles
<1>7. next = Replaced(cl, p, x) /\ CacheOK(after, Handles(next), J, Pending(next), {})
  BY <1>2, <1>6 DEF G
<1> HIDE DEF next, after
<1>8. Sound(after, next)
  BY <1>3, <1>7, SoundStep
<1> QED
  BY <1>8 DEF next, after, v

\* A client that gives its file back.
LEMMA CloseStep ==
  ASSUME NEW c, NEW cl, Sound(c, cl), NEW p \in Clients, cl[p].handle = 0,
         NEW x \in ClientType, ClientOK(x), x.handle = 0, x.file = "none"
  PROVE  Sound(WithAllowed(c, C!Release(c.allowed, cl[p].file)), Replaced(cl, p, x))
<1> DEFINE next == Replaced(cl, p, x)
           J == Keys(c.entries)
           H == Handles(cl)
           F == Pending(cl)
           G == Pending(next)
           v == C!Release(c.allowed, cl[p].file)
           after == WithAllowed(c, v)
<1>1. cl \in Callers /\ CacheOK(c, H, J, F, {}) /\ G \in [Kinds -> Nat]
  BY CountsAre DEF Sound
<1>2. Handles(next) = H /\ LeftFiles(F, G, cl[p].file)
  BY <1>1, SameHandles, FileGiven
<1>3. \A d \in Slots : J[d] = c.entries[d].key
  BY DEF Keys
<1>4. FilesOK(c.entries, c.allowed, F)
  BY <1>1 DEF CacheOK, PartsOK
<1> HIDE DEF J, H, F, G
<1>5. FilesOK(c.entries, v, G)
  BY <1>2, <1>4, ClientGives
<1> HIDE DEF v
<1>6. CacheOK(after, H, J, G, {})
  BY <1>1, <1>5, OtherFiles
<1>7. next = Replaced(cl, p, x) /\ CacheOK(after, Handles(next), J, Pending(next), {})
  BY <1>2, <1>6 DEF G
<1> HIDE DEF next, after
<1>8. Sound(after, next)
  BY <1>3, <1>7, SoundStep
<1> QED
  BY <1>8 DEF next, after, v

\* A client that inserts the table that it opened.
LEMMA InsertStep ==
  ASSUME NEW c, NEW cl, Sound(c, cl), NEW p \in Clients, cl[p].handle = 0,
         NEW t \in Tables, t \in Nat, NEW file \in {"mmap", "fd", "temporary"}, cl[p].file = file,
         capacity \in Nat, NEW e \in Slots, ~c.entries[e].live,
         NEW x \in ClientType, ClientOK(x), x.handle = e, x.table = t, x.file = "none"
  PROVE  Sound(C!Insert(c, e, t, file), Replaced(cl, p, x))
<1> DEFINE next == Replaced(cl, p, x)
           K == Keys(c.entries)
           J == Replaced(K, e, t)
           H == Handles(cl)
           F == Pending(cl)
           G == Handles(next)
           E == Pending(next)
           after == C!Insert(c, e, t, file)
<1>1. cl \in Callers /\ CacheOK(c, H, K, F, {}) /\ H \in [Slots -> Nat] /\ F \in [Kinds -> Nat]
  BY CountsAre DEF Sound
<1>2. c.entries \in CacheEntries /\ \A d \in Slots : EntryOK(c.entries[d], H[d], K[d])
  BY <1>1 DEF CacheOK, PartsOK, EntriesOK
<1>3. K \in [Slots -> Nat] /\ \A d \in Slots : K[d] = c.entries[d].key
  BY <1>2, EntriesRead DEF Keys
<1>4. H[e] = 0
  BY <1>2 DEF EntryOK
<1>5. \A q \in Clients : cl[q].handle # e
  <2>1. HoldersOf(cl, e) \subseteq Clients /\ H[e] = Cardinality(HoldersOf(cl, e))
    BY DEF HoldersOf, Handles
  <2>2. HoldersOf(cl, e) = {}
    BY <1>4, <2>1, ClientSets
  <2> QED
    BY <2>2 DEF HoldersOf
<1>6. G = Replaced(H, e, 1) /\ LeftFiles(F, E, file)
  <2>1. G = Replaced(H, e, H[e] + 1) /\ LeftFiles(F, E, file)
    BY <1>1, HandleTaken, FileGiven
  <2> QED
    BY <1>4, <2>1
<1>7. J[e] = t /\ \A d \in Slots \ {e} : J[d] = c.entries[d].key
  BY <1>3 DEF Replaced
<1>8. J = Replaced(K, e, t)
  OBVIOUS
<1> HIDE DEF J, K, H, F, G, E
<1>9. CacheOK(after, G, J, E, {})
  BY <1>1, <1>3, <1>6, <1>8, InsertOK
<1>10. /\ next = Replaced(cl, p, x) /\ CacheOK(after, Handles(next), J, Pending(next), {})
       /\ J[x.handle] = x.table
       /\ \A d \in Slots : (\E q \in Clients \ {p} : cl[q].handle = d) => J[d] = c.entries[d].key
  BY <1>5, <1>7, <1>9 DEF G, E
<1> HIDE DEF next, after
<1>11. Sound(after, next)
  BY <1>10, SoundStep
<1> QED
  BY <1>11 DEF next, after

\* What the database does with the cache.
LEMMA EvictStep ==
  ASSUME NEW c, NEW cl, Sound(c, cl), NEW t \in Nat
  PROVE  Sound(C!EraseTable(c, t), cl) /\ Sound(C!PruneAll(c), cl)
<1> DEFINE J == Keys(c.entries)
           H == Handles(cl)
           F == Pending(cl)
<1>1. CacheOK(c, H, J, F, {}) /\ H \in [Slots -> Nat] /\ F \in [Kinds -> Nat]
  BY CountsAre DEF Sound
<1> HIDE DEF J, H, F
<1>2. CacheOK(C!EraseTable(c, t), H, J, F, {})
  BY <1>1, EraseTableOK
<1>3. CacheOK(C!PruneAll(c), H, J, F, {})
  BY <1>1, PruneAllOK
<1> QED
  BY <1>2, <1>3, SoundCache DEF J, H, F

\* ~LRUCache when no client has a handle.
LEMMA DestroyStep ==
  ASSUME NEW c, NEW cl, Sound(c, cl), \A p \in Clients : cl[p] = C!Idle
  PROVE  Gone(C!DropAll(c), cl)
<1> DEFINE J == Keys(c.entries)
           H == Handles(cl)
           F == Pending(cl)
           after == C!DropAll(c)
<1>1. CacheOK(c, H, J, F, {}) /\ F \in [Kinds -> Nat] /\ cl \in Callers
  BY CountsAre DEF Sound
<1>2. \A d \in Slots : H[d] = 0
  BY NothingHeld
<1> HIDE DEF J, H
<1>3. /\ after.entries \in CacheEntries /\ \A d \in Slots : after.entries[d] = C!NoEntry
      /\ FilesOK(after.entries, after.allowed, F) /\ after.usage \in Nat
  BY <1>1, <1>2, DropAllOK
<1> QED
  BY <1>1, <1>3 DEF Gone

\* What clients become.
Misses(t) == [C!Idle EXCEPT !.phase = "missed", !.table = t]
Uses(t, e) == [C!Idle EXCEPT !.phase = "using", !.table = t, !.handle = e]
Opens(y, file) == [y EXCEPT !.phase = "opened", !.file = file]
Holding(y, e) == [y EXCEPT !.phase = "using", !.file = "none", !.handle = e]

\* A client of a phase other than the first.
LEMMA ClientMade ==
  ASSUME NEW phase \in {"missed", "opened", "using"}, NEW t \in Tables,
         NEW file \in {"none", "mmap", "fd", "temporary"}, NEW e \in {0} \union Slots,
         phase = "opened" <=> file # "none", phase = "using" <=> e # 0,
         NEW x, x = [phase |-> phase, table |-> t, file |-> file, handle |-> e]
  PROVE  /\ x \in ClientType /\ ClientOK(x) /\ x.table = t /\ x.file = file /\ x.handle = e
<1>1. x.phase = phase /\ x.table = t /\ x.file = file /\ x.handle = e
  OBVIOUS
<1>2. x \in ClientType
  BY DEF ClientType
<1>3. x.phase # "idle"
  BY <1>1
<1> QED
  BY <1>1, <1>2, <1>3 DEF ClientOK

\* The records that they become.
LEMMA BecomeIs ==
  ASSUME NEW t, NEW e, NEW y \in ClientType, NEW file, NEW x
  PROVE  /\ x = Misses(t) => x = [phase |-> "missed", table |-> t, file |-> "none", handle |-> 0]
         /\ x = Uses(t, e) => x = [phase |-> "using", table |-> t, file |-> "none", handle |-> e]
         /\ x = Opens(y, file)
              => x = [phase |-> "opened", table |-> y.table, file |-> file, handle |-> y.handle]
         /\ x = Holding(y, e)
              => x = [phase |-> "using", table |-> y.table, file |-> "none", handle |-> e]
<1>1. ASSUME x = Misses(t)
      PROVE  x = [phase |-> "missed", table |-> t, file |-> "none", handle |-> 0]
  BY <1>1 DEF C!Idle, Misses
<1>2. ASSUME x = Uses(t, e)
      PROVE  x = [phase |-> "using", table |-> t, file |-> "none", handle |-> e]
  BY <1>2 DEF C!Idle, Uses
<1>3. ASSUME x = Opens(y, file)
      PROVE  x = [phase |-> "opened", table |-> y.table, file |-> file, handle |-> y.handle]
  BY <1>3 DEF ClientType, Opens
<1>4. ASSUME x = Holding(y, e)
      PROVE  x = [phase |-> "using", table |-> y.table, file |-> "none", handle |-> e]
  BY <1>4 DEF ClientType, Holding
<1> QED
  BY <1>1, <1>2, <1>3, <1>4

\* A client whose lookup found nothing.
LEMMA Missed ==
  ASSUME NEW t \in Tables
  PROVE  /\ Misses(t) \in ClientType /\ ClientOK(Misses(t)) /\ Misses(t).handle = 0
         /\ Misses(t).file = "none"
<1>1. Misses(t) = [phase |-> "missed", table |-> t, file |-> "none", handle |-> 0]
  BY IdleIs, BecomeIs
<1>2. 0 \in {0} \union Slots
  OBVIOUS
<1> QED
  BY <1>1, <1>2, ClientMade

\* A client that has a handle from its lookup.
LEMMA Using ==
  ASSUME NEW t \in Tables, NEW e \in Slots
  PROVE  /\ Uses(t, e) \in ClientType /\ ClientOK(Uses(t, e)) /\ Uses(t, e).handle = e
         /\ Uses(t, e).table = t /\ Uses(t, e).file = "none"
<1>1. Uses(t, e) = [phase |-> "using", table |-> t, file |-> "none", handle |-> e]
  <2>1. ASSUME NEW x, x = Uses(t, e)
        PROVE  x = [phase |-> "using", table |-> t, file |-> "none", handle |-> e]
    BY <2>1 DEF C!Idle, Uses
  <2> QED
    BY <2>1
<1>2. e \in {0} \union Slots /\ e # 0
  BY NoSlotZero
<1> QED
  BY <1>1, <1>2, ClientMade

\* A client that has opened a file.
LEMMA Opened ==
  ASSUME NEW y \in ClientType, y.table \in Tables, y.handle = 0,
         NEW file \in {"mmap", "fd", "temporary"}
  PROVE  /\ Opens(y, file) \in ClientType /\ ClientOK(Opens(y, file))
         /\ Opens(y, file).handle = 0 /\ Opens(y, file).file = file
<1> DEFINE t == y.table
<1>1. Opens(y, file) = [phase |-> "opened", table |-> t, file |-> file, handle |-> 0]
  BY BecomeIs
<1>2. 0 \in {0} \union Slots /\ t \in Tables
  OBVIOUS
<1> HIDE DEF t
<1> QED
  BY <1>1, <1>2, ClientMade

\* A client that has the handle of the entry it has inserted.
LEMMA Added ==
  ASSUME NEW y \in ClientType, y.table \in Tables, NEW e \in Slots
  PROVE  /\ Holding(y, e) \in ClientType /\ ClientOK(Holding(y, e)) /\ Holding(y, e).handle = e
         /\ Holding(y, e).table = y.table /\ Holding(y, e).file = "none"
<1> DEFINE t == y.table
<1>1. Holding(y, e) = [phase |-> "using", table |-> t, file |-> "none", handle |-> e]
  BY BecomeIs
<1>2. e \in {0} \union Slots /\ e # 0 /\ t \in Tables
  BY NoSlotZero
<1> HIDE DEF t
<1>3. /\ Holding(y, e) \in ClientType /\ ClientOK(Holding(y, e)) /\ Holding(y, e).handle = e
      /\ Holding(y, e).table = t /\ Holding(y, e).file = "none"
  BY <1>1, <1>2, ClientMade
<1> QED
  BY <1>3 DEF t

-----------------------------------------------------------------------------
(* The invariant.                                                           *)

\* The cache is sound until it is destroyed.
CacheInv ==
  /\ capacity \in Capacities /\ destroyed \in BOOLEAN
  /\ ~destroyed => Sound(cache, clients)
  /\ destroyed => Gone(cache, clients)

\* Of a client, whatever has become of the cache.
LEMMA ClientIs ==
  ASSUME CacheInv, NEW p \in Clients
  PROVE  /\ clients \in Callers /\ clients[p] \in ClientType /\ ClientOK(clients[p])
         /\ clients[p].phase # "idle" => ~destroyed
         /\ capacity \in Nat
<1>1. clients \in Callers /\ ClientOK(clients[p])
  BY IdleIs DEF CacheInv, Sound, Gone
<1>2. clients[p].phase # "idle" => ~destroyed
  BY IdleIs DEF CacheInv, Gone
<1>3. capacity \in Nat
  BY MCTableCacheAssumption DEF CacheInv, C!TableCacheAssumption
<1> QED
  BY <1>1, <1>2, <1>3 DEF Callers

\* The steps.
LEMMA CacheInvStep ==
  ASSUME CacheInv, C!Next
  PROVE  CacheInv'
<1> USE DEF C!Becomes
<1>0. Tables \subseteq Nat
  BY MCTableCacheAssumption DEF C!TableCacheAssumption
<1>1. ASSUME NEW p \in Clients, NEW t \in Tables, C!Lookup(p, t) PROVE CacheInv'
  <2>1. /\ ~destroyed /\ Sound(cache, clients) /\ UNCHANGED <<capacity, destroyed>>
        /\ clients[p].phase = "idle" /\ clients[p] = C!Idle
    BY <1>1, ClientIs DEF C!Lookup, CacheInv, ClientOK
  <2>2. clients[p].handle = 0 /\ clients[p].file = "none"
    BY <2>1, IdleIs
  <2>3. CASE C!Found(cache, t) = {}
    <3> DEFINE x == Misses(t)
    <3>1. cache' = cache /\ clients' = Replaced(clients, p, x)
      BY <1>1, <2>3 DEF C!Lookup, Replaced, Misses
    <3>2. x \in ClientType /\ ClientOK(x) /\ x.handle = 0 /\ x.file = "none"
      BY Missed
    <3> HIDE DEF x
    <3>3. Sound(cache, Replaced(clients, p, x))
      BY <2>1, <2>2, <3>2, SameCacheStep
    <3> QED
      BY <2>1, <3>1, <3>3 DEF CacheInv
  <2>4. CASE C!Found(cache, t) # {}
    <3>1. PICK e \in C!Found(cache, t) :
            /\ cache' = C!Ref(cache, e)
            /\ clients' = Replaced(clients, p, Uses(t, e))
      BY <1>1, <2>4 DEF C!Lookup, Replaced, Uses
    <3> DEFINE x == Uses(t, e)
    <3>2. e \in Slots /\ t \in Nat
      <4>1. t \in Nat
        BY <1>0
      <4>2. CacheOK(cache, Handles(clients), Keys(cache.entries), Pending(clients), {})
        BY <2>1 DEF Sound
      <4> QED
        BY <4>1, <4>2, FoundIs
    <3>3. x \in ClientType /\ ClientOK(x) /\ x.handle = e /\ x.table = t /\ x.file = "none"
      BY <3>2, Using
    <3> HIDE DEF x
    <3>4. Sound(C!Ref(cache, e), Replaced(clients, p, x))
      BY <2>1, <2>2, <3>2, <3>3, RefStep
    <3> QED
      BY <2>1, <3>1, <3>4 DEF CacheInv, x
  <2> QED
    BY <2>3, <2>4
<1>2. ASSUME NEW p \in Clients, C!OpenFails(p) PROVE CacheInv'
  <2>1. /\ clients[p].phase = "missed" /\ clients' = Replaced(clients, p, C!Idle)
        /\ UNCHANGED <<capacity, cache, destroyed>>
    BY <1>2 DEF C!OpenFails, Replaced
  <2>2. ~destroyed /\ Sound(cache, clients) /\ clients[p].handle = 0 /\ clients[p].file = "none"
    BY <2>1, ClientIs DEF CacheInv, ClientOK
  <2>3. Sound(cache, Replaced(clients, p, C!Idle))
    BY <2>2, IdleIs, SameCacheStep
  <2> QED
    BY <2>1, <2>2, <2>3 DEF CacheInv
<1>3. ASSUME NEW p \in Clients, C!OpenFile(p) PROVE CacheInv'
  <2> DEFINE y == clients[p]
             file == C!Acquired(cache.allowed)
             x == Opens(y, file)
  <2>1. /\ y.phase = "missed" /\ clients' = Replaced(clients, p, x)
        /\ cache' = WithAllowed(cache, C!Acquire(cache.allowed))
        /\ UNCHANGED <<capacity, destroyed>>
    BY <1>3 DEF C!OpenFile, Replaced, WithAllowed, Opens
  <2>2. /\ ~destroyed /\ Sound(cache, clients) /\ y.handle = 0 /\ y.file = "none"
        /\ y.table \in Tables /\ y \in ClientType
    BY <2>1, ClientIs DEF CacheInv, ClientOK
  <2>3. file \in {"mmap", "fd", "temporary"} /\ file = C!Acquired(cache.allowed)
    BY DEF C!Acquired
  <2> HIDE DEF file
  <2>4. x \in ClientType /\ ClientOK(x) /\ x.handle = 0 /\ x.file = file
    BY <2>2, <2>3, Opened
  <2> HIDE DEF x
  <2>5. Sound(WithAllowed(cache, C!Acquire(cache.allowed)), Replaced(clients, p, x))
    BY <2>2, <2>3, <2>4, OpenStep
  <2> QED
    BY <2>1, <2>2, <2>5 DEF CacheInv
<1>4. ASSUME NEW p \in Clients, C!OpenTableFails(p) PROVE CacheInv'
  <2>1. /\ clients[p].phase = "opened" /\ clients' = Replaced(clients, p, C!Idle)
        /\ cache' = WithAllowed(cache, C!Release(cache.allowed, clients[p].file))
        /\ UNCHANGED <<capacity, destroyed>>
    BY <1>4 DEF C!OpenTableFails, Replaced, WithAllowed
  <2>2. ~destroyed /\ Sound(cache, clients) /\ clients[p].handle = 0
    BY <2>1, ClientIs DEF CacheInv, ClientOK
  <2>3. Sound(WithAllowed(cache, C!Release(cache.allowed, clients[p].file)),
              Replaced(clients, p, C!Idle))
    BY <2>2, IdleIs, CloseStep
  <2> QED
    BY <2>1, <2>2, <2>3 DEF CacheInv
<1>5. ASSUME NEW p \in Clients, C!OpenTable(p) PROVE CacheInv'
  <2> DEFINE y == clients[p]
  <2>1. PICK e \in Slots :
          /\ ~cache.entries[e].live
          /\ cache' = C!Insert(cache, e, y.table, y.file)
          /\ clients' = Replaced(clients, p, Holding(y, e))
    BY <1>5 DEF C!OpenTable, Replaced, Holding
  <2>2. y.phase = "opened" /\ UNCHANGED <<capacity, destroyed>>
    BY <1>5 DEF C!OpenTable
  <2>3. /\ ~destroyed /\ Sound(cache, clients) /\ y.handle = 0 /\ y.file # "none"
        /\ y.table \in Tables /\ y \in ClientType /\ capacity \in Nat
    BY <2>2, ClientIs DEF CacheInv, ClientOK
  <2> DEFINE x == Holding(y, e)
             t == y.table
             file == y.file
  <2>4. x \in ClientType /\ ClientOK(x) /\ x.handle = e /\ x.table = t /\ x.file = "none"
    BY <2>3, Added
  <2>5. t \in Nat /\ t \in Tables /\ file \in {"mmap", "fd", "temporary"} /\ clients[p].file = file
    BY <1>0, <2>3 DEF ClientType
  <2> HIDE DEF x, t, file
  <2>6. Sound(C!Insert(cache, e, t, file), Replaced(clients, p, x))
    BY <2>1, <2>3, <2>4, <2>5, InsertStep
  <2> QED
    BY <2>1, <2>2, <2>3, <2>6 DEF CacheInv, x, t, file
<1>6. ASSUME NEW p \in Clients, C!ReleaseHandle(p) PROVE CacheInv'
  <2> DEFINE e == clients[p].handle
  <2>1. /\ clients[p].phase = "using" /\ clients' = Replaced(clients, p, C!Idle)
        /\ cache' = C!Unref(cache, e)
        /\ UNCHANGED <<capacity, destroyed>>
    BY <1>6 DEF C!ReleaseHandle, Replaced
  <2>2. /\ ~destroyed /\ Sound(cache, clients) /\ e # 0 /\ clients[p].file = "none"
        /\ clients[p] \in ClientType
    BY <2>1, ClientIs DEF CacheInv, ClientOK
  <2>3. e \in Slots /\ clients[p].handle = e
    BY <2>2 DEF ClientType
  <2> HIDE DEF e
  <2>4. Sound(C!Unref(cache, e), Replaced(clients, p, C!Idle))
    BY <2>2, <2>3, IdleIs, UnrefStep
  <2> QED
    BY <2>1, <2>2, <2>4 DEF CacheInv
<1>7. ASSUME NEW t \in Tables, C!Evict(t) PROVE CacheInv'
  <2>1. ~destroyed /\ cache' = C!EraseTable(cache, t) /\ UNCHANGED <<capacity, clients, destroyed>>
    BY <1>7 DEF C!Evict
  <2>2. Sound(cache, clients) /\ t \in Nat
    BY <1>0, <2>1 DEF CacheInv
  <2>3. Sound(C!EraseTable(cache, t), clients)
    BY <2>2, EvictStep
  <2> QED
    BY <2>1, <2>3 DEF CacheInv
<1>8. ASSUME C!Prune PROVE CacheInv'
  <2>1. ~destroyed /\ cache' = C!PruneAll(cache) /\ UNCHANGED <<capacity, clients, destroyed>>
    BY <1>8 DEF C!Prune
  <2>2. Sound(cache, clients) /\ 0 \in Nat
    BY <2>1 DEF CacheInv
  <2>3. Sound(C!PruneAll(cache), clients)
    BY <2>2, EvictStep
  <2> QED
    BY <2>1, <2>3 DEF CacheInv
<1>9. ASSUME C!Destroy PROVE CacheInv'
  <2>1. /\ ~destroyed /\ \A p \in Clients : clients[p] = C!Idle
        /\ destroyed' = TRUE /\ cache' = C!DropAll(cache) /\ UNCHANGED <<capacity, clients>>
    BY <1>9 DEF C!Destroy
  <2>2. Gone(C!DropAll(cache), clients)
    BY <2>1, DestroyStep DEF CacheInv
  <2> QED
    BY <2>1, <2>2 DEF CacheInv
<1> QED
  BY <1>1, <1>2, <1>3, <1>4, <1>5, <1>6, <1>7, <1>8, <1>9 DEF C!Next

-----------------------------------------------------------------------------
(* What the invariant says.                                                 *)

\* The entries of a cache and the clients that have handles to them.
LEMMA EntriesSound ==
  ASSUME NEW c, NEW cl, Sound(c, cl), NEW e \in Slots
  PROVE  /\ c.entries[e] \in EntryType
         /\ EntryOK(c.entries[e], Cardinality(HoldersOf(cl, e)), c.entries[e].key)
         /\ c.entries[e].refs <= 1 + Cardinality(Clients)
<1> DEFINE x == c.entries[e]
           h == Cardinality(HoldersOf(cl, e))
<1>1. EntriesOK(c.entries, Handles(cl), Keys(c.entries))
  BY DEF Sound, CacheOK, PartsOK
<1>2. x \in EntryType /\ EntryOK(x, Handles(cl)[e], Keys(c.entries)[e])
  BY <1>1, EntriesRead DEF EntriesOK
<1>3. Handles(cl)[e] = h /\ Keys(c.entries)[e] = x.key
  BY DEF Handles, Keys
<1>4. h \in Nat /\ h <= Cardinality(Clients) /\ Cardinality(Clients) \in Nat
  BY ClientSets DEF HoldersOf
<1> HIDE DEF x, h
<1>5. EntryOK(x, h, x.key)
  BY <1>2, <1>3
<1>6. x.refs <= 1 + Cardinality(Clients)
  <2>1. CASE x.live
    <3>1. x.refs = h + IF x.inCache THEN 1 ELSE 0
      BY <1>5, <2>1 DEF EntryOK
    <3> QED
      BY <1>4, <3>1
  <2>2. CASE ~x.live
    <3>1. x.refs = 0
      BY <1>5, <2>2, NoEntryIs DEF EntryOK
    <3> QED
      BY <1>4, <3>1
  <2> QED
    BY <2>1, <2>2
<1> QED
  BY <1>2, <1>5, <1>6 DEF x, h

\* The type of an entry in the model.
LEMMA EntryInType ==
  ASSUME NEW x \in EntryType, x.refs <= 1 + Cardinality(Clients)
  PROVE  x \in C!Entry
<1>1. x.refs \in Nat /\ Cardinality(Clients) \in Nat
  BY EntryFields, ClientSets
<1>2. x.refs \in 0 .. 1 + Cardinality(Clients)
  BY <1>1
<1>3. C!Cardinality(Clients) = Cardinality(Clients)
  BY SlotNumbers
<1> QED
  BY <1>2, <1>3 DEF EntryType, C!Entry

\* The types.
LEMMA TypesSound ==
  ASSUME CacheInv
  PROVE  C!TypeOK
<1>1. clients \in Callers
  BY DEF CacheInv, Sound, Gone
<1>2. \A p \in Clients : clients[p].handle \in {0} \union Slots
  BY <1>1 DEF Callers, ClientType
<1>3. cache.entries \in CacheEntries /\ cache.usage \in Nat
  <2>1. CASE destroyed
    BY <2>1 DEF CacheInv, Gone
  <2>2. CASE ~destroyed
    <3>1. CacheOK(cache, Handles(clients), Keys(cache.entries), Pending(clients), {})
      BY <2>2 DEF CacheInv, Sound
    <3>2. cache \in CacheType
      BY <3>1, CacheInType
    <3> QED
      BY <3>2 DEF CacheType
  <2> QED
    BY <2>1, <2>2
<1>4. ASSUME NEW e \in Slots PROVE cache.entries[e] \in C!Entry
  <2>1. cache.entries[e] \in EntryType
    BY <1>3, EntriesRead
  <2>2. cache.entries[e].refs <= 1 + Cardinality(Clients)
    <3>1. CASE destroyed
      <4>1. cache.entries[e].refs = 0 /\ Cardinality(Clients) \in Nat
        BY <3>1, NoEntryIs, ClientSets DEF CacheInv, Gone
      <4> QED
        BY <4>1
    <3>2. CASE ~destroyed
      BY <3>2, EntriesSound DEF CacheInv
    <3> QED
      BY <3>1, <3>2
  <2> QED
    BY <2>1, <2>2, EntryInType
<1>5. cache.entries \in [Slots -> C!Entry]
  BY <1>3, <1>4 DEF CacheEntries
<1> QED
  BY <1>2, <1>3, <1>5 DEF C!TypeOK, CacheInv

\* Who holds an entry, in the words of the model.
LEMMA HoldersAre ==
  ASSUME NEW e
  PROVE  /\ C!Holders(e) = HoldersOf(clients, e)
         /\ C!Cardinality(C!Holders(e)) = Cardinality(HoldersOf(clients, e))
<1>1. C!Holders(e) = HoldersOf(clients, e)
  BY DEF C!Holders, HoldersOf
<1> QED
  BY <1>1, SlotNumbers

\* An entry is deleted when, and only when, nobody refers to it.
LEMMA DeletedSound ==
  ASSUME CacheInv
  PROVE  C!DeletedWhenUnused
<1> SUFFICES ASSUME NEW e \in Slots
             PROVE  /\ C!Holders(e) # {} => e \in C!Live
                    /\ \A p \in C!Holders(e) : cache.entries[e].key = clients[p].table
                    /\ e \in C!Live /\ C!Holders(e) = {} => ~destroyed /\ cache.entries[e].inCache
  BY DEF C!DeletedWhenUnused
<1> DEFINE x == cache.entries[e]
<1>1. C!Holders(e) = HoldersOf(clients, e) /\ (e \in C!Live <=> x.live)
  BY HoldersAre DEF C!Live
<1>2. CASE destroyed
  <2>1. HoldersOf(clients, e) = {} /\ ~x.live
    BY <1>2, IdleIs, NoEntryIs, NoSlotZero DEF CacheInv, Gone, HoldersOf
  <2> QED
    BY <1>1, <2>1
<1>3. CASE ~destroyed
  <2> DEFINE h == Cardinality(HoldersOf(clients, e))
  <2>1. x \in EntryType /\ EntryOK(x, h, x.key)
    BY <1>3, EntriesSound DEF CacheInv
  <2>2. h \in Nat /\ (h = 0 <=> HoldersOf(clients, e) = {})
    BY ClientSets DEF HoldersOf
  <2>3. \A p \in HoldersOf(clients, e) : x.key = clients[p].table
    BY <1>3, NoSlotZero DEF CacheInv, Sound, HoldersOf
  <2> HIDE DEF x, h
  <2>4. h # 0 => x.live
    BY <2>1 DEF EntryOK
  <2>5. ASSUME x.live, h = 0 PROVE x.inCache
    <3>1. x.refs # 0 /\ x.refs = 0 + IF x.inCache THEN 1 ELSE 0
      BY <2>1, <2>5 DEF EntryOK
    <3> QED
      BY <3>1
  <2> QED
    BY <1>1, <1>3, <2>2, <2>3, <2>4, <2>5 DEF x
<1> QED
  BY <1>2, <1>3

\* Each entry is on the list that tells whether a client has it.
LEMMA ListsSound ==
  ASSUME CacheInv
  PROVE  C!ListsTellUse
<1> SUFFICES ASSUME ~destroyed
             PROVE  /\ C!IsInjective(cache.lru \o cache.inUse)
                    /\ C!Range(cache.lru) =
                         {e \in C!Live : cache.entries[e].inCache /\ cache.entries[e].refs = 1}
                    /\ C!Range(cache.inUse) =
                         {e \in C!Live : cache.entries[e].inCache /\ cache.entries[e].refs > 1}
                    /\ \A e \in C!Live : cache.entries[e].refs =
                         C!Cardinality(C!Holders(e)) + IF cache.entries[e].inCache THEN 1 ELSE 0
  BY DEF C!ListsTellUse
<1> DEFINE en == cache.entries
<1>1. Sound(cache, clients)
  BY DEF CacheInv
<1>2. Lists(cache.lru, OnlyCached(en)) /\ Lists(cache.inUse, InUse(en))
  BY <1>1 DEF Sound, CacheOK, PartsOK, ListsOK
<1>3. OnlyCached(en) \cap InUse(en) = {}
  BY DEF OnlyCached, InUse
<1>4. C!IsInjective(cache.lru \o cache.inUse)
  <2>1. Lists(cache.lru \o cache.inUse, OnlyCached(en) \union InUse(en))
    BY <1>2, <1>3, ListConcat
  <2> QED
    BY <2>1, ListRange
<1>5. C!Range(cache.lru) = OnlyCached(en) /\ C!Range(cache.inUse) = InUse(en)
  BY <1>2, ListRange
<1>6. \A e \in Slots : EntryOK(en[e], Cardinality(HoldersOf(clients, e)), en[e].key)
                         /\ en[e] \in EntryType
  BY <1>1, EntriesSound
<1>7. \A e : e \in C!Live <=> e \in Slots /\ en[e].live
  BY DEF C!Live
<1> HIDE DEF en
<1>8. ASSUME NEW e \in Slots
      PROVE  /\ en[e].inCache => en[e].live
             /\ en[e].inCache => (en[e].refs # 1 <=> en[e].refs > 1)
             /\ en[e].live => en[e].refs = Cardinality(HoldersOf(clients, e))
                                             + IF en[e].inCache THEN 1 ELSE 0
  <2> DEFINE x == en[e]
             h == Cardinality(HoldersOf(clients, e))
  <2>1. EntryOK(x, h, x.key) /\ x.refs \in Nat
    BY <1>6, EntryFields
  <2> HIDE DEF x, h
  <2>2. x.inCache => x.live
    BY <2>1, NoEntryIs DEF EntryOK
  <2>3. x.live => x.refs # 0 /\ x.refs = h + IF x.inCache THEN 1 ELSE 0
    BY <2>1 DEF EntryOK
  <2>4. x.refs # 0 => (x.refs # 1 <=> x.refs > 1)
    BY <2>1
  <2> QED
    BY <2>2, <2>3, <2>4 DEF x, h
<1>9. OnlyCached(en) = {e \in C!Live : en[e].inCache /\ en[e].refs = 1}
  BY <1>7, <1>8 DEF OnlyCached
<1>10. InUse(en) = {e \in C!Live : en[e].inCache /\ en[e].refs > 1}
  BY <1>7, <1>8 DEF InUse
<1>11. \A e \in C!Live : en[e].refs = C!Cardinality(C!Holders(e)) + IF en[e].inCache THEN 1 ELSE 0
  BY <1>7, <1>8, HoldersAre
<1> QED
  BY <1>4, <1>5, <1>9, <1>10, <1>11 DEF en

\* The hash table has one entry for a key, and usage_ is the sum of the charges.
LEMMA OneSound ==
  ASSUME CacheInv
  PROVE  C!OneEntryPerTable
<1> SUFFICES ASSUME ~destroyed
             PROVE  /\ C!Chained(cache) = {e \in C!Live : cache.entries[e].inCache}
                    /\ \A e \in C!Chained(cache) : C!Found(cache, cache.entries[e].key) = {e}
                    /\ C!IsInjective(C!FlattenSeq(cache.buckets))
                    /\ cache.usage = C!Charges(cache.entries)
  BY DEF C!OneEntryPerTable
<1> DEFINE en == cache.entries
           bu == cache.buckets
<1>1. Sound(cache, clients)
  BY DEF CacheInv
<1>2. /\ CacheOK(cache, Handles(clients), Keys(en), Pending(clients), {})
      /\ ChainsOK(en, bu, {}) /\ cache.usage = C!Charges(en) /\ en \in CacheEntries
  BY <1>1 DEF Sound, CacheOK, PartsOK, EntriesOK
<1>3. \A t \in Nat : /\ C!Found(cache, t) = {d \in Slots \ {} : en[d].inCache /\ en[d].key = t}
                     /\ \A d, e \in C!Found(cache, t) : d = e
  BY <1>2, FoundIs
<1>4. \A e \in Slots : en[e].key \in Nat /\ (en[e].inCache => en[e].live)
  <2>1. ASSUME NEW e \in Slots PROVE en[e].inCache => en[e].live
    <3>1. EntryOK(en[e], Cardinality(HoldersOf(clients, e)), en[e].key)
      BY <1>1, EntriesSound
    <3> QED
      BY <3>1, NoEntryIs DEF EntryOK
  <2> QED
    BY <1>2, <2>1, EntriesRead
<1>5. {e \in C!Live : en[e].inCache} = Cached(en)
  BY <1>4 DEF C!Live, Cached
<1>6. Lists(C!FlattenSeq(bu), Cached(en))
  <2>1. Lists(C!FlattenSeq(bu), Cached(en) \ {})
    BY <1>2, HandlesIs
  <2>2. Cached(en) \ {} = Cached(en)
    OBVIOUS
  <2> QED
    BY <2>1, <2>2
<1>7. C!IsInjective(C!FlattenSeq(bu))
  BY <1>6, ListRange
<1>8. C!Chained(cache) = UNION {C!Range(bu[b]) : b \in DOMAIN bu}
  BY DEF C!Chained
<1> HIDE DEF en, bu
<1>9. /\ bu \in Seq(Seq(Slots)) /\ DOMAIN bu = 1 .. Len(bu) /\ Len(bu) # 0 /\ Len(bu) \in Nat
      /\ \A b \in 1 .. Len(bu) : Lists(bu[b], InBucket(en, {}, b, Len(bu)))
  BY <1>2, ChainsRead
<1>10. \A b \in 1 .. Len(bu) : C!Range(bu[b]) = InBucket(en, {}, b, Len(bu))
  BY <1>9, ListRange
<1>11. ASSUME NEW d \in Slots PROVE 1 + (en[d].key % Len(bu)) \in 1 .. Len(bu)
  <2> DEFINE t == en[d].key
  <2>1. t \in Nat
    BY <1>4
  <2> HIDE DEF t
  <2>2. C!Bucket(bu, t) \in 1 .. Len(bu) /\ C!Bucket(bu, t) = 1 + (t % Len(bu))
    BY <1>9, <2>1, BucketIn
  <2> QED
    BY <2>2 DEF t
<1>12. C!Chained(cache) = Cached(en)
  <2>1. \A d : d \in C!Chained(cache) <=> \E b \in 1 .. Len(bu) : d \in InBucket(en, {}, b, Len(bu))
    BY <1>8, <1>9, <1>10
  <2>2. \A d : d \in Cached(en) <=> \E b \in 1 .. Len(bu) : d \in InBucket(en, {}, b, Len(bu))
    BY <1>11 DEF Cached, InBucket
  <2> QED
    BY <2>1, <2>2
<1>13. ASSUME NEW e \in Cached(en) PROVE C!Found(cache, en[e].key) = {e}
  <2>1. e \in Slots /\ en[e].inCache /\ en[e].key \in Nat
    BY <1>4 DEF Cached
  <2> DEFINE t == en[e].key
  <2>2. /\ C!Found(cache, t) = {d \in Slots \ {} : en[d].inCache /\ en[d].key = t}
        /\ \A d, g \in C!Found(cache, t) : d = g
    BY <1>3, <2>1
  <2>3. e \in C!Found(cache, t)
    BY <2>1, <2>2
  <2> QED
    BY <2>2, <2>3
<1> QED
  BY <1>2, <1>5, <1>7, <1>12, <1>13 DEF en, bu

\* The files that are open and the turns that are left add up to the limits.
LEMMA LimitsSound ==
  ASSUME CacheInv
  PROVE  C!LimitsHold
<1> DEFINE en == cache.entries
           al == cache.allowed
           F == Pending(clients)
<1>1. FilesOK(en, al, F)
  BY DEF CacheInv, Sound, Gone, CacheOK, PartsOK
<1>2. DOMAIN Limits = Kinds
  BY MCTableCacheAssumption DEF C!TableCacheAssumption, Kinds
<1>3. ASSUME NEW kind \in Kinds
      PROVE  al[kind] \in Nat /\ al[kind] + C!FilesOpen(kind) = Limits[kind]
  <2>1. /\ al[kind] \in Nat
        /\ al[kind] + Cardinality(OfKind(en, kind)) + F[kind] = Limits[kind]
    BY <1>1 DEF FilesOK
  <2>2. F[kind] = Cardinality(OpenersOf(clients, kind))
    BY DEF Pending
  <2>3. {e \in C!Live : en[e].file = kind} = OfKind(en, kind)
    BY DEF C!Live, OfKind
  <2>4. {p \in Clients : clients[p].file = kind} = OpenersOf(clients, kind)
    BY DEF OpenersOf
  <2>5. C!FilesOpen(kind) = Cardinality(OfKind(en, kind)) + Cardinality(OpenersOf(clients, kind))
    BY <2>3, <2>4, SlotNumbers DEF C!FilesOpen
  <2>6. Cardinality(OfKind(en, kind)) \in Nat /\ Cardinality(OpenersOf(clients, kind)) \in Nat
    BY SlotSets, ClientSets DEF OfKind, OpenersOf
  <2> HIDE DEF al, F
  <2> DEFINE a == al[kind]
             m == Cardinality(OfKind(en, kind))
             n == Cardinality(OpenersOf(clients, kind))
  <2>7. a \in Nat /\ m \in Nat /\ n \in Nat /\ a + m + n = Limits[kind]
    BY <2>1, <2>2, <2>6
  <2>8. C!FilesOpen(kind) = m + n
    BY <2>5
  <2> HIDE DEF a, m, n
  <2>9. a \in Nat /\ a + C!FilesOpen(kind) = Limits[kind]
    BY <2>7, <2>8
  <2> QED
    BY <2>9 DEF a
<1> QED
  BY <1>2, <1>3 DEF C!LimitsHold

\* A table that a thread uses is not closed under it, one that nobody needs is; there
\* is one entry for a table, on the list that tells whether it is in use; and the limits
\* on files hold.  (LRUCache, TableCache, Limiter.)
THEOREM CacheIsSound == MCSpec => []CacheSound
<1>1. MCInit => CacheInv
  <2> SUFFICES ASSUME C!Init PROVE CacheInv
    BY DEF MCInit
  <2> DEFINE en == [e \in Slots |-> C!NoEntry]
             bu == [b \in 1 .. MinLength |-> << >>]
  <2>1. /\ capacity \in Capacities /\ destroyed = FALSE
        /\ cache = Parts(en, bu, << >>, << >>, 0, Limits)
        /\ clients = [p \in Clients |-> C!Idle]
    BY DEF C!Init, Parts
  <2>2. Sound(cache, clients)
    BY <2>1, InitSound
  <2> QED
    BY <2>1, <2>2 DEF CacheInv
<1>2. CacheInv /\ [MCNext]_<<part, vars, memtableVars, cacheVars>> => CacheInv'
  <2> SUFFICES ASSUME CacheInv, [MCNext]_<<part, vars, memtableVars, cacheVars>>
               PROVE  CacheInv'
    OBVIOUS
  <2>1. C!Next \/ UNCHANGED cacheVars
    BY DEF MCNext
  <2>2. CASE C!Next
    BY <2>2, CacheInvStep
  <2>3. CASE UNCHANGED cacheVars
    BY <2>3 DEF cacheVars, CacheInv
  <2> QED
    BY <2>1, <2>2, <2>3
<1>3. CacheInv => CacheSound
  BY TypesSound, DeletedSound, ListsSound, OneSound, LimitsSound DEF CacheSound
<1> QED
  BY <1>1, <1>2, <1>3, PTL DEF MCSpec

=============================================================================
