-------------------------- MODULE PostBoardProofs ---------------------------
(***************************************************************************)
(* Theorems about PostBoard, for any devices, accounts, posts and bounds,  *)
(* after what each operation of RealtimeDatabase does to an outbox, for    *)
(* outboxes of any length; then those that rest on the order of the        *)
(* writes.                                                                 *)
(***************************************************************************)
EXTENDS PostBoard, SequenceTheorems, TLAPS

-----------------------------------------------------------------------------
(* The outboxes of RealtimeDatabase.                                       *)

\* The outboxes hold writes of S, and applied never counts beyond them.
OutboxOf(S) ==
    /\ outbox \in [Client -> Seq(S)]
    /\ applied \in [Client -> Nat]
    /\ \A c \in Client : applied[c] <= Len(outbox[c])

\* Issue adds the new writes at the end and touches nothing else.
LEMMA IssueProperties ==
    ASSUME NEW S, OutboxOf(S), NEW c \in Client, NEW ws \in Seq(S),
           Issue(c, ws)
    PROVE  /\ OutboxOf(S)'
           /\ db' = db /\ applied' = applied
           /\ Len(outbox'[c]) = Len(outbox[c]) + Len(ws)
           /\ \A i \in 1 .. Len(outbox[c]) : outbox'[c][i] = outbox[c][i]
           /\ \A i \in 1 .. Len(ws) : outbox'[c][Len(outbox[c]) + i] = ws[i]
           /\ \A d \in Client \ {c} : outbox'[d] = outbox[d]
<1>1. outbox[c] \in Seq(S) BY DEF OutboxOf
<1>2. outbox' = [outbox EXCEPT ![c] = @ \o ws] /\ applied' = applied /\ db' = db
  BY DEF Issue
<1>3. outbox'[c] = outbox[c] \o ws BY <1>2 DEF OutboxOf
<1>4. /\ outbox[c] \o ws \in Seq(S)
      /\ Len(outbox[c] \o ws) = Len(outbox[c]) + Len(ws)
      /\ \A i \in 1 .. Len(outbox[c]) + Len(ws) :
            (outbox[c] \o ws)[i] = IF i <= Len(outbox[c]) THEN outbox[c][i]
                                   ELSE ws[i - Len(outbox[c])]
  BY <1>1, ConcatProperties
<1>5. Len(outbox[c]) \in Nat /\ Len(ws) \in Nat BY <1>1, LenProperties
<1>6. \A i \in 1 .. Len(outbox[c]) : outbox'[c][i] = outbox[c][i]
  BY <1>3, <1>4, <1>5
<1>7. \A i \in 1 .. Len(ws) : outbox'[c][Len(outbox[c]) + i] = ws[i]
  <2> TAKE i \in 1 .. Len(ws)
  <2>1. /\ Len(outbox[c]) + i \in 1 .. Len(outbox[c]) + Len(ws)
        /\ ~(Len(outbox[c]) + i <= Len(outbox[c]))
        /\ (Len(outbox[c]) + i) - Len(outbox[c]) = i
    BY <1>5
  <2> QED BY <2>1, <1>3, <1>4
<1>8. \A d \in Client \ {c} : outbox'[d] = outbox[d] BY <1>2 DEF OutboxOf
<1>9. OutboxOf(S)'
  <2>1. outbox' \in [Client -> Seq(S)] BY <1>2, <1>4 DEF OutboxOf
  <2>2. applied' \in [Client -> Nat] BY <1>2 DEF OutboxOf
  <2>3. \A d \in Client : applied'[d] <= Len(outbox'[d])
    BY <1>2, <1>3, <1>4, <1>5, <1>8 DEF OutboxOf
  <2> QED BY <2>1, <2>2, <2>3 DEF OutboxOf
<1> QED BY <1>2, <1>3, <1>4, <1>6, <1>7, <1>8, <1>9

\* Every write of the new outbox is an old one in its place or a new one.
LEMMA IssuedWrites ==
    ASSUME NEW S, OutboxOf(S), NEW c \in Client, NEW ws \in Seq(S),
           Issue(c, ws), NEW i \in 1 .. Len(outbox'[c])
    PROVE  \/ i \in 1 .. Len(outbox[c]) /\ outbox'[c][i] = outbox[c][i]
           \/ \E j \in 1 .. Len(ws) :
                 i = Len(outbox[c]) + j /\ outbox'[c][i] = ws[j]
<1>1. /\ Len(outbox[c]) \in Nat /\ Len(ws) \in Nat
      /\ Len(outbox'[c]) = Len(outbox[c]) + Len(ws)
  BY IssueProperties, LenProperties DEF OutboxOf
<1>2. CASE i <= Len(outbox[c])
  <2>1. i \in 1 .. Len(outbox[c]) BY <1>1, <1>2
  <2> QED BY <2>1, IssueProperties
<1>3. CASE ~(i <= Len(outbox[c]))
  <2>1. i - Len(outbox[c]) \in 1 .. Len(ws)
        /\ i = Len(outbox[c]) + (i - Len(outbox[c]))
    BY <1>1, <1>3
  <2>2. outbox'[c][Len(outbox[c]) + (i - Len(outbox[c]))]
            = ws[i - Len(outbox[c])]
    BY <2>1, IssueProperties
  <2> QED BY <2>1, <2>2
<1> QED BY <1>2, <1>3

\* The write that the server applies next is the first it has not applied.
LEMMA NextWriteType ==
    ASSUME NEW S, OutboxOf(S), NEW c \in Client, applied[c] < Len(outbox[c])
    PROVE  /\ applied[c] + 1 \in 1 .. Len(outbox[c])
           /\ NextWrite(c) = outbox[c][applied[c] + 1]
           /\ NextWrite(c) \in S
<1>1. outbox[c] \in Seq(S) /\ applied[c] \in Nat BY DEF OutboxOf
<1>2. applied[c] + 1 \in 1 .. Len(outbox[c]) BY <1>1, LenProperties
<1>3. outbox[c][applied[c] + 1] \in S BY <1>1, <1>2, ElementOfSeq
<1> QED BY <1>2, <1>3 DEF NextWrite

\* Applying a write moves applied past it.
LEMMA ServerApplyProperties ==
    ASSUME NEW S, OutboxOf(S), NEW c \in Client, ServerApply(c)
    PROVE  /\ OutboxOf(S)'
           /\ outbox' = outbox
           /\ applied'[c] = applied[c] + 1
           /\ \A d \in Client \ {c} : applied'[d] = applied[d]
           /\ applied[c] + 1 \in 1 .. Len(outbox[c])
           /\ NextWrite(c) = outbox[c][applied[c] + 1]
           /\ NextWrite(c) \in S
           /\ db' = [db EXCEPT ![NextWrite(c).loc] = NextWrite(c).val]
<1>1. /\ applied[c] < Len(outbox[c])
      /\ db' = [db EXCEPT ![NextWrite(c).loc] = NextWrite(c).val]
      /\ applied' = [applied EXCEPT ![c] = @ + 1]
      /\ outbox' = outbox
  BY DEF ServerApply
<1>2. applied[c] + 1 \in 1 .. Len(outbox[c]) /\ NextWrite(c) \in S
      /\ NextWrite(c) = outbox[c][applied[c] + 1]
  BY <1>1, NextWriteType
<1>3. applied' \in [Client -> Nat] /\ applied'[c] = applied[c] + 1
      /\ \A d \in Client \ {c} : applied'[d] = applied[d]
  BY <1>1 DEF OutboxOf
<1>4. \A d \in Client : applied'[d] <= Len(outbox'[d])
  BY <1>1, <1>2, <1>3 DEF OutboxOf
<1>5. OutboxOf(S)' BY <1>1, <1>3, <1>4 DEF OutboxOf
<1> QED BY <1>1, <1>2, <1>3, <1>5

\* A refused write leaves the outbox, and those behind it move up.
LEMMA ServerRefuseProperties ==
    ASSUME NEW S, OutboxOf(S), NEW c \in Client, ServerRefuse(c)
    PROVE  /\ OutboxOf(S)'
           /\ db' = db /\ applied' = applied
           /\ applied[c] + 1 \in 1 .. Len(outbox[c])
           /\ NextWrite(c) = outbox[c][applied[c] + 1]
           /\ Len(outbox'[c]) = Len(outbox[c]) - 1
           /\ \A i \in 1 .. Len(outbox'[c]) :
                outbox'[c][i] = IF i <= applied[c] THEN outbox[c][i]
                                ELSE outbox[c][i + 1]
           /\ \A d \in Client \ {c} : outbox'[d] = outbox[d]
<1> DEFINE s == outbox[c]
           t == Without(s, applied[c] + 1)
<1>1. /\ applied[c] < Len(outbox[c])
      /\ outbox' = [outbox EXCEPT ![c] = t]
      /\ applied' = applied /\ db' = db
  BY DEF ServerRefuse
<1>2. s \in Seq(S) /\ applied[c] \in Nat /\ Len(s) \in Nat
  BY LenProperties DEF OutboxOf
<1>3. t = [i \in 1 .. (Len(s) - 1) |->
              IF i < applied[c] + 1 THEN s[i] ELSE s[i + 1]]
  BY DEF Without
<1>4. Len(s) - 1 \in Nat BY <1>1, <1>2
<1>5. \A i \in 1 .. (Len(s) - 1) : s[i] \in S /\ s[i + 1] \in S
  BY <1>2, <1>4, ElementOfSeq
<1>6. t \in [1 .. (Len(s) - 1) -> S] BY <1>3, <1>5
<1>7. t \in Seq(S) BY <1>4, <1>6, SeqDef
<1>8. Len(t) = Len(s) - 1 BY <1>4, <1>6, <1>7, LenProperties
<1>9. outbox'[c] = t BY <1>1 DEF OutboxOf
<1>10. \A i \in 1 .. Len(outbox'[c]) :
            outbox'[c][i] = IF i <= applied[c] THEN s[i] ELSE s[i + 1]
  BY <1>2, <1>3, <1>8, <1>9
<1>11. \A d \in Client \ {c} : outbox'[d] = outbox[d] BY <1>1 DEF OutboxOf
<1>12. OutboxOf(S)'
  <2>1. outbox' \in [Client -> Seq(S)] BY <1>1, <1>7 DEF OutboxOf
  <2>2. \A d \in Client : applied'[d] <= Len(outbox'[d])
    BY <1>1, <1>2, <1>8, <1>9, <1>11 DEF OutboxOf
  <2> QED BY <1>1, <2>1, <2>2 DEF OutboxOf
<1>13. applied[c] + 1 \in 1 .. Len(outbox[c])
       /\ NextWrite(c) = outbox[c][applied[c] + 1]
  BY <1>1, NextWriteType
<1> QED BY <1>1, <1>8, <1>9, <1>10, <1>11, <1>12, <1>13

\* The oldest write leaves the outbox when its acknowledgement arrives.
LEMMA AcknowledgeProperties ==
    ASSUME NEW S, OutboxOf(S), NEW c \in Client, Acknowledge(c)
    PROVE  /\ OutboxOf(S)'
           /\ db' = db
           /\ applied'[c] = applied[c] - 1
           /\ \A d \in Client \ {c} :
                applied'[d] = applied[d] /\ outbox'[d] = outbox[d]
           /\ Len(outbox'[c]) = Len(outbox[c]) - 1
           /\ \A i \in 1 .. Len(outbox'[c]) : outbox'[c][i] = outbox[c][i + 1]
<1>1. /\ applied[c] > 0
      /\ outbox' = [outbox EXCEPT ![c] = Tail(@)]
      /\ applied' = [applied EXCEPT ![c] = @ - 1]
      /\ db' = db
  BY DEF Acknowledge
<1>2. outbox[c] \in Seq(S) /\ applied[c] \in Nat /\ applied[c] <= Len(outbox[c])
  BY DEF OutboxOf
<1>3. outbox[c] # <<>> BY <1>1, <1>2, EmptySeq
<1>4. /\ Tail(outbox[c]) \in Seq(S)
      /\ Len(Tail(outbox[c])) = Len(outbox[c]) - 1
      /\ \A i \in 1 .. Len(Tail(outbox[c])) :
            Tail(outbox[c])[i] = outbox[c][i + 1]
  BY <1>2, <1>3, HeadTailProperties
<1>5. outbox'[c] = Tail(outbox[c]) /\ applied'[c] = applied[c] - 1
  BY <1>1 DEF OutboxOf
<1>6. \A d \in Client \ {c} : applied'[d] = applied[d] /\ outbox'[d] = outbox[d]
  BY <1>1 DEF OutboxOf
<1>7. OutboxOf(S)'
  <2>1. outbox' \in [Client -> Seq(S)] BY <1>1, <1>4 DEF OutboxOf
  <2>2. applied' \in [Client -> Nat] BY <1>1, <1>2 DEF OutboxOf
  <2>3. Len(outbox[c]) \in Nat BY <1>2, LenProperties
  <2>4. \A d \in Client : applied'[d] <= Len(outbox'[d])
    BY <1>2, <1>4, <1>5, <1>6, <2>3 DEF OutboxOf
  <2> QED BY <2>1, <2>2, <2>4 DEF OutboxOf
<1> QED BY <1>1, <1>4, <1>5, <1>6, <1>7

\* After a reconnection nothing in the outbox counts as applied.
LEMMA ReconnectProperties ==
    ASSUME NEW S, OutboxOf(S), NEW c \in Client, Reconnect(c)
    PROVE  /\ OutboxOf(S)'
           /\ db' = db /\ outbox' = outbox
           /\ applied'[c] = 0
           /\ \A d \in Client \ {c} : applied'[d] = applied[d]
<1>1. applied' = [applied EXCEPT ![c] = 0] /\ db' = db /\ outbox' = outbox
  BY DEF Reconnect
<1>2. outbox[c] \in Seq(S) BY DEF OutboxOf
<1>3. Len(outbox[c]) \in Nat BY <1>2, LenProperties
<1> QED BY <1>1, <1>3 DEF OutboxOf

\* A process that ends has no outbox.
LEMMA LoseOutboxProperties ==
    ASSUME NEW S, OutboxOf(S), NEW c \in Client, LoseOutbox(c)
    PROVE  /\ OutboxOf(S)'
           /\ db' = db
           /\ outbox'[c] = <<>> /\ applied'[c] = 0
           /\ \A d \in Client \ {c} :
                applied'[d] = applied[d] /\ outbox'[d] = outbox[d]
<1>1. /\ outbox' = [outbox EXCEPT ![c] = <<>>]
      /\ applied' = [applied EXCEPT ![c] = 0]
      /\ db' = db
  BY DEF LoseOutbox
<1>2. <<>> \in Seq(S) /\ Len(<<>>) = 0 BY EmptySeq
<1> QED BY <1>1, <1>2 DEF OutboxOf

-----------------------------------------------------------------------------
(* A write that depends on another has it ahead of it: later than anything *)
(* the server has applied, and before position i.                          *)
Ahead(c, i, loc, vals) ==
    \E j \in 1 .. (i - 1) :
        /\ j > applied[c]
        /\ j <= Len(outbox[c])
        /\ outbox[c][j].loc = loc
        /\ outbox[c][j].val \in vals

\* The same of the next state, at a position that may depend on it.
AheadAfter(c, i, loc, vals) ==
    \E j \in 1 .. (i - 1) :
        /\ j > applied'[c]
        /\ j <= Len(outbox'[c])
        /\ outbox'[c][j].loc = loc
        /\ outbox'[c][j].val \in vals

\* What was ahead is still ahead, unless the server has just stored it or has
\* just refused a write for its location.
StillAhead(d, k, i) ==
    \A loc \in DOMAIN db : \A vals :
        Ahead(d, k, loc, vals)
            => \/ AheadAfter(d, i, loc, vals)
               \/ db'[loc] \in vals
               \/ ServerRefuse(d) /\ NextWrite(d).loc = loc

\* Position i of the new outbox of d holds what position k held before.
CameFrom(d, i, k) ==
    /\ k \in 1 .. Len(outbox[d])
    /\ outbox'[d][i] = outbox[d][k]
    /\ StillAhead(d, k, i)

\* The positions from 1 to one past the end, each with where it came from.
Carried(d) ==
    /\ \A i \in 1 .. Len(outbox'[d]) : \E k : CameFrom(d, i, k)
    /\ StillAhead(d, Len(outbox[d]) + 1, Len(outbox'[d]) + 1)

LEMMA CarriedWhenUnchanged ==
    ASSUME NEW S, OutboxOf(S), NEW d \in Client,
           outbox'[d] = outbox[d], applied'[d] = applied[d]
    PROVE  Carried(d)
<1>1. \A k : StillAhead(d, k, k) BY DEF StillAhead, Ahead, AheadAfter
<1>2. \A i \in 1 .. Len(outbox'[d]) : CameFrom(d, i, i) BY <1>1 DEF CameFrom
<1> QED BY <1>1, <1>2 DEF Carried

LEMMA CarriedByApply ==
    ASSUME NEW S, OutboxOf(S), NEW c \in Client, ServerApply(c)
    PROVE  \A d \in Client : Carried(d)
<1> SUFFICES ASSUME NEW d \in Client PROVE Carried(d) OBVIOUS
<1>1. outbox' = outbox BY ServerApplyProperties
<1>2. CASE d # c BY <1>1, <1>2, CarriedWhenUnchanged, ServerApplyProperties
<1>3. CASE d = c
  <2>1. /\ applied'[c] = applied[c] + 1 /\ applied[c] \in Nat
        /\ NextWrite(c) = outbox[c][applied[c] + 1]
        /\ db' = [db EXCEPT ![NextWrite(c).loc] = NextWrite(c).val]
    BY ServerApplyProperties DEF OutboxOf
  <2>2. ASSUME NEW k \in Int PROVE StillAhead(c, k, k)
    <3> SUFFICES ASSUME NEW loc \in DOMAIN db, NEW vals, Ahead(c, k, loc, vals)
                 PROVE  AheadAfter(c, k, loc, vals) \/ db'[loc] \in vals
      BY DEF StillAhead
    <3>1. PICK j \in 1 .. (k - 1) :
             /\ j > applied[c] /\ j <= Len(outbox[c])
             /\ outbox[c][j].loc = loc /\ outbox[c][j].val \in vals
      BY DEF Ahead
    <3>2. CASE j = applied[c] + 1 BY <2>1, <3>1, <3>2
    <3>3. CASE j # applied[c] + 1
      <4>1. j > applied'[c] BY <2>1, <3>1, <3>3
      <4> QED BY <1>1, <3>1, <4>1 DEF AheadAfter
    <3> QED BY <3>2, <3>3
  <2>3. Len(outbox[c]) \in Nat BY LenProperties DEF OutboxOf
  <2>4. \A i \in 1 .. Len(outbox'[c]) : CameFrom(c, i, i)
    BY <1>1, <2>2, <2>3 DEF CameFrom
  <2> QED BY <1>1, <1>3, <2>2, <2>3, <2>4 DEF Carried
<1> QED BY <1>2, <1>3

LEMMA CarriedByRefuse ==
    ASSUME NEW S, OutboxOf(S), NEW c \in Client, ServerRefuse(c)
    PROVE  \A d \in Client : Carried(d)
<1> SUFFICES ASSUME NEW d \in Client PROVE Carried(d) OBVIOUS
<1>1. CASE d # c BY <1>1, CarriedWhenUnchanged, ServerRefuseProperties
<1>2. CASE d = c
  <2> DEFINE n == applied[c] + 1
             From(i) == IF i <= applied[c] THEN i ELSE i + 1
  <2>1. /\ applied' = applied /\ applied[c] \in Nat
        /\ n \in 1 .. Len(outbox[c]) /\ NextWrite(c) = outbox[c][n]
        /\ Len(outbox'[c]) = Len(outbox[c]) - 1
        /\ \A i \in 1 .. Len(outbox'[c]) :
              outbox'[c][i] = IF i <= applied[c] THEN outbox[c][i]
                              ELSE outbox[c][i + 1]
    BY ServerRefuseProperties DEF OutboxOf
  <2>2. Len(outbox[c]) \in Nat BY LenProperties DEF OutboxOf
  <2>3. ASSUME NEW i \in 1 .. (Len(outbox'[c]) + 1)
        PROVE  StillAhead(c, From(i), i)
    <3> SUFFICES ASSUME NEW loc \in DOMAIN db, NEW vals,
                        Ahead(c, From(i), loc, vals),
                        NextWrite(c).loc # loc
                 PROVE  AheadAfter(c, i, loc, vals)
      BY DEF StillAhead
    <3>1. PICK j \in 1 .. (From(i) - 1) :
             /\ j > applied[c] /\ j <= Len(outbox[c])
             /\ outbox[c][j].loc = loc /\ outbox[c][j].val \in vals
      BY DEF Ahead
    <3>2. j # n BY <2>1, <3>1
    <3>3. j - 1 > applied'[c] /\ j - 1 <= Len(outbox'[c]) /\ j - 1 \in Nat
          /\ j - 1 \in 1 .. (i - 1) /\ ~(j - 1 <= applied[c])
      BY <2>1, <2>2, <3>1, <3>2
    <3>4. outbox'[c][j - 1] = outbox[c][j]
      BY <2>1, <2>2, <3>1, <3>3
    <3> QED BY <3>1, <3>3, <3>4 DEF AheadAfter
  <2>4. ASSUME NEW i \in 1 .. Len(outbox'[c]) PROVE CameFrom(c, i, From(i))
    <3>1. i \in 1 .. (Len(outbox'[c]) + 1) BY <2>1, <2>2
    <3>2. From(i) \in 1 .. Len(outbox[c]) BY <2>1, <2>2
    <3>3. outbox'[c][i] = outbox[c][From(i)] BY <2>1
    <3> HIDE DEF From
    <3> QED BY <2>3, <3>1, <3>2, <3>3 DEF CameFrom
  <2>5. From(Len(outbox'[c]) + 1) = Len(outbox[c]) + 1 BY <2>1, <2>2
  <2>6. Len(outbox'[c]) + 1 \in 1 .. (Len(outbox'[c]) + 1) BY <2>1, <2>2
  <2>7. StillAhead(c, From(Len(outbox'[c]) + 1), Len(outbox'[c]) + 1)
    BY <2>3, <2>6
  <2> HIDE DEF From
  <2> QED BY <1>2, <2>4, <2>5, <2>7 DEF Carried
<1> QED BY <1>1, <1>2

LEMMA CarriedByAcknowledge ==
    ASSUME NEW S, OutboxOf(S), NEW c \in Client, Acknowledge(c)
    PROVE  \A d \in Client : Carried(d)
<1> SUFFICES ASSUME NEW d \in Client PROVE Carried(d) OBVIOUS
<1>1. CASE d # c BY <1>1, CarriedWhenUnchanged, AcknowledgeProperties
<1>2. CASE d = c
  <2>1. /\ applied'[c] = applied[c] - 1 /\ applied[c] \in Nat
        /\ applied[c] > 0
        /\ Len(outbox'[c]) = Len(outbox[c]) - 1
        /\ \A i \in 1 .. Len(outbox'[c]) : outbox'[c][i] = outbox[c][i + 1]
    BY AcknowledgeProperties DEF OutboxOf, Acknowledge
  <2>2. Len(outbox[c]) \in Nat BY LenProperties DEF OutboxOf
  <2>3. ASSUME NEW i \in 1 .. (Len(outbox'[c]) + 1)
        PROVE  StillAhead(c, i + 1, i)
    <3> SUFFICES ASSUME NEW loc \in DOMAIN db, NEW vals,
                        Ahead(c, i + 1, loc, vals)
                 PROVE  AheadAfter(c, i, loc, vals)
      BY DEF StillAhead
    <3>1. PICK j \in 1 .. ((i + 1) - 1) :
             /\ j > applied[c] /\ j <= Len(outbox[c])
             /\ outbox[c][j].loc = loc /\ outbox[c][j].val \in vals
      BY DEF Ahead
    <3>2. j - 1 > applied'[c] /\ j - 1 \in 1 .. (i - 1)
          /\ j - 1 \in 1 .. Len(outbox'[c]) /\ j - 1 <= Len(outbox'[c])
          /\ (j - 1) + 1 = j
      BY <2>1, <2>2, <3>1
    <3>3. outbox'[c][j - 1] = outbox[c][j] BY <2>1, <3>2
    <3> QED BY <3>1, <3>2, <3>3 DEF AheadAfter
  <2>4. ASSUME NEW i \in 1 .. Len(outbox'[c]) PROVE CameFrom(c, i, i + 1)
    <3>1. i \in 1 .. (Len(outbox'[c]) + 1) /\ i + 1 \in 1 .. Len(outbox[c])
      BY <2>1, <2>2
    <3> QED BY <2>1, <2>3, <3>1 DEF CameFrom
  <2>5. StillAhead(c, Len(outbox[c]) + 1, Len(outbox'[c]) + 1)
    <3>1. Len(outbox'[c]) + 1 \in 1 .. (Len(outbox'[c]) + 1)
          /\ (Len(outbox'[c]) + 1) + 1 = Len(outbox[c]) + 1
          /\ Len(outbox'[c]) + 1 = Len(outbox[c])
      BY <2>1, <2>2, AcknowledgeProperties DEF OutboxOf
    <3> QED BY <2>3, <3>1
  <2> QED BY <1>2, <2>4, <2>5 DEF Carried
<1> QED BY <1>1, <1>2

LEMMA CarriedByReconnect ==
    ASSUME NEW S, OutboxOf(S), NEW c \in Client, Reconnect(c)
    PROVE  \A d \in Client : Carried(d)
<1> SUFFICES ASSUME NEW d \in Client PROVE Carried(d) OBVIOUS
<1>1. outbox' = outbox BY ReconnectProperties
<1>2. CASE d # c BY <1>1, <1>2, CarriedWhenUnchanged, ReconnectProperties
<1>3. CASE d = c
  <2>1. applied'[c] = 0 BY ReconnectProperties
  <2>2. \A k : StillAhead(c, k, k)
    <3> SUFFICES ASSUME NEW k, NEW loc, NEW vals, Ahead(c, k, loc, vals)
                 PROVE  AheadAfter(c, k, loc, vals)
      BY DEF StillAhead
    <3>1. PICK j \in 1 .. (k - 1) :
             /\ j > applied[c] /\ j <= Len(outbox[c])
             /\ outbox[c][j].loc = loc /\ outbox[c][j].val \in vals
      BY DEF Ahead
    <3>2. j > applied'[c] BY <2>1, <3>1
    <3> QED BY <1>1, <3>1, <3>2 DEF AheadAfter
  <2> QED BY <1>1, <1>3, <2>2 DEF Carried, CameFrom
<1> QED BY <1>2, <1>3

\* Writes issued behind what was there leave it where it was.
LEMMA CarriedByIssue ==
    ASSUME NEW S, OutboxOf(S), NEW c \in Client, NEW ws \in Seq(S),
           Issue(c, ws)
    PROVE  /\ \A d \in Client \ {c} : Carried(d)
           /\ \A i \in 1 .. Len(outbox[c]) : CameFrom(c, i, i)
           /\ \A i \in Len(outbox[c]) + 1 .. Len(outbox'[c]) + 1 :
                 StillAhead(c, Len(outbox[c]) + 1, i)
<1>1. \A d \in Client \ {c} : Carried(d)
  BY CarriedWhenUnchanged, IssueProperties
<1>2. /\ applied' = applied /\ applied[c] \in Nat
      /\ Len(outbox[c]) \in Nat /\ Len(ws) \in Nat
      /\ Len(outbox'[c]) = Len(outbox[c]) + Len(ws)
      /\ \A i \in 1 .. Len(outbox[c]) : outbox'[c][i] = outbox[c][i]
  BY IssueProperties, LenProperties DEF OutboxOf
<1>3. ASSUME NEW k \in Int, NEW i \in Int, k <= i
      PROVE  StillAhead(c, k, i)
  <2> SUFFICES ASSUME NEW loc, NEW vals, Ahead(c, k, loc, vals)
               PROVE  AheadAfter(c, i, loc, vals)
    BY DEF StillAhead
  <2>1. PICK j \in 1 .. (k - 1) :
           /\ j > applied[c] /\ j <= Len(outbox[c])
           /\ outbox[c][j].loc = loc /\ outbox[c][j].val \in vals
    BY DEF Ahead
  <2>2. j \in 1 .. (i - 1) /\ j \in 1 .. Len(outbox[c])
        /\ j > applied'[c] /\ j <= Len(outbox'[c])
    BY <1>2, <1>3, <2>1
  <2>3. outbox'[c][j] = outbox[c][j] BY <1>2, <2>2
  <2> QED BY <2>1, <2>2, <2>3 DEF AheadAfter
<1>4. \A i \in 1 .. Len(outbox[c]) : CameFrom(c, i, i)
  BY <1>2, <1>3 DEF CameFrom
<1> QED BY <1>1, <1>2, <1>3, <1>4

-----------------------------------------------------------------------------
(* The locations of PostBoard and what is written there.                   *)

USE DEF Write, Copy

-----------------------------------------------------------------------------
(* The locations of different things are different.                        *)

LEMMA LocationsDiffer ==
    /\ \A p, q : PostAt(p) = PostAt(q) => p = q
    /\ \A p, q : CompletedAt(p) = CompletedAt(q) => p = q
    /\ \A u, v : KarmaAt(u) = KarmaAt(v) => u = v
    /\ \A u, v, p, q : PinAt(u, p) = PinAt(v, q) => u = v /\ p = q
    /\ \A p, q : PostAt(p) # CompletedAt(q)
    /\ \A p, u : PostAt(p) # KarmaAt(u)
    /\ \A p, q, u : PostAt(p) # PinAt(u, q)
    /\ \A p, u : CompletedAt(p) # KarmaAt(u)
    /\ \A p, q, u : CompletedAt(p) # PinAt(u, q)
    /\ \A p, u, v : KarmaAt(v) # PinAt(u, p)
BY DEF PostAt, CompletedAt, KarmaAt, PinAt

LEMMA LocationType ==
    /\ \A p \in Post : PostAt(p) \in Location /\ CompletedAt(p) \in Location
    /\ \A u \in User : KarmaAt(u) \in Location
    /\ \A u \in User, p \in Post : PinAt(u, p) \in Location
BY DEF Location, PostLocation, PinLocation, CompletedLocation, KarmaLocation

\* The four kinds of writes.
LEMMA WriteKinds ==
    ASSUME NEW w \in AnyWrite
    PROVE  \/ \E p \in Post : w.loc = PostAt(p) /\ w.val \in {Copy, Absent}
           \/ \E u \in User, p \in Post :
                 w.loc = PinAt(u, p) /\ w.val \in {Copy, Absent}
           \/ \E p \in Post : w.loc = CompletedAt(p) /\ w.val \in Completion
           \/ \E u \in User : w.loc = KarmaAt(u) /\ w.val \in Nat
<1>1. CASE w \in PostWrite BY <1>1 DEF PostWrite, PostLocation
<1>2. CASE w \in PinWrite
  <2>1. w.loc \in PinLocation /\ w.val \in {Copy, Absent}
    BY <1>2 DEF PinWrite
  <2>2. \A loc \in PinLocation : \E u \in User, p \in Post : loc = PinAt(u, p)
    BY SMT DEF PinLocation
  <2> QED BY <2>1, <2>2
<1>3. CASE w \in CompletedWrite BY <1>3 DEF CompletedWrite, CompletedLocation
<1>4. CASE w \in KarmaWrite BY <1>4 DEF KarmaWrite, KarmaLocation
<1> QED BY <1>1, <1>2, <1>3, <1>4 DEF AnyWrite

\* The value fits the location.
LEMMA ValueOfWrite ==
    ASSUME NEW w \in AnyWrite
    PROVE  /\ \A p : w.loc = PostAt(p) => w.val \in {Copy, Absent}
           /\ \A u, p : w.loc = PinAt(u, p) => w.val \in {Copy, Absent}
           /\ \A p : w.loc = CompletedAt(p) => w.val \in Completion
           /\ \A u : w.loc = KarmaAt(u) => w.val \in Nat
<1>1. CASE \E q \in Post : w.loc = PostAt(q) /\ w.val \in {Copy, Absent}
  BY <1>1, LocationsDiffer
<1>2. CASE \E v \in User, q \in Post :
              w.loc = PinAt(v, q) /\ w.val \in {Copy, Absent}
  BY <1>2, LocationsDiffer
<1>3. CASE \E q \in Post : w.loc = CompletedAt(q) /\ w.val \in Completion
  BY <1>3, LocationsDiffer
<1>4. CASE \E v \in User : w.loc = KarmaAt(v) /\ w.val \in Nat
  BY <1>4, LocationsDiffer
<1> QED BY <1>1, <1>2, <1>3, <1>4, WriteKinds

LEMMA WriteTypes ==
    /\ \A p \in Post : CreatePost(p) \in AnyWrite /\ RemovePost(p) \in AnyWrite
    /\ \A u \in User, p \in Post :
          Pin(u, p) \in AnyWrite /\ Unpin(u, p) \in AnyWrite
    /\ \A u \in User, p \in Post, how \in {"uid", "username"} :
          Complete(p, u, how) \in AnyWrite
    /\ \A u \in User, k \in Nat : SetKarma(u, k) \in AnyWrite
<1>1. \A p \in Post : CreatePost(p) \in PostWrite /\ RemovePost(p) \in PostWrite
  BY LocationType DEF CreatePost, RemovePost, PostWrite, PostLocation
<1>2. \A u \in User, p \in Post : Pin(u, p) \in PinWrite /\ Unpin(u, p) \in PinWrite
  BY DEF Pin, Unpin, PinWrite, PinLocation
<1>3. \A u \in User, p \in Post, how \in {"uid", "username"} :
          Complete(p, u, how) \in CompletedWrite
  BY DEF Complete, CompletedWrite, CompletedLocation,
         Completion
<1>4. \A u \in User, k \in Nat : SetKarma(u, k) \in KarmaWrite
  BY DEF SetKarma, KarmaWrite, KarmaLocation
<1> QED BY <1>1, <1>2, <1>3, <1>4 DEF AnyWrite

\* Applying a write keeps the database well typed.
LEMMA ApplyKeepsType ==
    ASSUME DbType, NEW w \in AnyWrite, db' = [db EXCEPT ![w.loc] = w.val]
    PROVE  DbType'
<1>1. DOMAIN db' = Location BY DEF DbType
<1>2. \A loc \in Location :
          db'[loc] = IF loc = w.loc THEN w.val ELSE db[loc]
  BY DEF DbType
<1>3. \A p \in Post : db'[PostAt(p)] \in {Copy, Absent}
  BY <1>2, ValueOfWrite, LocationType DEF DbType
<1>4. ASSUME NEW u \in User, NEW p \in Post
      PROVE  db'[PinAt(u, p)] \in {Copy, Absent}
  <2>1. PinAt(u, p) \in Location BY LocationType
  <2>2. w.loc = PinAt(u, p) => w.val \in {Copy, Absent} BY ValueOfWrite
  <2>3. db[PinAt(u, p)] \in {Copy, Absent} BY DEF DbType
  <2> QED BY <1>2, <2>1, <2>2, <2>3
<1>5. \A p \in Post : db'[CompletedAt(p)] \in Completion \cup {Absent}
  BY <1>2, ValueOfWrite, LocationType DEF DbType
<1>6. \A u \in User : db'[KarmaAt(u)] \in Nat
  BY <1>2, ValueOfWrite, LocationType DEF DbType
<1> QED BY <1>1, <1>3, <1>4, <1>5, <1>6 DEF DbType

-----------------------------------------------------------------------------
(* Type correctness.                                                       *)

LEMMA OutboxTypeMeaning == OutboxType <=> OutboxOf(AnyWrite)
BY DEF OutboxType, OutboxOf

TreeType == DbType /\ OutboxType

LEMMA QuietKeepsTree ==
    ASSUME TreeType, UNCHANGED dbVars PROVE TreeType'
BY DEF TreeType, dbVars, DbType, OutboxType

LEMMA IssueKeepsTree ==
    ASSUME TreeType, NEW c \in Client, NEW ws \in Seq(AnyWrite), Issue(c, ws)
    PROVE  TreeType'
<1>1. OutboxOf(AnyWrite) BY OutboxTypeMeaning DEF TreeType
<1>2. OutboxOf(AnyWrite)' /\ db' = db BY <1>1, IssueProperties
<1>3. OutboxType' BY <1>2 DEF OutboxType, OutboxOf
<1> QED BY <1>2, <1>3 DEF TreeType, DbType

LEMMA LoseOutboxKeepsTree ==
    ASSUME TreeType, NEW c \in Client, LoseOutbox(c) PROVE TreeType'
<1>1. OutboxOf(AnyWrite) BY OutboxTypeMeaning DEF TreeType
<1>2. OutboxOf(AnyWrite)' /\ db' = db BY <1>1, LoseOutboxProperties
<1>3. OutboxType' BY <1>2 DEF OutboxType, OutboxOf
<1> QED BY <1>2, <1>3 DEF TreeType, DbType

LEMMA NetworkKeepsTree ==
    ASSUME TreeType, NEW c \in Client,
           \/ ServerApply(c) \/ ServerRefuse(c)
           \/ Acknowledge(c) \/ Reconnect(c)
    PROVE  TreeType'
<1>1. OutboxOf(AnyWrite) BY OutboxTypeMeaning DEF TreeType
<1>2. OutboxOf(AnyWrite)'
  BY <1>1, ServerApplyProperties, ServerRefuseProperties,
     AcknowledgeProperties, ReconnectProperties
<1>3. OutboxType' BY <1>2 DEF OutboxType, OutboxOf
<1>4. CASE ServerApply(c)
  <2>1. NextWrite(c) \in AnyWrite
        /\ db' = [db EXCEPT ![NextWrite(c).loc] = NextWrite(c).val]
    BY <1>1, <1>4, ServerApplyProperties
  <2> QED BY <1>3, <2>1, ApplyKeepsType DEF TreeType
<1>5. CASE ~ServerApply(c)
  <2>1. db' = db
    BY <1>1, <1>5, ServerRefuseProperties, AcknowledgeProperties,
       ReconnectProperties
  <2> QED BY <1>3, <2>1 DEF TreeType, DbType
<1> QED BY <1>4, <1>5

\* What the handlers issue are sequences of writes.
LEMMA HandlerWrites ==
    ASSUME SessionType, NEW c \in Client, NEW p \in Post
    PROVE  /\ <<CreatePost(p)>> \in Seq(AnyWrite)
           /\ user[c] \in User =>
                /\ <<Pin(user[c], p)>> \in Seq(AnyWrite)
                /\ <<Unpin(user[c], p)>> \in Seq(AnyWrite)
                /\ HomeCheckWrites(c, p) \in Seq(AnyWrite)
           /\ me[c] # Absent => FavCheckWrites(c, p) \in Seq(AnyWrite)
<1>1. <<CreatePost(p)>> \in Seq(AnyWrite) BY WriteTypes
<1>2. ASSUME user[c] \in User
      PROVE  /\ <<Pin(user[c], p)>> \in Seq(AnyWrite)
             /\ <<Unpin(user[c], p)>> \in Seq(AnyWrite)
             /\ HomeCheckWrites(c, p) \in Seq(AnyWrite)
  BY <1>2, WriteTypes DEF HomeCheckWrites
<1>3. ASSUME me[c] # Absent PROVE FavCheckWrites(c, p) \in Seq(AnyWrite)
  <2>1. user[c] \in User /\ asked[c] \in User BY <1>3 DEF SessionType
  <2>2. me[c] + KarmaAward \in Nat BY <1>3 DEF SessionType, KarmaAward
  <2>3. /\ SetKarma(user[c], me[c] + KarmaAward) \in AnyWrite
        /\ Complete(p, asked[c], "username") \in AnyWrite
        /\ Unpin(user[c], p) \in AnyWrite
        /\ RemovePost(p) \in AnyWrite
    BY <2>1, <2>2, WriteTypes
  <2> QED BY <2>3 DEF FavCheckWrites
<1> QED BY <1>1, <1>2, <1>3

\* A screen that shows something belongs to somebody, and a Pinned tab has
\* asked for the record of somebody.
LEMMA SomebodySignedIn ==
    ASSUME SessionType, NEW c \in Client
    PROVE  /\ present[c] # {} \/ home[c] # {} => user[c] \in User
           /\ fav[c] # {} \/ opened[c] \/ me[c] # Absent
                => user[c] \in User /\ asked[c] \in User
BY DEF SessionType

LEMMA ScreenKeepsTypes ==
    ASSUME TypeOK, NEW c \in Client, Screen(c) PROVE TypeOK'
<1> USE BoardAssumption
<1>1. ASSUME NEW k \in Category, HomeEvent(c, k) PROVE TypeOK'
  <2> DEFINE posts == (home[c] \ OnPage(k)) \cup Held(c, k)
  <2>1. posts \in SUBSET Post BY DEF TypeOK, SessionType, Held, OnPage
  <2> HIDE DEF posts
  <2>2. /\ present[c] # {} /\ home' = [home EXCEPT ![c] = posts]
        /\ \E m \in SUBSET posts : marked' = [marked EXCEPT ![c] = m]
        /\ UNCHANGED <<dbVars, sessionVars, uploading, opened, fav, asked, me,
                       historyVars, taps, drops, kills>>
    <3>1. Reload(c, posts) BY <1>1 DEF HomeEvent, posts
    <3>2. \E m \in SUBSET posts : marked' = [marked EXCEPT ![c] = m]
      BY <3>1 DEF Reload
    <3>3. /\ present[c] # {} /\ home' = [home EXCEPT ![c] = posts]
          /\ UNCHANGED <<dbVars, sessionVars, uploading, opened, fav, asked,
                         me, historyVars, taps, drops, kills>>
      BY <1>1 DEF HomeEvent, posts
    <3> QED BY <3>2, <3>3
  <2>3. TreeType' BY <2>2, QuietKeepsTree DEF TypeOK, TreeType
  <2>4. SessionType'
    <3>1. PICK m \in SUBSET posts : marked' = [marked EXCEPT ![c] = m] BY <2>2
    <3>2. m \in SUBSET Post BY <2>1
    <3>3. marked' \in [Client -> SUBSET Post]
      BY <3>1, <3>2 DEF TypeOK, SessionType
    <3>4. home' \in [Client -> SUBSET Post]
      BY <2>1, <2>2 DEF TypeOK, SessionType
    <3>5. \A d \in Client : home'[d] # {} => present[d] # {}
      BY <2>2 DEF TypeOK, SessionType
    <3> QED BY <2>2, <3>3, <3>4, <3>5 DEF TypeOK, SessionType, sessionVars
  <2>5. HistoryType' BY <2>2 DEF TypeOK, HistoryType, historyVars
  <2> QED BY <2>3, <2>4, <2>5 DEF TypeOK, TreeType
<1>2. ASSUME NEW p \in Post, MarkEvent(c, p) PROVE TypeOK'
  <2>1. TreeType' BY <1>2, QuietKeepsTree DEF TypeOK, TreeType, MarkEvent
  <2>2. SessionType' BY <1>2 DEF TypeOK, SessionType, MarkEvent, sessionVars
  <2>3. HistoryType' BY <1>2 DEF TypeOK, HistoryType, historyVars, MarkEvent
  <2> QED BY <2>1, <2>2, <2>3 DEF TypeOK, TreeType
<1>3. ASSUME FavEvent(c) PROVE TypeOK'
  <2>1. TreeType' BY <1>3, QuietKeepsTree DEF TypeOK, TreeType, FavEvent
  <2>2. PICK u \in present[c] : fav' = [fav EXCEPT ![c] = PinnedPosts(c, u)]
    BY <1>3 DEF FavEvent
  <2>3. SessionType'
    <3>1. PinnedPosts(c, u) \in SUBSET Post BY DEF PinnedPosts
    <3> HIDE DEF PinnedPosts
    <3>2. fav' \in [Client -> SUBSET Post]
      BY <2>2, <3>1 DEF TypeOK, SessionType
    <3>3. \A d \in Client : fav'[d] # {} \/ me[d] # Absent => opened[d]
      BY <1>3, <2>2 DEF TypeOK, SessionType, FavEvent
    <3> QED BY <1>3, <3>2, <3>3
      DEF TypeOK, SessionType, FavEvent, sessionVars
  <2>4. HistoryType' BY <1>3 DEF TypeOK, HistoryType, historyVars, FavEvent
  <2> QED BY <2>1, <2>3, <2>4 DEF TypeOK, TreeType
<1>4. ASSUME FetchUserInfo(c) PROVE TypeOK'
  <2>1. TreeType' BY <1>4, QuietKeepsTree DEF TypeOK, TreeType, FetchUserInfo
  <2>2. opened[c] /\ asked[c] \in User
    BY <1>4, SomebodySignedIn DEF TypeOK, FetchUserInfo
  <2>3. PICK k \in Seen(c, KarmaAt(asked[c])) : me' = [me EXCEPT ![c] = k]
    BY <1>4 DEF FetchUserInfo
  <2>4. k \in Nat
    <3>1. CASE Outstanding(c, KarmaAt(asked[c])) = {}
      BY <2>2, <2>3, <3>1 DEF Seen, TypeOK, DbType
    <3>2. CASE Outstanding(c, KarmaAt(asked[c])) # {}
      <4>0. k \in {outbox[c][i].val : i \in Latest(c, KarmaAt(asked[c]))}
        BY <2>3, <3>2 DEF Seen
      <4>1. PICK i \in Latest(c, KarmaAt(asked[c])) : k = outbox[c][i].val
        BY <4>0, Zenon
      <4>2. i \in DOMAIN outbox[c] /\ outbox[c][i].loc = KarmaAt(asked[c])
        BY DEF Latest, Outstanding
      <4>3. outbox[c][i] \in AnyWrite
        BY <4>2, LenProperties, ElementOfSeq DEF TypeOK, OutboxType
      <4> QED BY <4>1, <4>2, <4>3, ValueOfWrite
    <3> QED BY <3>1, <3>2
  <2>5. SessionType' BY <1>4, <2>2, <2>3, <2>4
    DEF TypeOK, SessionType, FetchUserInfo, sessionVars
  <2>6. HistoryType' BY <1>4 DEF TypeOK, HistoryType, historyVars, FetchUserInfo
  <2> QED BY <2>1, <2>5, <2>6 DEF TypeOK, TreeType
<1> QED BY <1>1, <1>2, <1>3, <1>4 DEF Screen

LEMMA EmptyListsKeepsSession ==
    ASSUME SessionType, NEW c \in Client, EmptyLists(c),
           user' \in [Client -> User \cup {NoUser}],
           \A d \in Client \ {c} : user'[d] = user[d],
           NEW P \in SUBSET User, present' = [present EXCEPT ![c] = P],
           P # {} => user'[c] \in P,
           uploading' \in [Client -> SUBSET Post]
    PROVE  SessionType'
BY DEF SessionType, EmptyLists

LEMMA BoundsType ==
    MaxTaps \in Nat /\ MaxDrops \in Nat /\ MaxKills \in Nat
BY BoardAssumption

LEMMA OldKarmaType == \A u \in User : OldKarma[u] \in Nat
BY BoardAssumption

LEMMA OldPostsType == OldPosts \subseteq Post
BY BoardAssumption

LEMMA TapType ==
    ASSUME TypeOK, Tap PROVE taps' \in 0 .. MaxTaps
BY BoundsType DEF TypeOK, HistoryType, Tap

LEMMA ReloadType ==
    ASSUME TypeOK, NEW c \in Client, Reload(c, home[c])
    PROVE  marked' \in [Client -> SUBSET Post]
<1>1. PICK m \in SUBSET home[c] : marked' = [marked EXCEPT ![c] = m]
  BY DEF Reload
<1>2. m \in SUBSET Post BY DEF TypeOK, SessionType
<1> QED BY <1>1, <1>2 DEF TypeOK, SessionType

LEMMA RestartKeepsTypes ==
    ASSUME TypeOK, NEW c \in Client, Restart(c), taps' \in 0 .. MaxTaps
    PROVE  TypeOK'
<1>1. TreeType' BY LoseOutboxKeepsTree DEF Restart, TypeOK, TreeType
<1>2. SessionType'
  <2>1. PICK P \in SUBSET ({user[c]} \ {NoUser}) :
            present' = [present EXCEPT ![c] = P]
    BY DEF Restart
  <2>2. P \in SUBSET User /\ (P # {} => user[c] \in P)
    BY <2>1 DEF TypeOK, SessionType
  <2> QED BY <2>1, <2>2, EmptyListsKeepsSession
    DEF Restart, TypeOK, SessionType
<1>3. HistoryType' BY DEF Restart, TypeOK, HistoryType, historyVars
<1> QED BY <1>1, <1>2, <1>3 DEF TypeOK, TreeType

LEMMA TouchKeepsTypes ==
    ASSUME TypeOK, NEW c \in Client, Touch(c) PROVE TypeOK'
<1>0. TreeType BY DEF TypeOK, TreeType
<1>1. ASSUME NEW u \in User, Login(c, u) PROVE TypeOK'
  <2>1. TreeType' BY <1>0, <1>1, QuietKeepsTree DEF Login
  <2>2. SessionType'
    <3>1. /\ present[c] = {} /\ user' = [user EXCEPT ![c] = u]
          /\ present' = [present EXCEPT ![c] = {u}]
          /\ UNCHANGED <<uploading, listVars>>
      BY <1>1 DEF Login
    <3> QED BY <3>1 DEF TypeOK, SessionType, listVars
  <2>3. HistoryType' BY <1>1 DEF TypeOK, HistoryType, historyVars, Login
  <2> QED BY <2>1, <2>2, <2>3 DEF TypeOK, TreeType
<1>2. ASSUME Logout(c) PROVE TypeOK'
  <2>1. TreeType' BY <1>0, <1>2, QuietKeepsTree DEF Logout
  <2>2. SessionType'
    <3>1. /\ user' = [user EXCEPT ![c] = NoUser]
          /\ present' = [present EXCEPT ![c] = {}]
          /\ EmptyLists(c) /\ uploading' = uploading
      BY <1>2 DEF Logout
    <3> QED BY <3>1, EmptyListsKeepsSession DEF TypeOK, SessionType
  <2>3. HistoryType'
    BY <1>2, TapType DEF TypeOK, HistoryType, historyVars, Logout
  <2> QED BY <2>1, <2>2, <2>3 DEF TypeOK, TreeType
<1>3. ASSUME OpenPinned(c) PROVE TypeOK'
  <2>1. TreeType' BY <1>0, <1>3, QuietKeepsTree DEF OpenPinned
  <2>2. SessionType'
    <3>1. user[c] \in present[c] /\ user[c] \in User
      BY <1>3, SomebodySignedIn DEF TypeOK, SessionType, OpenPinned
    <3> QED BY <1>3, <3>1 DEF TypeOK, SessionType, OpenPinned, sessionVars
  <2>3. HistoryType' BY <1>3 DEF TypeOK, HistoryType, historyVars, OpenPinned
  <2> QED BY <2>1, <2>2, <2>3 DEF TypeOK, TreeType
<1>4. ASSUME NEW p \in Post, Submit(c, p) PROVE TypeOK'
  <2>1. TreeType' BY <1>0, <1>4, QuietKeepsTree DEF Submit
  <2>2. SessionType'
    BY <1>4 DEF TypeOK, SessionType, Submit, listVars, sessionVars
  <2>3. HistoryType'
    BY <1>4, TapType DEF TypeOK, HistoryType, Submit
  <2> QED BY <2>1, <2>2, <2>3 DEF TypeOK, TreeType
<1>5. ASSUME NEW p \in Post, HomePin(c, p) PROVE TypeOK'
  <2>1. user[c] \in User BY <1>5 DEF TypeOK, SessionType, HomePin
  <2>2. TreeType'
    BY <1>0, <1>5, <2>1, HandlerWrites, IssueKeepsTree DEF TypeOK, HomePin
  <2>3. SessionType' BY <1>5 DEF TypeOK, SessionType, HomePin, sessionVars
  <2>4. HistoryType'
    BY <1>5, TapType DEF TypeOK, HistoryType, historyVars, HomePin
  <2> QED BY <2>2, <2>3, <2>4 DEF TypeOK, TreeType
<1>6. ASSUME NEW p \in Post, HomeUnpin(c, p) PROVE TypeOK'
  <2>1. user[c] \in User BY <1>6 DEF TypeOK, SessionType, HomeUnpin
  <2>2. TreeType'
    BY <1>0, <1>6, <2>1, HandlerWrites, IssueKeepsTree DEF TypeOK, HomeUnpin
  <2>3. SessionType'
    BY <1>6, ReloadType DEF TypeOK, SessionType, HomeUnpin, sessionVars
  <2>4. HistoryType'
    BY <1>6, TapType DEF TypeOK, HistoryType, historyVars, HomeUnpin
  <2> QED BY <2>2, <2>3, <2>4 DEF TypeOK, TreeType
<1>7. ASSUME NEW p \in Post, HomeCheck(c, p) PROVE TypeOK'
  <2>1. user[c] \in User BY <1>7 DEF TypeOK, SessionType, HomeCheck
  <2>2. TreeType'
    BY <1>0, <1>7, <2>1, HandlerWrites, IssueKeepsTree DEF TypeOK, HomeCheck
  <2>3. SessionType'
    BY <1>7, ReloadType DEF TypeOK, SessionType, HomeCheck, sessionVars
  <2>4. HistoryType'
    BY <1>7, TapType DEF TypeOK, HistoryType, historyVars, HomeCheck
  <2> QED BY <2>2, <2>3, <2>4 DEF TypeOK, TreeType
<1>8. ASSUME NEW p \in Post, FavCheck(c, p) PROVE TypeOK'
  <2>1. user[c] \in User /\ asked[c] \in User /\ me[c] # Absent
    BY <1>8, SomebodySignedIn DEF TypeOK, FavCheck
  <2>2. TreeType'
    BY <1>0, <1>8, <2>1, HandlerWrites, IssueKeepsTree DEF TypeOK, FavCheck
  <2>3. SessionType'
    BY <1>8 DEF TypeOK, SessionType, FavCheck, listVars, sessionVars
  <2>4. HistoryType'
    <3>1. mixed' = mixed
              \cup ({<<asked[c], user[c]>>} \ {<<u, u>> : u \in User})
      BY <1>8 DEF FavCheck
    <3>2. mixed' \subseteq User \X User
      BY <2>1, <3>1 DEF TypeOK, HistoryType
    <3> QED BY <1>8, <2>1, <3>2, TapType DEF TypeOK, HistoryType, FavCheck
  <2> QED BY <2>2, <2>3, <2>4 DEF TypeOK, TreeType
<1>9. ASSUME NEW p \in Post, FavPinTap(c, p) PROVE TypeOK'
  BY <1>9, TapType, RestartKeepsTypes DEF FavPinTap
<1>10. ASSUME Scroll(c) PROVE TypeOK'
  <2>1. TreeType' BY <1>0, <1>10, QuietKeepsTree DEF Scroll
  <2>2. SessionType'
    BY <1>10, ReloadType DEF TypeOK, SessionType, Scroll, sessionVars
  <2>3. HistoryType'
    BY <1>10, TapType DEF TypeOK, HistoryType, historyVars, Scroll
  <2> QED BY <2>1, <2>2, <2>3 DEF TypeOK, TreeType
<1>11. ASSUME NEW u \in User, SignIn(c, u) PROVE TypeOK'
  <2>1. TreeType' BY <1>0, <1>11, QuietKeepsTree DEF SignIn
  <2>2. SessionType'
    <3>1. /\ present[c] # {} /\ user' = [user EXCEPT ![c] = u]
          /\ present' = [present EXCEPT ![c] = @ \cup {u}]
          /\ UNCHANGED <<uploading, listVars>>
      BY <1>11 DEF SignIn
    <3> QED BY <3>1 DEF TypeOK, SessionType, listVars
  <2>3. HistoryType'
    BY <1>11, TapType DEF TypeOK, HistoryType, historyVars, SignIn
  <2> QED BY <2>1, <2>2, <2>3 DEF TypeOK, TreeType
<1>12. ASSUME LoginAgain(c) PROVE TypeOK'
  <2>1. TreeType' BY <1>0, <1>12, QuietKeepsTree DEF LoginAgain
  <2>2. SessionType'
    <3>1. /\ present[c] # {} /\ present' = [present EXCEPT ![c] = {user[c]}]
          /\ EmptyLists(c) /\ UNCHANGED <<user, uploading>>
      BY <1>12 DEF LoginAgain
    <3>2. user[c] \in User BY <3>1, SomebodySignedIn DEF TypeOK
    <3>3. {user[c]} \in SUBSET User BY <3>2
    <3> QED BY <3>1, <3>3, EmptyListsKeepsSession DEF TypeOK, SessionType
  <2>3. HistoryType'
    BY <1>12, TapType DEF TypeOK, HistoryType, historyVars, LoginAgain
  <2> QED BY <2>1, <2>2, <2>3 DEF TypeOK, TreeType
<1> QED
  BY <1>1, <1>2, <1>3, <1>4, <1>5, <1>6, <1>7, <1>8, <1>9, <1>10, <1>11, <1>12
  DEF Touch

LEMMA NetworkKeepsTypes ==
    ASSUME TypeOK, NEW c \in Client, Network(c) PROVE TypeOK'
<1>0. TreeType BY DEF TypeOK, TreeType
<1>1. ASSUME Apply(c) PROVE TypeOK'
  <2>1. TreeType' BY <1>0, <1>1, NetworkKeepsTree DEF Apply
  <2>2. SessionType'
    BY <1>1 DEF TypeOK, SessionType, Apply, listVars, sessionVars
  <2>3. HistoryType' BY <1>1 DEF TypeOK, HistoryType, Apply
  <2> QED BY <2>1, <2>2, <2>3 DEF TypeOK, TreeType
<1>2. ASSUME Refuse(c) PROVE TypeOK'
  <2>1. TreeType' BY <1>0, <1>2, NetworkKeepsTree DEF Refuse
  <2>2. SessionType'
    BY <1>2 DEF TypeOK, SessionType, Refuse, listVars, sessionVars
  <2>3. HistoryType' BY <1>2 DEF TypeOK, HistoryType, historyVars, Refuse
  <2> QED BY <2>1, <2>2, <2>3 DEF TypeOK, TreeType
<1>3. ASSUME Hear(c) PROVE TypeOK'
  <2>1. TreeType' BY <1>0, <1>3, NetworkKeepsTree DEF Hear
  <2>2. SessionType'
    BY <1>3 DEF TypeOK, SessionType, Hear, listVars, sessionVars
  <2>3. HistoryType' BY <1>3 DEF TypeOK, HistoryType, historyVars, Hear
  <2> QED BY <2>1, <2>2, <2>3 DEF TypeOK, TreeType
<1>4. ASSUME Drop(c) PROVE TypeOK'
  <2>1. TreeType' BY <1>0, <1>4, NetworkKeepsTree DEF Drop
  <2>2. SessionType'
    BY <1>4 DEF TypeOK, SessionType, Drop, listVars, sessionVars
  <2>3. HistoryType' BY <1>4, BoundsType
    DEF TypeOK, HistoryType, historyVars, Drop
  <2> QED BY <2>1, <2>2, <2>3 DEF TypeOK, TreeType
<1>5. ASSUME NEW p \in Post, EndUpload(c, p) PROVE SessionType' /\ HistoryType'
  <2>1. SessionType'
    BY <1>5 DEF TypeOK, SessionType, EndUpload, listVars, sessionVars
  <2>2. HistoryType' BY <1>5 DEF TypeOK, HistoryType, historyVars, EndUpload
  <2> QED BY <2>1, <2>2
<1>6. ASSUME NEW p \in Post, UploadDone(c, p) PROVE TypeOK'
  <2>1. TreeType'
    BY <1>0, <1>6, HandlerWrites, IssueKeepsTree DEF TypeOK, UploadDone
  <2> QED BY <1>5, <1>6, <2>1 DEF UploadDone, TypeOK, TreeType
<1>7. ASSUME NEW p \in Post, UploadFails(c, p) PROVE TypeOK'
  <2>1. TreeType' BY <1>0, <1>7, QuietKeepsTree DEF UploadFails
  <2> QED BY <1>5, <1>7, <2>1 DEF UploadFails, TypeOK, TreeType
<1> QED BY <1>1, <1>2, <1>3, <1>4, <1>6, <1>7 DEF Network

LEMMA TypeInit == Init => TypeOK
<1> SUFFICES ASSUME Init PROVE TypeOK OBVIOUS
<1>1. DbType
  <2>1. db = [loc \in Location |-> OldValue(loc)] BY DEF Init
  <2>2. ASSUME NEW p \in Post PROVE db[PostAt(p)] \in {Copy, Absent}
    BY <2>1, LocationType DEF OldValue, PostAt
  <2>3. ASSUME NEW u \in User, NEW p \in Post
        PROVE  db[PinAt(u, p)] \in {Copy, Absent}
    <3>1. PinAt(u, p) \in Location BY LocationType
    <3> QED BY <2>1, <3>1 DEF OldValue, PinAt
  <2>4. ASSUME NEW p \in Post PROVE db[CompletedAt(p)] = Absent
    BY <2>1, LocationType DEF OldValue, CompletedAt
  <2>5. ASSUME NEW u \in User PROVE db[KarmaAt(u)] = OldKarma[u]
    BY <2>1, LocationType DEF OldValue, KarmaAt
  <2>6. DOMAIN db = Location BY <2>1
  <2>7. \A u \in User : db[KarmaAt(u)] \in Nat BY <2>5, OldKarmaType
  <2>8. \A u \in User, p \in Post : db[PinAt(u, p)] \in {Copy, Absent} BY <2>3
  <2> QED BY <2>2, <2>4, <2>6, <2>7, <2>8 DEF DbType
<1>2. OutboxType
  <2>1. <<>> \in Seq(AnyWrite) /\ Len(<<>>) = 0 BY EmptySeq
  <2> QED BY <2>1 DEF Init, OutboxType
<1>3. SessionType BY DEF Init, SessionType
<1>4. HistoryType BY OldPostsType, BoundsType DEF Init, HistoryType
<1> QED BY <1>1, <1>2, <1>3, <1>4 DEF TypeOK

LEMMA TypeStep == TypeOK /\ [Next]_vars => TypeOK'
<1> SUFFICES ASSUME TypeOK, [Next]_vars PROVE TypeOK' OBVIOUS
<1>1. CASE Next
  <2> PICK c \in Client : Screen(c) \/ Touch(c) \/ Network(c) \/ Kill(c)
    BY <1>1 DEF Next
  <2>1. CASE Screen(c) BY <2>1, ScreenKeepsTypes
  <2>2. CASE Touch(c) BY <2>2, TouchKeepsTypes
  <2>3. CASE Network(c) BY <2>3, NetworkKeepsTypes
  <2>4. CASE Kill(c)
    BY <2>4, RestartKeepsTypes DEF Kill, TypeOK, HistoryType
  <2> QED BY <2>1, <2>2, <2>3, <2>4
<1>2. CASE UNCHANGED vars
  BY <1>2 DEF vars, dbVars, sessionVars, listVars, historyVars, TypeOK, DbType,
     OutboxType, SessionType, HistoryType
<1> QED BY <1>1, <1>2

\* Every location holds a value of its tree, every outstanding write fits the
\* location it is for, and a signed-out device shows nothing: for any number
\* of devices, accounts and posts, and whatever the server refuses.
THEOREM TypeCorrect == Spec => []TypeOK
<1>1. Init => TypeOK BY TypeInit
<1>2. TypeOK /\ [Next]_vars => TypeOK' BY TypeStep
<1> QED BY <1>1, <1>2, PTL DEF Spec

-----------------------------------------------------------------------------
(***************************************************************************)
(* Karma.  The inductive invariant: no copy of a user's points, on the     *)
(* server, in an outbox or in the appUser of a Pinned tab, is more than    *)
(* the taps have earned, or less than the user had; unless the user is     *)
(* mixed up with another.                                                  *)
(***************************************************************************)
Fits(u, k) == MixedUp(u) \/ (OldKarma[u] <= k /\ k <= Earned(u))

\* The same in the next state, of a value of this one.
WillFit(u, k) ==
    \/ \E v \in User : <<v, u>> \in mixed'
    \/ OldKarma[u] <= k /\ k <= OldKarma[u] + KarmaAward * checks'[u]

KarmaInTree ==
    /\ \A u \in User : Fits(u, db[KarmaAt(u)])
    /\ \A c \in Client : \A i \in 1 .. Len(outbox[c]), u \in User :
          outbox[c][i].loc = KarmaAt(u) => Fits(u, outbox[c][i].val)

KarmaOnScreens ==
    \A c \in Client : me[c] # Absent => Fits(asked[c], me[c])

KarmaInv == KarmaInTree /\ KarmaOnScreens

LEMMA TreeTyped == TypeOK => OutboxOf(AnyWrite) /\ TreeType
BY OutboxTypeMeaning DEF TypeOK, TreeType

LEMMA EarnedType ==
    ASSUME TypeOK PROVE \A u \in User : Earned(u) \in Nat
BY OldKarmaType DEF TypeOK, HistoryType, Earned, KarmaAward

\* Taps only add to what fits.
TapsCount ==
    /\ mixed \subseteq mixed'
    /\ \A u \in User : checks[u] <= checks'[u]

LEMMA FitsStays ==
    ASSUME TypeOK, TypeOK', TapsCount, NEW u \in User, NEW k \in Nat,
           Fits(u, k)
    PROVE  WillFit(u, k)
<1>1. CASE MixedUp(u)
  BY <1>1 DEF TapsCount, MixedUp, WillFit
<1>2. CASE ~MixedUp(u)
  <2>1. /\ checks[u] \in Nat /\ checks'[u] \in Nat /\ OldKarma[u] \in Nat
        /\ checks[u] <= checks'[u]
    BY OldKarmaType DEF TypeOK, HistoryType, TapsCount
  <2> QED BY <1>2, <2>1 DEF Fits, WillFit, Earned, KarmaAward
<1> QED BY <1>1, <1>2

LEMMA NothingTapped ==
    ASSUME TypeOK, UNCHANGED <<checks, mixed>>
    PROVE  TapsCount /\ \A u \in User : \A k : Fits(u, k) <=> WillFit(u, k)
BY DEF TapsCount, TypeOK, HistoryType, Fits, WillFit, MixedUp, Earned

\* A write in an outbox is a write of PostBoard.
LEMMA OutboxWrites ==
    ASSUME TypeOK, NEW c \in Client, NEW i \in 1 .. Len(outbox[c])
    PROVE  outbox[c][i] \in AnyWrite
<1>1. outbox[c] \in Seq(AnyWrite) BY DEF TypeOK, OutboxType
<1> QED BY <1>1, ElementOfSeq

\* New writes keep the bound when their own points do.
LEMMA KarmaIssue ==
    ASSUME TypeOK, TypeOK', KarmaInTree, NEW c \in Client,
           NEW ws \in Seq(AnyWrite), Issue(c, ws),
           TapsCount,
           \A j \in 1 .. Len(ws), u \in User :
              ws[j].loc = KarmaAt(u) => WillFit(u, ws[j].val)
    PROVE  KarmaInTree'
<1>1. OutboxOf(AnyWrite) BY TreeTyped
<1>3. db' = db BY DEF Issue
<1>4. ASSUME NEW u \in User PROVE WillFit(u, db'[KarmaAt(u)])
  <2>1. db[KarmaAt(u)] \in Nat /\ Fits(u, db[KarmaAt(u)])
    BY DEF TypeOK, DbType, KarmaInTree
  <2>2. \A k \in Nat : Fits(u, k) => WillFit(u, k) BY FitsStays
  <2> QED BY <1>3, <2>1, <2>2
<1>5. ASSUME NEW d \in Client, NEW i \in 1 .. Len(outbox'[d]), NEW u \in User,
             outbox'[d][i].loc = KarmaAt(u)
      PROVE  WillFit(u, outbox'[d][i].val)
  <2>1. ASSUME i \in 1 .. Len(outbox[d]), outbox'[d][i] = outbox[d][i]
        PROVE  WillFit(u, outbox'[d][i].val)
    <3>1. outbox[d][i].val \in Nat
      BY <1>5, <2>1, OutboxWrites, ValueOfWrite
    <3>2. Fits(u, outbox[d][i].val)
      BY <1>5, <2>1 DEF KarmaInTree
    <3>3. \A k \in Nat : Fits(u, k) => WillFit(u, k) BY FitsStays
    <3> QED BY <2>1, <3>1, <3>2, <3>3
  <2>2. CASE d # c BY <1>1, <2>1, <2>2, IssueProperties
  <2>3. CASE d = c
    <3>1. ASSUME NEW j \in 1 .. Len(ws), outbox'[c][i] = ws[j]
          PROVE  WillFit(u, outbox'[d][i].val)
      <4>1. ws[j].loc = KarmaAt(u) BY <1>5, <2>3, <3>1
      <4>2. WillFit(u, ws[j].val) BY <4>1
      <4> QED BY <2>3, <3>1, <4>2
    <3> QED BY <1>1, <2>1, <2>3, <3>1, IssuedWrites
  <2> QED BY <2>2, <2>3
<1> QED BY <1>4, <1>5 DEF KarmaInTree, Fits, WillFit, MixedUp, Earned

\* Nothing that happens on the way to the server adds points.
LEMMA KarmaNetwork ==
    ASSUME TypeOK, KarmaInTree, NEW c \in Client, UNCHANGED <<checks, mixed>>,
           \/ ServerApply(c) \/ ServerRefuse(c) \/ Acknowledge(c)
           \/ Reconnect(c) \/ LoseOutbox(c)
    PROVE  KarmaInTree'
<1>1. OutboxOf(AnyWrite) BY TreeTyped
<1>2. \A u \in User : \A k : Fits(u, k) <=> WillFit(u, k) BY NothingTapped
<1>3. ASSUME NEW u \in User PROVE Fits(u, db'[KarmaAt(u)])
  <2>1. CASE ServerApply(c)
    <3>1. /\ applied[c] + 1 \in 1 .. Len(outbox[c])
          /\ NextWrite(c) = outbox[c][applied[c] + 1]
          /\ db' = [db EXCEPT ![NextWrite(c).loc] = NextWrite(c).val]
      BY <1>1, <2>1, ServerApplyProperties
    <3>2. KarmaAt(u) \in DOMAIN db BY LocationType DEF TypeOK, DbType
    <3>3. CASE NextWrite(c).loc = KarmaAt(u)
      BY <3>1, <3>2, <3>3 DEF KarmaInTree
    <3>4. CASE NextWrite(c).loc # KarmaAt(u)
      BY <3>1, <3>2, <3>4 DEF KarmaInTree
    <3> QED BY <3>3, <3>4
  <2>2. CASE ~ServerApply(c)
    <3>1. db' = db
      BY <1>1, <2>2, ServerRefuseProperties, AcknowledgeProperties,
         ReconnectProperties, LoseOutboxProperties
    <3> QED BY <3>1 DEF KarmaInTree
  <2> QED BY <2>1, <2>2
<1>4. ASSUME NEW d \in Client, NEW i \in 1 .. Len(outbox'[d])
      PROVE  \E k \in 1 .. Len(outbox[d]) : outbox'[d][i] = outbox[d][k]
  <2>1. CASE LoseOutbox(c)
    <3>1. d # c BY <1>1, <1>4, <2>1, LoseOutboxProperties, EmptySeq
    <3>2. outbox'[d] = outbox[d] BY <1>1, <2>1, <3>1, LoseOutboxProperties
    <3> QED BY <1>4, <3>2
  <2>2. CASE ~LoseOutbox(c)
    <3>1. Carried(d)
      BY <1>1, <2>2, CarriedByApply, CarriedByRefuse, CarriedByAcknowledge,
         CarriedByReconnect
    <3> QED BY <3>1 DEF Carried, CameFrom
  <2> QED BY <2>1, <2>2
<1>5. ASSUME NEW u \in User PROVE WillFit(u, db'[KarmaAt(u)])
  BY <1>2, <1>3
<1>6. ASSUME NEW d \in Client, NEW i \in 1 .. Len(outbox'[d]), NEW u \in User,
             outbox'[d][i].loc = KarmaAt(u)
      PROVE  WillFit(u, outbox'[d][i].val)
  <2>1. PICK k \in 1 .. Len(outbox[d]) : outbox'[d][i] = outbox[d][k]
    BY <1>4
  <2>2. Fits(u, outbox'[d][i].val) BY <1>6, <2>1 DEF KarmaInTree
  <2> QED BY <1>2, <2>2
<1> QED BY <1>5, <1>6 DEF KarmaInTree, Fits, WillFit, MixedUp, Earned

\* A list, a button or a login leaves the tree alone.
LEMMA KarmaQuiet ==
    ASSUME KarmaInTree, UNCHANGED <<dbVars, checks, mixed>> PROVE KarmaInTree'
BY DEF KarmaInTree, dbVars, Fits, MixedUp, Earned

\* What a handler issues, apart from the check button of the Pinned tab, is
\* not about karma.
LEMMA NotAboutKarma ==
    ASSUME NEW c \in Client, NEW p \in Post, NEW v, NEW u
    PROVE  /\ CreatePost(p).loc # KarmaAt(v)
           /\ Pin(u, p).loc # KarmaAt(v)
           /\ Unpin(u, p).loc # KarmaAt(v)
           /\ RemovePost(p).loc # KarmaAt(v)
           /\ \A how : Complete(p, u, how).loc # KarmaAt(v)
BY LocationsDiffer DEF CreatePost, Pin, Unpin, RemovePost, Complete

\* A handler that issues writes of which none is about karma.
LEMMA KarmaOtherIssue ==
    ASSUME TypeOK, TypeOK', KarmaInTree, NEW c \in Client,
           NEW ws \in Seq(AnyWrite), Issue(c, ws), UNCHANGED <<checks, mixed>>,
           \A j \in 1 .. Len(ws), u \in User : ws[j].loc # KarmaAt(u)
    PROVE  KarmaInTree'
<1>1. TapsCount BY NothingTapped
<1> QED BY <1>1, KarmaIssue

LEMMA KarmaScreen ==
    ASSUME TypeOK, KarmaInv, NEW c \in Client, Screen(c) PROVE KarmaInv'
<1>1. ASSUME NEW k \in Category, HomeEvent(c, k) PROVE KarmaInv'
  <2>1. UNCHANGED <<dbVars, checks, mixed, me, asked>>
    BY <1>1 DEF HomeEvent, historyVars
  <2> QED
    BY <2>1, KarmaQuiet DEF KarmaInv, KarmaOnScreens, Fits, MixedUp, Earned
<1>2. ASSUME NEW p \in Post, MarkEvent(c, p) PROVE KarmaInv'
  <2>1. UNCHANGED <<dbVars, checks, mixed, me, asked>>
    BY <1>2 DEF MarkEvent, historyVars
  <2> QED
    BY <2>1, KarmaQuiet DEF KarmaInv, KarmaOnScreens, Fits, MixedUp, Earned
<1>3. ASSUME FavEvent(c) PROVE KarmaInv'
  <2>1. UNCHANGED <<dbVars, checks, mixed, me, asked>>
    BY <1>3 DEF FavEvent, historyVars
  <2> QED
    BY <2>1, KarmaQuiet DEF KarmaInv, KarmaOnScreens, Fits, MixedUp, Earned
<1>4. ASSUME FetchUserInfo(c) PROVE KarmaInv'
  <2>1. UNCHANGED <<dbVars, checks, mixed, asked>>
    BY <1>4 DEF FetchUserInfo, historyVars
  <2>2. asked[c] \in User
    BY <1>4, SomebodySignedIn DEF TypeOK, FetchUserInfo
  <2>3. PICK k \in Seen(c, KarmaAt(asked[c])) : me' = [me EXCEPT ![c] = k]
    BY <1>4 DEF FetchUserInfo
  <2>4. Fits(asked[c], k)
    <3>1. CASE Outstanding(c, KarmaAt(asked[c])) = {}
      BY <2>2, <2>3, <3>1 DEF Seen, KarmaInv, KarmaInTree
    <3>2. CASE Outstanding(c, KarmaAt(asked[c])) # {}
      <4>1. k \in {outbox[c][i].val : i \in Latest(c, KarmaAt(asked[c]))}
        BY <2>3, <3>2 DEF Seen
      <4>2. PICK i \in Latest(c, KarmaAt(asked[c])) : k = outbox[c][i].val
        BY <4>1, Zenon
      <4>3. i \in DOMAIN outbox[c] /\ outbox[c][i].loc = KarmaAt(asked[c])
        BY DEF Latest, Outstanding
      <4>4. i \in 1 .. Len(outbox[c])
        BY <4>3, LenProperties DEF TypeOK, OutboxType
      <4> QED BY <2>2, <4>2, <4>3, <4>4 DEF KarmaInv, KarmaInTree
    <3> QED BY <3>1, <3>2
  <2>5. KarmaOnScreens'
    BY <2>1, <2>3, <2>4
    DEF KarmaInv, KarmaOnScreens, Fits, MixedUp, Earned, TypeOK, SessionType
  <2> QED BY <2>1, <2>5, KarmaQuiet DEF KarmaInv
<1> QED BY <1>1, <1>2, <1>3, <1>4 DEF Screen

\* A session that ends takes the points it had read with it.
LEMMA KarmaEmptyLists ==
    ASSUME TypeOK, KarmaOnScreens, NEW c \in Client, EmptyLists(c),
           UNCHANGED <<checks, mixed>>
    PROVE  KarmaOnScreens'
BY DEF TypeOK, SessionType, KarmaOnScreens, EmptyLists, Fits, MixedUp, Earned

LEMMA KarmaTouch ==
    ASSUME TypeOK, TypeOK', KarmaInv, NEW c \in Client, Touch(c)
    PROVE  KarmaInv'
<1> USE DEF KarmaInv
<1>1. ASSUME NEW u \in User, Login(c, u) \/ SignIn(c, u) PROVE KarmaInv'
  <2>1. UNCHANGED <<dbVars, checks, mixed, me, asked>>
    BY <1>1 DEF Login, SignIn, historyVars, listVars
  <2> QED BY <2>1, KarmaQuiet DEF KarmaOnScreens, Fits, MixedUp, Earned
<1>2. ASSUME Logout(c) \/ LoginAgain(c) PROVE KarmaInv'
  <2>1. UNCHANGED <<dbVars, checks, mixed>> /\ EmptyLists(c)
    BY <1>2 DEF Logout, LoginAgain, historyVars
  <2> QED BY <2>1, KarmaQuiet, KarmaEmptyLists
<1>3. ASSUME OpenPinned(c) PROVE KarmaInv'
  <2>1. /\ UNCHANGED <<dbVars, checks, mixed, me>> /\ ~opened[c]
        /\ asked' = [asked EXCEPT ![c] = user[c]]
    BY <1>3 DEF OpenPinned, historyVars
  <2>2. me[c] = Absent BY <2>1 DEF TypeOK, SessionType
  <2>3. KarmaOnScreens'
    BY <2>1, <2>2
    DEF TypeOK, SessionType, KarmaOnScreens, Fits, MixedUp, Earned
  <2> QED BY <2>1, <2>3, KarmaQuiet
<1>4. ASSUME NEW p \in Post, Submit(c, p) PROVE KarmaInv'
  <2>1. UNCHANGED <<dbVars, checks, mixed, me, asked>>
    BY <1>4 DEF Submit, listVars
  <2> QED BY <2>1, KarmaQuiet DEF KarmaOnScreens, Fits, MixedUp, Earned
<1>5. ASSUME NEW p \in Post, HomePin(c, p) PROVE KarmaInv'
  <2>1. UNCHANGED <<checks, mixed, me, asked>> /\ Issue(c, <<Pin(user[c], p)>>)
    BY <1>5 DEF HomePin, historyVars
  <2>2. <<Pin(user[c], p)>> \in Seq(AnyWrite)
    BY <1>5, HandlerWrites DEF HomePin, TypeOK, SessionType
  <2>3. \A j \in 1 .. Len(<<Pin(user[c], p)>>), u \in User :
            <<Pin(user[c], p)>>[j].loc # KarmaAt(u)
    BY NotAboutKarma
  <2>4. KarmaInTree' BY <2>1, <2>2, <2>3, KarmaOtherIssue
  <2> QED BY <2>1, <2>4 DEF KarmaOnScreens, Fits, MixedUp, Earned
<1>6. ASSUME NEW p \in Post, HomeUnpin(c, p) PROVE KarmaInv'
  <2>1. /\ UNCHANGED <<checks, mixed, me, asked>>
        /\ Issue(c, <<Unpin(user[c], p)>>)
    BY <1>6 DEF HomeUnpin, historyVars
  <2>2. <<Unpin(user[c], p)>> \in Seq(AnyWrite)
    BY <1>6, HandlerWrites DEF HomeUnpin, TypeOK, SessionType
  <2>3. \A j \in 1 .. Len(<<Unpin(user[c], p)>>), u \in User :
            <<Unpin(user[c], p)>>[j].loc # KarmaAt(u)
    BY NotAboutKarma
  <2>4. KarmaInTree' BY <2>1, <2>2, <2>3, KarmaOtherIssue
  <2> QED BY <2>1, <2>4 DEF KarmaOnScreens, Fits, MixedUp, Earned
<1>7. ASSUME NEW p \in Post, HomeCheck(c, p) PROVE KarmaInv'
  <2> DEFINE ws == HomeCheckWrites(c, p)
  <2>1. UNCHANGED <<checks, mixed, me, asked>> /\ Issue(c, ws)
    BY <1>7 DEF HomeCheck, historyVars
  <2>2. ws \in Seq(AnyWrite)
    BY <1>7, HandlerWrites DEF HomeCheck, TypeOK, SessionType
  <2>3. \A j \in 1 .. Len(ws), u \in User : ws[j].loc # KarmaAt(u)
    BY NotAboutKarma DEF HomeCheckWrites
  <2> HIDE DEF ws
  <2>4. KarmaInTree' BY <2>1, <2>2, <2>3, KarmaOtherIssue
  <2> QED BY <2>1, <2>4 DEF KarmaOnScreens, Fits, MixedUp, Earned
<1>8. ASSUME NEW p \in Post, FavCheck(c, p) PROVE KarmaInv'
  <2> DEFINE ws == FavCheckWrites(c, p)
             me_ == user[c]
  <2>1. /\ UNCHANGED <<me, asked>> /\ Issue(c, ws) /\ me[c] # Absent
        /\ checks' = [checks EXCEPT ![me_] = @ + 1]
        /\ mixed' = mixed
                 \cup ({<<asked[c], me_>>} \ {<<u, u>> : u \in User})
    BY <1>8 DEF FavCheck, listVars
  <2>2. me_ \in User /\ asked[c] \in User /\ me[c] \in Nat
    BY <1>8, <2>1, SomebodySignedIn DEF TypeOK, SessionType
  <2>3. ws \in Seq(AnyWrite) BY <2>1, HandlerWrites DEF TypeOK
  <2>4. TapsCount /\ checks[me_] \in Nat /\ checks'[me_] = checks[me_] + 1
    BY <2>1, <2>2 DEF TypeOK, HistoryType, TapsCount
  <2>5. WillFit(me_, me[c] + KarmaAward)
    <3>1. CASE asked[c] # me_
      <4>1. <<asked[c], me_>> \in mixed' BY <2>1, <3>1
      <4> QED BY <2>2, <4>1 DEF WillFit
    <3>2. CASE asked[c] = me_
      <4>1. Fits(me_, me[c]) BY <2>1, <3>2 DEF KarmaOnScreens
      <4>2. CASE MixedUp(me_) BY <2>4, <4>2 DEF MixedUp, TapsCount, WillFit
      <4>3. CASE ~MixedUp(me_)
        <5>1. OldKarma[me_] <= me[c] /\ me[c] <= Earned(me_)
          BY <4>1, <4>3 DEF Fits
        <5>2. OldKarma[me_] \in Nat BY <2>2, OldKarmaType
        <5>3. /\ OldKarma[me_] <= me[c] + KarmaAward
              /\ me[c] + KarmaAward <= OldKarma[me_] + KarmaAward * checks'[me_]
          BY <2>2, <2>4, <5>1, <5>2 DEF Earned, KarmaAward
        <5> QED BY <5>3 DEF WillFit, Earned
      <4> QED BY <4>2, <4>3
    <3> QED BY <3>1, <3>2
  <2>6. \A j \in 1 .. Len(ws), u \in User :
            ws[j].loc = KarmaAt(u) => u = me_ /\ ws[j].val = me[c] + KarmaAward
    <3> SUFFICES ASSUME NEW j \in 1 .. Len(ws), NEW u \in User,
                        ws[j].loc = KarmaAt(u)
                 PROVE  u = me_ /\ ws[j].val = me[c] + KarmaAward
      OBVIOUS
    <3>1. j \in {1, 2, 3, 4} BY DEF FavCheckWrites
    <3>2. /\ ws[2] = Complete(p, asked[c], "username")
          /\ ws[3] = Unpin(me_, p)
          /\ ws[4] = RemovePost(p)
      BY DEF FavCheckWrites
    <3>3. j = 1 BY <3>1, <3>2, NotAboutKarma
    <3>4. ws[1] = SetKarma(me_, me[c] + KarmaAward) BY DEF FavCheckWrites
    <3> QED BY <3>3, <3>4, LocationsDiffer DEF SetKarma
  <2> HIDE DEF ws
  <2>7. \A j \in 1 .. Len(ws), u \in User :
            ws[j].loc = KarmaAt(u) => WillFit(u, ws[j].val)
    <3> SUFFICES ASSUME NEW j \in 1 .. Len(ws), NEW u \in User,
                        ws[j].loc = KarmaAt(u)
                 PROVE  WillFit(u, ws[j].val)
      OBVIOUS
    <3>1. u = me_ /\ ws[j].val = me[c] + KarmaAward BY <2>6
    <3> QED BY <2>5, <3>1
  <2>8. KarmaInTree' BY <2>1, <2>3, <2>4, <2>7, KarmaIssue
  <2>9. KarmaOnScreens'
    <3> SUFFICES ASSUME NEW d \in Client, me[d] # Absent
                 PROVE  WillFit(asked[d], me[d])
      BY <2>1 DEF KarmaOnScreens, Fits, WillFit, MixedUp, Earned
    <3>1. asked[d] \in User /\ me[d] \in Nat /\ Fits(asked[d], me[d])
      BY SomebodySignedIn DEF TypeOK, SessionType, KarmaOnScreens
    <3> QED BY <2>4, <3>1, FitsStays
  <2> QED BY <2>8, <2>9
<1>9. ASSUME NEW p \in Post, FavPinTap(c, p) PROVE KarmaInv'
  <2>1. Restart(c) BY <1>9 DEF FavPinTap
  <2>2. LoseOutbox(c) /\ EmptyLists(c) /\ UNCHANGED <<checks, mixed>>
    BY <2>1 DEF Restart, historyVars
  <2> QED BY <2>2, KarmaNetwork, KarmaEmptyLists
<1>10. ASSUME Scroll(c) PROVE KarmaInv'
  <2>1. UNCHANGED <<dbVars, checks, mixed, me, asked>>
    BY <1>10 DEF Scroll, historyVars
  <2> QED BY <2>1, KarmaQuiet DEF KarmaOnScreens, Fits, MixedUp, Earned
<1> QED BY <1>1, <1>2, <1>3, <1>4, <1>5, <1>6, <1>7, <1>8, <1>9, <1>10
  DEF Touch

LEMMA KarmaOfNetwork ==
    ASSUME TypeOK, TypeOK', KarmaInv, NEW c \in Client, Network(c)
    PROVE  KarmaInv'
<1> USE DEF KarmaInv
<1>1. ASSUME \/ Apply(c) \/ Refuse(c) \/ Hear(c) \/ Drop(c) PROVE KarmaInv'
  <2>1. UNCHANGED <<checks, mixed, me, asked>>
    BY <1>1 DEF Apply, Refuse, Hear, Drop, listVars, historyVars
  <2>2. ServerApply(c) \/ ServerRefuse(c) \/ Acknowledge(c) \/ Reconnect(c)
    BY <1>1 DEF Apply, Refuse, Hear, Drop
  <2>3. KarmaInTree' BY <2>1, <2>2, KarmaNetwork
  <2> QED BY <2>1, <2>3 DEF KarmaOnScreens, Fits, MixedUp, Earned
<1>2. ASSUME NEW p \in Post, UploadDone(c, p) PROVE KarmaInv'
  <2>1. UNCHANGED <<checks, mixed, me, asked>> /\ Issue(c, <<CreatePost(p)>>)
    BY <1>2 DEF UploadDone, EndUpload, listVars, historyVars
  <2>2. <<CreatePost(p)>> \in Seq(AnyWrite) BY HandlerWrites DEF TypeOK
  <2>3. \A j \in 1 .. Len(<<CreatePost(p)>>), u \in User :
            <<CreatePost(p)>>[j].loc # KarmaAt(u)
    BY NotAboutKarma
  <2>4. KarmaInTree' BY <2>1, <2>2, <2>3, KarmaOtherIssue
  <2> QED BY <2>1, <2>4 DEF KarmaOnScreens, Fits, MixedUp, Earned
<1>3. ASSUME NEW p \in Post, UploadFails(c, p) PROVE KarmaInv'
  <2>1. UNCHANGED <<dbVars, checks, mixed, me, asked>>
    BY <1>3 DEF UploadFails, EndUpload, listVars, historyVars
  <2> QED BY <2>1, KarmaQuiet DEF KarmaOnScreens, Fits, MixedUp, Earned
<1> QED BY <1>1, <1>2, <1>3 DEF Network

LEMMA KarmaStep == TypeOK /\ TypeOK' /\ KarmaInv /\ [Next]_vars => KarmaInv'
<1> SUFFICES ASSUME TypeOK, TypeOK', KarmaInv, [Next]_vars PROVE KarmaInv'
  OBVIOUS
<1>1. CASE Next
  <2> PICK c \in Client : Screen(c) \/ Touch(c) \/ Network(c) \/ Kill(c)
    BY <1>1 DEF Next
  <2>1. CASE Screen(c) BY <2>1, KarmaScreen
  <2>2. CASE Touch(c) BY <2>2, KarmaTouch
  <2>3. CASE Network(c) BY <2>3, KarmaOfNetwork
  <2>4. CASE Kill(c)
    <3>1. LoseOutbox(c) /\ EmptyLists(c) /\ UNCHANGED <<checks, mixed>>
      BY <2>4 DEF Kill, Restart, historyVars
    <3> QED BY <3>1, KarmaNetwork, KarmaEmptyLists DEF KarmaInv
  <2> QED BY <2>1, <2>2, <2>3, <2>4
<1>2. CASE UNCHANGED vars
  <2>1. UNCHANGED <<dbVars, checks, mixed, me, asked>>
    BY <1>2 DEF vars, listVars, historyVars
  <2> QED
    BY <2>1, KarmaQuiet DEF KarmaInv, KarmaOnScreens, Fits, MixedUp, Earned
<1> QED BY <1>1, <1>2

LEMMA KarmaInit == Init => KarmaInv
<1> SUFFICES ASSUME Init PROVE KarmaInv OBVIOUS
<1>1. ASSUME NEW u \in User PROVE Fits(u, db[KarmaAt(u)])
  <2>1. db[KarmaAt(u)] = OldKarma[u]
    BY LocationType DEF Init, OldValue, KarmaAt
  <2>2. OldKarma[u] \in Nat BY OldKarmaType
  <2>3. Earned(u) = OldKarma[u] BY <2>2 DEF Init, Earned, KarmaAward
  <2> QED BY <2>1, <2>2, <2>3 DEF Fits
<1>2. \A c \in Client : 1 .. Len(outbox[c]) = {}
  <2> TAKE c \in Client
  <2>1. outbox[c] = <<>> BY DEF Init
  <2>2. Len(outbox[c]) = 0 BY <2>1
  <2> QED BY <2>2
<1>3. \A c \in Client : me[c] = Absent BY DEF Init
<1> QED BY <1>1, <1>2, <1>3 DEF KarmaInv, KarmaInTree, KarmaOnScreens

\* No number of devices, of resent writes or of records read long ago gives a
\* user more points than the award of each tap that completed a row of the
\* Pinned tab; unless a row was completed with the record of another account
\* on the screen, which a late sign-in may leave there.
THEOREM KarmaBounded == Spec => []KarmaWithinChecks
<1>1. Init => TypeOK /\ KarmaInv BY TypeInit, KarmaInit
<1>2. TypeOK /\ KarmaInv /\ [Next]_vars => (TypeOK /\ KarmaInv)'
  BY TypeStep, KarmaStep
<1>3. KarmaInv => KarmaWithinChecks
  BY DEF KarmaInv, KarmaInTree, KarmaWithinChecks, Fits
<1> QED BY <1>1, <1>2, <1>3, PTL DEF Spec

-----------------------------------------------------------------------------
(* The order in which the handlers of PostBoard issue their writes is all  *)
(* that keeps the tree consistent.  The theorems here say what that order  *)
(* is worth: as long as the server does not refuse the writes that others  *)
(* rely on, no interleaving, lost connection or killed process loses a     *)
(* post, rewards nobody for a completion, or uses an unpublished post.     *)

HIDE DEF Write, Copy

Award(u) == {k \in Nat : k >= OldKarma[u] + KarmaAward}

\* The write pins or completes the post p.
Uses(w, p) ==
    \/ w.loc = CompletedAt(p)
    \/ \E u \in User : w.loc = PinAt(u, p) /\ w.val = Copy

\* The write is safe only after one of vals has been stored at loc: a removal
\* after a completion, a completion that names its helper after the award,
\* and any use of a post after its creation.
NeedsFirst(w, loc, vals) ==
    \/ \E p \in Post : /\ w.loc = PostAt(p) /\ w.val = Absent
                       /\ loc = CompletedAt(p) /\ vals = Completion
    \/ \E p \in Post, u \in User :
          /\ w.loc = CompletedAt(p) /\ w.val = [by |-> u, shown |-> "username"]
          /\ loc = KarmaAt(u) /\ vals = Award(u)
    \/ \E p \in Post : Uses(w, p) /\ loc = PostAt(p) /\ vals = {Copy}

\* A write that others need counts unless the server may refuse it, or it is
\* for the points of a user who is mixed up with another.
Confused(u) == MixedUp(u) \/ MixedAway(u)

Due(loc) ==
    /\ loc[1] \notin Refusable
    /\ \A u \in User : loc = KarmaAt(u) => ~Confused(u)

\* A post that was published counts as stored even when it is completed.
Stored(loc, vals) == db[loc] \in vals \/ \E p \in published : loc = PostAt(p)

Backed(c, i, loc, vals) == Stored(loc, vals) \/ Ahead(c, i, loc, vals)

\* The inductive invariant.  What a write needs has been stored or is ahead of
\* it in its outbox,
WritesInOrder ==
    \A c \in Client : \A i \in 1 .. Len(outbox[c]) : \A loc, vals :
        NeedsFirst(outbox[c][i], loc, vals) /\ Due(loc)
            => Backed(c, i, loc, vals)

\* and the same holds of the posts that a tap may be about.
ListsBacked ==
    "posts" \notin Refusable =>
        \A c \in Client : \A p \in home[c] \cup fav[c] :
            Backed(c, Len(outbox[c]) + 1, PostAt(p), {Copy})

OpenPublished == \A p \in Post : Open(p) => p \in published

CreationsPublished ==
    \A c \in Client : \A i \in 1 .. Len(outbox[c]), p \in Post :
        outbox[c][i].loc = PostAt(p) /\ outbox[c][i].val = Copy
            => p \in published \/ i > applied[c]

AwardsFull ==
    \A c \in Client : \A i \in 1 .. Len(outbox[c]), u \in User :
        outbox[c][i].loc = KarmaAt(u)
            => outbox[c][i].val \in Award(u) \/ Confused(u)

TreeSafe ==
    /\ "completed" \notin Refusable => NoPostLost
    /\ "posts" \notin Refusable => PostedBeforeUse
    /\ "users" \notin Refusable => HelperRewarded

OutboxInv ==
    WritesInOrder /\ OpenPublished /\ CreationsPublished /\ AwardsFull

OrderInv == OutboxInv /\ TreeSafe /\ ListsBacked

-----------------------------------------------------------------------------
LEMMA AbsentIsNoValue ==
    Absent # Copy /\ Absent \notin Completion /\ Absent \notin Nat
BY BoardAssumption

\* Nobody is ever unmixed, so what is not due stays so.
LEMMA DueBefore ==
    ASSUME mixed \subseteq mixed', NEW loc, Due(loc)' PROVE Due(loc)
BY DEF Due, Confused, MixedUp, MixedAway

LEMMA NeedKinds ==
    ASSUME NEW w, NEW loc, NEW vals, NeedsFirst(w, loc, vals)
    PROVE  \/ \E p \in Post : loc = CompletedAt(p) /\ vals = Completion
           \/ \E u \in User : loc = KarmaAt(u) /\ vals = Award(u)
           \/ \E p \in Post : loc = PostAt(p) /\ vals = {Copy}
BY DEF NeedsFirst

LEMMA NeedLocation ==
    ASSUME NEW w, NEW loc, NEW vals, NeedsFirst(w, loc, vals)
    PROVE  loc \in Location
BY NeedKinds, LocationType

\* Something that is ahead of a position is ahead of every later one.
LEMMA BackedLater ==
    ASSUME NEW c, NEW loc, NEW vals, NEW i \in Int, NEW k \in Int, i <= k,
           Backed(c, i, loc, vals)
    PROVE  Backed(c, k, loc, vals)
BY DEF Backed, Ahead

\* What has been stored is replaced only by something as good.
LEMMA StoredStays ==
    ASSUME TypeOK, OpenPublished, AwardsFull, published \subseteq published',
           NEW c \in Client, db' = db \/ ServerApply(c),
           NEW w, NEW loc, NEW vals, NeedsFirst(w, loc, vals), Due(loc),
           Stored(loc, vals)
    PROVE  Stored(loc, vals)'
<1>1. OutboxOf(AnyWrite) /\ DOMAIN db = Location
  BY TreeTyped DEF TypeOK, DbType
<1>2. loc \in Location BY NeedLocation
<1>3. CASE \E p \in published : loc = PostAt(p)
  BY <1>3 DEF Stored
<1>4. CASE db[loc] \in vals /\ db' = db BY <1>4 DEF Stored
<1>5. CASE db[loc] \in vals /\ ServerApply(c)
  <2>1. /\ applied[c] + 1 \in 1 .. Len(outbox[c])
        /\ NextWrite(c) = outbox[c][applied[c] + 1]
        /\ NextWrite(c) \in AnyWrite
        /\ db' = [db EXCEPT ![NextWrite(c).loc] = NextWrite(c).val]
    BY <1>1, <1>5, ServerApplyProperties
  <2>2. CASE NextWrite(c).loc # loc BY <1>1, <1>2, <1>5, <2>1, <2>2 DEF Stored
  <2>3. CASE NextWrite(c).loc = loc
    <3>1. db'[loc] = NextWrite(c).val BY <1>1, <1>2, <2>1, <2>3
    <3>2. CASE \E p \in Post : loc = CompletedAt(p) /\ vals = Completion
      BY <2>1, <2>3, <3>1, <3>2, ValueOfWrite DEF Stored
    <3>3. CASE \E u \in User : loc = KarmaAt(u) /\ vals = Award(u)
      <4>1. PICK u \in User : loc = KarmaAt(u) /\ vals = Award(u) BY <3>3
      <4>2. ~Confused(u) BY <4>1 DEF Due
      <4>3. NextWrite(c).val \in Award(u)
        BY <2>1, <2>3, <4>1, <4>2 DEF AwardsFull
      <4> QED BY <3>1, <4>1, <4>3 DEF Stored
    <3>4. CASE \E p \in Post : loc = PostAt(p) /\ vals = {Copy}
      BY <1>5, <3>4, AbsentIsNoValue DEF Stored, OpenPublished, Open
    <3> QED BY <3>2, <3>3, <3>4, NeedKinds
  <2> QED BY <2>2, <2>3
<1> QED BY <1>3, <1>4, <1>5 DEF Stored

BackedAfter(c, i, loc, vals) ==
    Stored(loc, vals)' \/ AheadAfter(c, i, loc, vals)

\* What is ahead stays ahead until it has been stored.
LEMMA BackedStays ==
    ASSUME TypeOK, OpenPublished, AwardsFull, published \subseteq published',
           NEW c \in Client, db' = db \/ ServerApply(c),
           NEW w, NEW loc, NEW vals, NeedsFirst(w, loc, vals), Due(loc),
           NEW d \in Client, NEW k, NEW i, StillAhead(d, k, i),
           ServerRefuse(d) => NextWrite(d).loc[1] # loc[1],
           Backed(d, k, loc, vals)
    PROVE  BackedAfter(d, i, loc, vals)
<1>1. CASE Stored(loc, vals) BY <1>1, StoredStays DEF BackedAfter
<1>2. CASE Ahead(d, k, loc, vals)
  <2>1. loc \in DOMAIN db BY NeedLocation DEF TypeOK, DbType
  <2>2. AheadAfter(d, i, loc, vals) \/ db'[loc] \in vals
    BY <1>2, <2>1 DEF StillAhead
  <2> QED BY <2>2 DEF BackedAfter, Stored
<1> QED BY <1>1, <1>2 DEF Backed

-----------------------------------------------------------------------------
(* Writes on their way.                                                    *)

Delivers(c) ==
    /\ \/ ServerApply(c) \/ ServerRefuse(c)
       \/ Acknowledge(c) \/ Reconnect(c)
    /\ ServerRefuse(c) => NextWrite(c).loc[1] \in Refusable

Under(c) == Delivers(c) \/ LoseOutbox(c)

\* Every write of the new outboxes was there before, with what was ahead.
LEMMA WritesCarried ==
    ASSUME TypeOK, NEW c \in Client, Under(c), NEW d \in Client,
           NEW i \in 1 .. Len(outbox'[d])
    PROVE  \E k : CameFrom(d, i, k)
<1>1. OutboxOf(AnyWrite) BY TreeTyped
<1>2. CASE LoseOutbox(c)
  <2>1. d # c BY <1>1, <1>2, LoseOutboxProperties, EmptySeq
  <2>2. Carried(d)
    BY <1>1, <1>2, <2>1, LoseOutboxProperties, CarriedWhenUnchanged
  <2> QED BY <2>2 DEF Carried
<1>3. CASE ~LoseOutbox(c)
  <2>1. Carried(d)
    BY <1>1, <1>3, CarriedByApply, CarriedByRefuse, CarriedByAcknowledge,
       CarriedByReconnect DEF Under, Delivers
  <2> QED BY <2>1 DEF Carried
<1> QED BY <1>2, <1>3

\* What the server learns from a step of the connection of c.
PublishedFollows ==
    /\ mixed \subseteq mixed'
    /\ published \subseteq published'
    /\ \A p \in Post : Open(p)' => p \in published'
    /\ \A p \in published' : p \in published \/ Open(p)'
    /\ published' \subseteq Post

LEMMA TreeUnlessApplied ==
    ASSUME TypeOK, NEW c \in Client, Under(c)
    PROVE  db' = db \/ ServerApply(c)
<1>1. OutboxOf(AnyWrite) BY TreeTyped
<1> QED
  BY <1>1, ServerRefuseProperties, AcknowledgeProperties, ReconnectProperties,
     LoseOutboxProperties DEF Under, Delivers

\* Only the connection of c can have a write refused, and only of c.
LEMMA OnlyOneMoves ==
    ASSUME TypeOK, NEW c \in Client, Under(c), NEW d \in Client,
           ServerRefuse(d)
    PROVE  ServerRefuse(c) /\ d = c
<1>1. OutboxOf(AnyWrite) BY TreeTyped
<1>2. Len(outbox'[d]) # Len(outbox[d])
  <2>1. Len(outbox[d]) \in Nat /\ Len(outbox'[d]) = Len(outbox[d]) - 1
    BY <1>1, ServerRefuseProperties, LenProperties DEF OutboxOf
  <2> QED BY <2>1
<1>3. applied' = applied BY DEF ServerRefuse
<1>4. d = c
  BY <1>1, <1>2, ServerApplyProperties, ServerRefuseProperties,
     AcknowledgeProperties, ReconnectProperties, LoseOutboxProperties
  DEF Under, Delivers
<1> QED BY <1>4

LEMMA WritesStayInOrder ==
    ASSUME TypeOK, OutboxInv, PublishedFollows, NEW c \in Client, Under(c)
    PROVE  WritesInOrder'
<1>1. db' = db \/ ServerApply(c) BY TreeUnlessApplied
<1> SUFFICES ASSUME NEW d \in Client, NEW i \in 1 .. Len(outbox'[d]),
                    NEW loc, NEW vals, NeedsFirst(outbox'[d][i], loc, vals),
                    Due(loc)
             PROVE  BackedAfter(d, i, loc, vals)
  BY DueBefore
  DEF PublishedFollows, WritesInOrder, Backed, BackedAfter, Ahead, AheadAfter
<1>2. PICK k : CameFrom(d, i, k) BY WritesCarried
<1>3. /\ k \in 1 .. Len(outbox[d]) /\ outbox'[d][i] = outbox[d][k]
      /\ StillAhead(d, k, i)
  BY <1>2 DEF CameFrom
<1>4. NeedsFirst(outbox[d][k], loc, vals) BY <1>3
<1>5. Backed(d, k, loc, vals) BY <1>3, <1>4 DEF OutboxInv, WritesInOrder
<1>6. ServerRefuse(d) => NextWrite(d).loc[1] # loc[1]
  <2> SUFFICES ASSUME ServerRefuse(d) PROVE NextWrite(d).loc[1] # loc[1]
    OBVIOUS
  <2>1. ServerRefuse(c) /\ d = c BY OnlyOneMoves
  <2>2. ~LoseOutbox(c)
    <3>1. OutboxOf(AnyWrite) BY TreeTyped
    <3>2. LoseOutbox(c) => outbox'[d] = <<>>
      BY <2>1, <3>1, LoseOutboxProperties
    <3> QED BY <3>2, EmptySeq
  <2> QED BY <2>1, <2>2 DEF Under, Delivers, Due
<1> QED
  BY <1>1, <1>3, <1>4, <1>5, <1>6, BackedStays DEF OutboxInv, PublishedFollows

LEMMA CreationsStayPublished ==
    ASSUME TypeOK, OutboxInv, PublishedFollows, NEW c \in Client, Under(c)
    PROVE  CreationsPublished'
<1>1. OutboxOf(AnyWrite) BY TreeTyped
<1> SUFFICES ASSUME NEW d \in Client, NEW i \in 1 .. Len(outbox'[d]),
                    NEW p \in Post, outbox'[d][i].loc = PostAt(p),
                    outbox'[d][i].val = Copy, i <= applied'[d]
             PROVE  p \in published'
  <2>1. \A d \in Client : \A i \in 1 .. Len(outbox'[d]) :
            i <= applied'[d] \/ i > applied'[d]
    <3>1. OutboxOf(AnyWrite)'
      BY <1>1, ServerApplyProperties, ServerRefuseProperties,
         AcknowledgeProperties, ReconnectProperties, LoseOutboxProperties
      DEF Under, Delivers
    <3> QED BY <3>1 DEF OutboxOf
  <2> QED BY <2>1 DEF CreationsPublished
\* The server had it already, and the write stood at k.
<1>2. ASSUME NEW k \in 1 .. Len(outbox[d]), outbox'[d][i] = outbox[d][k],
             k <= applied[d]
      PROVE  p \in published'
  <2>1. applied[d] \in Nat BY <1>1 DEF OutboxOf
  <2>2. p \in published \/ k > applied[d]
    BY <1>2 DEF OutboxInv, CreationsPublished
  <2> QED BY <1>2, <2>1, <2>2 DEF PublishedFollows
<1>3. CASE outbox'[d] = outbox[d] /\ applied'[d] = applied[d] BY <1>2, <1>3
<1>4. CASE ServerApply(c) /\ d = c
  <2>1. /\ outbox' = outbox /\ applied'[c] = applied[c] + 1
        /\ NextWrite(c) = outbox[c][applied[c] + 1]
        /\ NextWrite(c) \in AnyWrite
        /\ db' = [db EXCEPT ![NextWrite(c).loc] = NextWrite(c).val]
        /\ applied[c] \in Nat
    BY <1>1, <1>4, ServerApplyProperties DEF OutboxOf
  <2>2. CASE i <= applied[c] BY <1>2, <1>4, <2>1, <2>2
  <2>3. CASE i = applied[c] + 1
    <3>1. PostAt(p) \in DOMAIN db BY LocationType DEF TypeOK, DbType
    <3>2. db'[PostAt(p)] = Copy BY <1>4, <2>1, <2>3, <3>1
    <3> QED BY <3>2, AbsentIsNoValue DEF PublishedFollows, Open
  <2> QED BY <1>4, <2>1, <2>2, <2>3
<1>5. CASE ServerRefuse(c) /\ d = c
  <2>1. /\ applied' = applied /\ applied[c] \in Nat
        /\ applied[c] + 1 \in 1 .. Len(outbox[c])
        /\ outbox'[c][i] = IF i <= applied[c] THEN outbox[c][i]
                           ELSE outbox[c][i + 1]
    BY <1>1, <1>5, ServerRefuseProperties DEF OutboxOf
  <2>2. i <= applied[c] /\ i \in 1 .. Len(outbox[c]) BY <1>5, <2>1
  <2> QED BY <1>2, <1>5, <2>1, <2>2
<1>6. CASE Acknowledge(c) /\ d = c
  <2>1. /\ applied'[c] = applied[c] - 1 /\ applied[c] \in Nat
        /\ Len(outbox'[c]) = Len(outbox[c]) - 1 /\ Len(outbox[c]) \in Nat
        /\ outbox'[c][i] = outbox[c][i + 1]
    BY <1>1, <1>6, AcknowledgeProperties, LenProperties DEF OutboxOf
  <2>2. i + 1 <= applied[c] /\ i + 1 \in 1 .. Len(outbox[c]) BY <1>6, <2>1
  <2> QED BY <1>2, <1>6, <2>1, <2>2
<1>7. CASE (Reconnect(c) \/ LoseOutbox(c)) /\ d = c
  <2>1. applied'[d] = 0
    BY <1>1, <1>7, ReconnectProperties, LoseOutboxProperties
  <2> QED BY <2>1
<1> QED
  BY <1>1, <1>3, <1>4, <1>5, <1>6, <1>7, ServerApplyProperties,
     ServerRefuseProperties, AcknowledgeProperties, ReconnectProperties,
     LoseOutboxProperties DEF Under, Delivers

LEMMA AwardsStayFull ==
    ASSUME TypeOK, AwardsFull, NEW c \in Client, Under(c),
           mixed \subseteq mixed'
    PROVE  AwardsFull'
<1> SUFFICES ASSUME NEW d \in Client, NEW i \in 1 .. Len(outbox'[d]),
                    NEW u \in User, outbox'[d][i].loc = KarmaAt(u)
             PROVE  outbox'[d][i].val \in Award(u) \/ Confused(u)
  BY DEF AwardsFull, Confused, MixedUp, MixedAway, Award
<1>1. PICK k : CameFrom(d, i, k) BY WritesCarried
<1> QED BY <1>1 DEF CameFrom, AwardsFull

LEMMA OutboxInvUnder ==
    ASSUME TypeOK, OutboxInv, PublishedFollows, NEW c \in Client, Under(c)
    PROVE  OutboxInv'
BY WritesStayInOrder, CreationsStayPublished, AwardsStayFull
DEF OutboxInv, OpenPublished, PublishedFollows

Clears(c) == LoseOutbox(c) /\ home'[c] \cup fav'[c] = {}

NothingNew ==
    \A d \in Client : home'[d] \cup fav'[d] \subseteq home[d] \cup fav[d]

\* The posts on a screen stay backed while nothing is added to it.
LEMMA ListsStayBacked ==
    ASSUME TypeOK, OutboxInv, ListsBacked, PublishedFollows,
           NEW c \in Client, Delivers(c) \/ Clears(c), NothingNew
    PROVE  ListsBacked'
<1>1. OutboxOf(AnyWrite) /\ Under(c) BY TreeTyped DEF Under, Clears
<1>2. db' = db \/ ServerApply(c) BY <1>1, TreeUnlessApplied
<1> SUFFICES ASSUME "posts" \notin Refusable, NEW d \in Client,
                    NEW p \in home'[d] \cup fav'[d]
             PROVE  BackedAfter(d, Len(outbox'[d]) + 1, PostAt(p), {Copy})
  BY DEF ListsBacked, Backed, BackedAfter, Ahead, AheadAfter
<1>3. p \in home[d] \cup fav[d] /\ p \in Post
  BY DEF NothingNew, TypeOK, SessionType
<1>4. Carried(d)
  <2>1. CASE Clears(c)
    <3>1. d # c /\ LoseOutbox(c) BY <2>1 DEF Clears
    <3> QED BY <1>1, <3>1, LoseOutboxProperties, CarriedWhenUnchanged
  <2>2. CASE Delivers(c)
    BY <1>1, <2>2, CarriedByApply, CarriedByRefuse, CarriedByAcknowledge,
       CarriedByReconnect DEF Delivers
  <2> QED BY <2>1, <2>2
<1>5. StillAhead(d, Len(outbox[d]) + 1, Len(outbox'[d]) + 1)
  BY <1>4 DEF Carried
<1>6. Backed(d, Len(outbox[d]) + 1, PostAt(p), {Copy})
  BY <1>3 DEF ListsBacked
<1>7. NeedsFirst([loc |-> CompletedAt(p), val |-> Absent], PostAt(p), {Copy})
  BY <1>3 DEF NeedsFirst, Uses
<1>8. Due(PostAt(p)) BY LocationsDiffer DEF Due, PostAt
<1>9. ServerRefuse(d) => NextWrite(d).loc[1] # PostAt(p)[1]
  <2>1. ServerRefuse(d) => ServerRefuse(c) /\ d = c BY <1>1, OnlyOneMoves
  <2>2. CASE Delivers(c) BY <2>1, <2>2 DEF Delivers, PostAt
  <2>3. CASE Clears(c) BY <2>1, <2>3 DEF Clears
  <2> QED BY <2>2, <2>3
<1> QED
  BY <1>2, <1>5, <1>6, <1>7, <1>8, <1>9, BackedStays
  DEF OutboxInv, PublishedFollows

-----------------------------------------------------------------------------
(* What the server stores.                                                 *)

\* When the server applies a write, what the write needs has been stored.
LEMMA AppliedInOrder ==
    ASSUME TypeOK, OutboxInv, NEW c \in Client, ServerApply(c)
    PROVE  /\ NextWrite(c) \in AnyWrite
           /\ \A loc \in Location :
                 db'[loc] = IF loc = NextWrite(c).loc THEN NextWrite(c).val
                            ELSE db[loc]
           /\ \A loc, vals :
                 NeedsFirst(NextWrite(c), loc, vals) /\ Due(loc)
                     => Stored(loc, vals)
<1>1. OutboxOf(AnyWrite) /\ DOMAIN db = Location
  BY TreeTyped DEF TypeOK, DbType
<1>2. /\ applied[c] + 1 \in 1 .. Len(outbox[c])
      /\ NextWrite(c) = outbox[c][applied[c] + 1]
      /\ NextWrite(c) \in AnyWrite
      /\ db' = [db EXCEPT ![NextWrite(c).loc] = NextWrite(c).val]
      /\ applied[c] \in Nat
  BY <1>1, ServerApplyProperties DEF OutboxOf
<1>3. ASSUME NEW loc, NEW vals, NeedsFirst(NextWrite(c), loc, vals), Due(loc)
      PROVE  Stored(loc, vals)
  <2>1. Backed(c, applied[c] + 1, loc, vals)
    BY <1>2, <1>3 DEF OutboxInv, WritesInOrder
  <2>2. ~Ahead(c, applied[c] + 1, loc, vals) BY <1>2 DEF Ahead
  <2> QED BY <2>1, <2>2 DEF Backed
<1> QED BY <1>1, <1>2, <1>3

\* A completion is never taken back.
LEMMA CompletedStays ==
    ASSUME TypeOK, NEW c \in Client, Under(c), NEW p \in Post, Completed(p)
    PROVE  Completed(p)'
<1>1. OutboxOf(AnyWrite) /\ DOMAIN db = Location
  BY TreeTyped DEF TypeOK, DbType
<1>2. CASE db' = db BY <1>2 DEF Completed
<1>3. CASE ServerApply(c)
  <2>1. /\ NextWrite(c) \in AnyWrite
        /\ db' = [db EXCEPT ![NextWrite(c).loc] = NextWrite(c).val]
    BY <1>1, <1>3, ServerApplyProperties
  <2>2. CompletedAt(p) \in DOMAIN db BY <1>1, LocationType
  <2> QED BY <2>1, <2>2, ValueOfWrite, AbsentIsNoValue DEF Completed
<1> QED BY <1>2, <1>3, TreeUnlessApplied

LEMMA PostsStay ==
    ASSUME TypeOK, OutboxInv, PublishedFollows, NEW c \in Client, Under(c),
           "completed" \notin Refusable, NoPostLost
    PROVE  NoPostLost'
<1> SUFFICES ASSUME NEW p \in published', ~Open(p)' PROVE Completed(p)'
  BY DEF NoPostLost
<1>1. p \in published /\ p \in Post BY DEF PublishedFollows
<1>2. CASE Completed(p) BY <1>1, <1>2, CompletedStays
<1>3. CASE ~Completed(p)
  <2>1. Open(p) BY <1>1, <1>3 DEF NoPostLost
  <2>2. ServerApply(c) BY <2>1, TreeUnlessApplied DEF Open
  <2>3. NextWrite(c).loc = PostAt(p) /\ NextWrite(c).val = Absent
    BY <1>1, <2>1, <2>2, AppliedInOrder, LocationType DEF Open
  <2>4. NeedsFirst(NextWrite(c), CompletedAt(p), Completion)
    BY <1>1, <2>3 DEF NeedsFirst
  <2>5. Stored(CompletedAt(p), Completion)
    BY <2>2, <2>4, AppliedInOrder, LocationsDiffer DEF CompletedAt, Due
  <2> QED BY <1>3, <2>5, LocationsDiffer, AbsentIsNoValue DEF Stored, Completed
<1> QED BY <1>2, <1>3

LEMMA UsesStayBehind ==
    ASSUME TypeOK, OutboxInv, PublishedFollows, NEW c \in Client, Under(c),
           "posts" \notin Refusable, PostedBeforeUse
    PROVE  PostedBeforeUse'
<1> SUFFICES ASSUME NEW p \in Post, p \notin published'
             PROVE  ~Completed(p)' /\ \A u \in User : ~Pinned(u, p)'
  BY DEF PostedBeforeUse
<1>1. p \notin published BY DEF PublishedFollows
<1>2. ~Completed(p) /\ \A u \in User : ~Pinned(u, p)
  BY <1>1 DEF PostedBeforeUse
<1>3. CASE db' = db BY <1>2, <1>3 DEF Completed, Pinned
<1>4. CASE ServerApply(c)
  <2>1. ~Uses(NextWrite(c), p)
    <3>1. SUFFICES ASSUME Uses(NextWrite(c), p) PROVE FALSE OBVIOUS
    <3>2. NeedsFirst(NextWrite(c), PostAt(p), {Copy}) BY <3>1 DEF NeedsFirst
    <3>3. Due(PostAt(p)) BY LocationsDiffer DEF Due, PostAt
    <3>4. Stored(PostAt(p), {Copy}) BY <1>4, <3>2, <3>3, AppliedInOrder
    <3>5. db[PostAt(p)] = Copy BY <1>1, <3>4, LocationsDiffer DEF Stored
    <3> QED BY <1>1, <3>5, AbsentIsNoValue DEF OutboxInv, OpenPublished, Open
  <2>2. ~Completed(p)'
    BY <1>2, <1>4, <2>1, AppliedInOrder, LocationType DEF Completed, Uses
  <2>3. ASSUME NEW u \in User PROVE ~Pinned(u, p)'
    <3>1. PinAt(u, p) \in Location BY LocationType
    <3>2. CASE NextWrite(c).loc = PinAt(u, p)
      <4>1. NextWrite(c).val \in {Copy, Absent}
        BY <1>4, <3>2, AppliedInOrder, ValueOfWrite
      <4>2. NextWrite(c).val = Absent BY <2>1, <3>2, <4>1 DEF Uses
      <4> QED BY <1>4, <3>1, <3>2, <4>2, AppliedInOrder DEF Pinned
    <3>3. CASE NextWrite(c).loc # PinAt(u, p)
      BY <1>2, <1>4, <3>1, <3>3, AppliedInOrder DEF Pinned
    <3> QED BY <3>2, <3>3
  <2> QED BY <2>2, <2>3
<1> QED BY <1>3, <1>4, TreeUnlessApplied

LEMMA HelpersStayRewarded ==
    ASSUME TypeOK, OutboxInv, PublishedFollows, NEW c \in Client, Under(c),
           "users" \notin Refusable, HelperRewarded
    PROVE  HelperRewarded'
<1> SUFFICES ASSUME NEW p \in Post, NEW u \in User,
                    db'[CompletedAt(p)] = [by |-> u, shown |-> "username"],
                    ~Confused(u)'
             PROVE  Stored(KarmaAt(u), Award(u))'
  BY LocationsDiffer DEF HelperRewarded, Stored, Award, Confused
<1> DEFINE w0 == [loc |-> CompletedAt(p),
                  val |-> [by |-> u, shown |-> "username"]]
<1>1. NeedsFirst(w0, KarmaAt(u), Award(u)) BY DEF NeedsFirst
<1>2. ~Confused(u)
  BY DEF PublishedFollows, Confused, MixedUp, MixedAway
<1>3. Due(KarmaAt(u)) BY <1>2, LocationsDiffer DEF Due, KarmaAt
<1>4. Stored(KarmaAt(u), Award(u))
  <2>1. CASE db[CompletedAt(p)] = [by |-> u, shown |-> "username"]
    <3>1. db[KarmaAt(u)] \in Nat BY DEF TypeOK, DbType
    <3> QED BY <1>2, <2>1, <3>1 DEF HelperRewarded, Stored, Award, Confused
  <2>2. CASE db[CompletedAt(p)] # [by |-> u, shown |-> "username"]
    <3>1. ServerApply(c) BY <2>2, TreeUnlessApplied
    <3>2. NextWrite(c).loc = CompletedAt(p)
          /\ NextWrite(c).val = [by |-> u, shown |-> "username"]
      BY <2>2, <3>1, AppliedInOrder, LocationType
    <3>3. NeedsFirst(NextWrite(c), KarmaAt(u), Award(u))
      BY <3>2 DEF NeedsFirst
    <3> QED BY <1>3, <3>1, <3>3, AppliedInOrder
  <2> QED BY <2>1, <2>2
<1> HIDE DEF w0
<1> QED
  BY <1>1, <1>3, <1>4, StoredStays, TreeUnlessApplied
  DEF OutboxInv, PublishedFollows

LEMMA TreeStaysSafe ==
    ASSUME TypeOK, OutboxInv, TreeSafe, PublishedFollows, NEW c \in Client,
           Under(c)
    PROVE  TreeSafe'
BY PostsStay, UsesStayBehind, HelpersStayRewarded DEF TreeSafe

-----------------------------------------------------------------------------
(* Writes that a tap issues.                                               *)

\* What the j-th of the new writes needs is there for every tap on c, or comes
\* from an earlier write of the same tap.
IssuedInOrder(c, ws) ==
    \A j \in 1 .. Len(ws) : \A loc, vals :
        NeedsFirst(ws[j], loc, vals) /\ Due(loc)'
            => \/ Backed(c, Len(outbox[c]) + 1, loc, vals)
               \/ \E m \in 1 .. (j - 1) : ws[m].loc = loc /\ ws[m].val \in vals

AwardsIssuedFull(ws) ==
    \A j \in 1 .. Len(ws), u \in User :
        ws[j].loc = KarmaAt(u) => ws[j].val \in Award(u) \/ Confused(u)'

LEMMA IssueKeepsOrder ==
    ASSUME TypeOK, OutboxInv, NEW c \in Client, NEW ws \in Seq(AnyWrite),
           Issue(c, ws), published' = published, mixed \subseteq mixed',
           IssuedInOrder(c, ws)
    PROVE  WritesInOrder'
<1>1. OutboxOf(AnyWrite) BY TreeTyped
<1>2. /\ db' = db /\ applied' = applied /\ applied[c] \in Nat
      /\ Len(outbox[c]) \in Nat /\ Len(ws) \in Nat
      /\ Len(outbox'[c]) = Len(outbox[c]) + Len(ws)
      /\ \A m \in 1 .. Len(ws) : outbox'[c][Len(outbox[c]) + m] = ws[m]
      /\ applied[c] <= Len(outbox[c])
  BY <1>1, IssueProperties, LenProperties DEF OutboxOf
<1>3. \A loc, vals : Stored(loc, vals) => Stored(loc, vals)'
  BY <1>2 DEF Stored
<1> SUFFICES ASSUME NEW d \in Client, NEW i \in 1 .. Len(outbox'[d]),
                    NEW loc, NEW vals, NeedsFirst(outbox'[d][i], loc, vals),
                    Due(loc)'
             PROVE  BackedAfter(d, i, loc, vals)
  BY DEF WritesInOrder, Backed, BackedAfter, Ahead, AheadAfter
<1>4. loc \in DOMAIN db /\ Due(loc)
  BY NeedLocation, DueBefore DEF TypeOK, DbType
<1>5. ASSUME NEW k, NEW n, StillAhead(d, k, n), Backed(d, k, loc, vals),
             ~ServerRefuse(d)
      PROVE  BackedAfter(d, n, loc, vals)
  <2>1. CASE Stored(loc, vals) BY <1>3, <2>1 DEF BackedAfter
  <2>2. CASE Ahead(d, k, loc, vals)
    <3>1. AheadAfter(d, n, loc, vals) \/ db'[loc] \in vals
      BY <1>4, <1>5, <2>2 DEF StillAhead
    <3> QED BY <3>1 DEF BackedAfter, Stored
  <2> QED BY <1>5, <2>1, <2>2 DEF Backed
<1>6. ~ServerRefuse(d)
  <2>1. SUFFICES ASSUME ServerRefuse(d) PROVE FALSE OBVIOUS
  <2>2. Len(outbox'[d]) = Len(outbox[d]) - 1 /\ Len(outbox[d]) \in Nat
    BY <1>1, <2>1, ServerRefuseProperties, LenProperties DEF OutboxOf
  <2>3. d # c => outbox'[d] = outbox[d] BY <1>1, IssueProperties
  <2> QED BY <1>2, <2>2, <2>3
\* A write that was there before.
<1>7. ASSUME NEW k, CameFrom(d, i, k) PROVE BackedAfter(d, i, loc, vals)
  <2>1. /\ k \in 1 .. Len(outbox[d]) /\ outbox'[d][i] = outbox[d][k]
        /\ StillAhead(d, k, i)
    BY <1>7 DEF CameFrom
  <2>2. NeedsFirst(outbox[d][k], loc, vals) BY <2>1
  <2>3. Backed(d, k, loc, vals)
    BY <1>4, <2>1, <2>2 DEF OutboxInv, WritesInOrder
  <2> QED BY <1>5, <1>6, <2>1, <2>3
<1>8. CASE d # c
  <2>1. Carried(d) BY <1>1, <1>8, CarriedByIssue
  <2>2. PICK k : CameFrom(d, i, k) BY <2>1 DEF Carried
  <2> QED BY <1>7, <2>2
<1>9. CASE d = c /\ i \in 1 .. Len(outbox[c])
  <2>1. CameFrom(c, i, i) BY <1>1, <1>9, CarriedByIssue
  <2> QED BY <1>7, <1>9, <2>1
\* A new one.
<1>10. CASE d = c /\ i \notin 1 .. Len(outbox[c])
  <2> DEFINE j == i - Len(outbox[c])
  <2>1. j \in 1 .. Len(ws) /\ i = Len(outbox[c]) + j
    <3>1. /\ Len(outbox[c]) \in Nat /\ Len(ws) \in Nat
          /\ Len(outbox'[c]) = Len(outbox[c]) + Len(ws)
      BY <1>2
    <3>2. i \in 1 .. Len(outbox'[c]) /\ i \notin 1 .. Len(outbox[c])
      BY <1>10
    <3> QED BY <3>1, <3>2
  <2>2. outbox'[c][i] = ws[j] BY <1>2, <2>1
  <2>3. NeedsFirst(ws[j], loc, vals) BY <1>10, <2>2
  <2>4. CASE Backed(c, Len(outbox[c]) + 1, loc, vals)
    <3>1. i \in Len(outbox[c]) + 1 .. Len(outbox'[c]) + 1
      BY <1>2, <1>10, <2>1
    <3>2. StillAhead(c, Len(outbox[c]) + 1, i)
      BY <1>1, <3>1, CarriedByIssue
    <3> QED BY <1>5, <1>6, <1>10, <2>4, <3>2
  <2>5. CASE \E m \in 1 .. (j - 1) : ws[m].loc = loc /\ ws[m].val \in vals
    <3>1. PICK m \in 1 .. (j - 1) : ws[m].loc = loc /\ ws[m].val \in vals
      BY <2>5
    <3>2. /\ Len(outbox[c]) + m \in 1 .. (i - 1)
          /\ Len(outbox[c]) + m > applied'[c]
          /\ Len(outbox[c]) + m <= Len(outbox'[c])
          /\ m \in 1 .. Len(ws)
      BY <1>2, <2>1
    <3>3. outbox'[c][Len(outbox[c]) + m] = ws[m] BY <1>2, <3>2
    <3>4. AheadAfter(c, i, loc, vals) BY <3>1, <3>2, <3>3 DEF AheadAfter
    <3> QED BY <1>10, <3>4 DEF BackedAfter
  <2> HIDE DEF j
  <2> QED BY <2>1, <2>3, <2>4, <2>5 DEF IssuedInOrder
<1> QED BY <1>8, <1>9, <1>10

LEMMA IssueKeepsOutbox ==
    ASSUME TypeOK, OutboxInv, NEW c \in Client, NEW ws \in Seq(AnyWrite),
           Issue(c, ws), published' = published, mixed \subseteq mixed',
           IssuedInOrder(c, ws), AwardsIssuedFull(ws)
    PROVE  OutboxInv'
<1>1. OutboxOf(AnyWrite) BY TreeTyped
<1>2. db' = db /\ applied' = applied BY <1>1, IssueProperties
<1>3. WritesInOrder' BY IssueKeepsOrder
<1>4. OpenPublished' BY <1>2 DEF OutboxInv, OpenPublished, Open
<1>5. ASSUME NEW d \in Client, NEW i \in 1 .. Len(outbox'[d])
      PROVE  \/ i \in 1 .. Len(outbox[d]) /\ outbox'[d][i] = outbox[d][i]
             \/ /\ i > applied'[d]
                /\ \E j \in 1 .. Len(ws) : outbox'[d][i] = ws[j]
  <2>1. CASE d # c
    <3>1. outbox'[d] = outbox[d] BY <1>1, <2>1, IssueProperties
    <3> QED BY <1>5, <3>1
  <2>2. CASE d = c
    <3>1. applied[c] \in Nat /\ Len(outbox[c]) \in Nat
          /\ applied[c] <= Len(outbox[c])
      BY <1>1, LenProperties DEF OutboxOf
    <3>2. CASE \E j \in 1 .. Len(ws) :
                  i = Len(outbox[c]) + j /\ outbox'[c][i] = ws[j]
      <4>1. i > applied'[c] BY <1>2, <3>1, <3>2
      <4> QED BY <2>2, <3>2, <4>1
    <3> QED BY <1>1, <1>5, <2>2, <3>2, IssuedWrites
  <2> QED BY <2>1, <2>2
<1>6. CreationsPublished'
  BY <1>2, <1>5 DEF OutboxInv, CreationsPublished
<1>7. AwardsFull'
  <2> SUFFICES ASSUME NEW d \in Client, NEW i \in 1 .. Len(outbox'[d]),
                      NEW u \in User, outbox'[d][i].loc = KarmaAt(u)
               PROVE  outbox'[d][i].val \in Award(u) \/ Confused(u)'
    BY DEF AwardsFull, Award
  <2>1. CASE i \in 1 .. Len(outbox[d]) /\ outbox'[d][i] = outbox[d][i]
    BY <2>1 DEF OutboxInv, AwardsFull, Confused, MixedUp, MixedAway
  <2>2. CASE \E j \in 1 .. Len(ws) : outbox'[d][i] = ws[j]
    BY <2>2 DEF AwardsIssuedFull
  <2> QED BY <1>5, <2>1, <2>2
<1> QED BY <1>3, <1>4, <1>6, <1>7 DEF OutboxInv

LEMMA IssueKeepsLists ==
    ASSUME TypeOK, ListsBacked, NEW c \in Client, NEW ws \in Seq(AnyWrite),
           Issue(c, ws), published' = published, UNCHANGED <<home, fav>>
    PROVE  ListsBacked'
<1>1. OutboxOf(AnyWrite) BY TreeTyped
<1>2. db' = db BY <1>1, IssueProperties
<1> SUFFICES ASSUME "posts" \notin Refusable, NEW d \in Client,
                    NEW p \in home[d] \cup fav[d]
             PROVE  BackedAfter(d, Len(outbox'[d]) + 1, PostAt(p), {Copy})
  BY DEF ListsBacked, Backed, BackedAfter, Ahead, AheadAfter
<1>3. p \in Post BY DEF TypeOK, SessionType
<1>4. Len(outbox[d]) \in Nat /\ Len(outbox'[d]) \in Nat
      /\ Len(outbox[d]) <= Len(outbox'[d])
  <2>1. CASE d # c
    <3>1. outbox'[d] = outbox[d] BY <1>1, <2>1, IssueProperties
    <3> QED BY <1>1, <3>1, LenProperties DEF OutboxOf
  <2>2. CASE d = c
    <3>1. ws \in Seq(AnyWrite) /\ outbox[c] \in Seq(AnyWrite)
      BY <1>1 DEF OutboxOf
    <3>2. Len(ws) \in Nat /\ Len(outbox[c]) \in Nat BY <3>1, LenProperties
    <3>3. Len(outbox'[c]) = Len(outbox[c]) + Len(ws)
      BY <1>1, IssueProperties
    <3> QED BY <2>2, <3>2, <3>3
  <2> QED BY <2>1, <2>2
<1>5. StillAhead(d, Len(outbox[d]) + 1, Len(outbox'[d]) + 1)
  <2>1. CASE d # c BY <1>1, <2>1, CarriedByIssue DEF Carried
  <2>2. CASE d = c
    <3>1. Len(outbox'[c]) + 1 \in Len(outbox[c]) + 1 .. Len(outbox'[c]) + 1
      BY <1>4, <2>2
    <3> QED BY <1>1, <2>2, <3>1, CarriedByIssue
  <2> QED BY <2>1, <2>2
<1>6. ~ServerRefuse(d)
  <2>1. SUFFICES ASSUME ServerRefuse(d) PROVE FALSE OBVIOUS
  <2>2. Len(outbox'[d]) = Len(outbox[d]) - 1
    BY <1>1, <2>1, ServerRefuseProperties
  <2> QED BY <1>4, <2>2
<1>7. PostAt(p) \in DOMAIN db BY <1>3, LocationType DEF TypeOK, DbType
<1>8. Backed(d, Len(outbox[d]) + 1, PostAt(p), {Copy}) BY DEF ListsBacked
<1>9. CASE Stored(PostAt(p), {Copy})
  BY <1>2, <1>9 DEF Stored, BackedAfter
<1>10. CASE Ahead(d, Len(outbox[d]) + 1, PostAt(p), {Copy})
  <2>1. \/ AheadAfter(d, Len(outbox'[d]) + 1, PostAt(p), {Copy})
        \/ db'[PostAt(p)] \in {Copy}
    BY <1>5, <1>6, <1>7, <1>10 DEF StillAhead
  <2> QED BY <2>1 DEF Stored, BackedAfter
<1> QED BY <1>8, <1>9, <1>10 DEF Backed

-----------------------------------------------------------------------------
(* What a screen shows.                                                    *)

\* A value that an app shows and that is not Absent is on the server or in
\* the outbox of the app.
LEMMA ShownValue ==
    ASSUME TypeOK, NEW c \in Client, NEW loc, Shows(c, loc)
    PROVE  \/ db[loc] # Absent
           \/ \E i \in 1 .. Len(outbox[c]) :
                 outbox[c][i].loc = loc /\ outbox[c][i].val # Absent
<1>1. PICK v \in Seen(c, loc) : v # Absent BY DEF Shows
<1>2. CASE Outstanding(c, loc) = {} BY <1>1, <1>2 DEF Seen
<1>3. CASE Outstanding(c, loc) # {}
  <2>1. v \in {outbox[c][i].val : i \in Latest(c, loc)}
    BY <1>1, <1>3 DEF Seen
  <2>2. PICK i \in Latest(c, loc) : v = outbox[c][i].val BY <2>1, Zenon
  <2>3. i \in DOMAIN outbox[c] /\ outbox[c][i].loc = loc
    BY DEF Latest, Outstanding
  <2>4. i \in 1 .. Len(outbox[c])
    BY <2>3, LenProperties DEF TypeOK, OutboxType
  <2> QED BY <1>1, <2>2, <2>3, <2>4
<1> QED BY <1>2, <1>3

LEMMA ShownPostBacked ==
    ASSUME TypeOK, OutboxInv, NEW c \in Client, NEW p \in Post,
           Shows(c, PostAt(p))
    PROVE  Backed(c, Len(outbox[c]) + 1, PostAt(p), {Copy})
<1>1. Len(outbox[c]) \in Nat /\ applied[c] \in Nat
  BY LenProperties DEF TypeOK, OutboxType
<1>2. CASE db[PostAt(p)] # Absent
  BY <1>2, LocationsDiffer DEF OutboxInv, OpenPublished, Open, Backed, Stored
<1>3. ASSUME NEW i \in 1 .. Len(outbox[c]), outbox[c][i].loc = PostAt(p),
             outbox[c][i].val # Absent
      PROVE  Backed(c, Len(outbox[c]) + 1, PostAt(p), {Copy})
  <2>1. outbox[c][i].val = Copy BY <1>3, OutboxWrites, ValueOfWrite
  <2>2. p \in published \/ i > applied[c]
    BY <1>3, <2>1 DEF OutboxInv, CreationsPublished
  <2>3. CASE p \in published BY <2>3 DEF Backed, Stored
  <2>4. CASE i > applied[c]
    <3>1. i \in 1 .. ((Len(outbox[c]) + 1) - 1) /\ i <= Len(outbox[c])
      BY <1>1
    <3>2. Ahead(c, Len(outbox[c]) + 1, PostAt(p), {Copy})
      BY <1>3, <2>1, <2>4, <3>1 DEF Ahead
    <3> QED BY <3>2 DEF Backed
  <2> QED BY <2>2, <2>3, <2>4
<1>4. \/ db[PostAt(p)] # Absent
      \/ \E i \in 1 .. Len(outbox[c]) :
            outbox[c][i].loc = PostAt(p) /\ outbox[c][i].val # Absent
  BY ShownValue
<1> QED BY <1>2, <1>3, <1>4

LEMMA ShownPinBacked ==
    ASSUME TypeOK, OutboxInv, TreeSafe, "posts" \notin Refusable,
           NEW c \in Client, NEW p \in Post, NEW u \in User,
           Shows(c, PinAt(u, p))
    PROVE  Backed(c, Len(outbox[c]) + 1, PostAt(p), {Copy})
<1>1. Len(outbox[c]) \in Nat BY LenProperties DEF TypeOK, OutboxType
<1>2. CASE db[PinAt(u, p)] # Absent
  <2>1. p \in published BY <1>2 DEF TreeSafe, PostedBeforeUse, Pinned
  <2> QED BY <2>1 DEF Backed, Stored
<1>3. ASSUME NEW i \in 1 .. Len(outbox[c]), outbox[c][i].loc = PinAt(u, p),
             outbox[c][i].val # Absent
      PROVE  Backed(c, Len(outbox[c]) + 1, PostAt(p), {Copy})
  <2>1. outbox[c][i].val = Copy BY <1>3, OutboxWrites, ValueOfWrite
  <2>2. NeedsFirst(outbox[c][i], PostAt(p), {Copy})
    BY <1>3, <2>1 DEF NeedsFirst, Uses
  <2>3. Due(PostAt(p)) BY LocationsDiffer DEF Due, PostAt
  <2>4. Backed(c, i, PostAt(p), {Copy})
    BY <2>2, <2>3 DEF OutboxInv, WritesInOrder
  <2>5. i \in Int /\ Len(outbox[c]) + 1 \in Int /\ i <= Len(outbox[c]) + 1
    BY <1>1
  <2> QED BY <2>4, <2>5, BackedLater
<1>4. \/ db[PinAt(u, p)] # Absent
      \/ \E i \in 1 .. Len(outbox[c]) :
            outbox[c][i].loc = PinAt(u, p) /\ outbox[c][i].val # Absent
  BY ShownValue
<1> QED BY <1>2, <1>3, <1>4

-----------------------------------------------------------------------------
(* Every step.                                                             *)

TreeUnchanged == UNCHANGED <<dbVars, published, mixed>>

LEMMA QuietKeepsOutbox ==
    ASSUME OutboxInv, TreeSafe, TreeUnchanged PROVE OutboxInv' /\ TreeSafe'
<1>1. db' = db /\ outbox' = outbox /\ applied' = applied
      /\ published' = published /\ mixed' = mixed
  BY DEF TreeUnchanged, dbVars
<1>2. WritesInOrder'
  BY <1>1, DueBefore DEF OutboxInv, WritesInOrder, Backed, Stored, Ahead
<1>3. OpenPublished' /\ CreationsPublished' /\ AwardsFull'
  BY <1>1 DEF OutboxInv, OpenPublished, Open, CreationsPublished, AwardsFull,
     Confused, MixedUp, MixedAway
<1>4. TreeSafe'
  BY <1>1 DEF TreeSafe, NoPostLost, PostedBeforeUse, HelperRewarded, Open,
     Completed, Pinned, MixedUp, MixedAway
<1> QED BY <1>2, <1>3, <1>4 DEF OutboxInv

\* Lists that change without a write: what is new on them is backed.
LEMMA QuietKeepsOrder ==
    ASSUME TypeOK, OrderInv, TreeUnchanged,
           "posts" \notin Refusable =>
              \A c \in Client : \A p \in home'[c] \cup fav'[c] :
                 \/ p \in home[c] \cup fav[c]
                 \/ Backed(c, Len(outbox[c]) + 1, PostAt(p), {Copy})
    PROVE  OrderInv'
<1>1. db' = db /\ outbox' = outbox /\ applied' = applied
      /\ published' = published
  BY DEF TreeUnchanged, dbVars
<1>2. ListsBacked'
  BY <1>1 DEF OrderInv, ListsBacked, Backed, Stored, Ahead
<1> QED BY <1>2, QuietKeepsOutbox DEF OrderInv

LEMMA IssueKeepsTreeSafe ==
    ASSUME TypeOK, TreeSafe, NEW c \in Client, NEW ws, Issue(c, ws),
           published' = published, mixed \subseteq mixed'
    PROVE  TreeSafe'
BY DEF Issue, TreeSafe, NoPostLost, PostedBeforeUse, HelperRewarded, Open,
   Completed, Pinned, MixedUp, MixedAway

LEMMA IssueKeepsInv ==
    ASSUME TypeOK, OrderInv, NEW c \in Client, NEW ws \in Seq(AnyWrite),
           Issue(c, ws), UNCHANGED <<published, home, fav>>,
           mixed \subseteq mixed',
           IssuedInOrder(c, ws), AwardsIssuedFull(ws)
    PROVE  OrderInv'
BY IssueKeepsOutbox, IssueKeepsLists, IssueKeepsTreeSafe DEF OrderInv

LEMMA OrderScreen ==
    ASSUME TypeOK, OrderInv, NEW c \in Client, Screen(c) PROVE OrderInv'
<1>1. ASSUME NEW k \in Category, HomeEvent(c, k) PROVE OrderInv'
  <2> DEFINE posts == (home[c] \ OnPage(k)) \cup Held(c, k)
  <2>1. /\ TreeUnchanged /\ fav' = fav
        /\ home' = [home EXCEPT ![c] = posts]
    BY <1>1 DEF HomeEvent, TreeUnchanged, historyVars
  <2>2. \A p \in posts :
            \/ p \in home[c]
            \/ Backed(c, Len(outbox[c]) + 1, PostAt(p), {Copy})
    BY ShownPostBacked DEF Held, OnPage, OrderInv
  <2> HIDE DEF posts
  <2>3. home'[c] = posts /\ \A d \in Client \ {c} : home'[d] = home[d]
    BY <2>1 DEF TypeOK, SessionType
  <2> QED BY <2>1, <2>2, <2>3, QuietKeepsOrder
<1>2. ASSUME NEW p \in Post, MarkEvent(c, p) PROVE OrderInv'
  <2>1. TreeUnchanged /\ UNCHANGED <<home, fav>>
    BY <1>2 DEF MarkEvent, TreeUnchanged, historyVars
  <2> QED BY <2>1, QuietKeepsOrder
<1>3. ASSUME FavEvent(c) PROVE OrderInv'
  <2>1. PICK u \in present[c] : fav' = [fav EXCEPT ![c] = PinnedPosts(c, u)]
    BY <1>3 DEF FavEvent
  <2>2. TreeUnchanged /\ home' = home /\ u \in User
    BY <1>3, <2>1 DEF FavEvent, TreeUnchanged, historyVars, TypeOK, SessionType
  <2>3. "posts" \notin Refusable =>
            \A p \in PinnedPosts(c, u) :
               Backed(c, Len(outbox[c]) + 1, PostAt(p), {Copy})
    BY <2>2, ShownPinBacked DEF PinnedPosts, OrderInv
  <2>4. fav'[c] = PinnedPosts(c, u)
        /\ \A d \in Client \ {c} : fav'[d] = fav[d]
    BY <2>1 DEF TypeOK, SessionType
  <2> QED BY <2>2, <2>3, <2>4, QuietKeepsOrder
<1>4. ASSUME FetchUserInfo(c) PROVE OrderInv'
  <2>1. TreeUnchanged /\ UNCHANGED <<home, fav>>
    BY <1>4 DEF FetchUserInfo, TreeUnchanged, historyVars
  <2> QED BY <2>1, QuietKeepsOrder
<1> QED BY <1>1, <1>2, <1>3, <1>4 DEF Screen

-----------------------------------------------------------------------------
(* The writes of the handlers.                                             *)

USE DEF Write

\* What a write needs is determined by where it goes.
LEMMA PostNeeds ==
    ASSUME NEW w, NEW loc, NEW vals, NeedsFirst(w, loc, vals),
           NEW q, w.loc = PostAt(q)
    PROVE  w.val = Absent /\ loc = CompletedAt(q) /\ vals = Completion
<1>1. ASSUME NEW p \in Post PROVE ~Uses(w, p) BY LocationsDiffer DEF Uses
<1> QED BY <1>1, LocationsDiffer DEF NeedsFirst

LEMMA PinNeeds ==
    ASSUME NEW w, NEW loc, NEW vals, NeedsFirst(w, loc, vals),
           NEW u, NEW q, w.loc = PinAt(u, q)
    PROVE  w.val = Copy /\ loc = PostAt(q) /\ vals = {Copy}
<1>1. PICK p \in Post : Uses(w, p) /\ loc = PostAt(p) /\ vals = {Copy}
  BY LocationsDiffer DEF NeedsFirst
<1>2. w.loc # CompletedAt(p) BY LocationsDiffer
<1>3. PICK v \in User : w.loc = PinAt(v, p) /\ w.val = Copy
  BY <1>1, <1>2 DEF Uses
<1>4. p = q
  <2>1. PinAt(v, p) = PinAt(u, q) BY <1>3
  <2> QED BY <2>1, LocationsDiffer
<1> QED BY <1>1, <1>3, <1>4

LEMMA CompletionNeeds ==
    ASSUME NEW w, NEW loc, NEW vals, NeedsFirst(w, loc, vals),
           NEW q, w.loc = CompletedAt(q)
    PROVE  \/ loc = PostAt(q) /\ vals = {Copy}
           \/ /\ w.val.shown = "username"
              /\ loc = KarmaAt(w.val.by) /\ vals = Award(w.val.by)
<1>1. CASE \E p \in Post : Uses(w, p) /\ loc = PostAt(p) /\ vals = {Copy}
  <2>1. PICK p \in Post : Uses(w, p) /\ loc = PostAt(p) /\ vals = {Copy}
    BY <1>1
  <2>2. p = q BY <2>1, LocationsDiffer DEF Uses
  <2> QED BY <2>1, <2>2
<1>2. CASE \E p \in Post, v \in User :
              /\ w.loc = CompletedAt(p)
              /\ w.val = [by |-> v, shown |-> "username"]
              /\ loc = KarmaAt(v) /\ vals = Award(v)
  <2>1. PICK p \in Post, v \in User :
              /\ w.loc = CompletedAt(p)
              /\ w.val = [by |-> v, shown |-> "username"]
              /\ loc = KarmaAt(v) /\ vals = Award(v)
    BY <1>2
  <2>2. w.val.by = v /\ w.val.shown = "username" BY <2>1
  <2> QED BY <2>1, <2>2
<1> QED BY <1>1, <1>2, LocationsDiffer DEF NeedsFirst

LEMMA KarmaNeedsNothing ==
    ASSUME NEW w, NEW loc, NEW vals, NEW u, w.loc = KarmaAt(u)
    PROVE  ~NeedsFirst(w, loc, vals)
<1>1. ASSUME NEW p \in Post PROVE ~Uses(w, p) BY LocationsDiffer DEF Uses
<1> QED BY <1>1, LocationsDiffer DEF NeedsFirst

\* What each of them needs.
LEMMA NeedsOfWrites ==
    ASSUME NEW p \in Post, NEW u, NEW loc, NEW vals
    PROVE  /\ ~NeedsFirst(CreatePost(p), loc, vals)
           /\ ~NeedsFirst(Unpin(u, p), loc, vals)
           /\ \A k : ~NeedsFirst(SetKarma(u, k), loc, vals)
           /\ NeedsFirst(Pin(u, p), loc, vals)
                 => loc = PostAt(p) /\ vals = {Copy}
           /\ NeedsFirst(Complete(p, u, "uid"), loc, vals)
                 => loc = PostAt(p) /\ vals = {Copy}
           /\ NeedsFirst(Complete(p, u, "username"), loc, vals)
                 => \/ loc = PostAt(p) /\ vals = {Copy}
                    \/ loc = KarmaAt(u) /\ vals = Award(u)
           /\ NeedsFirst(RemovePost(p), loc, vals)
                 => loc = CompletedAt(p) /\ vals = Completion
<1>1. ~NeedsFirst(CreatePost(p), loc, vals)
  <2>1. CreatePost(p).loc = PostAt(p) /\ CreatePost(p).val # Absent
    BY AbsentIsNoValue DEF CreatePost
  <2> QED BY <2>1, PostNeeds
<1>2. ~NeedsFirst(Unpin(u, p), loc, vals)
  <2>1. Unpin(u, p).loc = PinAt(u, p) /\ Unpin(u, p).val # Copy
    BY AbsentIsNoValue DEF Unpin
  <2> QED BY <2>1, PinNeeds
<1>3. \A k : ~NeedsFirst(SetKarma(u, k), loc, vals)
  <2> TAKE k
  <2>1. SetKarma(u, k).loc = KarmaAt(u) BY DEF SetKarma
  <2> QED BY <2>1, KarmaNeedsNothing
<1>4. NeedsFirst(Pin(u, p), loc, vals) => loc = PostAt(p) /\ vals = {Copy}
  <2>1. Pin(u, p).loc = PinAt(u, p) BY DEF Pin
  <2> QED BY <2>1, PinNeeds
<1>5. NeedsFirst(Complete(p, u, "uid"), loc, vals)
         => loc = PostAt(p) /\ vals = {Copy}
  <2>1. Complete(p, u, "uid").loc = CompletedAt(p) BY DEF Complete
  <2>2. Complete(p, u, "uid").val.shown # "username"
    BY DEF Complete
  <2> QED BY <2>1, <2>2, CompletionNeeds
<1>6. NeedsFirst(Complete(p, u, "username"), loc, vals)
         => \/ loc = PostAt(p) /\ vals = {Copy}
            \/ loc = KarmaAt(u) /\ vals = Award(u)
  <2>1. /\ Complete(p, u, "username").loc = CompletedAt(p)
        /\ Complete(p, u, "username").val.by = u
    BY DEF Complete
  <2> QED BY <2>1, CompletionNeeds
<1>7. NeedsFirst(RemovePost(p), loc, vals)
         => loc = CompletedAt(p) /\ vals = Completion
  <2>1. RemovePost(p).loc = PostAt(p) BY DEF RemovePost
  <2> QED BY <2>1, PostNeeds
<1> QED BY <1>1, <1>2, <1>3, <1>4, <1>5, <1>6, <1>7

LEMMA OneWriteNotAboutKarma ==
    ASSUME NEW w, \A u \in User : w.loc # KarmaAt(u)
    PROVE  AwardsIssuedFull(<<w>>)
<1>1. \A j \in 1 .. Len(<<w>>) : <<w>>[j] = w OBVIOUS
<1> QED BY <1>1 DEF AwardsIssuedFull

LEMMA OneWriteInOrder ==
    ASSUME NEW c \in Client, NEW w,
           \A loc, vals : NeedsFirst(w, loc, vals) /\ Due(loc)'
              => Backed(c, Len(outbox[c]) + 1, loc, vals)
    PROVE  IssuedInOrder(c, <<w>>)
<1>1. \A j \in 1 .. Len(<<w>>) : <<w>>[j] = w OBVIOUS
<1> QED BY <1>1 DEF IssuedInOrder

\* A creation, and the taps of the Home tab.
LEMMA SimpleWritesInOrder ==
    ASSUME TypeOK, NEW c \in Client, NEW p \in Post
    PROVE  /\ IssuedInOrder(c, <<CreatePost(p)>>)
           /\ AwardsIssuedFull(<<CreatePost(p)>>)
<1>1. \A loc, vals : ~NeedsFirst(CreatePost(p), loc, vals)
  BY NeedsOfWrites
<1>2. \A u \in User : CreatePost(p).loc # KarmaAt(u) BY NotAboutKarma
<1> QED BY <1>1, <1>2, OneWriteInOrder, OneWriteNotAboutKarma

LEMMA HomeWritesInOrder ==
    ASSUME TypeOK, OrderInv, NEW c \in Client, NEW p \in home[c]
    PROVE  /\ IssuedInOrder(c, <<Pin(user[c], p)>>)
           /\ AwardsIssuedFull(<<Pin(user[c], p)>>)
           /\ IssuedInOrder(c, <<Unpin(user[c], p)>>)
           /\ AwardsIssuedFull(<<Unpin(user[c], p)>>)
           /\ IssuedInOrder(c, HomeCheckWrites(c, p))
           /\ AwardsIssuedFull(HomeCheckWrites(c, p))
<1>1. p \in Post /\ user[c] \in User
  BY SomebodySignedIn DEF TypeOK, SessionType
<1>2. "posts" \notin Refusable =>
          Backed(c, Len(outbox[c]) + 1, PostAt(p), {Copy})
  BY DEF OrderInv, ListsBacked
<1>3. Due(PostAt(p))' => "posts" \notin Refusable BY DEF Due, PostAt
<1>4. IssuedInOrder(c, <<Pin(user[c], p)>>)
  <2> SUFFICES ASSUME NEW loc, NEW vals, Due(loc)',
                      NeedsFirst(Pin(user[c], p), loc, vals)
               PROVE  Backed(c, Len(outbox[c]) + 1, loc, vals)
    BY OneWriteInOrder
  <2>1. loc = PostAt(p) /\ vals = {Copy} BY <1>1, NeedsOfWrites
  <2> QED BY <1>2, <1>3, <2>1
<1>5. IssuedInOrder(c, <<Unpin(user[c], p)>>)
  <2>1. \A loc, vals : ~NeedsFirst(Unpin(user[c], p), loc, vals)
    BY <1>1, NeedsOfWrites
  <2> QED BY <2>1, OneWriteInOrder
<1>6. IssuedInOrder(c, HomeCheckWrites(c, p))
  <2> DEFINE ws == HomeCheckWrites(c, p)
  <2>1. /\ Len(ws) = 2 /\ ws[1] = Complete(p, user[c], "uid")
        /\ ws[2] = RemovePost(p)
    BY DEF HomeCheckWrites
  <2>2. /\ ws[1].loc = CompletedAt(p)
        /\ ws[1].val \in Completion
    BY <1>1, <2>1 DEF Complete, Completion
  <2> HIDE DEF ws
  <2> SUFFICES ASSUME NEW j \in 1 .. Len(ws), NEW loc, NEW vals,
                      Due(loc)', NeedsFirst(ws[j], loc, vals)
               PROVE  \/ Backed(c, Len(outbox[c]) + 1, loc, vals)
                      \/ \E m \in 1 .. (j - 1) :
                            ws[m].loc = loc /\ ws[m].val \in vals
    BY DEF IssuedInOrder, ws
  <2>3. CASE j = 1
    <3>1. loc = PostAt(p) /\ vals = {Copy} BY <1>1, <2>1, <2>3, NeedsOfWrites
    <3> QED BY <1>2, <1>3, <3>1
  <2>4. CASE j = 2
    <3>1. loc = CompletedAt(p) /\ vals = Completion
      BY <1>1, <2>1, <2>4, NeedsOfWrites
    <3>2. 1 \in 1 .. (j - 1) BY <2>4
    <3> QED BY <2>2, <3>1, <3>2
  <2> QED BY <2>1, <2>3, <2>4
<1>7. AwardsIssuedFull(<<Pin(user[c], p)>>)
  BY <1>1, NotAboutKarma, OneWriteNotAboutKarma
<1>8. AwardsIssuedFull(<<Unpin(user[c], p)>>)
  BY <1>1, NotAboutKarma, OneWriteNotAboutKarma
<1>9. AwardsIssuedFull(HomeCheckWrites(c, p))
  <2>1. /\ Len(HomeCheckWrites(c, p)) = 2
        /\ HomeCheckWrites(c, p)[1] = Complete(p, user[c], "uid")
        /\ HomeCheckWrites(c, p)[2] = RemovePost(p)
    BY DEF HomeCheckWrites
  <2>2. \A u \in User : /\ HomeCheckWrites(c, p)[1].loc # KarmaAt(u)
                        /\ HomeCheckWrites(c, p)[2].loc # KarmaAt(u)
    BY <1>1, <2>1, NotAboutKarma
  <2>3. \A j \in 1 .. Len(HomeCheckWrites(c, p)) : j = 1 \/ j = 2
    BY <2>1
  <2> QED BY <2>2, <2>3 DEF AwardsIssuedFull
<1> QED BY <1>4, <1>5, <1>6, <1>7, <1>8, <1>9

\* The four writes of the check button of the Pinned tab.
LEMMA FavWritesInOrder ==
    ASSUME TypeOK, KarmaInv, OrderInv, NEW c \in Client, NEW p \in fav[c],
           me[c] # Absent,
           mixed' = mixed
             \cup ({<<asked[c], user[c]>>} \ {<<u, u>> : u \in User})
    PROVE  /\ IssuedInOrder(c, FavCheckWrites(c, p))
           /\ AwardsIssuedFull(FavCheckWrites(c, p))
<1> DEFINE ws == FavCheckWrites(c, p)
<1>1. p \in Post /\ user[c] \in User /\ asked[c] \in User /\ me[c] \in Nat
  BY SomebodySignedIn DEF TypeOK, SessionType
<1> PICK u \in User, a \in User : u = user[c] /\ a = asked[c] BY <1>1
<1>2. "posts" \notin Refusable =>
          Backed(c, Len(outbox[c]) + 1, PostAt(p), {Copy})
  BY DEF OrderInv, ListsBacked
<1>3. Due(PostAt(p))' => "posts" \notin Refusable BY DEF Due, PostAt
\* Who is awarded for the name of somebody else is mixed up.
<1>4. /\ a # u => Confused(a)' /\ Confused(u)'
      /\ MixedUp(u) => Confused(u)'
  BY DEF Confused, MixedUp, MixedAway
<1>5. /\ Len(ws) = 4
      /\ ws[1] = SetKarma(u, me[c] + KarmaAward)
      /\ ws[2] = Complete(p, a, "username")
      /\ ws[3] = Unpin(u, p)
      /\ ws[4] = RemovePost(p)
  BY DEF FavCheckWrites
<1>6. /\ ws[1].loc = KarmaAt(u) /\ ws[1].val = me[c] + KarmaAward
      /\ a # u \/ MixedUp(u) \/ ws[1].val \in Award(u)
  <2>1. ws[1].loc = KarmaAt(u) /\ ws[1].val = me[c] + KarmaAward
    BY <1>5 DEF SetKarma
  <2>2. ASSUME a = u, ~MixedUp(u) PROVE me[c] + KarmaAward \in Award(u)
    <3>1. OldKarma[u] <= me[c]
      BY <2>2 DEF KarmaInv, KarmaOnScreens, Fits
    <3> QED BY <1>1, <3>1, OldKarmaType DEF Award, KarmaAward
  <2> QED BY <2>1, <2>2
<1>7. ws[2].loc = CompletedAt(p) /\ ws[2].val \in Completion
  BY <1>1, <1>5 DEF Complete, Completion
<1>8. ws[3].loc = PinAt(u, p) /\ ws[4].loc = PostAt(p)
  BY <1>5 DEF Unpin, RemovePost
<1> HIDE DEF ws
<1>9. AwardsIssuedFull(ws)
  <2> SUFFICES ASSUME NEW j \in 1 .. Len(ws), NEW v \in User,
                      ws[j].loc = KarmaAt(v)
               PROVE  ws[j].val \in Award(v) \/ Confused(v)'
    BY DEF AwardsIssuedFull
  <2>1. j \in {1, 2, 3, 4} BY <1>5
  <2>2. j = 1 BY <1>7, <1>8, <2>1, LocationsDiffer
  <2>3. v = u BY <1>6, <2>2, LocationsDiffer
  <2> QED BY <1>4, <1>6, <2>2, <2>3
<1>10. IssuedInOrder(c, ws)
  <2> SUFFICES ASSUME NEW j \in 1 .. Len(ws), NEW loc, NEW vals,
                      Due(loc)', NeedsFirst(ws[j], loc, vals)
               PROVE  \/ Backed(c, Len(outbox[c]) + 1, loc, vals)
                      \/ \E m \in 1 .. (j - 1) :
                            ws[m].loc = loc /\ ws[m].val \in vals
    BY DEF IssuedInOrder
  <2>1. j \in {1, 2, 3, 4} BY <1>5
  <2>2. j # 1 /\ j # 3
    <3>1. ~NeedsFirst(ws[1], loc, vals) BY <1>6, KarmaNeedsNothing
    <3>2. ~NeedsFirst(Unpin(u, p), loc, vals) BY <1>1, NeedsOfWrites
    <3> QED BY <1>5, <3>1, <3>2
  <2>3. CASE j = 2
    <3>1. 1 \in 1 .. (j - 1) BY <2>3
    <3>2. CASE loc = PostAt(p) /\ vals = {Copy} BY <1>2, <1>3, <3>2
    <3>3. CASE loc = KarmaAt(a) /\ vals = Award(a)
      <4>1. ~Confused(a)' BY <3>3 DEF Due
      <4>2. a = u /\ ~MixedUp(u) BY <1>4, <4>1
      <4> QED BY <1>6, <3>1, <3>3, <4>2
    <3>4. NeedsFirst(Complete(p, a, "username"), loc, vals)
      BY <1>5, <2>3
    <3> QED BY <1>1, <3>2, <3>3, <3>4, NeedsOfWrites
  <2>4. CASE j = 4
    <3>1. loc = CompletedAt(p) /\ vals = Completion
      BY <1>1, <1>5, <2>4, NeedsOfWrites
    <3>2. 2 \in 1 .. (j - 1) BY <2>4
    <3> QED BY <1>7, <3>1, <3>2
  <2> QED BY <2>1, <2>2, <2>3, <2>4
<1> QED BY <1>9, <1>10 DEF ws

-----------------------------------------------------------------------------
(* The steps of the users.                                                 *)

\* A session that ends, or a process, leaves nothing on its screens.
LEMMA EmptyListsShowNothing ==
    ASSUME TypeOK, NEW c \in Client, EmptyLists(c)
    PROVE  /\ home'[c] = {} /\ fav'[c] = {}
           /\ \A d \in Client \ {c} : home'[d] = home[d] /\ fav'[d] = fav[d]
BY DEF EmptyLists, TypeOK, SessionType

LEMMA PublishedInInv ==
    ASSUME TypeOK, OutboxInv, db' = db, UNCHANGED <<published, mixed>>
    PROVE  PublishedFollows
BY DEF OutboxInv, OpenPublished, Open, PublishedFollows, TypeOK, HistoryType

LEMMA OrderRestart ==
    ASSUME TypeOK, OrderInv, NEW c \in Client, Restart(c) PROVE OrderInv'
<1>1. LoseOutbox(c) /\ EmptyLists(c) /\ UNCHANGED <<published, mixed>>
  BY DEF Restart, historyVars
<1>2. db' = db BY <1>1 DEF LoseOutbox
<1>3. PublishedFollows BY <1>1, <1>2, PublishedInInv DEF OrderInv
<1>4. Under(c) BY <1>1 DEF Under, Delivers
<1>5. OutboxInv' BY <1>3, <1>4, OutboxInvUnder DEF OrderInv
<1>6. TreeSafe' BY <1>3, <1>4, TreeStaysSafe DEF OrderInv
<1>7. ListsBacked'
  <2>1. Clears(c) /\ NothingNew
    BY <1>1, EmptyListsShowNothing DEF Clears, NothingNew
  <2> QED BY <1>3, <2>1, ListsStayBacked DEF OrderInv
<1> QED BY <1>5, <1>6, <1>7 DEF OrderInv

LEMMA OrderTouch ==
    ASSUME TypeOK, KarmaInv, OrderInv, NEW c \in Client, Touch(c)
    PROVE  OrderInv'
<1>1. ASSUME NEW u \in User, Login(c, u) \/ SignIn(c, u) PROVE OrderInv'
  <2>1. TreeUnchanged /\ UNCHANGED <<home, fav>>
    BY <1>1 DEF Login, SignIn, TreeUnchanged, historyVars, listVars
  <2> QED BY <2>1, QuietKeepsOrder
<1>2. ASSUME Logout(c) \/ LoginAgain(c) PROVE OrderInv'
  <2>1. TreeUnchanged /\ EmptyLists(c)
    BY <1>2 DEF Logout, LoginAgain, TreeUnchanged, historyVars
  <2>2. \A d \in Client : home'[d] \cup fav'[d] \subseteq home[d] \cup fav[d]
    BY <2>1, EmptyListsShowNothing
  <2> QED BY <2>1, <2>2, QuietKeepsOrder
<1>3. ASSUME Scroll(c) PROVE OrderInv'
  <2>1. TreeUnchanged /\ UNCHANGED <<home, fav>>
    BY <1>3 DEF Scroll, TreeUnchanged, historyVars
  <2> QED BY <2>1, QuietKeepsOrder
<1>4. ASSUME OpenPinned(c) PROVE OrderInv'
  <2>1. TreeUnchanged /\ UNCHANGED <<home, fav>>
    BY <1>4 DEF OpenPinned, TreeUnchanged, historyVars
  <2> QED BY <2>1, QuietKeepsOrder
<1>5. ASSUME NEW p \in Post, Submit(c, p) PROVE OrderInv'
  <2>1. TreeUnchanged /\ UNCHANGED <<home, fav>>
    BY <1>5 DEF Submit, TreeUnchanged, listVars
  <2> QED BY <2>1, QuietKeepsOrder
<1>6. ASSUME NEW p \in Post, HomePin(c, p) PROVE OrderInv'
  <2>1. /\ UNCHANGED <<published, mixed, home, fav>> /\ p \in home[c]
        /\ Issue(c, <<Pin(user[c], p)>>)
    BY <1>6 DEF HomePin, historyVars
  <2>2. user[c] \in User BY <2>1, SomebodySignedIn DEF TypeOK
  <2>3. <<Pin(user[c], p)>> \in Seq(AnyWrite)
    BY <2>2, HandlerWrites DEF TypeOK
  <2> QED BY <2>1, <2>3, HomeWritesInOrder, IssueKeepsInv
<1>7. ASSUME NEW p \in Post, HomeUnpin(c, p) PROVE OrderInv'
  <2>1. /\ UNCHANGED <<published, mixed, home, fav>> /\ p \in home[c]
        /\ Issue(c, <<Unpin(user[c], p)>>)
    BY <1>7 DEF HomeUnpin, historyVars
  <2>2. user[c] \in User BY <2>1, SomebodySignedIn DEF TypeOK
  <2>3. <<Unpin(user[c], p)>> \in Seq(AnyWrite)
    BY <2>2, HandlerWrites DEF TypeOK
  <2> QED BY <2>1, <2>3, HomeWritesInOrder, IssueKeepsInv
<1>8. ASSUME NEW p \in Post, HomeCheck(c, p) PROVE OrderInv'
  <2>1. /\ UNCHANGED <<published, mixed, home, fav>> /\ p \in home[c]
        /\ Issue(c, HomeCheckWrites(c, p))
    BY <1>8 DEF HomeCheck, historyVars
  <2>2. user[c] \in User BY <2>1, SomebodySignedIn DEF TypeOK
  <2>3. HomeCheckWrites(c, p) \in Seq(AnyWrite)
    BY <2>2, HandlerWrites DEF TypeOK
  <2> QED BY <2>1, <2>3, HomeWritesInOrder, IssueKeepsInv
<1>9. ASSUME NEW p \in Post, FavCheck(c, p) PROVE OrderInv'
  <2>1. /\ UNCHANGED <<published, home, fav>> /\ p \in fav[c]
        /\ me[c] # Absent /\ Issue(c, FavCheckWrites(c, p))
        /\ mixed' = mixed
             \cup ({<<asked[c], user[c]>>} \ {<<u, u>> : u \in User})
    BY <1>9 DEF FavCheck, listVars
  <2>2. FavCheckWrites(c, p) \in Seq(AnyWrite)
    BY <2>1, HandlerWrites DEF TypeOK
  <2>3. mixed \subseteq mixed' BY <2>1
  <2> QED BY <2>1, <2>2, <2>3, FavWritesInOrder, IssueKeepsInv
<1>10. ASSUME NEW p \in Post, FavPinTap(c, p) PROVE OrderInv'
  BY <1>10, OrderRestart DEF FavPinTap
<1> QED BY <1>1, <1>2, <1>3, <1>4, <1>5, <1>6, <1>7, <1>8, <1>9, <1>10 DEF Touch

-----------------------------------------------------------------------------
(* The steps of the database and the connections.                          *)

LEMMA ApplyFollowed ==
    ASSUME TypeOK, OutboxInv, NEW c \in Client, Apply(c)
    PROVE  PublishedFollows
<1>1. /\ published' = published \cup {p \in Post : db'[PostAt(p)] # Absent}
      /\ mixed' = mixed
  BY DEF Apply
<1> QED BY <1>1 DEF PublishedFollows, Open, TypeOK, HistoryType

LEMMA OrderConnection ==
    ASSUME TypeOK, OrderInv, NEW c \in Client, Delivers(c),
           PublishedFollows,
           \A d \in Client : home'[d] = home[d] /\ fav'[d] = fav[d]
    PROVE  OrderInv'
<1>1. OutboxInv' BY OutboxInvUnder DEF OrderInv, Under
<1>2. TreeSafe' BY TreeStaysSafe DEF OrderInv, Under
<1>3. ListsBacked'
  <2>1. NothingNew BY DEF NothingNew
  <2>2. OutboxInv /\ ListsBacked BY DEF OrderInv
  <2> QED BY <2>1, <2>2, ListsStayBacked
<1> QED BY <1>1, <1>2, <1>3 DEF OrderInv

LEMMA OrderNetwork ==
    ASSUME TypeOK, OrderInv, NEW c \in Client, Network(c) PROVE OrderInv'
<1>0. OutboxOf(AnyWrite) BY TreeTyped
<1>1. ASSUME Apply(c) PROVE OrderInv'
  <2>1. ServerApply(c) /\ UNCHANGED <<home, fav>>
    BY <1>1 DEF Apply, listVars
  <2>2. ~ServerRefuse(c)
    <3>1. applied'[c] = applied[c] + 1 /\ applied[c] \in Nat
      BY <1>0, <2>1, ServerApplyProperties DEF OutboxOf
    <3>2. applied'[c] # applied[c] BY <3>1
    <3> QED BY <3>2 DEF ServerRefuse
  <2>3. Delivers(c) BY <2>1, <2>2 DEF Delivers
  <2> QED BY <1>1, <2>1, <2>3, ApplyFollowed, OrderConnection DEF OrderInv
<1>2. ASSUME Refuse(c) PROVE OrderInv'
  <2>1. /\ ServerRefuse(c) /\ NextWrite(c).loc[1] \in Refusable
        /\ UNCHANGED <<home, fav, published, mixed>>
    BY <1>2 DEF Refuse, listVars, historyVars
  <2>2. db' = db BY <2>1 DEF ServerRefuse
  <2>3. Delivers(c) /\ PublishedFollows
    BY <2>1, <2>2, PublishedInInv DEF Delivers, OrderInv
  <2> QED BY <2>1, <2>3, OrderConnection
<1>3. ASSUME Hear(c) PROVE OrderInv'
  <2>1. Acknowledge(c) /\ UNCHANGED <<home, fav, published, mixed>>
    BY <1>3 DEF Hear, listVars, historyVars
  <2>2. db' = db BY <2>1 DEF Acknowledge
  <2>3. ~ServerRefuse(c)
    <3>1. applied'[c] = applied[c] - 1 /\ applied[c] \in Nat
      BY <1>0, <2>1, AcknowledgeProperties DEF OutboxOf
    <3>2. applied'[c] # applied[c] BY <3>1
    <3> QED BY <3>2 DEF ServerRefuse
  <2>4. Delivers(c) /\ PublishedFollows
    BY <2>1, <2>2, <2>3, PublishedInInv DEF Delivers, OrderInv
  <2> QED BY <2>1, <2>4, OrderConnection
<1>4. ASSUME Drop(c) PROVE OrderInv'
  <2>1. Reconnect(c) /\ UNCHANGED <<home, fav, published, mixed>>
    BY <1>4 DEF Drop, listVars, historyVars
  <2>2. db' = db /\ outbox' = outbox BY <2>1 DEF Reconnect
  <2>3. ~ServerRefuse(c)
    <3>1. Len(outbox[c]) \in Nat BY <1>0, LenProperties DEF OutboxOf
    <3>2. ServerRefuse(c) => Len(outbox'[c]) = Len(outbox[c]) - 1
      BY <1>0, ServerRefuseProperties
    <3> QED BY <2>2, <3>1, <3>2
  <2>4. Delivers(c) /\ PublishedFollows
    BY <2>1, <2>2, <2>3, PublishedInInv DEF Delivers, OrderInv
  <2> QED BY <2>1, <2>4, OrderConnection
<1>5. ASSUME NEW p \in Post, UploadDone(c, p) PROVE OrderInv'
  <2>1. /\ UNCHANGED <<published, mixed, home, fav>>
        /\ Issue(c, <<CreatePost(p)>>)
    BY <1>5 DEF UploadDone, EndUpload, listVars, historyVars
  <2>2. <<CreatePost(p)>> \in Seq(AnyWrite) BY HandlerWrites DEF TypeOK
  <2> QED BY <2>1, <2>2, SimpleWritesInOrder, IssueKeepsInv
<1>6. ASSUME NEW p \in Post, UploadFails(c, p) PROVE OrderInv'
  <2>1. TreeUnchanged /\ UNCHANGED <<home, fav>>
    BY <1>6 DEF UploadFails, EndUpload, TreeUnchanged, listVars, historyVars
  <2> QED BY <2>1, QuietKeepsOrder
<1> QED BY <1>1, <1>2, <1>3, <1>4, <1>5, <1>6 DEF Network

-----------------------------------------------------------------------------
(* The invariant holds.                                                    *)

LEMMA OrderStep ==
    TypeOK /\ KarmaInv /\ OrderInv /\ [Next]_vars => OrderInv'
<1> SUFFICES ASSUME TypeOK, KarmaInv, OrderInv, [Next]_vars PROVE OrderInv'
  OBVIOUS
<1>1. CASE Next
  <2> PICK c \in Client : Screen(c) \/ Touch(c) \/ Network(c) \/ Kill(c)
    BY <1>1 DEF Next
  <2>1. CASE Screen(c) BY <2>1, OrderScreen
  <2>2. CASE Touch(c) BY <2>2, OrderTouch
  <2>3. CASE Network(c) BY <2>3, OrderNetwork
  <2>4. CASE Kill(c) BY <2>4, OrderRestart DEF Kill
  <2> QED BY <2>1, <2>2, <2>3, <2>4
<1>2. CASE UNCHANGED vars
  <2>1. TreeUnchanged /\ UNCHANGED <<home, fav>>
    BY <1>2 DEF vars, TreeUnchanged, listVars, historyVars
  <2> QED BY <2>1, QuietKeepsOrder
<1> QED BY <1>1, <1>2

LEMMA OrderInit == Init => OrderInv
<1> SUFFICES ASSUME Init PROVE OrderInv OBVIOUS
<1>1. \A c \in Client : outbox[c] = <<>> /\ 1 .. Len(outbox[c]) = {}
  <2> TAKE c \in Client
  <2>1. outbox[c] = <<>> BY DEF Init
  <2>2. Len(outbox[c]) = 0 BY <2>1
  <2> QED BY <2>1, <2>2
<1>2. ASSUME NEW p \in Post PROVE Open(p) <=> p \in published
  <2>1. db[PostAt(p)] = IF p \in OldPosts THEN Copy ELSE Absent
    BY LocationType DEF Init, OldValue, PostAt
  <2>2. published = OldPosts BY DEF Init
  <2> QED BY <2>1, <2>2, AbsentIsNoValue DEF Open
<1>3. ASSUME NEW p \in Post PROVE db[CompletedAt(p)] = Absent
  BY LocationType DEF Init, OldValue, CompletedAt
<1>4. ASSUME NEW p \in Post, NEW u \in User, Pinned(u, p)
      PROVE  p \in published
  <2>1. PinAt(u, p) \in Location BY LocationType
  <2>2. db[PinAt(u, p)] = OldValue(PinAt(u, p)) BY <2>1 DEF Init
  <2>3. <<u, p>> \in OldPins BY <1>4, <2>2 DEF OldValue, PinAt, Pinned
  <2>4. p \in OldPosts BY <2>3, BoardAssumption
  <2> QED BY <2>4 DEF Init
<1>5. OutboxInv
  BY <1>1, <1>2
  DEF OutboxInv, WritesInOrder, OpenPublished, CreationsPublished, AwardsFull
<1>6. TreeSafe
  <2>1. NoPostLost BY <1>2, OldPostsType DEF NoPostLost, Init
  <2>2. PostedBeforeUse
    BY <1>3, <1>4 DEF PostedBeforeUse, Completed
  <2>3. HelperRewarded
    <3>1. \A u \in User : [by |-> u, shown |-> "username"] \in Completion
      BY DEF Completion
    <3>2. \A u \in User : Absent # [by |-> u, shown |-> "username"]
      BY <3>1, AbsentIsNoValue
    <3> QED BY <1>3, <3>2 DEF HelperRewarded
  <2> QED BY <2>1, <2>2, <2>3 DEF TreeSafe
<1>7. ListsBacked BY DEF ListsBacked, Init
<1> QED BY <1>5, <1>6, <1>7 DEF OrderInv

LEMMA OrderAlways == Spec => [](TypeOK /\ KarmaInv /\ OrderInv)
<1>1. Init => TypeOK /\ KarmaInv /\ OrderInv BY TypeInit, KarmaInit, OrderInit
<1>2. TypeOK /\ KarmaInv /\ OrderInv /\ [Next]_vars
         => (TypeOK /\ KarmaInv /\ OrderInv)'
  BY TypeStep, KarmaStep, OrderStep
<1> QED BY <1>1, <1>2, PTL DEF Spec

\* As long as the server takes the writes to completed/, no interleaving of
\* the devices, lost connection or killed process loses a request for help,
\* whatever else the server refuses.
THEOREM PostsKept ==
    ASSUME "completed" \notin Refusable
    PROVE  Spec => []NoPostLost
<1>1. OrderInv => NoPostLost BY DEF OrderInv, TreeSafe
<1> QED BY <1>1, OrderAlways, PTL

\* As long as the server takes the writes to posts/, nobody pins or completes
\* a post it has never held.
THEOREM UsesPublished ==
    ASSUME "posts" \notin Refusable
    PROVE  Spec => []PostedBeforeUse
<1>1. OrderInv => PostedBeforeUse BY DEF OrderInv, TreeSafe
<1> QED BY <1>1, OrderAlways, PTL

\* As long as the server takes the writes to users/, whoever completed/ shows
\* under a username has been awarded, unless the name or the points were mixed
\* up with those of another account.
THEOREM HelpersRewarded ==
    ASSUME "users" \notin Refusable
    PROVE  Spec => []HelperRewarded
<1>1. OrderInv => HelperRewarded BY DEF OrderInv, TreeSafe
<1> QED BY <1>1, OrderAlways, PTL

-----------------------------------------------------------------------------
(* The board implements the life cycle of PostLifecycle.                   *)

LEMMA OnlyApplyMovesTree ==
    ASSUME [Next]_vars
    PROVE  db' = db \/ \E c \in Client : ServerApply(c) /\ mixed' = mixed
<1>1. CASE Next
  <2> PICK c \in Client : Screen(c) \/ Touch(c) \/ Network(c) \/ Kill(c)
    BY <1>1 DEF Next
  <2>1. CASE Screen(c)
    BY <2>1 DEF Screen, HomeEvent, MarkEvent, FavEvent, FetchUserInfo, dbVars
  <2>2. CASE Touch(c)
    BY <2>2 DEF Touch, Login, SignIn, LoginAgain, Logout, Scroll, OpenPinned,
       Submit, HomePin, HomeUnpin, HomeCheck, FavCheck, FavPinTap, Restart,
       LoseOutbox, Issue, dbVars
  <2>3. CASE Network(c)
    BY <2>3 DEF Network, Apply, Refuse, Hear, Drop, UploadDone, UploadFails,
       ServerRefuse, Acknowledge, Reconnect, Issue, dbVars
  <2>4. CASE Kill(c) BY <2>4 DEF Kill, Restart, LoseOutbox
  <2> QED BY <2>1, <2>2, <2>3, <2>4
<1>2. CASE UNCHANGED vars BY <1>2 DEF vars, dbVars
<1> QED BY <1>1, <1>2

StageOf(p) ==
    IF Completed(p) THEN "done" ELSE IF Open(p) THEN "open" ELSE "unpublished"

LEMMA StagesMeaning == stageOfPosts = [p \in Post |-> StageOf(p)]
BY DEF stageOfPosts, StageOf

\* One post moves at a time.
LEMMA OneStageMoves ==
    ASSUME NEW p \in Post, \A q \in Post \ {p} : StageOf(q)' = StageOf(q)
    PROVE  stageOfPosts' = [stageOfPosts EXCEPT ![p] = StageOf(p)']
BY DEF stageOfPosts, StageOf

LEMMA LifecycleStep ==
    ASSUME "completed" \notin Refusable, "posts" \notin Refusable,
           TypeOK, OrderInv, [Next]_vars
    PROVE  [Lifecycle!LifecycleNext]_stageOfPosts
<1>1. CASE db' = db
  BY <1>1 DEF stageOfPosts, Completed, Open
<1>2. ASSUME NEW c \in Client, ServerApply(c)
      PROVE  [Lifecycle!LifecycleNext]_stageOfPosts
  <2> DEFINE w == NextWrite(c)
  <2>1. /\ w \in AnyWrite
        /\ \A loc \in Location :
              db'[loc] = IF loc = w.loc THEN w.val ELSE db[loc]
        /\ \A loc, vals : NeedsFirst(w, loc, vals) /\ Due(loc)
                             => Stored(loc, vals)
    BY <1>2, AppliedInOrder DEF OrderInv
  <2> HIDE DEF w
  <2>2. ASSUME NEW q \in Post, w.loc # PostAt(q), w.loc # CompletedAt(q)
        PROVE  StageOf(q)' = StageOf(q)
    BY <2>1, <2>2, LocationType DEF StageOf, Completed, Open
  <2>3. ASSUME NEW p \in Post, w.loc = PostAt(p)
        PROVE  [Lifecycle!LifecycleNext]_stageOfPosts
    <3>1. \A q \in Post \ {p} : StageOf(q)' = StageOf(q)
      BY <2>2, <2>3, LocationsDiffer
    <3>2. Completed(p)' <=> Completed(p)
      BY <2>1, <2>3, LocationType, LocationsDiffer DEF Completed
    <3>3. CASE Completed(p) \/ w.val = Absent
      <4>1. Completed(p)
        <5>1. SUFFICES ASSUME w.val = Absent PROVE Completed(p) BY <3>3
        <5>2. NeedsFirst(w, CompletedAt(p), Completion)
          BY <2>3, <5>1 DEF NeedsFirst
        <5>3. Due(CompletedAt(p)) BY LocationsDiffer DEF Due, CompletedAt
        <5>4. Stored(CompletedAt(p), Completion) BY <2>1, <5>2, <5>3
        <5> QED BY <5>4, LocationsDiffer, AbsentIsNoValue DEF Stored, Completed
      <4>2. StageOf(p)' = StageOf(p) BY <3>2, <4>1 DEF StageOf
      <4> QED BY <3>1, <4>2 DEF stageOfPosts, StageOf
    <3>4. CASE ~Completed(p) /\ w.val # Absent
      <4>1. Open(p)'
        BY <2>1, <2>3, <3>4, LocationType DEF Open
      <4>2. StageOf(p)' = "open" BY <3>2, <3>4, <4>1 DEF StageOf
      <4>3. CASE Open(p)
        <5>1. StageOf(p) = "open" BY <3>4, <4>3 DEF StageOf
        <5> QED BY <3>1, <4>2, <5>1 DEF stageOfPosts, StageOf
      <4>4. CASE ~Open(p)
        <5>1. stageOfPosts[p] = "unpublished"
          BY <3>4, <4>4 DEF stageOfPosts
        <5>2. stageOfPosts' = [stageOfPosts EXCEPT ![p] = "open"]
          BY <3>1, <4>2, OneStageMoves
        <5>3. Lifecycle!Open(p) BY <5>1, <5>2 DEF Lifecycle!Open
        <5> QED BY <5>3 DEF Lifecycle!LifecycleNext
      <4> QED BY <4>3, <4>4
    <3> QED BY <3>3, <3>4
  <2>4. ASSUME NEW p \in Post, w.loc = CompletedAt(p)
        PROVE  [Lifecycle!LifecycleNext]_stageOfPosts
    <3>1. \A q \in Post \ {p} : StageOf(q)' = StageOf(q)
      BY <2>2, <2>4, LocationsDiffer
    <3>2. w.val # Absent BY <2>1, <2>4, ValueOfWrite, AbsentIsNoValue
    <3>3. Completed(p)' BY <2>1, <2>4, <3>2, LocationType DEF Completed
    <3>4. StageOf(p)' = "done" BY <3>3 DEF StageOf
    <3>5. CASE Completed(p)
      <4>1. StageOf(p) = "done" BY <3>5 DEF StageOf
      <4> QED BY <3>1, <3>4, <4>1 DEF stageOfPosts, StageOf
    <3>6. CASE ~Completed(p)
      <4>1. NeedsFirst(w, PostAt(p), {Copy}) BY <2>4 DEF NeedsFirst, Uses
      <4>2. Due(PostAt(p)) BY LocationsDiffer DEF Due, PostAt
      <4>3. Stored(PostAt(p), {Copy}) BY <2>1, <4>1, <4>2
      <4>4. Open(p)
        <5>1. CASE db[PostAt(p)] = Copy BY <5>1, AbsentIsNoValue DEF Open
        <5>2. CASE p \in published
          BY <3>6, <5>2 DEF OrderInv, TreeSafe, NoPostLost
        <5> QED BY <4>3, <5>1, <5>2, LocationsDiffer DEF Stored
      <4>5. stageOfPosts[p] = "open" BY <3>6, <4>4 DEF stageOfPosts
      <4>6. stageOfPosts' = [stageOfPosts EXCEPT ![p] = "done"]
        BY <3>1, <3>4, OneStageMoves
      <4>7. Lifecycle!Finish(p) BY <4>5, <4>6 DEF Lifecycle!Finish
      <4> QED BY <4>7 DEF Lifecycle!LifecycleNext
    <3> QED BY <3>5, <3>6
  <2>5. CASE \A p \in Post : w.loc # PostAt(p) /\ w.loc # CompletedAt(p)
    BY <2>2, <2>5 DEF stageOfPosts, StageOf
  <2> QED BY <2>3, <2>4, <2>5
<1> QED BY <1>1, <1>2, OnlyApplyMovesTree

LEMMA LifecycleStart == Init => Lifecycle!LifecycleInit
<1> SUFFICES ASSUME Init PROVE Lifecycle!LifecycleInit OBVIOUS
<1>1. \A p \in Post : ~Completed(p)
  BY LocationType DEF Init, OldValue, CompletedAt, Completed
<1> QED BY <1>1 DEF Lifecycle!LifecycleInit, stageOfPosts

\* As long as the server takes the writes to posts/ and completed/, the
\* handlers implement the life cycle of a request: it is published, stays open
\* until it has been completed, and stays completed, whatever devices,
\* connections and processes do.
THEOREM ImplementsLifecycle ==
    ASSUME "completed" \notin Refusable, "posts" \notin Refusable
    PROVE  Spec => FollowsLifecycle
<1>1. Init => Lifecycle!LifecycleInit BY LifecycleStart
<1>2. TypeOK /\ OrderInv /\ [Next]_vars
         => [Lifecycle!LifecycleNext]_stageOfPosts
  BY LifecycleStep
<1> QED
  BY <1>1, <1>2, OrderAlways, PTL
  DEF Spec, FollowsLifecycle, Lifecycle!LifecycleSpec

-----------------------------------------------------------------------------
(***************************************************************************)
(* What PostBoard promises as long as no write is sent twice: without a    *)
(* lost connection and a killed process no completed post stays in         *)
(* posts/, and without a lost connection nobody's points fall.  Both       *)
(* depend on what is still outstanding: writes of one outbox are applied   *)
(* in their order and once, so an invariant can speak of the positions     *)
(* that the server has not reached yet.                                    *)
(***************************************************************************)

-----------------------------------------------------------------------------
(* How the positions of an outbox move.                                    *)

Pending(c) == {i \in 1 .. Len(outbox[c]) : i > applied[c]}

Takes(d) == ServerApply(d) \/ ServerRefuse(d)

\* Position i of the new outbox of d holds what was at g[i]: the order stays,
\* nothing becomes outstanding again, and only the next write stops being so.
Slides(d, g) ==
    /\ g \in [1 .. Len(outbox'[d]) -> 1 .. Len(outbox[d])]
    /\ \A i \in 1 .. Len(outbox'[d]) :
          /\ outbox'[d][i] = outbox[d][g[i]]
          /\ \A j \in 1 .. Len(outbox'[d]) : i < j => g[i] < g[j]
          /\ i > applied'[d] =>
                /\ g[i] > applied[d]
                /\ Takes(d) => g[i] # applied[d] + 1
          /\ \A k \in g[i] + 1 .. applied[d] :
                \E j \in i + 1 .. applied'[d] :
                   j \in 1 .. Len(outbox'[d]) /\ g[j] = k
    /\ \A k \in Pending(d) :
          \/ k = applied[d] + 1 /\ Takes(d)
          \/ \E i \in 1 .. Len(outbox'[d]) : i > applied'[d] /\ g[i] = k

LEMMA SlidesWhenUnchanged ==
    ASSUME NEW S, OutboxOf(S), NEW d \in Client, ~Takes(d),
           outbox'[d] = outbox[d], applied'[d] = applied[d]
    PROVE  \E g : Slides(d, g)
<1> DEFINE g == [i \in 1 .. Len(outbox[d]) |-> i]
<1>1. Len(outbox[d]) \in Nat /\ applied[d] \in Nat
      /\ applied[d] <= Len(outbox[d])
  BY LenProperties DEF OutboxOf
<1>2. Slides(d, g) BY <1>1 DEF Slides, Pending
<1> QED BY <1>2

\* Only the outbox of the device whose connection moves.
LEMMA TakesOnlyOwn ==
    ASSUME NEW S, OutboxOf(S), NEW c \in Client, NEW d \in Client, d # c,
           outbox'[d] = outbox[d], applied'[d] = applied[d]
    PROVE  ~Takes(d)
<1>1. Len(outbox[d]) \in Nat /\ applied[d] \in Nat
  BY LenProperties DEF OutboxOf
<1>2. ~ServerApply(d)
  <2>1. ServerApply(d) => applied'[d] = applied[d] + 1
    BY ServerApplyProperties
  <2> QED BY <1>1, <2>1
<1>3. ~ServerRefuse(d)
  <2>1. ServerRefuse(d) => Len(outbox'[d]) = Len(outbox[d]) - 1
    BY ServerRefuseProperties
  <2> QED BY <1>1, <2>1
<1> QED BY <1>2, <1>3 DEF Takes

LEMMA SlidesByApply ==
    ASSUME NEW S, OutboxOf(S), NEW c \in Client, ServerApply(c)
    PROVE  \E g : Slides(c, g)
<1> DEFINE g == [i \in 1 .. Len(outbox[c]) |-> i]
<1>1. /\ outbox' = outbox /\ applied'[c] = applied[c] + 1
      /\ applied[c] \in Nat /\ Len(outbox[c]) \in Nat
      /\ applied[c] + 1 \in 1 .. Len(outbox[c])
  BY ServerApplyProperties, LenProperties DEF OutboxOf
<1>2. /\ g \in [1 .. Len(outbox'[c]) -> 1 .. Len(outbox[c])]
      /\ \A i \in 1 .. Len(outbox'[c]) : g[i] = i
  BY <1>1
<1>3. \A k \in Pending(c) : k # applied[c] + 1 =>
          k \in 1 .. Len(outbox'[c]) /\ k > applied'[c] /\ g[k] = k
  BY <1>1, <1>2 DEF Pending
<1> HIDE DEF g
<1>4. \A i \in 1 .. Len(outbox'[c]) : \A k \in g[i] + 1 .. applied[c] :
          /\ k \in i + 1 .. applied'[c] /\ k \in 1 .. Len(outbox'[c])
          /\ g[k] = k
  BY <1>1, <1>2
<1>5. Slides(c, g) BY <1>1, <1>2, <1>3, <1>4 DEF Slides, Takes
<1> QED BY <1>5

LEMMA SlidesByRefuse ==
    ASSUME NEW S, OutboxOf(S), NEW c \in Client, ServerRefuse(c)
    PROVE  \E g : Slides(c, g)
<1> DEFINE n == applied[c]
           l == Len(outbox[c])
           g == [i \in 1 .. Len(outbox'[c]) |-> IF i <= n THEN i ELSE i + 1]
<1>1. /\ applied' = applied /\ n \in Nat /\ l \in Nat
      /\ n + 1 \in 1 .. l /\ Len(outbox'[c]) = l - 1
      /\ \A i \in 1 .. Len(outbox'[c]) :
            outbox'[c][i] = IF i <= n THEN outbox[c][i] ELSE outbox[c][i + 1]
  BY ServerRefuseProperties, LenProperties DEF OutboxOf
<1>2. g \in [1 .. Len(outbox'[c]) -> 1 .. l] BY <1>1
<1>3. ASSUME NEW i \in 1 .. Len(outbox'[c])
      PROVE  /\ outbox'[c][i] = outbox[c][g[i]]
             /\ \A j \in 1 .. Len(outbox'[c]) : i < j => g[i] < g[j]
             /\ i > n => g[i] > n /\ g[i] # n + 1
             /\ \A k \in g[i] + 1 .. n :
                  \E j \in i + 1 .. n : j \in 1 .. Len(outbox'[c]) /\ g[j] = k
  <2>1. ASSUME NEW k \in g[i] + 1 .. n
        PROVE  /\ k \in i + 1 .. n /\ k \in 1 .. Len(outbox'[c])
               /\ g[k] = k
    BY <1>1, <2>1
  <2>2. outbox'[c][i] = outbox[c][g[i]] BY <1>1
  <2>3. \A j \in 1 .. Len(outbox'[c]) : i < j => g[i] < g[j] BY <1>1
  <2>4. i > n => g[i] > n /\ g[i] # n + 1 BY <1>1
  <2> HIDE DEF g
  <2> QED BY <2>1, <2>2, <2>3, <2>4
<1>4. ASSUME NEW k \in Pending(c), k # n + 1
      PROVE  \E i \in 1 .. Len(outbox'[c]) : i > n /\ g[i] = k
  <2>1. k - 1 \in 1 .. Len(outbox'[c]) /\ k - 1 > n /\ g[k - 1] = k
    BY <1>1, <1>4 DEF Pending
  <2> QED BY <2>1
<1>5. applied'[c] = n BY <1>1
<1> HIDE DEF g
<1>6. Slides(c, g) BY <1>2, <1>3, <1>4, <1>5 DEF Slides, Takes
<1> QED BY <1>6

LEMMA SlidesByAcknowledge ==
    ASSUME NEW S, OutboxOf(S), NEW c \in Client, Acknowledge(c)
    PROVE  \E g : Slides(c, g)
<1> DEFINE n == applied[c]
           l == Len(outbox[c])
           g == [i \in 1 .. Len(outbox'[c]) |-> i + 1]
<1>1. /\ applied'[c] = n - 1 /\ n \in Nat /\ l \in Nat /\ n > 0 /\ n <= l
      /\ Len(outbox'[c]) = l - 1
      /\ \A i \in 1 .. Len(outbox'[c]) : outbox'[c][i] = outbox[c][i + 1]
  BY AcknowledgeProperties, LenProperties DEF OutboxOf, Acknowledge
<1>2. ~Takes(c)
  <2>1. ~ServerApply(c) BY <1>1, ServerApplyProperties
  <2>2. ~ServerRefuse(c) BY <1>1, ServerRefuseProperties
  <2> QED BY <2>1, <2>2 DEF Takes
<1>3. g \in [1 .. Len(outbox'[c]) -> 1 .. l] BY <1>1
<1>4. ASSUME NEW i \in 1 .. Len(outbox'[c])
      PROVE  /\ outbox'[c][i] = outbox[c][g[i]]
             /\ \A j \in 1 .. Len(outbox'[c]) : i < j => g[i] < g[j]
             /\ i > n - 1 => g[i] > n
             /\ \A k \in g[i] + 1 .. n :
                  \E j \in i + 1 .. n - 1 :
                     j \in 1 .. Len(outbox'[c]) /\ g[j] = k
  <2>1. ASSUME NEW k \in g[i] + 1 .. n
        PROVE  \E j \in i + 1 .. n - 1 :
                  j \in 1 .. Len(outbox'[c]) /\ g[j] = k
    <3>1. /\ k - 1 \in i + 1 .. n - 1 /\ k - 1 \in 1 .. Len(outbox'[c])
          /\ g[k - 1] = k
      BY <1>1, <2>1
    <3> QED BY <3>1
  <2> QED BY <1>1, <2>1
<1>5. ASSUME NEW k \in Pending(c)
      PROVE  \E i \in 1 .. Len(outbox'[c]) : i > n - 1 /\ g[i] = k
  <2>1. k - 1 \in 1 .. Len(outbox'[c]) /\ k - 1 > n - 1 /\ g[k - 1] = k
    BY <1>1, <1>5 DEF Pending
  <2> QED BY <2>1
<1> HIDE DEF g
<1>6. Slides(c, g) BY <1>1, <1>2, <1>3, <1>4, <1>5 DEF Slides
<1> QED BY <1>6

Moves(c) == ServerApply(c) \/ ServerRefuse(c) \/ Acknowledge(c)

LEMMA EveryoneSlides ==
    ASSUME NEW S, OutboxOf(S), NEW c \in Client, Moves(c)
    PROVE  \A d \in Client : \E g : Slides(d, g)
<1> SUFFICES ASSUME NEW d \in Client PROVE \E g : Slides(d, g) OBVIOUS
<1>1. CASE d = c
  BY <1>1, SlidesByApply, SlidesByRefuse, SlidesByAcknowledge DEF Moves
<1>2. CASE d # c
  <2>1. outbox'[d] = outbox[d] /\ applied'[d] = applied[d]
    BY <1>2, ServerApplyProperties, ServerRefuseProperties,
       AcknowledgeProperties DEF Moves
  <2> QED BY <1>2, <2>1, TakesOnlyOwn, SlidesWhenUnchanged
<1> QED BY <1>1, <1>2

-----------------------------------------------------------------------------
(* No ghosts.                                                              *)

Creates(w, p) == w.loc = PostAt(p) /\ w.val = Copy
Removes(w, p) == w.loc = PostAt(p) /\ w.val = Absent

\* A post is created by one write, which the server has yet to reach,
CreationsAhead ==
    \A p \in Post, c \in Client : \A i \in Pending(c) :
        Creates(outbox[c][i], p) =>
            /\ p \in minted \ published
            /\ \A d \in Client : \A j \in Pending(d) :
                  Creates(outbox[d][j], p) => d = c /\ j = i

\* or will be when its photo has been stored.
UploadsAhead ==
    \A c \in Client : \A p \in uploading[c] :
        /\ p \in minted \ published
        /\ \A d \in Client \ {c} : p \notin uploading[d]
        /\ \A d \in Client : \A j \in Pending(d) : ~Creates(outbox[d][j], p)

\* Behind a completion comes the removal of the post,
RemovalsBehind ==
    \A p \in Post, c \in Client : \A i \in Pending(c) :
        outbox[c][i].loc = CompletedAt(p) =>
            \E j \in Pending(c) : j > i /\ Removes(outbox[c][j], p)

\* and while a completed post is still open that removal is under way.
GhostsLeave ==
    \A p \in Post : Open(p) /\ Completed(p) =>
        \E c \in Client : \E j \in Pending(c) : Removes(outbox[c][j], p)

Leaving ==
    /\ published \subseteq minted
    /\ CreationsAhead /\ UploadsAhead /\ RemovalsBehind /\ GhostsLeave

\* The inductive invariant.
GhostInv == drops = 0 /\ kills = 0 => Leaving

LEMMA LeavingQuiet ==
    ASSUME Leaving, UNCHANGED <<dbVars, uploading, minted, published>>
    PROVE  Leaving'
BY DEF Leaving, CreationsAhead, UploadsAhead, RemovalsBehind, GhostsLeave,
   Pending, Open, Completed, dbVars

\* The connection of c delivers, refuses or acknowledges a write.
LEMMA LeavingMoves ==
    ASSUME TypeOK, OrderInv, "posts" \notin Refusable, Leaving,
           NEW c \in Client, Moves(c), Delivers(c), UNCHANGED <<uploading, minted>>,
           published \subseteq published',
           \A p \in Post : p \in published' \ published
              => ServerApply(c) /\ Creates(NextWrite(c), p),
           published' \subseteq Post
    PROVE  Leaving'
<1>1. OutboxOf(AnyWrite) BY TreeTyped
<1>2. \A d \in Client : \E g : Slides(d, g) BY <1>1, EveryoneSlides
<1>3. ASSUME ServerApply(c)
      PROVE  applied[c] + 1 \in Pending(c)
             /\ NextWrite(c) = outbox[c][applied[c] + 1]
  BY <1>1, <1>3, ServerApplyProperties DEF Pending, OutboxOf
\* Where an outstanding write was before.
<1>4. ASSUME NEW d \in Client, NEW g, Slides(d, g), NEW i \in Pending(d)'
      PROVE  /\ g[i] \in Pending(d) /\ outbox'[d][i] = outbox[d][g[i]]
             /\ Takes(d) => g[i] # applied[d] + 1
  BY <1>4 DEF Slides, Pending
<1>5. ASSUME NEW p \in Post, NEW d \in Client, NEW i \in Pending(d)',
             Creates(outbox'[d][i], p)
      PROVE  p \in minted \ published'
  <2>1. PICK g : Slides(d, g) BY <1>2
  <2>2. /\ g[i] \in Pending(d) /\ Creates(outbox[d][g[i]], p)
        /\ Takes(d) => g[i] # applied[d] + 1
    BY <1>4, <1>5, <2>1
  <2>3. p \in minted \ published BY <2>2 DEF Leaving, CreationsAhead
  <2>4. SUFFICES ASSUME p \in published' PROVE FALSE BY <2>3
  <2>5. ServerApply(c) /\ Creates(NextWrite(c), p) BY <2>3, <2>4
  <2>6. d = c /\ g[i] = applied[c] + 1
    BY <1>3, <2>2, <2>5 DEF Leaving, CreationsAhead
  <2> QED BY <2>2, <2>5, <2>6 DEF Takes
<1>6. CreationsAhead'
  <2> SUFFICES ASSUME NEW p \in Post, NEW d \in Client, NEW i \in Pending(d)',
                      Creates(outbox'[d][i], p),
                      NEW e \in Client, NEW j \in Pending(e)',
                      Creates(outbox'[e][j], p)
               PROVE  e = d /\ j = i
    BY <1>5 DEF CreationsAhead, Creates
  <2>1. PICK g : Slides(d, g) BY <1>2
  <2>2. PICK h : Slides(e, h) BY <1>2
  <2>3. g[i] \in Pending(d) /\ Creates(outbox[d][g[i]], p) BY <1>4, <2>1
  <2>4. h[j] \in Pending(e) /\ Creates(outbox[e][h[j]], p) BY <1>4, <2>2
  <2>5. e = d BY <2>3, <2>4 DEF Leaving, CreationsAhead
  <2>6. g[j] \in Pending(d) /\ Creates(outbox[d][g[j]], p)
    BY <1>4, <2>1, <2>5
  <2>7. g[i] = g[j] BY <2>3, <2>6 DEF Leaving, CreationsAhead
  <2>8. i \in Int /\ j \in Int /\ i \in 1 .. Len(outbox'[d])
        /\ j \in 1 .. Len(outbox'[d])
    BY <2>5 DEF Pending
  <2>9. ~(i < j) /\ ~(j < i)
    <3>1. g[i] \in Int /\ g[j] \in Int BY <2>3, <2>6 DEF Pending
    <3>2. (i < j => g[i] < g[j]) /\ (j < i => g[j] < g[i])
      BY <2>1, <2>8 DEF Slides
    <3> QED BY <2>7, <3>1, <3>2
  <2> QED BY <2>5, <2>8, <2>9
<1>7. UploadsAhead'
  <2> SUFFICES ASSUME NEW d \in Client, NEW p \in uploading[d]
               PROVE  /\ p \in minted \ published'
                      /\ \A e \in Client \ {d} : p \notin uploading[e]
                      /\ \A e \in Client : \A j \in Pending(e)' :
                            ~Creates(outbox'[e][j], p)
    BY DEF UploadsAhead, Creates
  <2>1. /\ p \in minted \ published
        /\ \A e \in Client \ {d} : p \notin uploading[e]
        /\ \A e \in Client : \A j \in Pending(e) : ~Creates(outbox[e][j], p)
    BY DEF Leaving, UploadsAhead
  <2>2. p \in Post BY DEF TypeOK, SessionType
  <2>3. p \notin published' BY <1>3, <2>1, <2>2
  <2>4. ASSUME NEW e \in Client, NEW j \in Pending(e)'
        PROVE  ~Creates(outbox'[e][j], p)
    <3>1. PICK g : Slides(e, g) BY <1>2
    <3> QED BY <1>4, <2>1, <3>1
  <2> QED BY <2>1, <2>3, <2>4
\* What stands behind an outstanding write stays behind it,
<1>8. ASSUME NEW d \in Client, NEW g, Slides(d, g), NEW p,
             NEW k \in Pending(d), NEW l \in Pending(d), l > k,
             Removes(outbox[d][l], p)
      PROVE  \E j \in Pending(d)' : Removes(outbox'[d][j], p) /\ g[j] = l
  <2>1. l # applied[d] + 1
    <3>1. applied[d] \in Nat /\ k \in Int /\ l \in Int
      BY <1>1 DEF OutboxOf, Pending
    <3> QED BY <1>8, <3>1 DEF Pending
  <2>2. PICK j \in 1 .. Len(outbox'[d]) : j > applied'[d] /\ g[j] = l
    BY <1>8, <2>1 DEF Slides
  <2>3. j \in Pending(d)' BY <2>2 DEF Pending
  <2>4. outbox'[d][j] = outbox[d][l] BY <1>8, <2>2 DEF Slides
  <2> QED BY <1>8, <2>2, <2>3, <2>4
<1>9. RemovalsBehind'
  <2> SUFFICES ASSUME NEW p \in Post, NEW d \in Client, NEW i \in Pending(d)',
                      outbox'[d][i].loc = CompletedAt(p)
               PROVE  \E j \in Pending(d)' : j > i /\ Removes(outbox'[d][j], p)
    BY DEF RemovalsBehind, Removes
  <2>1. PICK g : Slides(d, g) BY <1>2
  <2>2. g[i] \in Pending(d) /\ outbox[d][g[i]].loc = CompletedAt(p)
    BY <1>4, <2>1
  <2>3. PICK l \in Pending(d) : l > g[i] /\ Removes(outbox[d][l], p)
    BY <2>2 DEF Leaving, RemovalsBehind
  <2>4. PICK j \in Pending(d)' : Removes(outbox'[d][j], p) /\ g[j] = l
    BY <1>8, <2>1, <2>2, <2>3
  <2>5. j > i
    <3>1. i \in 1 .. Len(outbox'[d]) /\ j \in 1 .. Len(outbox'[d])
      BY DEF Pending
    <3>2. j < i => g[j] < g[i] BY <2>1, <3>1 DEF Slides
    <3>3. g[i] \in Int /\ l \in Int BY <2>2 DEF Pending
    <3> QED BY <2>3, <2>4, <3>1, <3>2, <3>3
  <2> QED BY <2>4, <2>5
\* and is still to come when the write has been applied.
<1>10. ASSUME NEW p \in Post, NEW d \in Client, NEW l \in Pending(d),
              Removes(outbox[d][l], p), ~(l = applied[d] + 1 /\ Takes(d))
       PROVE  \E j \in Pending(d)' : Removes(outbox'[d][j], p)
  <2>1. PICK g : Slides(d, g) BY <1>2
  <2>2. PICK j \in 1 .. Len(outbox'[d]) : j > applied'[d] /\ g[j] = l
    BY <1>10, <2>1 DEF Slides
  <2>3. j \in Pending(d)' BY <2>2 DEF Pending
  <2>4. outbox'[d][j] = outbox[d][l] BY <2>1, <2>2 DEF Slides
  <2> QED BY <1>10, <2>3, <2>4
<1>11. GhostsLeave'
  <2> SUFFICES ASSUME NEW p \in Post, Open(p)', Completed(p)'
               PROVE  \E d \in Client : \E j \in Pending(d)' :
                         Removes(outbox'[d][j], p)
    BY DEF GhostsLeave, Removes
  <2>1. CASE Open(p) /\ Completed(p)
    <3>1. PICK d \in Client : \E l \in Pending(d) : Removes(outbox[d][l], p)
      BY <2>1 DEF Leaving, GhostsLeave
    <3>2. PICK l \in Pending(d) : Removes(outbox[d][l], p) BY <3>1
    <3>3. ~(l = applied[d] + 1 /\ Takes(d))
      <4> SUFFICES ASSUME l = applied[d] + 1, Takes(d) PROVE FALSE OBVIOUS
      <4>1. NextWrite(d) = outbox[d][l] BY DEF NextWrite
      <4>2. CASE ServerApply(d)
        <5>1. db'[PostAt(p)] = Absent
          BY <3>2, <4>1, <4>2, AppliedInOrder, LocationType
          DEF Removes, OrderInv
        <5> QED BY <5>1 DEF Open
      <4>3. CASE ServerRefuse(d)
        <5>1. ServerRefuse(c) /\ d = c BY <4>3, OnlyOneMoves DEF Under
        <5>2. NextWrite(d).loc[1] \in Refusable BY <5>1 DEF Delivers
        <5> QED BY <3>2, <4>1, <5>2 DEF Removes, PostAt
      <4> QED BY <4>2, <4>3 DEF Takes
    <3> QED BY <1>10, <3>2, <3>3
  <2>2. CASE ~(Open(p) /\ Completed(p))
    <3>1. db' # db BY <2>2 DEF Open, Completed
    <3>2. ServerApply(c) BY <3>1, TreeUnlessApplied DEF Under
    <3>3. /\ NextWrite(c) \in AnyWrite
          /\ \A loc \in Location :
                db'[loc] = IF loc = NextWrite(c).loc THEN NextWrite(c).val
                           ELSE db[loc]
          /\ PostAt(p) \in Location /\ CompletedAt(p) \in Location
      BY <3>2, AppliedInOrder, LocationType DEF OrderInv
    <3>4. CASE ~Open(p)
      <4>1. NextWrite(c).loc = PostAt(p) BY <3>3, <3>4 DEF Open
      <4>2. NextWrite(c).val = Copy
        BY <3>3, <4>1, ValueOfWrite DEF Open
      <4>3. p \notin published
        BY <1>3, <3>2, <4>1, <4>2 DEF Leaving, CreationsAhead, Creates
      <4>4. ~Completed(p) BY <4>3 DEF OrderInv, TreeSafe, PostedBeforeUse
      <4> QED BY <3>3, <4>1, <4>4, LocationsDiffer DEF Completed
    <3>5. CASE ~Completed(p)
      <4>1. NextWrite(c).loc = CompletedAt(p) BY <3>3, <3>5 DEF Completed
      <4>2. PICK l \in Pending(c) :
               l > applied[c] + 1 /\ Removes(outbox[c][l], p)
        BY <1>3, <3>2, <4>1 DEF Leaving, RemovalsBehind
      <4>3. l # applied[c] + 1
        <5>1. applied[c] \in Nat /\ l \in Int BY <1>1 DEF OutboxOf, Pending
        <5> QED BY <4>2, <5>1
      <4> QED BY <1>10, <4>2, <4>3
    <3> QED BY <2>2, <3>4, <3>5
  <2> QED BY <2>1, <2>2
<1>12. published' \subseteq minted
  <2> SUFFICES ASSUME NEW p \in published' PROVE p \in minted OBVIOUS
  <2>1. CASE p \in published BY <2>1 DEF Leaving
  <2>2. CASE p \notin published
    <3>1. ServerApply(c) /\ Creates(NextWrite(c), p) /\ p \in Post BY <2>2
    <3> QED BY <1>3, <3>1 DEF Leaving, CreationsAhead
  <2> QED BY <2>1, <2>2
<1> QED BY <1>6, <1>7, <1>9, <1>11, <1>12 DEF Leaving

\* A tap that issues writes, none of them a creation, and a removal behind
\* every completion.
LEMMA LeavingIssue ==
    ASSUME TypeOK, Leaving, NEW c \in Client, NEW ws \in Seq(AnyWrite),
           Issue(c, ws), UNCHANGED <<uploading, minted, published>>,
           \A j \in 1 .. Len(ws), p \in Post :
              /\ ~Creates(ws[j], p)
              /\ ws[j].loc = CompletedAt(p) =>
                    \E m \in j + 1 .. Len(ws) : Removes(ws[m], p)
    PROVE  Leaving'
<1>1. OutboxOf(AnyWrite) BY TreeTyped
<1>2. /\ db' = db /\ applied' = applied
      /\ applied[c] \in Nat /\ Len(outbox[c]) \in Nat /\ Len(ws) \in Nat
      /\ applied[c] <= Len(outbox[c])
      /\ Len(outbox'[c]) = Len(outbox[c]) + Len(ws)
      /\ \A i \in 1 .. Len(outbox[c]) : outbox'[c][i] = outbox[c][i]
      /\ \A i \in 1 .. Len(ws) : outbox'[c][Len(outbox[c]) + i] = ws[i]
      /\ \A d \in Client \ {c} : outbox'[d] = outbox[d]
  BY <1>1, IssueProperties, LenProperties DEF OutboxOf
\* What was outstanding still is,
<1>3. ASSUME NEW d \in Client, NEW i \in Pending(d)
      PROVE  i \in Pending(d)' /\ outbox'[d][i] = outbox[d][i]
  BY <1>2 DEF Pending
\* and the rest is new.
<1>4. ASSUME NEW d \in Client, NEW i \in Pending(d)'
      PROVE  \/ i \in Pending(d) /\ outbox'[d][i] = outbox[d][i]
             \/ /\ d = c
                /\ \E j \in 1 .. Len(ws) :
                      i = Len(outbox[c]) + j /\ outbox'[c][i] = ws[j]
  <2>1. CASE d # c
    <3>1. outbox'[d] = outbox[d] BY <1>2, <2>1
    <3> QED BY <1>2, <3>1 DEF Pending
  <2>2. CASE d = c
    <3>1. i \in 1 .. Len(outbox'[c]) /\ i > applied[c]
      BY <1>2, <2>2 DEF Pending
    <3>2. CASE i \in 1 .. Len(outbox[c])
      BY <1>2, <2>2, <3>1, <3>2 DEF Pending
    <3>3. CASE i \notin 1 .. Len(outbox[c])
      <4>1. \/ i \in 1 .. Len(outbox[c]) /\ outbox'[c][i] = outbox[c][i]
            \/ \E j \in 1 .. Len(ws) :
                  i = Len(outbox[c]) + j /\ outbox'[c][i] = ws[j]
        BY <1>1, <3>1, IssuedWrites
      <4> QED BY <2>2, <3>3, <4>1
    <3> QED BY <3>2, <3>3
  <2> QED BY <2>1, <2>2
<1>5. ASSUME NEW d \in Client, NEW i \in Pending(d)', NEW p \in Post,
             Creates(outbox'[d][i], p)
      PROVE  i \in Pending(d) /\ Creates(outbox[d][i], p)
  BY <1>4, <1>5
<1>6. CreationsAhead'
  BY <1>5 DEF Leaving, CreationsAhead, Creates
<1>7. UploadsAhead'
  <2>1. \A d \in Client : uploading[d] \subseteq Post
    BY DEF TypeOK, SessionType
  <2> QED BY <1>5, <2>1 DEF Leaving, UploadsAhead, Creates
<1>8. RemovalsBehind'
  <2> SUFFICES ASSUME NEW p \in Post, NEW d \in Client, NEW i \in Pending(d)',
                      outbox'[d][i].loc = CompletedAt(p)
               PROVE  \E j \in Pending(d)' : j > i /\ Removes(outbox'[d][j], p)
    BY DEF RemovalsBehind, Removes
  <2>1. CASE i \in Pending(d) /\ outbox'[d][i] = outbox[d][i]
    <3>1. PICK j \in Pending(d) : j > i /\ Removes(outbox[d][j], p)
      BY <2>1 DEF Leaving, RemovalsBehind
    <3> QED BY <1>3, <3>1
  <2>2. CASE /\ d = c
             /\ \E j \in 1 .. Len(ws) :
                   i = Len(outbox[c]) + j /\ outbox'[c][i] = ws[j]
    <3>1. PICK j \in 1 .. Len(ws) :
             i = Len(outbox[c]) + j /\ outbox'[c][i] = ws[j]
      BY <2>2
    <3>2. PICK m \in j + 1 .. Len(ws) : Removes(ws[m], p) BY <2>2, <3>1
    <3>3. /\ m \in 1 .. Len(ws)
          /\ Len(outbox[c]) + m > i
          /\ Len(outbox[c]) + m \in 1 .. Len(outbox'[c])
          /\ Len(outbox[c]) + m > applied'[c]
      BY <1>2, <3>1, <3>2
    <3>4. Len(outbox[c]) + m \in Pending(c)' BY <3>3 DEF Pending
    <3>5. outbox'[c][Len(outbox[c]) + m] = ws[m] BY <1>2, <3>3
    <3> QED BY <2>2, <3>2, <3>3, <3>4, <3>5
  <2> QED BY <1>4, <2>1, <2>2
<1>9. GhostsLeave'
  <2> SUFFICES ASSUME NEW p \in Post, Open(p), Completed(p)
               PROVE  \E d \in Client : \E j \in Pending(d)' :
                         Removes(outbox'[d][j], p)
    BY <1>2 DEF GhostsLeave, Removes, Open, Completed
  <2>1. PICK d \in Client : \E j \in Pending(d) : Removes(outbox[d][j], p)
    BY DEF Leaving, GhostsLeave
  <2> QED BY <1>3, <2>1
<1> QED BY <1>6, <1>7, <1>8, <1>9 DEF Leaving

\* The upload of a photo ends and its post is written.
LEMMA LeavingUpload ==
    ASSUME TypeOK, Leaving, NEW c \in Client, NEW p \in Post, UploadDone(c, p)
    PROVE  Leaving'
<1> DEFINE n == Len(outbox[c]) + 1
<1>1. OutboxOf(AnyWrite) BY TreeTyped
<1>2. /\ Issue(c, <<CreatePost(p)>>) /\ p \in uploading[c]
      /\ uploading' = [uploading EXCEPT ![c] = @ \ {p}]
      /\ UNCHANGED <<minted, published>>
  BY DEF UploadDone, EndUpload, historyVars
<1>3. /\ <<CreatePost(p)>> \in Seq(AnyWrite) /\ Len(<<CreatePost(p)>>) = 1
      /\ <<CreatePost(p)>>[1] = CreatePost(p)
  BY HandlerWrites DEF TypeOK
<1>4. /\ db' = db /\ applied' = applied
      /\ applied[c] \in Nat /\ Len(outbox[c]) \in Nat
      /\ applied[c] <= Len(outbox[c])
      /\ Len(outbox'[c]) = n
      /\ \A i \in 1 .. Len(outbox[c]) : outbox'[c][i] = outbox[c][i]
      /\ outbox'[c][n] = CreatePost(p)
      /\ \A d \in Client \ {c} : outbox'[d] = outbox[d]
  <2> DEFINE ws == <<CreatePost(p)>>
  <2>1. ws \in Seq(AnyWrite) /\ Len(ws) = 1 /\ ws[1] = CreatePost(p)
        /\ Issue(c, ws)
    BY <1>2, <1>3
  <2> HIDE DEF ws
  <2>2. /\ db' = db /\ applied' = applied
        /\ Len(outbox'[c]) = Len(outbox[c]) + Len(ws)
        /\ \A i \in 1 .. Len(outbox[c]) : outbox'[c][i] = outbox[c][i]
        /\ \A i \in 1 .. Len(ws) : outbox'[c][Len(outbox[c]) + i] = ws[i]
        /\ \A d \in Client \ {c} : outbox'[d] = outbox[d]
    BY <1>1, <2>1, IssueProperties
  <2>3. applied[c] \in Nat /\ Len(outbox[c]) \in Nat
        /\ applied[c] <= Len(outbox[c])
    BY <1>1, LenProperties DEF OutboxOf
  <2> QED BY <2>1, <2>2, <2>3
<1>5. ASSUME NEW d \in Client, NEW i \in Pending(d)
      PROVE  i \in Pending(d)' /\ outbox'[d][i] = outbox[d][i]
  BY <1>4 DEF Pending
<1>6. ASSUME NEW d \in Client, NEW i \in Pending(d)'
      PROVE  \/ i \in Pending(d) /\ outbox'[d][i] = outbox[d][i]
             \/ d = c /\ i = n /\ outbox'[d][i] = CreatePost(p)
  BY <1>4 DEF Pending
<1>7. /\ p \in minted \ published
      /\ \A d \in Client \ {c} : p \notin uploading[d]
      /\ \A d \in Client : \A j \in Pending(d) : ~Creates(outbox[d][j], p)
  BY <1>2 DEF Leaving, UploadsAhead
<1>8. \A q \in Post : Creates(CreatePost(p), q) <=> q = p
  BY LocationsDiffer DEF Creates, CreatePost, Write
<1> HIDE DEF n
<1>9. ASSUME NEW q \in Post, NEW d \in Client, NEW i \in Pending(d)',
             Creates(outbox'[d][i], q)
      PROVE  \/ q = p /\ d = c /\ i = n
             \/ q # p /\ i \in Pending(d) /\ Creates(outbox[d][i], q)
  BY <1>6, <1>7, <1>8, <1>9
<1>10. CreationsAhead'
  <2> SUFFICES ASSUME NEW q \in Post, NEW d \in Client, NEW i \in Pending(d)',
                      Creates(outbox'[d][i], q)
               PROVE  /\ q \in minted \ published
                      /\ \A e \in Client : \A j \in Pending(e)' :
                            Creates(outbox'[e][j], q) => e = d /\ j = i
    BY <1>2 DEF CreationsAhead, Creates
  <2>1. CASE q = p BY <1>7, <1>9, <2>1
  <2>2. CASE q # p
    BY <1>9, <2>2 DEF Leaving, CreationsAhead
  <2> QED BY <2>1, <2>2
<1>11. UploadsAhead'
  <2> SUFFICES ASSUME NEW d \in Client, NEW q \in uploading'[d]
               PROVE  /\ q \in minted \ published
                      /\ \A e \in Client \ {d} : q \notin uploading'[e]
                      /\ \A e \in Client : \A j \in Pending(e)' :
                            ~Creates(outbox'[e][j], q)
    BY <1>2 DEF UploadsAhead, Creates
  <2>1. \A e \in Client : uploading'[e] \subseteq uploading[e]
    BY <1>2 DEF TypeOK, SessionType
  <2>2. q \in uploading[d] /\ q \in Post
    BY <2>1 DEF TypeOK, SessionType
  <2>3. q # p BY <1>2, <1>7, <2>2 DEF TypeOK, SessionType
  <2> QED BY <1>9, <2>1, <2>2, <2>3 DEF Leaving, UploadsAhead
<1>12. RemovalsBehind'
  <2> SUFFICES ASSUME NEW q \in Post, NEW d \in Client, NEW i \in Pending(d)',
                      outbox'[d][i].loc = CompletedAt(q)
               PROVE  \E j \in Pending(d)' : j > i /\ Removes(outbox'[d][j], q)
    BY DEF RemovalsBehind, Removes
  <2>1. i \in Pending(d) /\ outbox'[d][i] = outbox[d][i]
    BY <1>6, LocationsDiffer DEF CreatePost, Write
  <2>2. PICK j \in Pending(d) : j > i /\ Removes(outbox[d][j], q)
    BY <2>1 DEF Leaving, RemovalsBehind
  <2> QED BY <1>5, <2>2
<1>13. GhostsLeave'
  <2> SUFFICES ASSUME NEW q \in Post, Open(q), Completed(q)
               PROVE  \E d \in Client : \E j \in Pending(d)' :
                         Removes(outbox'[d][j], q)
    BY <1>4 DEF GhostsLeave, Removes, Open, Completed
  <2>1. PICK d \in Client : \E j \in Pending(d) : Removes(outbox[d][j], q)
    BY DEF Leaving, GhostsLeave
  <2> QED BY <1>5, <2>1
<1> QED BY <1>2, <1>10, <1>11, <1>12, <1>13 DEF Leaving

\* An upload that fails, and a tap on Submit, leave the outboxes alone.
LEMMA LeavingOtherUploads ==
    ASSUME TypeOK, Leaving, NEW c \in Client, NEW p \in Post,
           Submit(c, p) \/ UploadFails(c, p)
    PROVE  Leaving'
<1>1. UNCHANGED dbVars /\ published' = published /\ minted \subseteq minted'
  BY DEF Submit, UploadFails, EndUpload, historyVars
<1>2. ASSUME NEW d \in Client, NEW q \in uploading'[d]
      PROVE  /\ q \in minted' \ published /\ q \in Post
             /\ \A e \in Client \ {d} : q \notin uploading'[e]
             /\ \A e \in Client : \A j \in Pending(e) :
                   ~Creates(outbox[e][j], q)
  <2>1. CASE q \in uploading[d] /\ ~(Submit(c, p) /\ q = p)
    <3>1. \A e \in Client : q \in uploading'[e] => q \in uploading[e]
      BY <2>1 DEF Submit, UploadFails, EndUpload, TypeOK, SessionType
    <3> QED BY <1>1, <2>1, <3>1 DEF Leaving, UploadsAhead, TypeOK, SessionType
  <2>2. CASE Submit(c, p) /\ q = p
    <3>1. p \notin minted /\ minted' = minted \cup {p}
          /\ uploading' = [uploading EXCEPT ![c] = @ \cup {p}]
      BY <2>2 DEF Submit
    <3>2. \A e \in Client : p \notin uploading[e]
      BY <3>1 DEF Leaving, UploadsAhead
    <3>3. \A e \in Client : p \in uploading'[e] => e = c
      BY <3>1, <3>2 DEF TypeOK, SessionType
    <3> QED
      BY <2>2, <1>2, <3>1, <3>3 DEF Leaving, CreationsAhead
  <2>3. q \in uploading[d] \/ (Submit(c, p) /\ q = p)
    BY DEF Submit, UploadFails, EndUpload, TypeOK, SessionType
  <2> QED BY <2>1, <2>2, <2>3
<1>3. UploadsAhead'
  BY <1>1, <1>2 DEF UploadsAhead, Pending, Creates, dbVars
<1>4. CreationsAhead' /\ RemovalsBehind' /\ GhostsLeave'
  BY <1>1
  DEF Leaving, CreationsAhead, RemovalsBehind, GhostsLeave, Pending, Creates,
      Removes, Open, Completed, dbVars
<1> QED BY <1>1, <1>3, <1>4 DEF Leaving

\* What the handlers issue: no creations, and removals behind completions.
LEMMA HandlersRemove ==
    ASSUME NEW c \in Client, NEW p \in Post, NEW ws,
           ws \in {<<Pin(user[c], p)>>, <<Unpin(user[c], p)>>,
                   HomeCheckWrites(c, p), FavCheckWrites(c, p)}
    PROVE  \A j \in 1 .. Len(ws), q \in Post :
              /\ ~Creates(ws[j], q)
              /\ ws[j].loc = CompletedAt(q) =>
                    \E m \in j + 1 .. Len(ws) : Removes(ws[m], q)
<1> USE LocationsDiffer, AbsentIsNoValue
    DEF Creates, Removes, Pin, Unpin, Complete, RemovePost, SetKarma, Write
<1>1. CASE ws = <<Pin(user[c], p)>> \/ ws = <<Unpin(user[c], p)>>
  <2>1. \A j \in 1 .. Len(ws) : ws[j] \in {Pin(user[c], p), Unpin(user[c], p)}
    BY <1>1
  <2> QED BY <2>1
<1>2. CASE ws = HomeCheckWrites(c, p)
  <2>1. /\ Len(ws) = 2 /\ ws[1] = Complete(p, user[c], "uid")
        /\ ws[2] = RemovePost(p)
    BY <1>2 DEF HomeCheckWrites
  <2>2. ASSUME NEW j \in 1 .. Len(ws), NEW q \in Post
        PROVE  ~Creates(ws[j], q)
    <3>1. j = 1 \/ j = 2 BY <2>1
    <3> QED BY <2>1, <3>1
  <2>3. ASSUME NEW j \in 1 .. Len(ws), NEW q \in Post,
               ws[j].loc = CompletedAt(q)
        PROVE  \E m \in j + 1 .. Len(ws) : Removes(ws[m], q)
    <3>1. j = 1 \/ j = 2 BY <2>1
    <3>2. j = 1 /\ q = p BY <2>1, <2>3, <3>1
    <3>3. 2 \in j + 1 .. Len(ws) BY <2>1, <3>2
    <3>4. Removes(ws[2], q) BY <2>1, <3>2
    <3> QED BY <3>3, <3>4
  <2> QED BY <2>2, <2>3
<1>3. CASE ws = FavCheckWrites(c, p)
  <2>1. /\ Len(ws) = 4
        /\ ws[1] = SetKarma(user[c], me[c] + KarmaAward)
        /\ ws[2] = Complete(p, asked[c], "username")
        /\ ws[3] = Unpin(user[c], p) /\ ws[4] = RemovePost(p)
    BY <1>3 DEF FavCheckWrites
  <2>2. ASSUME NEW j \in 1 .. Len(ws), NEW q \in Post
        PROVE  ~Creates(ws[j], q)
    <3>1. j = 1 \/ j = 2 \/ j = 3 \/ j = 4 BY <2>1
    <3> QED BY <2>1, <3>1
  <2>3. ASSUME NEW j \in 1 .. Len(ws), NEW q \in Post,
               ws[j].loc = CompletedAt(q)
        PROVE  \E m \in j + 1 .. Len(ws) : Removes(ws[m], q)
    <3>1. j = 1 \/ j = 2 \/ j = 3 \/ j = 4 BY <2>1
    <3>2. j = 2 /\ q = p BY <2>1, <2>3, <3>1
    <3>3. 4 \in j + 1 .. Len(ws) BY <2>1, <3>2
    <3>4. Removes(ws[4], q) BY <2>1, <3>2
    <3> QED BY <3>3, <3>4
  <2> QED BY <2>2, <2>3
<1> QED BY <1>1, <1>2, <1>3

\* A process that ends counts, and so does a lost connection.
LEMMA BoundsCount ==
    ASSUME TypeOK, NEW c \in Client
    PROVE  Restart(c) => kills' # 0 /\ (Drop(c) => drops' # 0)
BY DEF TypeOK, HistoryType, Restart, Drop

LEMMA GhostTouch ==
    ASSUME TypeOK, Leaving, NEW c \in Client, Touch(c)
    PROVE  Leaving' \/ kills' # 0
<1>1. ASSUME \/ \E u \in User : Login(c, u) \/ SignIn(c, u)
             \/ LoginAgain(c) \/ Logout(c) \/ Scroll(c) \/ OpenPinned(c)
      PROVE  Leaving'
  <2>1. UNCHANGED <<dbVars, uploading, minted, published>>
    BY <1>1 DEF Login, SignIn, LoginAgain, Logout, Scroll, OpenPinned,
       historyVars
  <2> QED BY <2>1, LeavingQuiet
<1>2. ASSUME NEW p \in Post, Submit(c, p) PROVE Leaving'
  BY <1>2, LeavingOtherUploads
<1>3. ASSUME NEW p \in Post, NEW ws, Issue(c, ws), user[c] \in User,
             \/ HomePin(c, p) /\ ws = <<Pin(user[c], p)>>
             \/ HomeUnpin(c, p) /\ ws = <<Unpin(user[c], p)>>
             \/ HomeCheck(c, p) /\ ws = HomeCheckWrites(c, p)
             \/ FavCheck(c, p) /\ ws = FavCheckWrites(c, p)
      PROVE  Leaving'
  <2>1. UNCHANGED <<uploading, minted, published>>
    BY <1>3 DEF HomePin, HomeUnpin, HomeCheck, FavCheck, historyVars
  <2>2. ws \in Seq(AnyWrite)
    <3>1. /\ <<Pin(user[c], p)>> \in Seq(AnyWrite)
          /\ <<Unpin(user[c], p)>> \in Seq(AnyWrite)
          /\ HomeCheckWrites(c, p) \in Seq(AnyWrite)
          /\ me[c] # Absent => FavCheckWrites(c, p) \in Seq(AnyWrite)
      BY <1>3, HandlerWrites DEF TypeOK
    <3>2. FavCheck(c, p) => me[c] # Absent BY DEF FavCheck
    <3>3. CASE HomePin(c, p) /\ ws = <<Pin(user[c], p)>> BY <3>1, <3>3
    <3>4. CASE HomeUnpin(c, p) /\ ws = <<Unpin(user[c], p)>> BY <3>1, <3>4
    <3>5. CASE HomeCheck(c, p) /\ ws = HomeCheckWrites(c, p) BY <3>1, <3>5
    <3>6. CASE FavCheck(c, p) /\ ws = FavCheckWrites(c, p)
      BY <3>1, <3>2, <3>6
    <3> QED BY <1>3, <3>3, <3>4, <3>5, <3>6, Zenon
  <2>3. ws \in {<<Pin(user[c], p)>>, <<Unpin(user[c], p)>>,
                HomeCheckWrites(c, p), FavCheckWrites(c, p)}
    BY <1>3
  <2>4. \A j \in 1 .. Len(ws), q \in Post :
           /\ ~Creates(ws[j], q)
           /\ ws[j].loc = CompletedAt(q) =>
                 \E m \in j + 1 .. Len(ws) : Removes(ws[m], q)
    BY <2>3, HandlersRemove
  <2> QED BY <1>3, <2>1, <2>2, <2>4, LeavingIssue
<1>4. ASSUME NEW p \in Post,
             HomePin(c, p) \/ HomeUnpin(c, p) \/ HomeCheck(c, p) \/ FavCheck(c, p)
      PROVE  Leaving'
  <2>1. user[c] \in User
    BY <1>4, SomebodySignedIn
    DEF HomePin, HomeUnpin, HomeCheck, FavCheck, TypeOK
  <2> QED
    BY <1>3, <1>4, <2>1 DEF HomePin, HomeUnpin, HomeCheck, FavCheck
<1>5. ASSUME NEW p \in Post, FavPinTap(c, p) PROVE kills' # 0
  BY <1>5, BoundsCount DEF FavPinTap
<1> QED BY <1>1, <1>2, <1>4, <1>5 DEF Touch

LEMMA GhostNetwork ==
    ASSUME TypeOK, OrderInv, "posts" \notin Refusable, Leaving,
           NEW c \in Client, Network(c)
    PROVE  Leaving' \/ drops' # 0
<1>1. OutboxOf(AnyWrite) BY TreeTyped
<1>2. ASSUME Apply(c) PROVE Leaving'
  <2>1. /\ ServerApply(c) /\ UNCHANGED <<uploading, minted>>
        /\ published' = published \cup {p \in Post : db'[PostAt(p)] # Absent}
    BY <1>2 DEF Apply
  <2>2. ~ServerRefuse(c)
    <3>1. applied'[c] = applied[c] + 1 /\ applied[c] \in Nat
      BY <1>1, <2>1, ServerApplyProperties DEF OutboxOf
    <3>2. applied'[c] # applied[c] BY <3>1
    <3> QED BY <3>2 DEF ServerRefuse
  <2>3. ASSUME NEW p \in Post, p \in published' \ published
        PROVE  Creates(NextWrite(c), p)
    <3>1. db'[PostAt(p)] # Absent /\ db[PostAt(p)] = Absent
      BY <2>1, <2>3 DEF OrderInv, OutboxInv, OpenPublished, Open
    <3>2. /\ NextWrite(c) \in AnyWrite /\ NextWrite(c).loc = PostAt(p)
          /\ NextWrite(c).val # Absent
      BY <2>1, <3>1, AppliedInOrder, LocationType DEF OrderInv
    <3> QED BY <3>2, ValueOfWrite DEF Creates
  <2>4. published' \subseteq Post BY <2>1 DEF TypeOK, HistoryType
  <2>5. Moves(c) /\ Delivers(c) BY <2>1, <2>2 DEF Moves, Delivers
  <2> QED BY <2>1, <2>3, <2>4, <2>5, LeavingMoves
<1>3. ASSUME Refuse(c) \/ Hear(c) PROVE Leaving'
  <2>1. /\ ServerRefuse(c) \/ Acknowledge(c)
        /\ UNCHANGED <<uploading, minted, published>>
    BY <1>3 DEF Refuse, Hear, historyVars
  <2>2. ServerRefuse(c) => NextWrite(c).loc[1] \in Refusable
    <3>1. CASE Refuse(c) BY <3>1 DEF Refuse
    <3>2. CASE Hear(c)
      <4>1. applied'[c] = applied[c] - 1 /\ applied[c] \in Nat
        BY <1>1, <3>2, AcknowledgeProperties DEF OutboxOf, Hear
      <4>2. applied'[c] # applied[c] BY <4>1
      <4> QED BY <4>2 DEF ServerRefuse
    <3> QED BY <1>3, <3>1, <3>2
  <2>3. Moves(c) /\ Delivers(c) BY <2>1, <2>2 DEF Moves, Delivers
  <2>4. published \subseteq Post BY DEF TypeOK, HistoryType
  <2> QED BY <2>1, <2>3, <2>4, LeavingMoves
<1>4. ASSUME Drop(c) PROVE drops' # 0
  BY <1>4 DEF Drop, TypeOK, HistoryType
<1>5. ASSUME NEW p \in Post, UploadDone(c, p) PROVE Leaving'
  BY <1>5, LeavingUpload
<1>6. ASSUME NEW p \in Post, UploadFails(c, p) PROVE Leaving'
  BY <1>6, LeavingOtherUploads
<1> QED BY <1>2, <1>3, <1>4, <1>5, <1>6 DEF Network

\* Neither bound is ever given back.
LEMMA BoundsStay ==
    ASSUME TypeOK, [Next]_vars
    PROVE  /\ drops' = 0 => drops = 0
           /\ kills' = 0 => kills = 0
<1>1. drops' = drops \/ drops' = drops + 1
  BY DEF Next, vars, Screen, Touch, Network, HomeEvent, MarkEvent, FavEvent,
     FetchUserInfo, Login, SignIn, LoginAgain, Logout, Scroll, OpenPinned,
     Submit, HomePin, HomeUnpin, HomeCheck, FavCheck, FavPinTap, Kill,
     Restart, Apply, Refuse, Hear, Drop, UploadDone, UploadFails, EndUpload
<1>2. kills' = kills \/ kills' = kills + 1
  BY DEF Next, vars, Screen, Touch, Network, HomeEvent, MarkEvent, FavEvent,
     FetchUserInfo, Login, SignIn, LoginAgain, Logout, Scroll, OpenPinned,
     Submit, HomePin, HomeUnpin, HomeCheck, FavCheck, FavPinTap, Kill,
     Restart, Apply, Refuse, Hear, Drop, UploadDone, UploadFails, EndUpload
<1> QED BY <1>1, <1>2 DEF TypeOK, HistoryType

LEMMA GhostStep ==
    ASSUME "posts" \notin Refusable
    PROVE  TypeOK /\ OrderInv /\ GhostInv /\ [Next]_vars => GhostInv'
<1> SUFFICES ASSUME TypeOK, OrderInv, GhostInv, [Next]_vars,
                    drops' = 0, kills' = 0
             PROVE  Leaving'
  BY DEF GhostInv
<1>1. Leaving BY BoundsStay DEF GhostInv
<1>2. CASE Next
  <2> PICK c \in Client : Screen(c) \/ Touch(c) \/ Network(c) \/ Kill(c)
    BY <1>2 DEF Next
  <2>1. CASE Screen(c)
    <3>1. UNCHANGED <<dbVars, uploading, minted, published>>
      BY <2>1 DEF Screen, HomeEvent, MarkEvent, FavEvent, FetchUserInfo,
         historyVars
    <3> QED BY <1>1, <3>1, LeavingQuiet
  <2>2. CASE Touch(c) BY <1>1, <2>2, GhostTouch
  <2>3. CASE Network(c) BY <1>1, <2>3, GhostNetwork
  <2>4. CASE Kill(c) BY <2>4, BoundsCount DEF Kill
  <2> QED BY <2>1, <2>2, <2>3, <2>4
<1>3. CASE UNCHANGED vars
  <2>1. UNCHANGED <<dbVars, uploading, minted, published>>
    BY <1>3 DEF vars, historyVars
  <2> QED BY <1>1, <2>1, LeavingQuiet
<1> QED BY <1>2, <1>3

LEMMA GhostInit == Init => GhostInv
<1> SUFFICES ASSUME Init PROVE Leaving BY DEF GhostInv
<1>1. \A c \in Client : Pending(c) = {}
  <2> TAKE c \in Client
  <2>1. outbox[c] = <<>> BY DEF Init
  <2>2. Len(outbox[c]) = 0 BY <2>1
  <2> QED BY <2>2 DEF Pending
<1>2. \A c \in Client : uploading[c] = {} BY DEF Init
<1>3. \A p \in Post : ~Completed(p)
  BY LocationType DEF Init, OldValue, CompletedAt, Completed
<1>4. published \subseteq minted BY DEF Init
<1> QED
  BY <1>1, <1>2, <1>3, <1>4
  DEF Leaving, CreationsAhead, UploadsAhead, RemovalsBehind, GhostsLeave

\* As long as the server takes the writes to posts/ and no connection or
\* process is lost, a post that has been completed is gone from posts/ when
\* everything has been delivered, whoever else completed, pinned or listed it
\* meanwhile.
THEOREM CompletedPostsGo ==
    ASSUME "posts" \notin Refusable
    PROVE  Spec => []NoGhosts
<1>1. Init => GhostInv BY GhostInit
<1>2. TypeOK /\ OrderInv /\ GhostInv /\ [Next]_vars => GhostInv' BY GhostStep
<1>3. TypeOK /\ GhostInv => NoGhosts
  <2> SUFFICES ASSUME TypeOK, GhostInv, Settled, drops = 0, kills = 0,
                      NEW p \in Post, Open(p), Completed(p)
               PROVE  FALSE
    BY DEF NoGhosts
  <2>1. PICK c \in Client : Pending(c) # {}
    BY DEF GhostInv, Leaving, GhostsLeave
  <2>2. Len(outbox[c]) = 0 BY DEF Settled
  <2> QED BY <2>1, <2>2 DEF Pending
<1> QED BY <1>1, <1>2, <1>3, OrderAlways, PTL DEF Spec

-----------------------------------------------------------------------------
(* Rising points.                                                          *)

\* A user's points are written only by a device of that user, and only that
\* device asks for them.
OwnKarma ==
    /\ \A c \in Client : user[c] \in Accounts[c] \cup {NoUser}
    /\ \A c \in Client : asked[c] \in Accounts[c] \cup {NoUser}
    /\ \A c \in Client : \A i \in 1 .. Len(outbox[c]), u \in User :
          outbox[c][i].loc = KarmaAt(u) => u \in Accounts[c]

\* No later write of the same location has been applied.
LastKnown(c, i) ==
    \A j \in i + 1 .. applied[c] : outbox[c][j].loc # outbox[c][i].loc

\* The tree has no more than the last write that reached it, and no more than
\* any that will; and those come in a rising order.
KarmaRises ==
    \A c \in Client, u \in User : ~MixedUp(u) =>
        \A i \in 1 .. Len(outbox[c]) : outbox[c][i].loc = KarmaAt(u) =>
            /\ LastKnown(c, i) => db[KarmaAt(u)] <= outbox[c][i].val
            /\ i > applied[c] =>
                  \A j \in i .. Len(outbox[c]) :
                     outbox[c][j].loc = KarmaAt(u)
                        => outbox[c][i].val <= outbox[c][j].val

\* The record read in viewDidLoad is at most one award behind.
RecordRecent ==
    \A c \in Client, u \in User :
        me[c] # Absent /\ asked[c] = u /\ ~MixedUp(u) =>
            /\ db[KarmaAt(u)] <= me[c] + KarmaAward
            /\ \A i \in Pending(c) :
                  outbox[c][i].loc = KarmaAt(u)
                     => outbox[c][i].val <= me[c] + KarmaAward

Rising == KarmaRises /\ RecordRecent

\* The inductive invariant.
RisingInv == OwnKarma /\ (OneDeviceEach /\ drops = 0 => Rising)

LEMMA RecordIsOfUser ==
    ASSUME TypeOK, NEW c \in Client, me[c] # Absent
    PROVE  user[c] \in User /\ asked[c] \in User /\ me[c] \in Nat
BY DEF TypeOK, SessionType

\* Whoever is mixed up stays so.
LEMMA MixedStays ==
    ASSUME mixed \subseteq mixed', NEW u PROVE MixedUp(u) => MixedUp(u)'
BY DEF MixedUp

\* What the server applies next is at least what it has.
LEMMA AppliedRises ==
    ASSUME TypeOK, KarmaRises, NEW c \in Client, ServerApply(c),
           NEW u \in User
    PROVE  /\ db'[KarmaAt(u)] = IF NextWrite(c).loc = KarmaAt(u)
                                THEN NextWrite(c).val ELSE db[KarmaAt(u)]
           /\ NextWrite(c).loc = KarmaAt(u) /\ ~MixedUp(u)
                 => db[KarmaAt(u)] <= NextWrite(c).val
           /\ applied[c] + 1 \in Pending(c)
           /\ NextWrite(c) = outbox[c][applied[c] + 1]
           /\ db[KarmaAt(u)] \in Nat
<1>1. OutboxOf(AnyWrite) /\ DOMAIN db = Location
  BY TreeTyped DEF TypeOK, DbType
<1>2. /\ applied[c] \in Nat /\ applied[c] + 1 \in 1 .. Len(outbox[c])
      /\ NextWrite(c) = outbox[c][applied[c] + 1]
      /\ db' = [db EXCEPT ![NextWrite(c).loc] = NextWrite(c).val]
  BY <1>1, ServerApplyProperties DEF OutboxOf
<1>3. KarmaAt(u) \in Location BY LocationType
<1>4. LastKnown(c, applied[c] + 1) BY <1>2 DEF LastKnown
<1>5. db[KarmaAt(u)] \in Nat BY DEF TypeOK, DbType
<1>6. NextWrite(c).loc = KarmaAt(u) /\ ~MixedUp(u)
         => db[KarmaAt(u)] <= NextWrite(c).val
  BY <1>2, <1>4 DEF KarmaRises
<1>7. applied[c] + 1 \in Pending(c) BY <1>2 DEF Pending
<1> QED BY <1>1, <1>2, <1>3, <1>5, <1>6, <1>7

\* With one device per account, the device of the user is the one that moves.
LEMMA OnlyOwnDevice ==
    ASSUME TypeOK, OwnKarma, OneDeviceEach, NEW c \in Client, ServerApply(c),
           NEW u \in User, NextWrite(c).loc = KarmaAt(u),
           NEW d \in Client, u \in Accounts[d]
    PROVE  d = c
<1>1. OutboxOf(AnyWrite) BY TreeTyped
<1>2. /\ applied[c] + 1 \in 1 .. Len(outbox[c])
      /\ NextWrite(c) = outbox[c][applied[c] + 1]
  BY <1>1, ServerApplyProperties
<1>3. u \in Accounts[c] BY <1>2 DEF OwnKarma
<1> QED BY <1>3 DEF OneDeviceEach

LEMMA RisingMoves ==
    ASSUME TypeOK, OwnKarma, OneDeviceEach, Rising, NEW c \in Client,
           Moves(c), UNCHANGED <<asked, me, mixed>>
    PROVE  Rising'
<1>1. OutboxOf(AnyWrite) BY TreeTyped
<1>2. \A d \in Client : \E g : Slides(d, g) BY <1>1, EveryoneSlides
<1>3. ASSUME NEW u \in User, db'[KarmaAt(u)] # db[KarmaAt(u)]
      PROVE  ServerApply(c) /\ NextWrite(c).loc = KarmaAt(u)
             /\ db'[KarmaAt(u)] = NextWrite(c).val
  <2>1. ServerApply(c)
    BY <1>1, <1>3, ServerRefuseProperties, AcknowledgeProperties DEF Moves
  <2> QED BY <1>3, <2>1, AppliedRises DEF Rising
<1>4. KarmaRises'
  <2> SUFFICES ASSUME NEW d \in Client, NEW u \in User, ~MixedUp(u),
                      NEW i \in 1 .. Len(outbox'[d]),
                      outbox'[d][i].loc = KarmaAt(u)
               PROVE  /\ LastKnown(d, i)' => db'[KarmaAt(u)] <= outbox'[d][i].val
                      /\ i > applied'[d] =>
                            \A j \in i .. Len(outbox'[d]) :
                               outbox'[d][j].loc = KarmaAt(u)
                                  => outbox'[d][i].val <= outbox'[d][j].val
    BY DEF KarmaRises, MixedUp
  <2>1. PICK g : Slides(d, g) BY <1>2
  <2>2. /\ g[i] \in 1 .. Len(outbox[d]) /\ outbox[d][g[i]] = outbox'[d][i]
        /\ outbox[d][g[i]].loc = KarmaAt(u)
    BY <2>1 DEF Slides
  <2>3. ASSUME LastKnown(d, i)' PROVE db'[KarmaAt(u)] <= outbox'[d][i].val
    <3>1. CASE db'[KarmaAt(u)] = db[KarmaAt(u)]
      <4>1. ASSUME NEW k \in g[i] + 1 .. applied[d]
            PROVE  outbox[d][k].loc # outbox[d][g[i]].loc
        <5>1. PICK j \in i + 1 .. applied'[d] :
                 j \in 1 .. Len(outbox'[d]) /\ g[j] = k
          BY <2>1, <4>1 DEF Slides
        <5>2. outbox'[d][j] = outbox[d][k] BY <2>1, <5>1 DEF Slides
        <5>3. outbox'[d][j].loc # outbox'[d][i].loc
          BY <2>3, <5>1 DEF LastKnown
        <5> QED BY <2>2, <5>2, <5>3
      <4>2. LastKnown(d, g[i]) BY <4>1 DEF LastKnown
      <4> QED BY <2>2, <3>1, <4>2 DEF Rising, KarmaRises
    <3>2. CASE db'[KarmaAt(u)] # db[KarmaAt(u)]
      <4>1. ServerApply(c) /\ NextWrite(c).loc = KarmaAt(u)
            /\ db'[KarmaAt(u)] = NextWrite(c).val
        BY <1>3, <3>2
      <4>2. u \in Accounts[d] BY <2>2 DEF OwnKarma
      <4>3. d = c BY <4>1, <4>2, OnlyOwnDevice
      <4>4. /\ outbox' = outbox /\ applied'[c] = applied[c] + 1
            /\ applied[c] \in Nat
            /\ applied[c] + 1 \in 1 .. Len(outbox[c])
            /\ NextWrite(c) = outbox[c][applied[c] + 1]
        BY <1>1, <4>1, ServerApplyProperties DEF OutboxOf
      <4>5. ~(applied[c] + 1 \in i + 1 .. applied'[c])
        BY <2>3, <4>1, <4>3, <4>4 DEF LastKnown
      <4>6. i \in applied[c] + 1 .. Len(outbox[c])
        BY <4>3, <4>4, <4>5
      <4> QED
        BY <4>1, <4>3, <4>4, <4>6 DEF Rising, KarmaRises
    <3> QED BY <3>1, <3>2
  <2>4. ASSUME i > applied'[d], NEW j \in i .. Len(outbox'[d]),
               outbox'[d][j].loc = KarmaAt(u)
        PROVE  outbox'[d][i].val <= outbox'[d][j].val
    <3>1. j \in 1 .. Len(outbox'[d]) OBVIOUS
    <3>2. /\ g[j] \in 1 .. Len(outbox[d]) /\ outbox[d][g[j]] = outbox'[d][j]
          /\ g[i] > applied[d] /\ (i < j => g[i] < g[j])
      BY <2>1, <2>4, <3>1 DEF Slides
    <3>3. g[j] \in g[i] .. Len(outbox[d]) BY <2>2, <3>2
    <3> QED BY <2>2, <2>4, <3>2, <3>3 DEF Rising, KarmaRises
  <2> QED BY <2>3, <2>4
<1>5. RecordRecent'
  <2> SUFFICES ASSUME NEW d \in Client, NEW u \in User, me[d] # Absent,
                      asked[d] = u, ~MixedUp(u)
               PROVE  /\ db'[KarmaAt(u)] <= me[d] + KarmaAward
                      /\ \A i \in Pending(d)' :
                            outbox'[d][i].loc = KarmaAt(u)
                               => outbox'[d][i].val <= me[d] + KarmaAward
    BY DEF RecordRecent, MixedUp
  <2>1. ASSUME NEW i \in Pending(d)', outbox'[d][i].loc = KarmaAt(u)
        PROVE  outbox'[d][i].val <= me[d] + KarmaAward
    <3>1. PICK g : Slides(d, g) BY <1>2
    <3>2. g[i] \in Pending(d) /\ outbox[d][g[i]] = outbox'[d][i]
      BY <3>1 DEF Slides, Pending
    <3> QED BY <2>1, <3>2 DEF Rising, RecordRecent
  <2>2. CASE db'[KarmaAt(u)] = db[KarmaAt(u)]
    BY <2>1, <2>2 DEF Rising, RecordRecent
  <2>3. CASE db'[KarmaAt(u)] # db[KarmaAt(u)]
    <3>1. ServerApply(c) /\ NextWrite(c).loc = KarmaAt(u)
          /\ db'[KarmaAt(u)] = NextWrite(c).val
      BY <1>3, <2>3
    <3>2. u \in Accounts[d] BY BoardAssumption DEF OwnKarma
    <3>3. d = c BY <3>1, <3>2, OnlyOwnDevice
    <3>4. applied[c] + 1 \in Pending(c)
          /\ NextWrite(c) = outbox[c][applied[c] + 1]
      BY <3>1, AppliedRises DEF Rising
    <3>5. db'[KarmaAt(u)] <= me[d] + KarmaAward
      BY <3>1, <3>3, <3>4 DEF Rising, RecordRecent
    <3> QED BY <2>1, <3>5
  <2> QED BY <2>2, <2>3
<1> QED BY <1>4, <1>5 DEF Rising

\* A tap that issues no points, or the sum of the record and one award.
LEMMA RisingIssue ==
    ASSUME TypeOK, Rising, NEW c \in Client, NEW ws \in Seq(AnyWrite),
           Issue(c, ws), UNCHANGED <<asked, me>>, mixed \subseteq mixed',
           \A j \in 1 .. Len(ws), u \in User : ws[j].loc = KarmaAt(u) =>
              /\ u = asked[c] \/ MixedUp(u)'
              /\ me[c] # Absent
              /\ ws[j].val = me[c] + KarmaAward
    PROVE  Rising'
<1>1. OutboxOf(AnyWrite) BY TreeTyped
<1>2. /\ db' = db /\ applied' = applied
      /\ applied[c] \in Nat /\ Len(outbox[c]) \in Nat /\ Len(ws) \in Nat
      /\ applied[c] <= Len(outbox[c])
      /\ Len(outbox'[c]) = Len(outbox[c]) + Len(ws)
      /\ \A i \in 1 .. Len(outbox[c]) : outbox'[c][i] = outbox[c][i]
      /\ \A i \in 1 .. Len(ws) : outbox'[c][Len(outbox[c]) + i] = ws[i]
      /\ \A d \in Client \ {c} : outbox'[d] = outbox[d]
  BY <1>1, IssueProperties, LenProperties DEF OutboxOf
\* The new writes.
<1>3. ASSUME NEW i \in 1 .. Len(outbox'[c]), i \notin 1 .. Len(outbox[c]),
             NEW u \in User, ~MixedUp(u)', outbox'[c][i].loc = KarmaAt(u)
      PROVE  /\ u = asked[c] /\ me[c] # Absent
             /\ outbox'[c][i].val = me[c] + KarmaAward
             /\ i > Len(outbox[c])
  <2>1. PICK j \in 1 .. Len(ws) :
           i = Len(outbox[c]) + j /\ outbox'[c][i] = ws[j]
    BY <1>1, <1>3, IssuedWrites
  <2> QED BY <1>2, <1>3, <2>1
<1>4. KarmaRises'
  <2> SUFFICES ASSUME NEW d \in Client, NEW u \in User, ~MixedUp(u)',
                      NEW i \in 1 .. Len(outbox'[d]),
                      outbox'[d][i].loc = KarmaAt(u)
               PROVE  /\ LastKnown(d, i)' => db[KarmaAt(u)] <= outbox'[d][i].val
                      /\ i > applied[d] =>
                            \A j \in i .. Len(outbox'[d]) :
                               outbox'[d][j].loc = KarmaAt(u)
                                  => outbox'[d][i].val <= outbox'[d][j].val
    BY <1>2 DEF KarmaRises
  <2>0. ~MixedUp(u) BY MixedStays
  <2>1. CASE d # c
    <3>1. outbox'[d] = outbox[d] /\ applied'[d] = applied[d] BY <1>2, <2>1
    <3>2. LastKnown(d, i)' <=> LastKnown(d, i) BY <3>1 DEF LastKnown
    <3> QED BY <2>0, <3>1, <3>2 DEF Rising, KarmaRises
  <2>2. CASE d = c /\ i \in 1 .. Len(outbox[c])
    <3> SUFFICES ASSUME d = c
                 PROVE  /\ LastKnown(c, i)' => db[KarmaAt(u)] <= outbox'[c][i].val
                        /\ i > applied[c] =>
                              \A j \in i .. Len(outbox'[c]) :
                                 outbox'[c][j].loc = KarmaAt(u)
                                    => outbox'[c][i].val <= outbox'[c][j].val
      BY <2>2
    <3>1. LastKnown(c, i)' => LastKnown(c, i)
      <4> SUFFICES ASSUME LastKnown(c, i)', NEW j \in i + 1 .. applied[c]
                   PROVE  outbox[c][j].loc # outbox[c][i].loc
        BY DEF LastKnown
      <4>1. j \in 1 .. Len(outbox[c]) BY <1>2, <2>2
      <4>2. outbox'[c][j].loc # outbox'[c][i].loc BY <1>2 DEF LastKnown
      <4> QED BY <1>2, <2>2, <4>1, <4>2
    <3>2. LastKnown(c, i)' => db[KarmaAt(u)] <= outbox'[c][i].val
      BY <1>2, <2>0, <2>2, <3>1 DEF Rising, KarmaRises
    <3>3. ASSUME i > applied[c], NEW j \in i .. Len(outbox'[c]),
                 outbox'[c][j].loc = KarmaAt(u)
          PROVE  outbox'[c][i].val <= outbox'[c][j].val
      <4>1. CASE j \in 1 .. Len(outbox[c])
        <5>1. j \in i .. Len(outbox[c]) BY <4>1
        <5>2. outbox'[c][i] = outbox[c][i] /\ outbox'[c][j] = outbox[c][j]
          BY <1>2, <2>2, <4>1
        <5> QED BY <2>0, <2>2, <3>3, <5>1, <5>2 DEF Rising, KarmaRises
      <4>2. CASE j \notin 1 .. Len(outbox[c])
        <5>1. u = asked[c] /\ me[c] # Absent
              /\ outbox'[c][j].val = me[c] + KarmaAward
          BY <1>3, <2>2, <3>3, <4>2
        <5>2. i \in Pending(c) BY <2>2, <3>3 DEF Pending
        <5>3. outbox'[c][i] = outbox[c][i] BY <1>2, <2>2
        <5>4. outbox[c][i].loc = KarmaAt(u) BY <5>3
        <5>5. outbox[c][i].val <= me[c] + KarmaAward
          BY <2>0, <5>1, <5>2, <5>4 DEF Rising, RecordRecent
        <5> QED BY <5>1, <5>3, <5>5
      <4> QED BY <4>1, <4>2
    <3> QED BY <2>2, <3>2, <3>3
  <2>3. CASE d = c /\ i \notin 1 .. Len(outbox[c])
    <3>1. /\ u = asked[c] /\ me[c] # Absent
          /\ outbox'[c][i].val = me[c] + KarmaAward
          /\ i > Len(outbox[c])
      BY <1>3, <2>3
    <3>2. me[c] + KarmaAward \in Nat
      BY <3>1, RecordIsOfUser DEF KarmaAward
    <3>3. db[KarmaAt(u)] <= outbox'[c][i].val
      BY <2>0, <3>1 DEF Rising, RecordRecent
    <3>4. ASSUME NEW j \in i .. Len(outbox'[c]),
                 outbox'[c][j].loc = KarmaAt(u)
          PROVE  outbox'[c][i].val <= outbox'[c][j].val
      <4>1. j \in 1 .. Len(outbox'[c]) /\ j \notin 1 .. Len(outbox[c])
        BY <1>2, <2>3, <3>1
      <4>2. outbox'[c][j].val = me[c] + KarmaAward BY <1>3, <3>4, <4>1
      <4> QED BY <3>1, <3>2, <4>2
    <3> QED BY <2>3, <3>3, <3>4
  <2> QED BY <2>1, <2>2, <2>3
<1>5. RecordRecent'
  <2> SUFFICES ASSUME NEW d \in Client, NEW u \in User, me[d] # Absent,
                      asked[d] = u, ~MixedUp(u)'
               PROVE  /\ db[KarmaAt(u)] <= me[d] + KarmaAward
                      /\ \A i \in Pending(d)' :
                            outbox'[d][i].loc = KarmaAt(u)
                               => outbox'[d][i].val <= me[d] + KarmaAward
    BY <1>2 DEF RecordRecent
  <2>1. me[d] \in Nat /\ ~MixedUp(u) BY RecordIsOfUser, MixedStays
  <2>2. ASSUME NEW i, i \in Pending(d)', outbox'[d][i].loc = KarmaAt(u)
        PROVE  outbox'[d][i].val <= me[d] + KarmaAward
    <3>1. i \in 1 .. Len(outbox'[d]) /\ i > applied'[d] BY <2>2 DEF Pending
    <3>2. i > applied[d] BY <1>2, <3>1
    <3>3. ASSUME i \in 1 .. Len(outbox[d]), outbox'[d][i] = outbox[d][i]
          PROVE  outbox'[d][i].val <= me[d] + KarmaAward
      <4>1. i \in Pending(d) BY <3>2, <3>3 DEF Pending
      <4> QED BY <2>1, <2>2, <3>3, <4>1 DEF Rising, RecordRecent
    <3>4. CASE d # c
      <4>1. outbox'[d] = outbox[d] BY <1>2, <3>4
      <4> QED BY <3>1, <3>3, <4>1
    <3>5. CASE d = c /\ i \in 1 .. Len(outbox[c]) BY <1>2, <3>3, <3>5
    <3>6. CASE d = c /\ i \notin 1 .. Len(outbox[c])
      <4>1. outbox'[c][i].val = me[c] + KarmaAward
        BY <1>3, <2>2, <3>1, <3>6
      <4> QED BY <2>1, <3>6, <4>1 DEF KarmaAward
    <3> QED BY <3>4, <3>5, <3>6
  <2> QED BY <2>1, <2>2 DEF Rising, RecordRecent
<1> QED BY <1>4, <1>5 DEF Rising

\* What leaves the tree and the outboxes alone, and brings no record.
LEMMA RisingQuiet ==
    ASSUME TypeOK, Rising, UNCHANGED <<dbVars, mixed>>,
           \A d \in Client :
              me'[d] = Absent \/ (me'[d] = me[d] /\ asked'[d] = asked[d])
    PROVE  Rising'
<1>1. db' = db /\ outbox' = outbox /\ applied' = applied BY DEF dbVars
<1>2. \A u : MixedUp(u)' <=> MixedUp(u) BY DEF MixedUp
<1>3. KarmaRises' BY <1>1, <1>2 DEF Rising, KarmaRises, LastKnown
<1>4. RecordRecent'
  <2> SUFFICES ASSUME NEW d \in Client, NEW u \in User, me'[d] # Absent,
                      asked'[d] = u, ~MixedUp(u)
               PROVE  /\ db[KarmaAt(u)] <= me'[d] + KarmaAward
                      /\ \A i \in Pending(d) :
                            outbox[d][i].loc = KarmaAt(u)
                               => outbox[d][i].val <= me'[d] + KarmaAward
    BY <1>1, <1>2 DEF RecordRecent, Pending
  <2> QED BY DEF Rising, RecordRecent
<1> QED BY <1>3, <1>4 DEF Rising

\* The record that arrives is the last the device knows of.
LEMMA RisingFetch ==
    ASSUME TypeOK, Rising, NEW c \in Client, FetchUserInfo(c)
    PROVE  Rising'
<1>1. OutboxOf(AnyWrite) BY TreeTyped
<1>2. /\ db' = db /\ outbox' = outbox /\ applied' = applied
      /\ asked' = asked /\ mixed' = mixed
  BY DEF FetchUserInfo, dbVars, historyVars
<1> PICK u \in User : u = asked[c]
  BY SomebodySignedIn DEF TypeOK, FetchUserInfo
<1> DEFINE loc == KarmaAt(u)
<1>4. PICK k \in Seen(c, loc) : me' = [me EXCEPT ![c] = k]
  BY DEF FetchUserInfo
<1>5. \A d \in Client \ {c} : me'[d] = me[d]
  BY <1>4 DEF TypeOK, SessionType
<1>6. me'[c] = k BY <1>4 DEF TypeOK, SessionType
<1>7. Len(outbox[c]) \in Nat /\ DOMAIN outbox[c] = 1 .. Len(outbox[c])
      /\ applied[c] \in Nat /\ applied[c] <= Len(outbox[c])
  BY <1>1, LenProperties DEF OutboxOf
<1>8. db[loc] \in Nat BY DEF TypeOK, DbType
<1>9. /\ k \in Nat
      /\ ~MixedUp(u) =>
            /\ db[loc] <= k
            /\ \A i \in Pending(c) :
                  outbox[c][i].loc = loc => outbox[c][i].val <= k
  <2>1. CASE Outstanding(c, loc) = {}
    <3>1. k = db[loc] BY <1>4, <2>1 DEF Seen
    <3>2. \A i \in Pending(c) : outbox[c][i].loc # loc
      BY <1>7, <2>1 DEF Outstanding, Pending
    <3> QED BY <1>8, <3>1, <3>2
  <2>2. CASE Outstanding(c, loc) # {}
    <3>1. k \in {outbox[c][i].val : i \in Latest(c, loc)}
      BY <1>4, <2>2 DEF Seen
    <3>2. PICK m \in Latest(c, loc) : k = outbox[c][m].val BY <3>1, Zenon
    <3>3. /\ m \in 1 .. Len(outbox[c]) /\ outbox[c][m].loc = loc
          /\ \A j \in 1 .. Len(outbox[c]) : outbox[c][j].loc = loc => j <= m
      BY <1>7 DEF Latest, Outstanding
    <3>4. k \in Nat BY <3>2, <3>3, OutboxWrites, ValueOfWrite
    <3>5. ASSUME NEW j \in m + 1 .. applied[c]
          PROVE  outbox[c][j].loc # outbox[c][m].loc
      BY <1>7, <3>3
    <3>6. LastKnown(c, m) BY <3>5 DEF LastKnown
    <3>7. ~MixedUp(u) => db[loc] <= k
      BY <3>2, <3>3, <3>6 DEF Rising, KarmaRises
    <3>8. ASSUME ~MixedUp(u), NEW i \in Pending(c), outbox[c][i].loc = loc
          PROVE  outbox[c][i].val <= k
      <4>1. i \in 1 .. Len(outbox[c]) /\ i > applied[c] BY DEF Pending
      <4>2. i <= m BY <3>3, <3>8, <4>1
      <4>3. m \in i .. Len(outbox[c]) BY <3>3, <4>1, <4>2
      <4> QED BY <3>2, <3>3, <3>8, <4>1, <4>3 DEF Rising, KarmaRises
    <3> QED BY <3>4, <3>7, <3>8
  <2> QED BY <2>1, <2>2
<1>10. \A v : MixedUp(v)' <=> MixedUp(v) BY <1>2 DEF MixedUp
<1>11. KarmaRises' BY <1>2, <1>10 DEF Rising, KarmaRises, LastKnown
<1>12. RecordRecent'
  <2> SUFFICES ASSUME NEW d \in Client, NEW v \in User, me'[d] # Absent,
                      asked[d] = v, ~MixedUp(v)
               PROVE  /\ db[KarmaAt(v)] <= me'[d] + KarmaAward
                      /\ \A i \in Pending(d) :
                            outbox[d][i].loc = KarmaAt(v)
                               => outbox[d][i].val <= me'[d] + KarmaAward
    BY <1>2, <1>10 DEF RecordRecent, Pending
  <2>1. CASE d # c BY <1>5, <2>1 DEF Rising, RecordRecent
  <2>2. CASE d = c
    <3> SUFFICES ASSUME ~MixedUp(u), d = c, v = u
                 PROVE  /\ db[loc] <= me'[c] + KarmaAward
                        /\ \A i \in Pending(c) :
                              outbox[c][i].loc = loc
                                 => outbox[c][i].val <= me'[c] + KarmaAward
      BY <2>2
    <3>1. ASSUME NEW i \in Pending(c), outbox[c][i].loc = loc
          PROVE  outbox[c][i].val <= k + KarmaAward
      <4>1. outbox[c][i].val <= k BY <1>9, <3>1
      <4>2. i \in 1 .. Len(outbox[c]) BY DEF Pending
      <4>3. outbox[c][i].val \in Nat
        BY <3>1, <4>2, OutboxWrites, ValueOfWrite
      <4> QED BY <1>9, <4>1, <4>3 DEF KarmaAward
    <3>2. db[loc] <= k + KarmaAward BY <1>8, <1>9 DEF KarmaAward
    <3> QED BY <1>6, <3>1, <3>2
  <2> QED BY <2>1, <2>2
<1> QED BY <1>11, <1>12 DEF Rising

\* A process that ends forgets its writes and its record.
LEMMA RisingLose ==
    ASSUME TypeOK, Rising, NEW c \in Client, LoseOutbox(c), EmptyLists(c),
           UNCHANGED mixed
    PROVE  Rising'
<1>1. OutboxOf(AnyWrite) BY TreeTyped
<1>2. /\ db' = db /\ outbox'[c] = <<>>
      /\ \A d \in Client \ {c} :
            outbox'[d] = outbox[d] /\ applied'[d] = applied[d]
  BY <1>1, LoseOutboxProperties
<1>3. 1 .. Len(outbox'[c]) = {}
  <2>1. Len(outbox'[c]) = 0 BY <1>2
  <2> QED BY <2>1
<1>4. /\ me'[c] = Absent
      /\ \A d \in Client \ {c} : me'[d] = me[d] /\ asked'[d] = asked[d]
  BY DEF EmptyLists, TypeOK, SessionType
<1>7. \A u : MixedUp(u)' <=> MixedUp(u) BY DEF MixedUp
<1>5. KarmaRises'
  <2> SUFFICES ASSUME NEW d \in Client, NEW u \in User, ~MixedUp(u),
                      NEW i \in 1 .. Len(outbox'[d]),
                      outbox'[d][i].loc = KarmaAt(u)
               PROVE  /\ LastKnown(d, i)' => db'[KarmaAt(u)] <= outbox'[d][i].val
                      /\ i > applied'[d] =>
                            \A j \in i .. Len(outbox'[d]) :
                               outbox'[d][j].loc = KarmaAt(u)
                                  => outbox'[d][i].val <= outbox'[d][j].val
    BY <1>7 DEF KarmaRises
  <2>1. d # c BY <1>3
  <2> QED BY <1>2, <2>1 DEF Rising, KarmaRises, LastKnown
<1>6. RecordRecent'
  <2> SUFFICES ASSUME NEW d \in Client, NEW u \in User, me'[d] # Absent,
                      asked'[d] = u, ~MixedUp(u)
               PROVE  /\ db'[KarmaAt(u)] <= me'[d] + KarmaAward
                      /\ \A i \in Pending(d)' :
                            outbox'[d][i].loc = KarmaAt(u)
                               => outbox'[d][i].val <= me'[d] + KarmaAward
    BY <1>7 DEF RecordRecent
  <2>1. d # c BY <1>4
  <2>2. Pending(d)' = Pending(d) BY <1>2, <2>1 DEF Pending
  <2> QED BY <1>2, <1>4, <2>1, <2>2 DEF Rising, RecordRecent
<1> QED BY <1>5, <1>6 DEF Rising

-----------------------------------------------------------------------------
(* Whose points an outbox may hold.                                        *)

LEMMA OwnQuiet ==
    ASSUME OwnKarma, UNCHANGED <<outbox, user, asked>> PROVE OwnKarma'
BY DEF OwnKarma

LEMMA OwnIssue ==
    ASSUME TypeOK, OwnKarma, NEW c \in Client, NEW ws \in Seq(AnyWrite),
           Issue(c, ws), UNCHANGED <<user, asked>>,
           \A j \in 1 .. Len(ws), u \in User :
              ws[j].loc = KarmaAt(u) => u = user[c]
    PROVE  OwnKarma'
<1>1. OutboxOf(AnyWrite) BY TreeTyped
<1>2. ASSUME NEW d \in Client, NEW i \in 1 .. Len(outbox'[d]), NEW u \in User,
             outbox'[d][i].loc = KarmaAt(u)
      PROVE  u \in Accounts[d]
  <2>1. CASE i \in 1 .. Len(outbox[d]) /\ outbox'[d][i] = outbox[d][i]
    BY <1>2, <2>1 DEF OwnKarma
  <2>2. CASE d # c BY <1>1, <2>1, <2>2, IssueProperties
  <2>3. CASE d = c
    <3>1. ASSUME NEW j \in 1 .. Len(ws), outbox'[c][i] = ws[j]
          PROVE  u \in Accounts[d]
      <4>1. u = user[c] BY <1>2, <2>3, <3>1
      <4> QED BY <2>3, <4>1, BoardAssumption DEF OwnKarma
    <3> QED BY <1>1, <2>1, <2>3, <3>1, IssuedWrites
  <2> QED BY <2>2, <2>3
<1> QED BY <1>2 DEF OwnKarma

LEMMA OwnCarried ==
    ASSUME TypeOK, OwnKarma, NEW c \in Client, UNCHANGED user,
           \A d \in Client : asked'[d] \in {asked[d], NoUser},
           \/ ServerApply(c) \/ ServerRefuse(c) \/ Acknowledge(c)
           \/ Reconnect(c) \/ LoseOutbox(c)
    PROVE  OwnKarma'
<1>1. OutboxOf(AnyWrite) BY TreeTyped
<1>2. ASSUME NEW d \in Client, NEW i \in 1 .. Len(outbox'[d])
      PROVE  \E k \in 1 .. Len(outbox[d]) : outbox'[d][i] = outbox[d][k]
  <2>1. CASE LoseOutbox(c)
    <3>1. d # c BY <1>1, <1>2, <2>1, LoseOutboxProperties, EmptySeq
    <3>2. outbox'[d] = outbox[d] BY <1>1, <2>1, <3>1, LoseOutboxProperties
    <3> QED BY <1>2, <3>2
  <2>2. CASE ~LoseOutbox(c)
    <3>1. Carried(d)
      BY <1>1, <2>2, CarriedByApply, CarriedByRefuse, CarriedByAcknowledge,
         CarriedByReconnect
    <3> QED BY <3>1 DEF Carried, CameFrom
  <2> QED BY <2>1, <2>2
<1>3. ASSUME NEW d \in Client, NEW i \in 1 .. Len(outbox'[d]), NEW u \in User,
             outbox'[d][i].loc = KarmaAt(u)
      PROVE  u \in Accounts[d]
  <2>1. PICK k \in 1 .. Len(outbox[d]) : outbox'[d][i] = outbox[d][k]
    BY <1>2
  <2> QED BY <1>3, <2>1 DEF OwnKarma
<1> QED BY <1>3 DEF OwnKarma

-----------------------------------------------------------------------------
(* The steps.                                                              *)

\* What a handler issues about karma: the award on the record it has read,
\* for its user, who is then mixed up if it is the record of somebody else.
AwardsRecord(c, ws) ==
    \A j \in 1 .. Len(ws), u \in User : ws[j].loc = KarmaAt(u) =>
        /\ u = user[c]
        /\ u = asked[c] \/ MixedUp(u)'
        /\ me[c] # Absent
        /\ ws[j].val = me[c] + KarmaAward

RisingStep == OwnKarma' /\ (Rising /\ OneDeviceEach => Rising')

LEMMA RisingOfIssue ==
    ASSUME TypeOK, OwnKarma, NEW c \in Client, NEW ws \in Seq(AnyWrite),
           Issue(c, ws), UNCHANGED <<user, asked, me>>, mixed \subseteq mixed',
           AwardsRecord(c, ws)
    PROVE  RisingStep
<1>1. OwnKarma' BY OwnIssue DEF AwardsRecord
<1>2. ASSUME Rising PROVE Rising' BY <1>2, RisingIssue DEF AwardsRecord
<1> QED BY <1>1, <1>2 DEF RisingStep

LEMMA RisingOfQuiet ==
    ASSUME TypeOK, OwnKarma, UNCHANGED <<dbVars, user, mixed>>,
           \A d \in Client :
              /\ me'[d] = Absent \/ (me'[d] = me[d] /\ asked'[d] = asked[d])
              /\ asked'[d] \in {asked[d], user[d], NoUser}
    PROVE  RisingStep
<1>1. OwnKarma' BY DEF OwnKarma, dbVars
<1>2. ASSUME Rising PROVE Rising' BY <1>2, RisingQuiet
<1> QED BY <1>1, <1>2 DEF RisingStep

\* Nothing of it changes.
LEMMA RisingOfNothing ==
    ASSUME TypeOK, OwnKarma, UNCHANGED <<dbVars, user, asked, me, mixed>>
    PROVE  RisingStep
BY RisingOfQuiet

LEMMA ListsEmptied ==
    ASSUME TypeOK, NEW c \in Client, EmptyLists(c)
    PROVE  \A d \in Client :
              /\ me'[d] = Absent \/ (me'[d] = me[d] /\ asked'[d] = asked[d])
              /\ asked'[d] \in {asked[d], NoUser}
BY DEF EmptyLists, TypeOK, SessionType

LEMMA RisingOfRestart ==
    ASSUME TypeOK, OwnKarma, NEW c \in Client, Restart(c)
    PROVE  RisingStep
<1>1. LoseOutbox(c) /\ EmptyLists(c) /\ UNCHANGED <<user, mixed>>
  BY DEF Restart, historyVars
<1>2. OwnKarma' BY <1>1, ListsEmptied, OwnCarried
<1>3. ASSUME Rising PROVE Rising' BY <1>1, <1>3, RisingLose
<1> QED BY <1>2, <1>3 DEF RisingStep

LEMMA RisingScreen ==
    ASSUME TypeOK, OwnKarma, NEW c \in Client, Screen(c) PROVE RisingStep
<1>1. ASSUME \/ \E k \in Category : HomeEvent(c, k)
             \/ \E p \in Post : MarkEvent(c, p)
             \/ FavEvent(c)
      PROVE  RisingStep
  <2>1. UNCHANGED <<dbVars, user, asked, me, mixed>>
    BY <1>1 DEF HomeEvent, MarkEvent, FavEvent, sessionVars, historyVars
  <2> QED BY <2>1, RisingOfNothing
<1>2. ASSUME FetchUserInfo(c) PROVE RisingStep
  <2>1. OwnKarma'
    BY <1>2, OwnQuiet DEF FetchUserInfo, dbVars, sessionVars
  <2>2. ASSUME Rising PROVE Rising' BY <1>2, <2>2, RisingFetch
  <2> QED BY <2>1, <2>2 DEF RisingStep
<1> QED BY <1>1, <1>2 DEF Screen

LEMMA HandlersAward ==
    ASSUME NEW c \in Client, NEW p \in Post
    PROVE  /\ AwardsRecord(c, <<Pin(user[c], p)>>)
           /\ AwardsRecord(c, <<Unpin(user[c], p)>>)
           /\ AwardsRecord(c, <<CreatePost(p)>>)
           /\ AwardsRecord(c, HomeCheckWrites(c, p))
<1>1. /\ AwardsRecord(c, <<Pin(user[c], p)>>)
      /\ AwardsRecord(c, <<Unpin(user[c], p)>>)
      /\ AwardsRecord(c, <<CreatePost(p)>>)
  BY NotAboutKarma DEF AwardsRecord
<1>2. AwardsRecord(c, HomeCheckWrites(c, p))
  <2>1. /\ Len(HomeCheckWrites(c, p)) = 2
        /\ HomeCheckWrites(c, p)[1] = Complete(p, user[c], "uid")
        /\ HomeCheckWrites(c, p)[2] = RemovePost(p)
    BY DEF HomeCheckWrites
  <2>2. \A j \in 1 .. Len(HomeCheckWrites(c, p)) : j = 1 \/ j = 2 BY <2>1
  <2>3. ASSUME NEW j \in 1 .. Len(HomeCheckWrites(c, p)), NEW u \in User
        PROVE  HomeCheckWrites(c, p)[j].loc # KarmaAt(u)
    <3>1. CASE j = 1 BY <2>1, <3>1, NotAboutKarma
    <3>2. CASE j = 2 BY <2>1, <3>2, NotAboutKarma
    <3> QED BY <2>2, <3>1, <3>2
  <2> QED BY <2>3 DEF AwardsRecord
<1> QED BY <1>1, <1>2

LEMMA FavCheckAwards ==
    ASSUME TypeOK, NEW c \in Client, NEW p \in Post, FavCheck(c, p)
    PROVE  AwardsRecord(c, FavCheckWrites(c, p)) /\ mixed \subseteq mixed'
<1> DEFINE ws == FavCheckWrites(c, p)
<1>1. /\ me[c] # Absent
      /\ mixed' = mixed \cup ({<<asked[c], user[c]>>}
                                 \ {<<v, v>> : v \in User})
  BY DEF FavCheck
<1>2. ASSUME NEW j \in 1 .. Len(ws), NEW u \in User, ws[j].loc = KarmaAt(u)
      PROVE  u = user[c] /\ ws[j].val = me[c] + KarmaAward
  <2>1. j \in {1, 2, 3, 4} BY DEF FavCheckWrites
  <2>2. /\ ws[2] = Complete(p, asked[c], "username")
        /\ ws[3] = Unpin(user[c], p)
        /\ ws[4] = RemovePost(p)
    BY DEF FavCheckWrites
  <2>3. j = 1 BY <1>2, <2>1, <2>2, NotAboutKarma
  <2>4. ws[1] = SetKarma(user[c], me[c] + KarmaAward) BY DEF FavCheckWrites
  <2> QED BY <1>2, <2>3, <2>4, LocationsDiffer DEF SetKarma, Write
<1>3. ASSUME NEW u \in User, u = user[c], u # asked[c] PROVE MixedUp(u)'
  <2>1. asked[c] \in User BY <1>1, RecordIsOfUser
  <2>2. <<asked[c], u>> \in mixed' BY <1>1, <1>3
  <2> QED BY <2>1, <2>2 DEF MixedUp
<1> QED BY <1>1, <1>2, <1>3 DEF AwardsRecord

LEMMA RisingTouch ==
    ASSUME TypeOK, OwnKarma, NEW c \in Client, Touch(c) PROVE RisingStep
<1>1. ASSUME NEW u \in User, Login(c, u) \/ SignIn(c, u) PROVE RisingStep
  <2>1. /\ UNCHANGED <<dbVars, asked, me, mixed>> /\ u \in Accounts[c]
        /\ user' = [user EXCEPT ![c] = u]
    BY <1>1 DEF Login, SignIn, listVars, historyVars
  <2>2. /\ user'[c] = u
        /\ \A d \in Client \ {c} : user'[d] = user[d]
    BY <2>1 DEF TypeOK, SessionType
  <2>3. OwnKarma' BY <2>1, <2>2 DEF OwnKarma, dbVars
  <2>4. ASSUME Rising PROVE Rising' BY <2>1, <2>4, RisingQuiet
  <2> QED BY <2>3, <2>4 DEF RisingStep
<1>2. ASSUME LoginAgain(c) PROVE RisingStep
  <2>1. UNCHANGED <<dbVars, user, mixed>> /\ EmptyLists(c)
    BY <1>2 DEF LoginAgain, historyVars
  <2> QED BY <2>1, ListsEmptied, RisingOfQuiet
<1>3. ASSUME Logout(c) PROVE RisingStep
  <2>1. UNCHANGED <<dbVars, mixed>> /\ EmptyLists(c)
        /\ user' = [user EXCEPT ![c] = NoUser]
    BY <1>3 DEF Logout, historyVars
  <2>2. \A d \in Client : user'[d] \in {user[d], NoUser}
    BY <2>1 DEF TypeOK, SessionType
  <2>3. OwnKarma' BY <2>1, <2>2, ListsEmptied DEF OwnKarma, dbVars
  <2>4. ASSUME Rising PROVE Rising' BY <2>1, <2>4, ListsEmptied, RisingQuiet
  <2> QED BY <2>3, <2>4 DEF RisingStep
<1>4. ASSUME Scroll(c) \/ \E p \in Post : Submit(c, p) PROVE RisingStep
  <2>1. UNCHANGED <<dbVars, user, asked, me, mixed>>
    BY <1>4 DEF Scroll, Submit, sessionVars, listVars, historyVars
  <2> QED BY <2>1, RisingOfNothing
\* No record has been asked for, so none is there.
<1>5. ASSUME OpenPinned(c) PROVE RisingStep
  <2>1. /\ UNCHANGED <<dbVars, user, me, mixed>> /\ ~opened[c]
        /\ asked' = [asked EXCEPT ![c] = user[c]]
    BY <1>5 DEF OpenPinned, sessionVars, historyVars
  <2>2. me'[c] = Absent BY <2>1 DEF TypeOK, SessionType
  <2>3. /\ asked'[c] = user[c]
        /\ \A d \in Client \ {c} : asked'[d] = asked[d]
    BY <2>1 DEF TypeOK, SessionType
  <2>4. \A d \in Client :
           /\ me'[d] = Absent \/ (me'[d] = me[d] /\ asked'[d] = asked[d])
           /\ asked'[d] \in {asked[d], user[d], NoUser}
    BY <2>1, <2>2, <2>3
  <2> QED BY <2>1, <2>4, RisingOfQuiet
<1>6. ASSUME NEW p \in Post,
             HomePin(c, p) \/ HomeUnpin(c, p) \/ HomeCheck(c, p)
      PROVE  RisingStep
  <2>1. UNCHANGED <<user, asked, me, mixed>>
    BY <1>6 DEF HomePin, HomeUnpin, HomeCheck, sessionVars, historyVars
  <2>2. user[c] \in User
    BY <1>6, SomebodySignedIn DEF HomePin, HomeUnpin, HomeCheck, TypeOK
  <2>3. /\ <<Pin(user[c], p)>> \in Seq(AnyWrite)
        /\ <<Unpin(user[c], p)>> \in Seq(AnyWrite)
        /\ HomeCheckWrites(c, p) \in Seq(AnyWrite)
    BY <2>2, HandlerWrites DEF TypeOK
  <2>4. /\ HomePin(c, p) => Issue(c, <<Pin(user[c], p)>>)
        /\ HomeUnpin(c, p) => Issue(c, <<Unpin(user[c], p)>>)
        /\ HomeCheck(c, p) => Issue(c, HomeCheckWrites(c, p))
    BY DEF HomePin, HomeUnpin, HomeCheck
  <2> QED BY <1>6, <2>1, <2>3, <2>4, HandlersAward, RisingOfIssue
<1>7. ASSUME NEW p \in Post, FavCheck(c, p) PROVE RisingStep
  <2>1. /\ UNCHANGED <<user, asked, me>> /\ Issue(c, FavCheckWrites(c, p))
        /\ me[c] # Absent
    BY <1>7 DEF FavCheck, sessionVars, listVars
  <2>2. FavCheckWrites(c, p) \in Seq(AnyWrite)
    BY <2>1, HandlerWrites DEF TypeOK
  <2> QED BY <1>7, <2>1, <2>2, FavCheckAwards, RisingOfIssue
<1>8. ASSUME NEW p \in Post, FavPinTap(c, p) PROVE RisingStep
  BY <1>8, RisingOfRestart DEF FavPinTap
<1> QED BY <1>1, <1>2, <1>3, <1>4, <1>5, <1>6, <1>7, <1>8 DEF Touch

LEMMA RisingNetwork ==
    ASSUME TypeOK, OwnKarma, NEW c \in Client, Network(c), ~Drop(c)
    PROVE  RisingStep
<1>1. ASSUME Apply(c) \/ Refuse(c) \/ Hear(c) PROVE RisingStep
  <2>1. UNCHANGED <<user, asked, me, mixed>>
    BY <1>1 DEF Apply, Refuse, Hear, sessionVars, listVars, historyVars
  <2>2. Moves(c) BY <1>1 DEF Apply, Refuse, Hear, Moves
  <2>3. OwnKarma' BY <2>1, <2>2, OwnCarried DEF Moves
  <2>4. ASSUME Rising, OneDeviceEach PROVE Rising'
    BY <2>1, <2>2, <2>4, RisingMoves
  <2> QED BY <2>3, <2>4 DEF RisingStep
<1>2. ASSUME NEW p \in Post, UploadDone(c, p) PROVE RisingStep
  <2>1. /\ UNCHANGED <<user, asked, me, mixed>>
        /\ Issue(c, <<CreatePost(p)>>)
    BY <1>2 DEF UploadDone, EndUpload, sessionVars, listVars, historyVars
  <2>2. <<CreatePost(p)>> \in Seq(AnyWrite) BY HandlerWrites DEF TypeOK
  <2> QED BY <2>1, <2>2, HandlersAward, RisingOfIssue
<1>3. ASSUME NEW p \in Post, UploadFails(c, p) PROVE RisingStep
  <2>1. UNCHANGED <<dbVars, user, asked, me, mixed>>
    BY <1>3 DEF UploadFails, EndUpload, sessionVars, listVars, historyVars
  <2> QED BY <2>1, RisingOfNothing
<1> QED BY <1>1, <1>2, <1>3 DEF Network

\* A lost connection only changes what is outstanding.
LEMMA RisingDrop ==
    ASSUME TypeOK, OwnKarma, NEW c \in Client, Drop(c)
    PROVE  OwnKarma' /\ drops' # 0
<1>1. OwnKarma' BY OwnCarried DEF Drop, sessionVars, listVars
<1>2. drops' # 0 BY DEF Drop, TypeOK, HistoryType
<1> QED BY <1>1, <1>2

LEMMA RisingNext == TypeOK /\ RisingInv /\ [Next]_vars => RisingInv'
<1> SUFFICES ASSUME TypeOK, RisingInv, [Next]_vars PROVE RisingInv'
  OBVIOUS
<1>1. OwnKarma BY DEF RisingInv
<1>2. drops' = 0 => drops = 0 BY BoundsStay
<1>3. ASSUME RisingStep PROVE RisingInv'
  <2>1. OwnKarma' BY <1>3 DEF RisingStep
  <2>2. ASSUME OneDeviceEach, drops' = 0 PROVE Rising'
    BY <1>2, <1>3, <2>2 DEF RisingStep, RisingInv
  <2> QED BY <2>1, <2>2 DEF RisingInv, OneDeviceEach
<1>4. CASE Next
  <2> PICK c \in Client : Screen(c) \/ Touch(c) \/ Network(c) \/ Kill(c)
    BY <1>4 DEF Next
  <2>1. CASE Screen(c) BY <1>1, <1>3, <2>1, RisingScreen
  <2>2. CASE Touch(c) BY <1>1, <1>3, <2>2, RisingTouch
  <2>3. CASE Network(c) /\ ~Drop(c) BY <1>1, <1>3, <2>3, RisingNetwork
  <2>4. CASE Drop(c) BY <1>1, <2>4, RisingDrop DEF RisingInv
  <2>5. CASE Kill(c) BY <1>1, <1>3, <2>5, RisingOfRestart DEF Kill
  <2> QED BY <2>1, <2>2, <2>3, <2>4, <2>5
<1>5. CASE UNCHANGED vars
  <2>1. UNCHANGED <<dbVars, user, asked, me, mixed>>
    BY <1>5 DEF vars, sessionVars, listVars, historyVars
  <2> QED BY <1>1, <1>3, <2>1, RisingOfNothing
<1> QED BY <1>4, <1>5

LEMMA RisingInit == Init => RisingInv
<1> SUFFICES ASSUME Init PROVE RisingInv OBVIOUS
<1>1. \A c \in Client : 1 .. Len(outbox[c]) = {}
  <2> TAKE c \in Client
  <2>1. outbox[c] = <<>> BY DEF Init
  <2>2. Len(outbox[c]) = 0 BY <2>1
  <2> QED BY <2>2
<1>2. \A c \in Client :
         me[c] = Absent /\ user[c] = NoUser /\ asked[c] = NoUser
  BY DEF Init
<1> QED BY <1>1, <1>2 DEF RisingInv, OwnKarma, Rising, KarmaRises, RecordRecent

\* The points of a user never fall as long as every account is used on one
\* device only and nothing is sent twice: the record the sum was computed
\* from is never older than the last award, and the sums reach the server in
\* the order they were computed; unless it was the record of somebody else
\* (PinController.swift:303, 311, 318), signed in before on the same device.
THEOREM PointsNeverFall == Spec => KarmaNeverFalls
<1> DEFINE Kept == OneDeviceEach /\ drops' = 0 => NobodysPointsFall
<1>1. Init => TypeOK /\ RisingInv BY TypeInit, RisingInit
<1>2. TypeOK /\ RisingInv /\ [Next]_vars => (TypeOK /\ RisingInv)'
  BY TypeStep, RisingNext
<1>3. TypeOK /\ RisingInv /\ [Next]_vars => [Kept]_vars
  <2> SUFFICES ASSUME TypeOK, RisingInv, [Next]_vars, OneDeviceEach,
                      drops' = 0, NEW u \in User, ~MixedUp(u)'
               PROVE  db'[KarmaAt(u)] >= db[KarmaAt(u)]
    BY DEF NobodysPointsFall
  <2>1. Rising BY BoundsStay DEF RisingInv
  <2>2. db[KarmaAt(u)] \in Nat BY DEF TypeOK, DbType
  <2>3. CASE db' = db BY <2>2, <2>3
  <2>4. ASSUME NEW c \in Client, ServerApply(c), mixed' = mixed
        PROVE  db'[KarmaAt(u)] >= db[KarmaAt(u)]
    <3>2. ~MixedUp(u) BY <2>4, MixedStays
    <3>3. /\ db'[KarmaAt(u)] = IF NextWrite(c).loc = KarmaAt(u)
                               THEN NextWrite(c).val ELSE db[KarmaAt(u)]
          /\ NextWrite(c).loc = KarmaAt(u)
                => db[KarmaAt(u)] <= NextWrite(c).val
          /\ applied[c] + 1 \in Pending(c)
          /\ NextWrite(c) = outbox[c][applied[c] + 1]
      BY <2>1, <2>4, <3>2, AppliedRises DEF Rising
    <3>4. NextWrite(c).loc = KarmaAt(u) => NextWrite(c).val \in Nat
      BY <3>3, OutboxWrites, ValueOfWrite DEF Pending
    <3> QED BY <2>2, <3>3, <3>4
  <2> QED BY <2>3, <2>4, OnlyApplyMovesTree
<1> QED BY <1>1, <1>2, <1>3, PTL DEF Spec, KarmaNeverFalls
=============================================================================
