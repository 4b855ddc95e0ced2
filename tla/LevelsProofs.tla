---------------------------- MODULE LevelsProofs ----------------------------
(***************************************************************************)
(* Proofs about Levels: whatever is flushed, moved and merged, and in      *)
(* whatever order, the tables of every level behind level 0 stay disjoint, *)
(* what lies above stays newer than what lies below, and every read point  *)
(* sees the newest write up to it - as long as no memtable was written out *)
(* during a manual compaction, and for the keys that no two tables of a    *)
(* level have come to share.                                               *)
(***************************************************************************)
EXTENDS Levels, FiniteSetTheorems, WellFoundedInduction, TLAPS

-----------------------------------------------------------------------------
(* Sets and orders. *)

\* A set of numbers has a least element.
LEMMA LeastNumber ==
  ASSUME NEW S, S \subseteq Nat, S # {}
  PROVE  \E m \in S : \A n \in S : m <= n
<1>1. IsWellFoundedOn(OpToRel(<, Nat), Nat)
  BY NatLessThanWellFounded
<1>2. PICK x \in S : \A y \in S : ~ (<<y, x>> \in OpToRel(<, Nat))
  BY <1>1, WFMin
<1>3. \A y \in S : ~ (y < x)
  BY <1>2 DEF OpToRel
<1> QED
  BY <1>3

\* What each turn of a loop keeps, the loop keeps.
LEMMA LoopKeeps ==
  ASSUME NEW N \in Nat, NEW f, NEW good, f[0] \in good[0],
         \A n \in 1 .. N : f[n - 1] \in good[n - 1] => f[n] \in good[n]
  PROVE  \A n \in 0 .. N : f[n] \in good[n]
<1> DEFINE Bad == {n \in 0 .. N : f[n] \notin good[n]}
<1>1. ASSUME Bad # {} PROVE FALSE
  <2>1. PICK n \in Bad : \A m \in Bad : n <= m
    <3>1. Bad \subseteq Nat
      OBVIOUS
    <3> HIDE DEF Bad
    <3> QED
      BY <1>1, <3>1, LeastNumber
  <2>2. n # 0
    BY <2>1
  <2>3. n \in 1 .. N /\ n - 1 \in 0 .. N /\ n - 1 \notin Bad
    BY <2>1, <2>2
  <2> QED
    BY <2>1, <2>3
<1> QED
  BY <1>1

\* R is a strict order of S in which any two elements compare.
Orders(R, S) ==
  /\ \A x \in S : <<x, x>> \notin R
  /\ \A x, y, z \in S : <<x, y>> \in R /\ <<y, z>> \in R => <<x, z>> \in R
  /\ \A x, y \in S : x = y \/ <<x, y>> \in R \/ <<y, x>> \in R
InFrontOf(R, S, x) == {y \in S : <<y, x>> \in R}

\* An element has more in front of it than those in front of it have, and never all.
LEMMA RankGrows ==
  ASSUME NEW R, NEW S, IsFiniteSet(S), Orders(R, S), NEW y \in S
  PROVE  /\ Cardinality(InFrontOf(R, S, y)) \in Nat
         /\ Cardinality(InFrontOf(R, S, y)) < Cardinality(S)
         /\ Cardinality(S) \in Nat
         /\ \A x \in S : <<x, y>> \in R =>
              Cardinality(InFrontOf(R, S, x)) < Cardinality(InFrontOf(R, S, y))
<1> DEFINE A(x) == InFrontOf(R, S, x)
<1>1. \A x \in S : A(x) \subseteq S \ {x}
  BY DEF InFrontOf, Orders
<1>2. \A x \in S : IsFiniteSet(A(x)) /\ Cardinality(A(x)) \in Nat
  <2>1. TAKE x \in S
  <2>2. A(x) \in SUBSET S
    BY <1>1
  <2> HIDE DEF A
  <2> QED
    BY <2>2, FS_Subset, FS_CardinalityType
<1>3. ASSUME NEW x \in S, <<x, y>> \in R
      PROVE  Cardinality(A(x)) < Cardinality(A(y))
  <2>1. A(x) \in SUBSET A(y) /\ x \in A(y) /\ x \notin A(x)
    BY <1>3 DEF InFrontOf, Orders
  <2>2. A(x) # A(y)
    BY <2>1
  <2> HIDE DEF A
  <2>3. Cardinality(A(x)) <= Cardinality(A(y)) /\ Cardinality(A(x)) # Cardinality(A(y))
    BY <2>1, <2>2, <1>2, FS_Subset
  <2> QED
    BY <2>3, <1>2
<1>4. Cardinality(A(y)) < Cardinality(S) /\ Cardinality(S) \in Nat
  <2>1. A(y) \in SUBSET S /\ A(y) # S
    BY <1>1
  <2> HIDE DEF A
  <2>2. Cardinality(A(y)) <= Cardinality(S) /\ Cardinality(A(y)) # Cardinality(S) /\ Cardinality(S) \in Nat
    BY <2>1, FS_Subset, FS_CardinalityType
  <2> QED
    BY <2>2, <1>2
<1> QED
  BY <1>2, <1>3, <1>4

\* A finite set that is not empty has a first element.
LEMMA FirstExists ==
  ASSUME NEW R, NEW S, IsFiniteSet(S), Orders(R, S), S # {}
  PROVE  \E m \in S : \A x \in S \ {m} : <<m, x>> \in R
<1> DEFINE ranks == {Cardinality(InFrontOf(R, S, x)) : x \in S}
<1>1. ranks \subseteq Nat /\ ranks # {}
  BY RankGrows
<1>2. PICK n \in ranks : \A k \in ranks : n <= k
  <2> HIDE DEF ranks
  <2> QED
    BY <1>1, LeastNumber
<1>3. PICK m \in S : n = Cardinality(InFrontOf(R, S, m))
  BY <1>2
<1>4. ASSUME NEW x \in S \ {m}, <<m, x>> \notin R PROVE FALSE
  <2>1. <<x, m>> \in R
    BY <1>4 DEF Orders
  <2>2. Cardinality(InFrontOf(R, S, x)) < n /\ Cardinality(InFrontOf(R, S, x)) \in Nat /\ n \in Nat
    BY <1>3, <2>1, RankGrows
  <2>3. n <= Cardinality(InFrontOf(R, S, x))
    BY <1>2
  <2> QED
    BY <2>2, <2>3
<1> QED
  BY <1>4

\* Each place in the order is taken.
LEMMA PlacesTaken ==
  ASSUME NEW R, NEW S, IsFiniteSet(S), Orders(R, S)
  PROVE  /\ Cardinality(S) \in Nat
         /\ \A x \in S : Cardinality(InFrontOf(R, S, x)) + 1 \in 1 .. Cardinality(S)
         /\ \A n \in 1 .. Cardinality(S) :
              \E x \in S : Cardinality(InFrontOf(R, S, x)) = n - 1
<1> DEFINE N == Cardinality(S)
           f == [x \in S |-> Cardinality(InFrontOf(R, S, x)) + 1]
<1>1. N \in Nat
  BY FS_CardinalityType
<1>2. \A x \in S : Cardinality(InFrontOf(R, S, x)) + 1 \in 1 .. N
  BY <1>1, RankGrows
<1>3. ASSUME NEW x \in S, NEW y \in S, f[x] = f[y] PROVE x = y
  <2>1. Cardinality(InFrontOf(R, S, x)) = Cardinality(InFrontOf(R, S, y))
    BY <1>3, RankGrows
  <2>2. <<x, y>> \notin R /\ <<y, x>> \notin R
    BY <2>1, RankGrows
  <2> QED
    BY <2>2 DEF Orders
<1>4. f \in Injection(S, 1 .. N)
  BY <1>2, <1>3 DEF Injection, IsInjective
<1>5. IsFiniteSet(1 .. N) /\ Cardinality(1 .. N) = N
  <2>1. 1 \in Int /\ N \in Int /\ (1 > N => N = 0)
    BY <1>1
  <2> HIDE DEF N
  <2> QED
    BY <1>1, <2>1, FS_Interval
<1>6. f \in Surjection(S, 1 .. N)
  <2> HIDE DEF f
  <2> QED
    BY <1>4, <1>5, FS_Injection
<1>7. \A n \in 1 .. N : \E x \in S : f[x] = n
  BY <1>6 DEF Surjection
<1>8. ASSUME NEW n \in 1 .. N PROVE \E x \in S : Cardinality(InFrontOf(R, S, x)) = n - 1
  <2>1. PICK x \in S : f[x] = n
    BY <1>7
  <2>2. Cardinality(InFrontOf(R, S, x)) + 1 = n /\ Cardinality(InFrontOf(R, S, x)) \in Nat
    BY <2>1, RankGrows
  <2> QED
    BY <2>2
<1> QED
  BY <1>1, <1>2, <1>8

-----------------------------------------------------------------------------
(* Entries.  Sets of them are finite, and each entry has a sequence number of  *)
(* its own.                                                                    *)

Proper(S) ==
  /\ IsFiniteSet(S) /\ S \subseteq Entry(Nat)
  /\ \A e, x \in S : e.seq = x.seq => e = x
BeforeIn(S) == {p \in S \X S : Before(p[1], p[2])}

\* Part of a proper set of entries is one.
LEMMA ProperPart ==
  ASSUME NEW S, Proper(S), NEW T, T \subseteq S
  PROVE  Proper(T)
BY FS_Subset DEF Proper

\* Keys and sequence numbers are numbers.
LEMMA EntryFields ==
  ASSUME NEW S, Proper(S), NEW e \in S
  PROVE  e.key \in Key /\ e.key \in Nat /\ e.seq \in Nat
BY KeysAreNumbers DEF Proper, Entry

\* Before orders them.
LEMMA BeforeOrders ==
  ASSUME NEW S, Proper(S)
  PROVE  /\ \A x \in S : ~Before(x, x)
         /\ \A x, y \in S : Before(x, y) => ~Before(y, x)
         /\ \A x, y, z \in S : Before(x, y) /\ Before(y, z) => Before(x, z)
         /\ \A x, y \in S : x = y \/ Before(x, y) \/ Before(y, x)
         /\ \A x, y \in S : Before(x, y) => x.key <= y.key
<1>1. \A x \in S : x.key \in Nat /\ x.seq \in Nat
  BY EntryFields
<1>2. \A x, y \in S : x.seq = y.seq => x = y
  BY DEF Proper
<1> QED
  BY <1>1, <1>2 DEF Before

\* The order of the entries as a relation.
LEMMA BeforeInOrders ==
  ASSUME NEW S, Proper(S)
  PROVE  /\ Orders(BeforeIn(S), S)
         /\ \A x \in S : InFrontOf(BeforeIn(S), S, x) = {y \in S : Before(y, x)}
<1>1. \A x, y \in S : <<x, y>> \in BeforeIn(S) <=> Before(x, y)
  BY DEF BeforeIn
<1> QED
  BY <1>1, BeforeOrders DEF Orders, InFrontOf

\* The same, from the other end.
AfterIn(S) == {p \in S \X S : Before(p[2], p[1])}

\* From its other end it orders them too.
LEMMA AfterInOrders ==
  ASSUME NEW S, Proper(S)
  PROVE  Orders(AfterIn(S), S)
<1>1. \A x, y \in S : <<x, y>> \in AfterIn(S) <=> Before(y, x)
  BY DEF AfterIn
<1> QED
  BY <1>1, BeforeOrders DEF Orders

\* A set of entries that is not empty has a first one and a last one.
LEMMA EndsAreIn ==
  ASSUME NEW S, Proper(S), S # {}
  PROVE  /\ FirstOf(S) \in S /\ \A x \in S : x = FirstOf(S) \/ Before(FirstOf(S), x)
         /\ LastOf(S) \in S /\ \A x \in S : x = LastOf(S) \/ Before(x, LastOf(S))
<1>0. IsFiniteSet(S)
  BY DEF Proper
<1>1. \E m \in S : \A x \in S : ~Before(x, m)
  <2>1. PICK m \in S : \A x \in S \ {m} : <<m, x>> \in BeforeIn(S)
    BY <1>0, BeforeInOrders, FirstExists
  <2>2. \A x \in S \ {m} : Before(m, x)
    BY <2>1 DEF BeforeIn
  <2> QED
    BY <2>2, BeforeOrders
<1>2. FirstOf(S) \in S /\ \A x \in S : ~Before(x, FirstOf(S))
  BY <1>1 DEF FirstOf
<1>3. \E m \in S : \A x \in S : ~Before(m, x)
  <2>1. PICK m \in S : \A x \in S \ {m} : <<m, x>> \in AfterIn(S)
    BY <1>0, AfterInOrders, FirstExists
  <2>2. \A x \in S \ {m} : Before(x, m)
    BY <2>1 DEF AfterIn
  <2> QED
    BY <2>2, BeforeOrders
<1>4. LastOf(S) \in S /\ \A x \in S : ~Before(LastOf(S), x)
  BY <1>3 DEF LastOf
<1> QED
  BY <1>2, <1>4, BeforeOrders

\* The user keys of the first and the last one are the least and the greatest.
LEMMA EndKeys ==
  ASSUME NEW S, Proper(S), S # {}
  PROVE  /\ FirstOf(S).key \in Key /\ LastOf(S).key \in Key
         /\ FirstOf(S).key \in Nat /\ LastOf(S).key \in Nat
         /\ \A x \in S : FirstOf(S).key <= x.key /\ x.key <= LastOf(S).key
<1>1. FirstOf(S) \in S /\ LastOf(S) \in S
  BY EndsAreIn
<1>2. \A x \in S : x.key \in Key /\ x.key \in Nat
  BY EntryFields
<1>3. ASSUME NEW x \in S PROVE FirstOf(S).key <= x.key /\ x.key <= LastOf(S).key
  <2>1. x = FirstOf(S) \/ Before(FirstOf(S), x)
    BY EndsAreIn
  <2>2. x = LastOf(S) \/ Before(x, LastOf(S))
    BY EndsAreIn
  <2>3. Before(FirstOf(S), x) => FirstOf(S).key <= x.key
    BY <1>1, BeforeOrders
  <2>4. Before(x, LastOf(S)) => x.key <= LastOf(S).key
    BY <1>1, BeforeOrders
  <2> QED
    BY <2>1, <2>2, <2>3, <2>4, <1>1, <1>2
<1> QED
  BY <1>1, <1>2, <1>3

\* Sorted, they are all there, in order.
LEMMA InOrderLists ==
  ASSUME NEW S, Proper(S), NEW q, q = InOrder(S)
  PROVE  /\ Len(q) \in Nat
         /\ \A n \in 1 .. Len(q) : q[n] \in S
         /\ \A x \in S : \E n \in 1 .. Len(q) : q[n] = x
         /\ \A m, n \in 1 .. Len(q) : m < n => Before(q[m], q[n])
<1> DEFINE N == Cardinality(S)
           Rank(x) == Cardinality({y \in S : Before(y, x)})
<1>0. IsFiniteSet(S) /\ Orders(BeforeIn(S), S) /\ N \in Nat
  BY BeforeInOrders, FS_CardinalityType DEF Proper
<1>1. /\ \A x \in S : Rank(x) + 1 \in 1 .. N /\ Rank(x) \in Nat
      /\ \A n \in 1 .. N : \E x \in S : Rank(x) = n - 1
  <2>1. \A x \in S : Rank(x) = Cardinality(InFrontOf(BeforeIn(S), S, x))
    BY BeforeInOrders
  <2> HIDE DEF Rank
  <2> QED
    BY <1>0, <2>1, PlacesTaken, RankGrows
<1>2. \A x, y \in S : Before(x, y) => Rank(x) < Rank(y)
  <2>1. \A x \in S : Rank(x) = Cardinality(InFrontOf(BeforeIn(S), S, x))
    BY BeforeInOrders
  <2>2. \A x, y \in S : Before(x, y) => <<x, y>> \in BeforeIn(S)
    BY DEF BeforeIn
  <2> HIDE DEF Rank
  <2> QED
    BY <1>0, <2>1, <2>2, RankGrows
<1>3. q = [n \in 1 .. N |-> CHOOSE x \in S : Rank(x) = n - 1]
  BY DEF InOrder, Sorted
<1> HIDE DEF Rank
<1>4. \A n \in 1 .. N : q[n] \in S /\ Rank(q[n]) = n - 1
  BY <1>1, <1>3
<1> HIDE DEF N
<1>5. q \in Seq(S) /\ Len(q) = N
  BY <1>0, <1>3, <1>4
<1>6. ASSUME NEW x \in S PROVE \E n \in 1 .. N : q[n] = x
  <2> DEFINE n == Rank(x) + 1
  <2>1. n \in 1 .. N /\ Rank(x) \in Nat /\ n - 1 = Rank(x)
    BY <1>1
  <2>2. q[n] \in S /\ Rank(q[n]) = Rank(x)
    BY <2>1, <1>4
  <2>3. ~Before(q[n], x) /\ ~Before(x, q[n])
    BY <2>1, <2>2, <1>2
  <2> QED
    BY <2>1, <2>2, <2>3, BeforeOrders
<1>7. ASSUME NEW m \in 1 .. N, NEW n \in 1 .. N, m < n PROVE Before(q[m], q[n])
  <2>1. Rank(q[m]) = m - 1 /\ Rank(q[n]) = n - 1 /\ m \in Nat /\ n \in Nat
    BY <1>0, <1>4
  <2>2. ~(Rank(q[n]) < Rank(q[m])) /\ Rank(q[n]) # Rank(q[m])
    BY <2>1, <1>7
  <2> QED
    BY <2>2, <1>2, <1>4, BeforeOrders
<1> QED
  BY <1>0, <1>4, <1>5, <1>6, <1>7

-----------------------------------------------------------------------------
(* DoCompactionWork: what the output tables hold. *)

InFront(S, T) == \A x \in S, y \in T : Before(x, y)
Kept(c, data, e) == ~Hidden(c, data, e) /\ ~Obsolete(c, e)

\* Of the entries T that have been read, those that are kept are in the output tables,
\* in order: some are written, and one may be open.
Written(c, data, T, done, open) ==
  /\ done \in Seq(SUBSET T) /\ open \subseteq T
  /\ \A i \in 1 .. Len(done) : done[i] # {} /\ InFront(done[i], open)
  /\ \A i, j \in 1 .. Len(done) : i < j => InFront(done[i], done[j])
  /\ \A x \in T : (x \in open \/ \E i \in 1 .. Len(done) : x \in done[i]) <=> Kept(c, data, x)

\* FinishCompactionOutputFile.
LEMMA TableClosed ==
  ASSUME NEW c, NEW data, NEW T, NEW done, NEW open, Written(c, data, T, done, open), open # {}
  PROVE  Written(c, data, T, Append(done, open), {})
<1> DEFINE new == Append(done, open)
<1>1. done \in Seq(SUBSET T) /\ open \in SUBSET T /\ Len(done) \in Nat
  BY DEF Written
<1>2. /\ new \in Seq(SUBSET T) /\ Len(new) = Len(done) + 1
      /\ \A i \in 1 .. Len(done) : new[i] = done[i]
      /\ new[Len(done) + 1] = open
  BY <1>1
<1>3. \A i \in 1 .. Len(done) + 1 : i \in 1 .. Len(done) \/ i = Len(done) + 1
  BY <1>1
<1>3a. \A i \in 1 .. Len(done) : i \in 1 .. Len(done) + 1 /\ i < Len(done) + 1
  BY <1>1
<1>3b. Len(done) + 1 \in 1 .. Len(done) + 1
  BY <1>1
<1> HIDE DEF new
<1>4. \A i \in 1 .. Len(new) : new[i] # {} /\ InFront(new[i], {})
  BY <1>2, <1>3 DEF Written, InFront
<1>5. ASSUME NEW i \in 1 .. Len(new), NEW j \in 1 .. Len(new), i < j
      PROVE  InFront(new[i], new[j])
  <2>1. i \in 1 .. Len(done)
    BY <1>1, <1>2, <1>5
  <2>2. CASE j \in 1 .. Len(done)
    BY <1>2, <1>5, <2>1, <2>2 DEF Written
  <2>3. CASE j = Len(done) + 1
    BY <1>2, <2>1, <2>3 DEF Written
  <2> QED
    BY <1>2, <1>3, <2>2, <2>3
<1>6. \A x : (\E i \in 1 .. Len(new) : x \in new[i])
               <=> (x \in open \/ \E i \in 1 .. Len(done) : x \in done[i])
  BY <1>2, <1>3, <1>3a, <1>3b
<1>7. \A x \in T : (\E i \in 1 .. Len(new) : x \in new[i]) <=> Kept(c, data, x)
  BY <1>6 DEF Written
<1> QED
  BY <1>2, <1>4, <1>5, <1>7 DEF Written, new

\* An entry that is dropped.
LEMMA EntryDropped ==
  ASSUME NEW c, NEW data, NEW T, NEW done, NEW open, Written(c, data, T, done, open),
         NEW e, ~Kept(c, data, e), e \notin T
  PROVE  Written(c, data, T \union {e}, done, open)
<1>1. done \in Seq(SUBSET T) /\ open \in SUBSET T
  BY DEF Written
<1>2. done \in Seq(SUBSET (T \union {e}))
  BY <1>1
<1>3. \A i \in 1 .. Len(done) : done[i] \subseteq T
  BY <1>1
<1> QED
  BY <1>1, <1>2, <1>3 DEF Written

\* An entry that is added to the open table.
LEMMA EntryAdded ==
  ASSUME NEW c, NEW data, NEW T, NEW done, NEW open, Written(c, data, T, done, open),
         NEW e, Kept(c, data, e), e \notin T, \A x \in T : Before(x, e)
  PROVE  Written(c, data, T \union {e}, done, open \union {e})
<1>1. done \in Seq(SUBSET T) /\ open \in SUBSET T
  BY DEF Written
<1>2. done \in Seq(SUBSET (T \union {e}))
  BY <1>1
<1>3. \A i \in 1 .. Len(done) : done[i] \subseteq T
  BY <1>1
<1>4. \A i \in 1 .. Len(done) : InFront(done[i], open \union {e})
  BY <1>3 DEF Written, InFront
<1> QED
  BY <1>1, <1>2, <1>3, <1>4 DEF Written

\* One turn of the merge.
LEMMA AddEntryWrites ==
  ASSUME NEW c, NEW data, NEW T, NEW out, Written(c, data, T, out.done, out.open),
         NEW e, e \notin T, \A x \in T : Before(x, e),
         NEW o, o = AddEntry(c, data, out, e)
  PROVE  Written(c, data, T \union {e}, o.done, o.open)
<1> DEFINE p == PassGrandparents(c, out, e)
<1>1. Written(c, data, T, p.done, p.open)
  <2>1. \/ p.done = out.done /\ p.open = out.open
        \/ p.done = out.done /\ p.open = {} /\ out.open = {}
        \/ p.done = Append(out.done, out.open) /\ p.open = {} /\ out.open # {}
    BY DEF PassGrandparents
  <2> HIDE DEF p
  <2>2. CASE p.done = out.done /\ p.open = out.open
    BY <2>2
  <2>3. CASE p.done = out.done /\ p.open = {} /\ out.open = {}
    BY <2>3
  <2>4. CASE p.done = Append(out.done, out.open) /\ p.open = {} /\ out.open # {}
    BY <2>4, TableClosed
  <2> QED
    BY <2>1, <2>2, <2>3, <2>4
<1>2. \/ ~Kept(c, data, e) /\ o = p
      \/ Kept(c, data, e) /\ o.done = Append(p.done, p.open \union {e}) /\ o.open = {}
      \/ Kept(c, data, e) /\ o.done = p.done /\ o.open = p.open \union {e}
  <2> DEFINE w == p.open \union {e}
  <2>1. \E a, b, d : p = [done |-> p.done, open |-> p.open, passed |-> a, seen |-> b, bytes |-> d]
    BY DEF PassGrandparents
  <2>2. o = IF ~Kept(c, data, e) THEN p
            ELSE IF Cardinality(w) >= MaxFileSize
            THEN [p EXCEPT !.done = Append(@, w), !.open = {}]
            ELSE [p EXCEPT !.open = w]
    BY DEF AddEntry, Kept
  <2> HIDE DEF p, w
  <2> QED
    BY <2>1, <2>2 DEF w
<1> HIDE DEF p
<1>3. CASE ~Kept(c, data, e) /\ o = p
  BY <1>1, <1>3, EntryDropped
<1>4. CASE Kept(c, data, e) /\ o.done = Append(p.done, p.open \union {e}) /\ o.open = {}
  <2>1. Written(c, data, T \union {e}, p.done, p.open \union {e})
    BY <1>1, <1>4, EntryAdded
  <2> QED
    BY <1>4, <2>1, TableClosed
<1>5. CASE Kept(c, data, e) /\ o.done = p.done /\ o.open = p.open \union {e}
  BY <1>1, <1>5, EntryAdded
<1> QED
  BY <1>2, <1>3, <1>4, <1>5

\* The loop over the merged input has its results.
NothingOut == [done |-> << >>, open |-> {}, passed |-> {}, seen |-> FALSE, bytes |-> 0]
Merging(f, c, data, q, N) ==
  f = [n \in 0 .. N |-> IF n = 0 THEN NothingOut ELSE AddEntry(c, data, f[n - 1], q[n])]

\* There is a function that takes each turn of the loop after the one before it.
LEMMA MergingExists ==
  ASSUME NEW c, NEW data, NEW q, NEW N \in Nat
  PROVE  \E f : Merging(f, c, data, q, N)
<1> DEFINE Bad == {n \in Nat : ~\E f : Merging(f, c, data, q, n)}
<1>1. ASSUME Bad # {} PROVE FALSE
  <2>1. PICK n \in Bad : \A m \in Bad : n <= m
    <3>1. Bad \subseteq Nat
      OBVIOUS
    <3> HIDE DEF Bad
    <3> QED
      BY <1>1, <3>1, LeastNumber
  <2>2. n \in Nat /\ ~\E f : Merging(f, c, data, q, n)
    BY <2>1
  <2>3. CASE n = 0
    <3> DEFINE g == [i \in 0 .. 0 |-> NothingOut]
    <3>1. Merging(g, c, data, q, 0)
      BY DEF Merging
    <3> QED
      BY <2>2, <2>3, <3>1
  <2>4. CASE n # 0
    <3>1. n - 1 \in Nat /\ n - 1 \notin Bad
      <4> HIDE DEF Bad
      <4>2. \A m \in Bad : n <= m
        BY <2>1
      <4>3. n - 1 \in Nat /\ ~(n <= n - 1)
        BY <2>2, <2>4
      <4> QED
        BY <4>2, <4>3
    <3>2. PICK f : Merging(f, c, data, q, n - 1)
      BY <3>1
    <3> DEFINE g == [i \in 0 .. n |-> IF i = n THEN AddEntry(c, data, f[n - 1], q[n]) ELSE f[i]]
               h == [i \in 0 .. n |-> IF i = 0 THEN NothingOut
                                      ELSE AddEntry(c, data, g[i - 1], q[i])]
    <3>3. ASSUME NEW i \in 0 .. n PROVE g[i] = h[i]
      <4>1. CASE i = n
        <5>1. g[i - 1] = f[n - 1]
          BY <3>1, <4>1, <2>4
        <5> QED
          BY <4>1, <5>1, <2>4
      <4>2. CASE i # n
        <5>1. i \in 0 .. n - 1
          BY <4>2, <3>1
        <5>2. f[i] = IF i = 0 THEN NothingOut ELSE AddEntry(c, data, f[i - 1], q[i])
          BY <3>2, <5>1 DEF Merging
        <5>3. i # 0 => g[i - 1] = f[i - 1]
          BY <5>1, <3>1
        <5> QED
          BY <4>2, <5>2, <5>3
      <4> QED
        BY <4>1, <4>2
    <3>4. g = h
      BY <3>3
    <3>5. Merging(g, c, data, q, n)
      BY <3>4 DEF Merging
    <3> QED
      BY <2>2, <3>5
  <2> QED
    BY <2>3, <2>4
<1> QED
  BY <1>1

\* The output tables are those of the last turn, and the one that is still open.
MergeOf(c, data, q, N) == CHOOSE f : Merging(f, c, data, q, N)
LastTables(last) == IF last.open = {} THEN last.done ELSE Append(last.done, last.open)

\* Outputs is that: the loop over the merged input and its last table.
LEMMA OutputsAre ==
  ASSUME NEW c
  PROVE  LET data == AllData(c.in0 \union c.in1)
             q    == InOrder(data)
         IN  Outputs(c) = LastTables(MergeOf(c, data, q, Len(q))[Len(q)])
BY DEF Outputs, Merging, NothingOut, MergeOf, LastTables

\* What the output tables of a compaction hold.
LEMMA OutputsHold ==
  ASSUME NEW c, NEW data, data = AllData(c.in0 \union c.in1), Proper(data),
         NEW outs, outs = Outputs(c)
  PROVE  Written(c, data, data, outs, {})
<1> DEFINE q == InOrder(data)
           N == Len(q)
           f == MergeOf(c, data, q, N)
           upto == [n \in 0 .. N |-> {q[j] : j \in 1 .. n}]
           good == [n \in 0 .. N |-> {o \in {f[i] : i \in 0 .. N} :
                                        Written(c, data, upto[n], o.done, o.open)}]
<1>1. /\ N \in Nat /\ \A n \in 1 .. N : q[n] \in data
      /\ \A x \in data : \E n \in 1 .. N : q[n] = x
      /\ \A m, n \in 1 .. N : m < n => Before(q[m], q[n])
  <2>1. q = InOrder(data) /\ Proper(data)
    OBVIOUS
  <2> HIDE DEF q
  <2> QED
    BY ONLY <2>1, InOrderLists
<1>2. outs = IF f[N].open = {} THEN f[N].done ELSE Append(f[N].done, f[N].open)
  BY OutputsAre DEF LastTables
<1> HIDE DEF q
<1> HIDE DEF N
<1>3. Merging(f, c, data, q, N)
  <2>1. \E g : Merging(g, c, data, q, N)
    BY <1>1, MergingExists
  <2> QED
    BY <2>1 DEF MergeOf
<1> HIDE DEF f
<1>4. /\ f[0] = NothingOut
      /\ \A n \in 1 .. N : f[n] = AddEntry(c, data, f[n - 1], q[n]) /\ n \in 0 .. N /\ n - 1 \in 0 .. N
  <2>1. \A n \in 0 .. N : f[n] = IF n = 0 THEN NothingOut ELSE AddEntry(c, data, f[n - 1], q[n])
    BY <1>3 DEF Merging
  <2>2. 0 \in 0 .. N /\ \A n \in 1 .. N : n \in 0 .. N /\ n - 1 \in 0 .. N /\ n # 0
    BY <1>1
  <2> QED
    BY <2>1, <2>2
<1>5. \A n \in 0 .. N : f[n] \in good[n] <=> Written(c, data, upto[n], f[n].done, f[n].open)
  OBVIOUS
<1>6. \A n \in 1 .. N : f[n - 1] \in good[n - 1] <=>
                         Written(c, data, upto[n - 1], f[n - 1].done, f[n - 1].open)
  BY <1>4, <1>5
<1>7. upto[0] = {} /\ upto[N] = data
  <2>1. 0 \in 0 .. N /\ N \in 0 .. N
    BY <1>1
  <2>2. upto[0] = {}
    BY <2>1
  <2>3. upto[N] = {q[j] : j \in 1 .. N}
    BY <2>1
  <2> HIDE DEF upto
  <2> QED
    BY <2>2, <2>3, <1>1
<1>8. ASSUME NEW n \in 1 .. N
      PROVE  /\ upto[n] = upto[n - 1] \union {q[n]} /\ q[n] \notin upto[n - 1]
             /\ \A x \in upto[n - 1] : Before(x, q[n])
  <2>1. n \in 0 .. N /\ n - 1 \in 0 .. N
    BY <1>4
  <2>2. \A i : i \in 1 .. n <=> i \in 1 .. n - 1 \/ i = n
    BY <1>1
  <2>3. \A i \in 1 .. n - 1 : i \in 1 .. N /\ i < n
    BY <1>1
  <2>4. upto[n] = {q[j] : j \in 1 .. n} /\ upto[n - 1] = {q[j] : j \in 1 .. n - 1}
    BY <2>1
  <2> HIDE DEF upto
  <2>5. \A x \in upto[n - 1] : Before(x, q[n])
    BY <2>3, <2>4, <1>1
  <2>6. ~Before(q[n], q[n])
    BY <1>1, BeforeOrders
  <2> QED
    BY <2>2, <2>4, <2>5, <2>6
<1> HIDE DEF good, upto
<1>9. f[0] \in good[0]
  <2>1. Written(c, data, {}, << >>, {})
    BY DEF Written
  <2>2. 0 \in 0 .. N
    BY <1>1
  <2>3. f[0].done = << >> /\ f[0].open = {}
    BY <1>4 DEF NothingOut
  <2> QED
    BY <2>1, <2>2, <2>3, <1>5, <1>7
<1>10. ASSUME NEW n \in 1 .. N, f[n - 1] \in good[n - 1] PROVE f[n] \in good[n]
  <2>1. Written(c, data, upto[n - 1], f[n - 1].done, f[n - 1].open)
    BY <1>6, <1>10
  <2>2. Written(c, data, upto[n - 1] \union {q[n]}, f[n].done, f[n].open)
    BY <2>1, <1>4, <1>8, AddEntryWrites
  <2> QED
    BY <2>2, <1>4, <1>5, <1>8
<1>11. \A n \in 0 .. N : f[n] \in good[n]
  BY ONLY <1>1, <1>9, <1>10, LoopKeeps
<1>12. Written(c, data, data, f[N].done, f[N].open)
  <2>1. N \in 0 .. N
    BY <1>1
  <2> QED
    BY <2>1, <1>5, <1>7, <1>11
<1> QED
  BY <1>2, <1>12, TableClosed

-----------------------------------------------------------------------------
(* Tables and ranges of user keys.  H is every entry there is.                 *)

Holding(fs, H) ==
  Proper(H) /\ IsFiniteSet(fs) /\ \A f \in fs : f.data # {} /\ f.data \subseteq H

\* Entries S lie on both sides of a range, or in it.
Touches(S, a, b) == \E x \in S, y \in S : x.key <= b /\ a <= y.key
Within(S, a, b) == \A x \in S : a <= x.key /\ x.key <= b

\* Some of the tables hold entries if all of them do.
LEMMA HoldingPart ==
  ASSUME NEW fs, NEW H, Holding(fs, H), NEW gs, gs \subseteq fs
  PROVE  Holding(gs, H)
BY FS_Subset DEF Holding

\* The entries of a table are a proper set.
LEMMA TableFacts ==
  ASSUME NEW fs, NEW H, Holding(fs, H), NEW f \in fs
  PROVE  Proper(f.data) /\ f.data # {} /\ \A x \in f.data : x.key \in Key /\ x.key \in Nat
BY ProperPart, EntryFields DEF Holding

\* So are those of some tables together.
LEMMA DataFacts ==
  ASSUME NEW fs, NEW H, Holding(fs, H), fs # {}
  PROVE  /\ Proper(AllData(fs)) /\ AllData(fs) # {} /\ AllData(fs) \subseteq H
         /\ \A x \in AllData(fs) : x.key \in Key /\ x.key \in Nat
<1>1. AllData(fs) \subseteq H /\ AllData(fs) # {}
  BY DEF AllData, Holding
<1>2. Proper(AllData(fs))
  BY <1>1, ProperPart DEF Holding
<1> QED
  BY <1>1, <1>2, EntryFields

\* The range of some entries, from the first to the last.
LEMMA RangeTouches ==
  ASSUME NEW S, Proper(S), S # {}, NEW a \in Nat, NEW b \in Nat
  PROVE  /\ Touches(S, a, b) <=> FirstOf(S).key <= b /\ a <= LastOf(S).key
         /\ Within(S, a, b) <=> a <= FirstOf(S).key /\ LastOf(S).key <= b
<1>1. /\ FirstOf(S) \in S /\ LastOf(S) \in S
      /\ \A x \in S : x.key \in Nat /\ FirstOf(S).key <= x.key /\ x.key <= LastOf(S).key
  BY EndsAreIn, EndKeys, EntryFields
<1> QED
  BY <1>1 DEF Touches, Within

\* InRange finds the tables that touch a range; a range is closed when they lie within it.
LEMMA RangesAre ==
  ASSUME NEW fs, NEW H, Holding(fs, H), NEW a \in Nat, NEW b \in Nat
  PROVE  /\ InRange(fs, a, b) = {f \in fs : Touches(f.data, a, b)}
         /\ Closed(fs, a, b) <=> \A f \in fs : Touches(f.data, a, b) => Within(f.data, a, b)
<1>1. \A f \in fs : Touches(f.data, a, b) <=> a <= Largest(f).key /\ Smallest(f).key <= b
  BY TableFacts, RangeTouches DEF Smallest, Largest
<1>2. \A f \in fs : Within(f.data, a, b) <=> a <= Smallest(f).key /\ Largest(f).key <= b
  BY TableFacts, RangeTouches DEF Smallest, Largest
<1>3. InRange(fs, a, b) = {f \in fs : Touches(f.data, a, b)}
  BY <1>1 DEF InRange
<1> QED
  BY <1>2, <1>3 DEF Closed

\* A set of numbers with a bound has a greatest element.
LEMMA GreatestNumber ==
  ASSUME NEW S, S \subseteq Nat, S # {}, NEW b \in Nat, \A n \in S : n <= b
  PROVE  \E m \in S : \A n \in S : n <= m
<1> DEFINE T == {b - n : n \in S}
<1>1. T \subseteq Nat /\ T # {}
  <2>1. \A n \in S : b - n \in Nat
    OBVIOUS
  <2> QED
    BY <2>1
<1>2. PICK t \in T : \A k \in T : t <= k
  <2> HIDE DEF T
  <2> QED
    BY <1>1, LeastNumber
<1>3. PICK m \in S : t = b - m
  BY <1>2
<1>4. ASSUME NEW n \in S PROVE n <= m
  <2>1. b - m <= b - n /\ n \in Nat /\ m \in Nat
    BY <1>2, <1>3
  <2> QED
    BY <2>1
<1> QED
  BY <1>4

\* Touching and lying within go on when a range widens or narrows.
LEMMA Widened ==
  ASSUME NEW S, \A x \in S : x.key \in Nat,
         NEW a \in Nat, NEW b \in Nat, NEW c \in Nat, NEW d \in Nat, c <= a, b <= d
  PROVE  Touches(S, a, b) => Touches(S, c, d)
BY DEF Touches

\* [a, b] is the least closed range around [low, high], and R are the tables in it.
EndsAt(fs, R, low, high, a, b) ==
  /\ a <= low /\ high <= b /\ Closed(fs, a, b)
  /\ R = {f \in fs : Touches(f.data, a, b)}
  /\ \A c \in Key, d \in Key : c <= low /\ high <= d /\ Closed(fs, c, d) => c <= a /\ b <= d

\* The ranges where the search of level 0 may end have a least one, where it ends.
LEMMA LeastClosed ==
  ASSUME NEW fs, NEW H, Holding(fs, H), NEW low \in Key, NEW high \in Key
  PROVE  \E a \in Key, b \in Key :
           EndsAt(fs, GetOverlappingInputs(fs, 0, low, high), low, high, a, b)
<1> DEFINE End(a, b) == a <= low /\ high <= b /\ Closed(fs, a, b)
           A == {a \in Key : \E b \in Key : End(a, b)}
           B == {b \in Key : \E a \in Key : End(a, b)}
<1>0. Key \subseteq Nat /\ Key # {} /\ IsFiniteSet(Key)
  BY KeysAreNumbers
<1>0a. \A f \in fs : f.data # {} /\ \A x \in f.data : x.key \in Key /\ x.key \in Nat
  BY TableFacts
<1>1. PICK least \in Key : \A k \in Key : least <= k
  BY <1>0, LeastNumber
<1>2. PICK most \in Key : \A k \in Key : k <= most
  <2> DEFINE R == {p \in Key \X Key : p[1] > p[2]}
  <2>1. Orders(R, Key)
    BY <1>0 DEF Orders
  <2>2. PICK m \in Key : \A k \in Key \ {m} : <<m, k>> \in R
    <3> HIDE DEF R
    <3> QED
      BY <1>0, <2>1, FirstExists
  <2>3. \A k \in Key \ {m} : m > k
    BY <2>2
  <2>4. \A k \in Key : k <= m
    BY <1>0, <2>3
  <2> QED
    BY <2>4
<1>3. End(least, most)
  <2>1. \A f \in fs : Within(f.data, least, most)
    BY <1>0a, <1>1, <1>2 DEF Within
  <2>2. Closed(fs, least, most)
    BY <1>0, <2>1, RangesAre
  <2> QED
    BY <1>1, <1>2, <2>2
<1>4. PICK a \in A : \A n \in A : n <= a
  <2>1. A \subseteq Nat /\ A # {} /\ low \in Nat /\ \A n \in A : n <= low
    BY <1>0, <1>3
  <2> HIDE DEF A
  <2> QED
    BY <2>1, GreatestNumber
<1>5. PICK b \in B : \A n \in B : b <= n
  <2>1. B \subseteq Nat /\ B # {}
    BY <1>0, <1>3
  <2> HIDE DEF B
  <2> QED
    BY <2>1, LeastNumber
<1>6. PICK b1 \in Key : End(a, b1)
  BY <1>4
<1>7. PICK a1 \in Key : End(a1, b)
  BY <1>5
<1>8. a \in Key /\ b \in Key /\ a \in Nat /\ b \in Nat /\ a1 \in Nat /\ b1 \in Nat
  BY <1>0, <1>4, <1>5, <1>6, <1>7
<1>9. a1 <= a /\ b <= b1
  BY <1>4, <1>5, <1>6, <1>7, <1>8
<1>10. Closed(fs, a, b)
  <2>1. SUFFICES ASSUME NEW f \in fs, Touches(f.data, a, b) PROVE Within(f.data, a, b)
    BY <1>8, RangesAre
  <2>2. Touches(f.data, a, b1) /\ Touches(f.data, a1, b)
    BY <1>0a, <1>8, <1>9, <2>1, Widened
  <2>3. Within(f.data, a, b1) /\ Within(f.data, a1, b)
    BY <1>6, <1>7, <1>8, <2>2, RangesAre
  <2> QED
    BY <2>3 DEF Within
<1>11. \A c \in Key, d \in Key : End(c, d) => c <= a /\ b <= d
  BY <1>4, <1>5
<1>12. GetOverlappingInputs(fs, 0, low, high) = {f \in fs : Touches(f.data, a, b)}
  <2>1. GetOverlappingInputs(fs, 0, low, high) =
          {f \in fs : \A c \in Key, d \in Key : End(c, d) => f \in InRange(fs, c, d)}
    BY DEF GetOverlappingInputs
  <2>2. End(a, b)
    BY <1>6, <1>7, <1>10
  <2> HIDE DEF End
  <2>3. \A c \in Key, d \in Key : InRange(fs, c, d) = {f \in fs : Touches(f.data, c, d)}
    BY <1>0, RangesAre
  <2>4. ASSUME NEW f \in fs, Touches(f.data, a, b), NEW c \in Key, NEW d \in Key, End(c, d)
        PROVE  f \in InRange(fs, c, d)
    <3>1. c <= a /\ b <= d /\ c \in Nat /\ d \in Nat
      BY <1>0, <1>11, <2>4
    <3> QED
      BY <1>0a, <1>8, <2>3, <2>4, <3>1, Widened
  <2>5. \A f \in fs : (\A c \in Key, d \in Key : End(c, d) => f \in InRange(fs, c, d))
                       <=> Touches(f.data, a, b)
    BY <1>8, <2>2, <2>3, <2>4
  <2> QED
    BY <2>1, <2>5
<1> QED
  BY <1>6, <1>7, <1>8, <1>10, <1>11, <1>12 DEF EndsAt

NoneShared(S, T) == \A x \in S, y \in T : x.key # y.key

\* Where tables touch a range, the space between them and the range is not free.
Tight(fs, low, high) ==
  \A a, b \in Nat : a <= b /\ (\A f \in fs : ~Touches(f.data, a, b)) =>
    /\ b < low => \A f \in fs : \A x \in f.data : b < x.key
    /\ high < a => \A f \in fs : \A x \in f.data : x.key < a

\* The range of level 0 ends short of any gap between the tables.
LEMMA ClosedIsTight ==
  ASSUME NEW fs, NEW H, Holding(fs, H), NEW low \in Key, NEW high \in Key,
         NEW R, R = GetOverlappingInputs(fs, 0, low, high)
  PROVE  Tight(R, low, high)
<1>0. Key \subseteq Nat /\ \A f \in fs : \A x \in f.data : x.key \in Key /\ x.key \in Nat
  BY KeysAreNumbers, TableFacts
<1>a. PICK a \in Key, b \in Key : EndsAt(fs, R, low, high, a, b)
  BY LeastClosed
<1>1. /\ a <= low /\ high <= b /\ Closed(fs, a, b)
      /\ R = {f \in fs : Touches(f.data, a, b)}
      /\ \A c \in Key, d \in Key : c <= low /\ high <= d /\ Closed(fs, c, d) => c <= a /\ b <= d
  BY <1>a DEF EndsAt
<1>2. \A f \in R : f \in fs /\ Within(f.data, a, b)
  BY <1>0, <1>1, RangesAre
<1>3. ASSUME NEW c \in Nat, NEW d \in Nat, c <= d, \A f \in R : ~Touches(f.data, c, d), d < low
      PROVE  \A f \in R : \A x \in f.data : d < x.key
  <2> DEFINE K == {k \in Key : d < k}
  <2>1. K \subseteq Nat /\ low \in K
    BY <1>0, <1>3
  <2>2. PICK m \in K : \A k \in K : m <= k
    <3> HIDE DEF K
    <3> QED
      BY <2>1, LeastNumber
  <2>3. m \in Key /\ d < m /\ m <= low /\ \A k \in Key : d < k => m <= k
    BY <2>1, <2>2
  <2> HIDE DEF K
  <2>4. CASE d < a
    <3>1. \A f \in R : f \in fs /\ \A x \in f.data : a <= x.key
      BY <1>2 DEF Within
    <3>2. a \in Nat
      BY <1>0
    <3> QED
      BY <1>0, <2>4, <3>1, <3>2
  <2>5. CASE ~(d < a)
    <3>1. a \in Nat /\ b \in Nat /\ m \in Nat /\ a <= m
      BY <1>0, <2>3, <2>5
    <3>2. ASSUME NEW f \in fs, Touches(f.data, m, b)
          PROVE  Within(f.data, m, b)
      <4>1. Touches(f.data, a, b)
        BY <1>0, <3>1, <3>2, Widened
      <4>2. f \in R /\ Within(f.data, a, b) /\ ~Touches(f.data, c, d)
        BY <1>1, <1>2, <1>3, <4>1
      <4>3. PICK y \in f.data : m <= y.key
        BY <3>2 DEF Touches
      <4>4. \A x \in f.data : ~(x.key <= d)
        BY <4>2, <4>3, <2>3, <1>0, <1>3, <3>1 DEF Touches
      <4>5. \A x \in f.data : m <= x.key
        BY <4>4, <2>3, <1>0
      <4> QED
        BY <4>2, <4>5 DEF Within
    <3>3. Closed(fs, m, b)
      BY <3>1, <3>2, RangesAre
    <3>4. m <= a
      BY <1>1, <2>3, <3>3
    <3>5. \A f \in R : \A x \in f.data : a <= x.key
      BY <1>2 DEF Within
    <3> QED
      BY <1>0, <1>2, <2>3, <3>1, <3>4, <3>5
  <2> QED
    BY <2>4, <2>5
<1>4. ASSUME NEW c \in Nat, NEW d \in Nat, c <= d, \A f \in R : ~Touches(f.data, c, d), high < c
      PROVE  \A f \in R : \A x \in f.data : x.key < c
  <2> DEFINE K == {k \in Key : k < c}
  <2>1. K \subseteq Nat /\ high \in K /\ \A k \in K : k <= c
    <3>1. \A k \in Key : k \in Nat
      BY <1>0
    <3>2. \A k \in Key : k < c => k <= c
      BY <3>1, <1>4
    <3> QED
      BY <1>0, <3>2, <1>4
  <2>2. PICK m \in K : \A k \in K : k <= m
    <3> HIDE DEF K
    <3> QED
      BY <2>1, GreatestNumber
  <2>3. m \in Key /\ m < c /\ high <= m /\ \A k \in Key : k < c => k <= m
    BY <2>1, <2>2
  <2> HIDE DEF K
  <2>4. CASE b < c
    <3>1. \A f \in R : f \in fs /\ \A x \in f.data : x.key <= b
      BY <1>2 DEF Within
    <3>2. b \in Nat
      BY <1>0
    <3> QED
      BY <1>0, <2>4, <3>1, <3>2
  <2>5. CASE ~(b < c)
    <3>1. a \in Nat /\ b \in Nat /\ m \in Nat /\ m <= b
      BY <1>0, <2>3, <2>5
    <3>2. ASSUME NEW f \in fs, Touches(f.data, a, m)
          PROVE  Within(f.data, a, m)
      <4>1. Touches(f.data, a, b)
        BY <1>0, <3>1, <3>2, Widened
      <4>2. f \in R /\ Within(f.data, a, b) /\ ~Touches(f.data, c, d)
        BY <1>1, <1>2, <1>4, <4>1
      <4>3. PICK y \in f.data : y.key <= m
        BY <3>2 DEF Touches
      <4>4. \A x \in f.data : ~(c <= x.key)
        BY <4>2, <4>3, <2>3, <1>0, <1>4, <3>1 DEF Touches
      <4>5. \A x \in f.data : x.key <= m
        BY <4>4, <2>3, <1>0
      <4> QED
        BY <4>2, <4>5 DEF Within
    <3>3. Closed(fs, a, m)
      BY <3>1, <3>2, RangesAre
    <3>4. b <= m
      BY <1>1, <2>3, <3>3
    <3>5. \A f \in R : \A x \in f.data : x.key <= b
      BY <1>2 DEF Within
    <3> QED
      BY <1>0, <1>2, <2>3, <3>1, <3>4, <3>5
  <2> QED
    BY <2>4, <2>5
<1>5. low \in Nat /\ high \in Nat
  BY <1>0
<1> QED
  BY <1>3, <1>4 DEF Tight

\* GetOverlappingInputs finds every table that touches the range; behind level 0 no
\* other; in level 0 no key of what it finds is in any other table.
LEMMA OverlapFacts ==
  ASSUME NEW fs, NEW H, Holding(fs, H), NEW level \in Nat, NEW low \in Key, NEW high \in Key,
         NEW R, R = GetOverlappingInputs(fs, level, low, high)
  PROVE  /\ R \subseteq fs
         /\ \A f \in fs : Touches(f.data, low, high) => f \in R
         /\ level # 0 => \A f \in R : Touches(f.data, low, high)
         /\ level = 0 => \A f \in fs \ R, g \in R : NoneShared(f.data, g.data)
         /\ Tight(R, low, high)
<1>0. Key \subseteq Nat /\ \A f \in fs : \A x \in f.data : x.key \in Key /\ x.key \in Nat
  BY KeysAreNumbers, TableFacts
<1>1. CASE level # 0
  <2>1. R = {f \in fs : Touches(f.data, low, high)}
    BY <1>0, <1>1, RangesAre DEF GetOverlappingInputs
  <2>2. ASSUME NEW c \in Nat, NEW d \in Nat, c <= d, \A f \in R : ~Touches(f.data, c, d)
        PROVE  /\ d < low => \A f \in R : \A x \in f.data : d < x.key
               /\ high < c => \A f \in R : \A x \in f.data : x.key < c
    <3>1. ASSUME NEW f \in R, NEW x \in f.data, d < low PROVE d < x.key
      <4>1. PICK y \in f.data : low <= y.key
        BY <2>1 DEF Touches
      <4>2. c <= y.key /\ d \in Nat
        BY <4>1, <3>1, <2>1, <2>2, <1>0
      <4> QED
        BY <4>2, <2>1, <2>2, <1>0 DEF Touches
    <3>2. ASSUME NEW f \in R, NEW x \in f.data, high < c PROVE x.key < c
      <4>1. PICK y \in f.data : y.key <= high
        BY <2>1 DEF Touches
      <4>2. y.key <= d /\ d \in Nat
        BY <4>1, <3>2, <2>1, <2>2, <1>0
      <4> QED
        BY <4>2, <2>1, <2>2, <1>0 DEF Touches
    <3> QED
      BY <3>1, <3>2
  <2>3. Tight(R, low, high)
    BY <2>2 DEF Tight
  <2> QED
    BY <1>1, <2>1, <2>3
<1>2. CASE level = 0
  <2>0. PICK a \in Key, b \in Key : EndsAt(fs, R, low, high, a, b)
    BY <1>2, LeastClosed
  <2>1. /\ a <= low /\ high <= b /\ Closed(fs, a, b)
        /\ R = {f \in fs : Touches(f.data, a, b)}
    BY <2>0 DEF EndsAt
  <2>2. \A f \in R : f \in fs /\ Within(f.data, a, b)
    BY <1>0, <2>1, RangesAre
  <2>3. ASSUME NEW f \in fs, Touches(f.data, low, high) PROVE f \in R
    BY <1>0, <2>1, <2>3, Widened
  <2>4. ASSUME NEW f \in fs \ R, NEW g \in R, NEW x \in f.data, NEW y \in g.data, x.key = y.key
        PROVE  FALSE
    <3>1. a <= x.key /\ x.key <= b
      BY <2>2, <2>4 DEF Within
    <3>2. Touches(f.data, a, b)
      BY <3>1 DEF Touches
    <3> QED
      BY <2>1, <3>2
  <2>5. \A f \in fs \ R, g \in R : NoneShared(f.data, g.data)
    BY <2>4 DEF NoneShared
  <2>6. Tight(R, low, high)
    BY <1>2, ClosedIsTight
  <2> QED
    BY <1>2, <2>1, <2>3, <2>5, <2>6
<1> QED
  BY <1>1, <1>2

\* No range that touches the tables fs as a whole passes between them.
Covered(fs) ==
  \A a, b \in Nat : a <= b /\ Touches(AllData(fs), a, b) => \E f \in fs : Touches(f.data, a, b)

\* A single table has no gap.
LEMMA OneCovered ==
  ASSUME NEW f
  PROVE  Covered({f})
<1>1. AllData({f}) = f.data
  BY DEF AllData
<1> QED
  BY <1>1 DEF Covered

\* Nor when the tables that touch a range inside join them.
LEMMA CoveredGrows ==
  ASSUME NEW fs, NEW H, Holding(fs, H), Covered(fs), NEW x \in AllData(fs), NEW y \in AllData(fs),
         NEW gs, Holding(gs, H), Tight(gs, x.key, y.key)
  PROVE  Covered(fs \union gs)
<1>1. /\ \A e \in AllData(fs) : e.key \in Nat
      /\ \A f \in gs : \A e \in f.data : e.key \in Nat
      /\ \A e : e \in AllData(fs \union gs) <=> e \in AllData(fs) \/ \E f \in gs : e \in f.data
  <2>1. \A f \in fs \union gs : \A e \in f.data : e.key \in Nat
    BY TableFacts
  <2> QED
    BY <2>1 DEF AllData
<1>2. SUFFICES ASSUME NEW a \in Nat, NEW b \in Nat, a <= b, Touches(AllData(fs \union gs), a, b),
                      \A f \in fs \union gs : ~Touches(f.data, a, b)
               PROVE  FALSE
  BY DEF Covered
<1>3. ~Touches(AllData(fs), a, b)
  BY <1>2 DEF Covered
<1>4. (\A e \in AllData(fs) : b < e.key) \/ (\A e \in AllData(fs) : e.key < a)
  <2>1. \A e \in AllData(fs), d \in AllData(fs) : ~(e.key <= b) \/ ~(a <= d.key)
    BY <1>3 DEF Touches
  <2>2. (\A e \in AllData(fs) : ~(e.key <= b)) \/ (\A e \in AllData(fs) : ~(a <= e.key))
    BY <2>1
  <2> QED
    BY <2>2, <1>1
<1>5. /\ b < x.key => \A f \in gs : \A e \in f.data : b < e.key
      /\ y.key < a => \A f \in gs : \A e \in f.data : e.key < a
  BY <1>2 DEF Tight
<1>6. (\A e \in AllData(fs \union gs) : b < e.key) \/ (\A e \in AllData(fs \union gs) : e.key < a)
  BY <1>1, <1>4, <1>5
<1>7. \A e \in AllData(fs \union gs) : e.key \in Nat
  BY <1>1
<1>8. PICK e \in AllData(fs \union gs), d \in AllData(fs \union gs) : e.key <= b /\ a <= d.key
  BY <1>2 DEF Touches
<1>9. e.key \in Nat /\ d.key \in Nat /\ (b < e.key \/ d.key < a)
  BY <1>6, <1>7, <1>8
<1> QED
  BY <1>8, <1>9

-----------------------------------------------------------------------------
(* The inductive invariant.  Its base holds always: every entry was written    *)
(* once, tables have numbers of their own, memtables are newer than tables and *)
(* newer tables of level 0 than older ones.                                    *)

HistoryOK ==
  /\ Proper(history) /\ \A e \in history : e.seq \in 1 .. LastSequence
  /\ IsFiniteSet(snapshots) /\ snapshots \subseteq 0 .. LastSequence
IsTable(f) ==
  /\ f = [number |-> f.number, data |-> f.data]
  /\ f.number \in Nat /\ f.number < nextNumber
  /\ f.data # {} /\ f.data \subseteq history
TablesOK ==
  /\ nextNumber \in Nat /\ files = [l \in Level |-> files[l]]
  /\ \A l \in Level : IsFiniteSet(files[l]) /\ \A f \in files[l] : IsTable(f)
  /\ \A l, m \in Level : \A f \in files[l], g \in files[m] :
       f.number = g.number => l = m /\ f = g
MemOK ==
  /\ mem \subseteq history
  /\ \A l \in Level : \A f \in files[l] : \A e \in mem, x \in f.data : e.seq > x.seq
  /\ \A f, g \in files[0] : f.number > g.number =>
       \A e \in f.data, x \in g.data : e.seq > x.seq
SeekOK ==
  /\ \A x, y \in seek : x = y
  /\ \A x \in seek : x.level \in 0 .. NumLevels - 2 /\ x.file \in files[x.level]
JobTyped(c) ==
  /\ c.level \in 0 .. NumLevels - 2 /\ c.manual \in BOOLEAN
  /\ c.in0 \subseteq files[c.level] /\ c.in1 \subseteq files[c.level + 1] /\ c.in0 # {}
  /\ c.oldest \in Nat /\ \A s \in ReadPoints : c.oldest <= s
JobOK == (\A c, d \in job : c = d) /\ \A c \in job : JobTyped(c)
Base == HistoryOK /\ TablesOK /\ MemOK /\ SeekOK /\ JobOK /\ lapped \in BOOLEAN

(* The rest holds as long as no memtable was written out during a manual       *)
(* compaction, and for all keys but those in split.                            *)
Apart(S, T) == InFront(S, T) \/ InFront(T, S)
SharedIn(S, T, K) == \A x \in S, y \in T : x.key = y.key => x.key \in K
Newer(S, T, K) == \A x \in S, y \in T : x.key = y.key => x.seq > y.seq \/ x.key \in K

LevelsApart ==
  \A l \in Level \ {0} : \A f, g \in files[l] : f # g =>
    Apart(f.data, g.data) /\ SharedIn(f.data, g.data, split)
LevelsNewer ==
  \A l, m \in Level : l < m => \A f \in files[l], g \in files[m] : Newer(f.data, g.data, split)

\* Every read point sees the newest write of a key in what is left of it.
Everything == mem \union UNION {AllData(files[l]) : l \in Level}
Retained ==
  \A k \in Key \ split, s \in ReadPoints :
    ValueOf(Visible(Everything, k, s)) = ValueOf(Visible(history, k, s))

\* The tables that the compaction under way does not take: those of the level that it
\* writes to lie outside what it takes, those of the level that it takes from are newer,
\* and those further down that were added since then have none of its keys.  A memtable
\* that is written out does not fall between the tables that it takes.
Input(c) == AllData(c.in0 \union c.in1)
Isolated(c) ==
  \A g \in files[c.level + 1] \ c.in1 :
    Apart(g.data, Input(c)) /\ NoneShared(g.data, AllData(c.in0))
OthersNewer(c) ==
  \A g \in files[c.level] \ c.in0 : Newer(g.data, AllData(c.in0), split)
NoneDeeper(c) ==
  \A m \in c.level + 2 .. NumLevels - 1 : \A g \in files[m] \ c.deeper :
    NoneShared(g.data, Input(c))
JobRight(c) ==
  /\ Isolated(c) /\ OthersNewer(c) /\ NoneDeeper(c)
  /\ ~c.manual => Covered(c.in0 \union c.in1)
JobsRight == \A c \in job : JobRight(c)
Right == LevelsApart /\ LevelsNewer /\ Retained /\ JobsRight
IInv == Base /\ (lapped \/ Right)

-----------------------------------------------------------------------------
(* Choosing the tables of a compaction. *)

\* The constants of the configuration are numbers.
LEMMA LimitFacts ==
  ASSUME LevelsAssumption
  PROVE  /\ NumLevels \in Nat /\ NumLevels > 1
         /\ MaxMemCompactLevel \in Nat /\ MaxMemCompactLevel < NumLevels
         /\ L0Trigger \in Nat /\ L0Trigger > 0
         /\ \A l \in 1 .. NumLevels - 2 : LevelLimit[l] \in Nat /\ LevelLimit[l] > 0
<1>1. LevelLimit \in [1 .. NumLevels - 2 -> Nat \ {0}]
  BY DEF LevelsAssumption
<1>2. \A l \in 1 .. NumLevels - 2 : LevelLimit[l] \in Nat \ {0}
  BY <1>1
<1> QED
  BY <1>2 DEF LevelsAssumption

\* Levels are numbers, and the level below one that is compacted is a level.
LEMMA LevelFacts ==
  ASSUME LevelsAssumption
  PROVE  /\ 0 \in Level /\ \A l \in Level : l \in Nat
         /\ \A l \in 0 .. NumLevels - 2 : l \in Level /\ l \in Nat /\ l + 1 \in Level /\ l + 1 # 0
BY LimitFacts DEF Level

\* The tables of a level hold entries that were written.
LEMMA LevelHolds ==
  ASSUME HistoryOK, TablesOK, NEW l \in Level
  PROVE  Holding(files[l], history)
BY DEF HistoryOK, TablesOK, IsTable, Holding

\* The tables of a level that some tables of one level or of two overlap.
LEMMA OverlappingRangeFacts ==
  ASSUME HistoryOK, TablesOK, NEW l \in Level, l \in Nat,
         NEW fs, Holding(fs, history), fs # {},
         NEW R, R = OverlappingRange(l, fs)
  PROVE  /\ R \subseteq files[l]
         /\ \E x \in AllData(fs), y \in AllData(fs) :
              /\ \A e \in AllData(fs) : x.key <= e.key /\ e.key <= y.key
              /\ \A f \in files[l] : Touches(f.data, x.key, y.key) => f \in R
              /\ l # 0 => \A f \in R : Touches(f.data, x.key, y.key)
              /\ l = 0 => \A f \in files[l] \ R, g \in R : NoneShared(f.data, g.data)
              /\ Tight(R, x.key, y.key)
<1> DEFINE data == AllData(fs)
           x == FirstOf(data)
           y == LastOf(data)
<1>1. Proper(data) /\ data # {}
  BY DataFacts
<1>2. x \in data /\ y \in data /\ x.key \in Key /\ y.key \in Key
      /\ \A e \in data : x.key <= e.key /\ e.key <= y.key
  <2> HIDE DEF data
  <2> QED
    BY <1>1, EndsAreIn, EndKeys
<1>3. R = GetOverlappingInputs(files[l], l, x.key, y.key)
  BY DEF OverlappingRange, Overlapping
<1>4. Holding(files[l], history)
  BY LevelHolds
<1> HIDE DEF x, y
<1>5. /\ R \subseteq files[l]
      /\ \A f \in files[l] : Touches(f.data, x.key, y.key) => f \in R
      /\ l # 0 => \A f \in R : Touches(f.data, x.key, y.key)
      /\ l = 0 => \A f \in files[l] \ R, g \in R : NoneShared(f.data, g.data)
      /\ Tight(R, x.key, y.key)
  BY <1>2, <1>3, <1>4, OverlapFacts
<1> QED
  BY <1>2, <1>5

Separate(level, fs) == \A f \in files[level] \ fs, g \in fs : NoneShared(f.data, g.data)
Chosen(c, level, first, manual) ==
  /\ c.level = level /\ c.manual = manual /\ c.oldest = Min(ReadPoints)
  /\ c.deeper = UNION {files[l] : l \in level + 2 .. NumLevels - 1}
  /\ c.in0 # {} /\ c.in0 \subseteq files[level]
  /\ c.in1 = OverlappingRange(level + 1, c.in0) /\ c.in1 \subseteq files[level + 1]
  /\ level = 0 /\ Separate(0, first) => Separate(0, c.in0)
  /\ Covered(first) => Covered(c.in0 \union c.in1)

\* What a table of a level overlaps in the level below, and what that overlaps again.
LEMMA TogetherCovered ==
  ASSUME HistoryOK, TablesOK, NEW l \in Level, l \in Nat,
         NEW fs, Holding(fs, history), fs # {}, Covered(fs),
         NEW part, part \subseteq fs, part # {},
         NEW R, R = OverlappingRange(l, part)
  PROVE  Covered(fs \union R) /\ Holding(fs \union R, history)
<1>0. Holding(part, history)
  BY HoldingPart
<1>1. PICK x \in AllData(part), y \in AllData(part) : Tight(R, x.key, y.key)
  BY <1>0, OverlappingRangeFacts
<1>2. x \in AllData(fs) /\ y \in AllData(fs)
  BY DEF AllData
<1>3. R \subseteq files[l]
  BY <1>0, OverlappingRangeFacts
<1>4. Holding(R, history)
  BY <1>3, LevelHolds, HoldingPart
<1>5. Holding(fs \union R, history)
  BY <1>4, FS_Union DEF Holding
<1> QED
  BY <1>1, <1>2, <1>4, <1>5, CoveredGrows

\* Tables of a level overlap their own range.
LEMMA RangeHasItself ==
  ASSUME HistoryOK, TablesOK, NEW l \in Level, l \in Nat,
         NEW fs, Holding(fs, history), NEW part, part \subseteq fs, part \subseteq files[l], part # {},
         NEW R, R = OverlappingRange(l, fs)
  PROVE  part \subseteq R
<1>0. fs # {} /\ Holding(part, history)
  BY HoldingPart
<1>1. PICK x \in AllData(fs), y \in AllData(fs) :
        /\ \A e \in AllData(fs) : x.key <= e.key /\ e.key <= y.key
        /\ \A f \in files[l] : Touches(f.data, x.key, y.key) => f \in R
  BY <1>0, OverlappingRangeFacts
<1>2. ASSUME NEW f \in part PROVE Touches(f.data, x.key, y.key)
  <2>1. f.data # {} /\ \A e \in f.data : e \in AllData(fs)
    BY <1>0 DEF Holding, AllData
  <2> QED
    BY <1>1, <2>1 DEF Touches
<1> QED
  BY <1>1, <1>2

\* SetupOtherInputs: the tables of the level are never fewer than those it is given.
LEMMA SetupFacts ==
  ASSUME LevelsAssumption, HistoryOK, TablesOK, NEW level \in 0 .. NumLevels - 2,
         NEW first, first \subseteq files[level], first # {}, NEW manual
  PROVE  Chosen(SetupOtherInputs(level, first, manual), level, first, manual)
<1> DEFINE second    == OverlappingRange(level + 1, first)
           all       == first \union second
           expanded0 == OverlappingRange(level, all)
           expanded1 == OverlappingRange(level + 1, expanded0)
           c         == SetupOtherInputs(level, first, manual)
<1>0. level \in Level /\ level \in Nat /\ level + 1 \in Level /\ level + 1 \in Nat /\ level + 1 # 0
  BY LevelFacts
<1>1. Holding(first, history)
  BY <1>0, LevelHolds, HoldingPart
<1>2. /\ \/ c.in0 = first /\ c.in1 = second
         \/ c.in0 = expanded0 /\ c.in1 = expanded1
      /\ c.level = level /\ c.manual = manual /\ c.oldest = Min(ReadPoints)
      /\ c.deeper = UNION {files[l] : l \in level + 2 .. NumLevels - 1}
  BY DEF SetupOtherInputs, ReadPoints
<1>2a. SUFFICES Chosen(c, level, first, manual)
  OBVIOUS
<1> HIDE DEF c
<1>3. second \subseteq files[level + 1]
  BY <1>0, <1>1, OverlappingRangeFacts
<1>4. Holding(all, history) /\ all # {}
  <2>1. Holding(second, history)
    BY <1>0, <1>3, LevelHolds, HoldingPart
  <2> HIDE DEF second
  <2> QED
    BY <1>1, <2>1, FS_Union DEF Holding
<1>5. expanded0 \subseteq files[level]
  <2> HIDE DEF all
  <2> QED
    BY <1>0, <1>4, OverlappingRangeFacts
<1>6. first \subseteq expanded0 /\ expanded0 # {}
  <2>1. first \subseteq all
    OBVIOUS
  <2> HIDE DEF all
  <2>2. first \subseteq expanded0
    BY <1>0, <1>4, <2>1, RangeHasItself
  <2> QED
    BY <2>2
<1>7. Holding(expanded0, history)
  <2> HIDE DEF expanded0
  <2> QED
    BY <1>0, <1>5, LevelHolds, HoldingPart
<1>8. expanded1 \subseteq files[level + 1]
  <2> HIDE DEF expanded0
  <2> QED
    BY <1>0, <1>6, <1>7, OverlappingRangeFacts
<1>9. second \subseteq expanded1
  <2>1. PICK x \in AllData(first), y \in AllData(first) :
          \A f \in second : Touches(f.data, x.key, y.key)
    BY <1>0, <1>1, OverlappingRangeFacts
  <2>2. x \in AllData(expanded0) /\ y \in AllData(expanded0)
    BY <1>6 DEF AllData
  <2> HIDE DEF expanded0
  <2>3. PICK u \in AllData(expanded0), v \in AllData(expanded0) :
          /\ \A e \in AllData(expanded0) : u.key <= e.key /\ e.key <= v.key
          /\ \A f \in files[level + 1] : Touches(f.data, u.key, v.key) => f \in expanded1
    BY <1>0, <1>6, <1>7, OverlappingRangeFacts
  <2>4. u.key <= x.key /\ y.key <= v.key
    BY <2>2, <2>3
  <2>5. \A e \in AllData(expanded0) : e.key \in Nat
    BY <1>6, <1>7, DataFacts
  <2>6. \A f \in files[level + 1] : \A e \in f.data : e.key \in Nat
    BY <1>0, LevelHolds, TableFacts
  <2> HIDE DEF second, expanded1
  <2>7. u.key \in Nat /\ v.key \in Nat /\ x.key \in Nat /\ y.key \in Nat
    BY <2>2, <2>5
  <2>8. \A f \in second : f \in files[level + 1] /\ Touches(f.data, u.key, v.key)
    BY <1>3, <2>1, <2>4, <2>6, <2>7, Widened
  <2> QED
    BY <2>3, <2>8
<1>10. ASSUME Covered(first)
       PROVE  Covered(all) /\ Covered(expanded0 \union expanded1)
  <2>1. Covered(all)
    BY <1>0, <1>1, <1>10, TogetherCovered
  <2>2. Covered(all \union expanded0) /\ Holding(all \union expanded0, history)
    <3> HIDE DEF all
    <3> QED
      BY <1>0, <1>4, <2>1, TogetherCovered
  <2>3. Covered((all \union expanded0) \union expanded1)
    <3> DEFINE both == all \union expanded0
    <3>1. expanded0 \subseteq both /\ both # {}
      BY <1>6
    <3>2. Covered(both) /\ Holding(both, history)
      BY <2>2
    <3> HIDE DEF expanded0, both
    <3>3. Covered(both \union expanded1)
      BY <1>0, <1>6, <3>1, <3>2, TogetherCovered
    <3> QED
      BY <3>3 DEF both
  <2>4. (all \union expanded0) \union expanded1 = expanded0 \union expanded1
    <3> HIDE DEF second, expanded0, expanded1
    <3> QED
      BY <1>6, <1>9
  <2> QED
    BY <2>1, <2>3, <2>4
<1>11. ASSUME level = 0 PROVE Separate(0, expanded0)
  <2> HIDE DEF all
  <2>1. \A f \in files[level] \ expanded0, g \in expanded0 : NoneShared(f.data, g.data)
    BY <1>0, <1>4, <1>11, OverlappingRangeFacts
  <2> QED
    BY <1>11, <2>1 DEF Separate
<1>12. CASE c.in0 = first /\ c.in1 = second
  <2>1. Covered(first) => Covered(c.in0 \union c.in1)
    BY <1>10, <1>12
  <2>2. c.in1 = OverlappingRange(level + 1, c.in0)
    BY <1>12
  <2> HIDE DEF second
  <2> QED
    BY <1>2, <1>3, <1>12, <2>1, <2>2 DEF Chosen
<1>13. CASE c.in0 = expanded0 /\ c.in1 = expanded1
  <2>1. Covered(first) => Covered(c.in0 \union c.in1)
    BY <1>10, <1>13
  <2>2. c.in1 = OverlappingRange(level + 1, c.in0)
    BY <1>13
  <2> HIDE DEF expanded0, expanded1
  <2> QED
    BY <1>2, <1>5, <1>6, <1>8, <1>11, <1>13, <2>1, <2>2 DEF Chosen
<1> QED
  BY <1>2, <1>12, <1>13

\* The lowest read point.
LEMMA OldestRead ==
  ASSUME HistoryOK
  PROVE  /\ Min(ReadPoints) \in Nat /\ \A s \in ReadPoints : Min(ReadPoints) <= s
         /\ LastSequence \in Nat /\ ReadPoints \subseteq 0 .. LastSequence
<1>1. LastSequence \in Nat
  BY FS_CardinalityType DEF HistoryOK, Proper, LastSequence
<1>2. ReadPoints \subseteq Nat /\ ReadPoints # {} /\ ReadPoints \subseteq 0 .. LastSequence
  BY <1>1 DEF HistoryOK, ReadPoints
<1>3. \E m \in ReadPoints : \A s \in ReadPoints : m <= s
  BY <1>2, LeastNumber
<1>4. Min(ReadPoints) \in ReadPoints /\ \A s \in ReadPoints : Min(ReadPoints) <= s
  BY <1>3 DEF Min
<1> QED
  BY <1>1, <1>2, <1>4

\* The tables that are taken are of the right levels.
LEMMA ChosenTyped ==
  ASSUME HistoryOK, NEW level \in 0 .. NumLevels - 2, NEW first, NEW manual \in BOOLEAN, NEW c,
         Chosen(c, level, first, manual)
  PROVE  JobTyped(c)
BY OldestRead DEF Chosen, JobTyped

\* A table of the level below that is not taken lies outside what is taken.
LEMMA ChosenIsolated ==
  ASSUME LevelsAssumption, HistoryOK, TablesOK, LevelsApart,
         NEW level \in 0 .. NumLevels - 2, NEW first, NEW manual, NEW c,
         Chosen(c, level, first, manual)
  PROVE  Isolated(c)
<1> DEFINE in0 == c.in0
           in1 == c.in1
<1>0. level \in Level /\ level \in Nat /\ level + 1 \in Level /\ level + 1 \in Nat /\ level + 1 # 0
  BY LevelFacts
<1>1. /\ c.level = level /\ in0 # {} /\ in0 \subseteq files[level]
      /\ in1 = OverlappingRange(level + 1, in0) /\ in1 \subseteq files[level + 1]
  BY DEF Chosen
<1>2. Holding(in0, history) /\ Holding(files[level + 1], history)
  BY <1>0, <1>1, LevelHolds, HoldingPart
<1>2a. Input(c) = AllData(in0 \union in1) /\ AllData(c.in0) = AllData(in0)
  BY DEF Input
<1> HIDE DEF in0, in1
<1>3. PICK x \in AllData(in0), y \in AllData(in0) :
        /\ \A e \in AllData(in0) : x.key <= e.key /\ e.key <= y.key
        /\ \A f \in files[level + 1] : Touches(f.data, x.key, y.key) => f \in in1
        /\ \A f \in in1 : Touches(f.data, x.key, y.key)
  BY <1>0, <1>1, <1>2, OverlappingRangeFacts
<1>4. \A e \in AllData(in0) : e.key \in Nat
  BY <1>1, <1>2, DataFacts
<1>5. \A f \in files[level + 1] : f.data # {} /\ \A e \in f.data : e.key \in Nat
  BY <1>2, TableFacts
<1>6. x.key \in Nat /\ y.key \in Nat
  BY <1>3, <1>4
<1>7. \A e : e \in AllData(in0 \union in1) <=> e \in AllData(in0) \/ \E f \in in1 : e \in f.data
  BY DEF AllData
<1>8. SUFFICES ASSUME NEW g \in files[level + 1], g \notin in1
               PROVE  Apart(g.data, AllData(in0 \union in1)) /\ NoneShared(g.data, AllData(in0))
  BY <1>1, <1>2a DEF Isolated, in1, in0
<1>9. ~Touches(g.data, x.key, y.key)
  BY <1>3, <1>8
<1>10. (\A e \in g.data : e.key < x.key) \/ (\A e \in g.data : y.key < e.key)
  <2>1. \A e \in g.data, d \in g.data : ~(e.key <= y.key) \/ ~(x.key <= d.key)
    BY <1>9 DEF Touches
  <2>2. (\A e \in g.data : ~(e.key <= y.key)) \/ (\A e \in g.data : ~(x.key <= e.key))
    BY <2>1
  <2> QED
    BY <2>2, <1>5, <1>6
<1>11. \A f \in in1 : Apart(g.data, f.data) /\ f \in files[level + 1]
  BY <1>0, <1>1, <1>8 DEF LevelsApart
<1>12. CASE \A e \in g.data : e.key < x.key
  <2>1. \A e \in g.data, d \in AllData(in0) : e.key < d.key
    BY <1>3, <1>4, <1>5, <1>6, <1>12
  <2>2. ASSUME NEW f \in in1 PROVE InFront(g.data, f.data)
    <3>1. SUFFICES ASSUME InFront(f.data, g.data) PROVE FALSE
      BY <1>11 DEF Apart
    <3>2. PICK q \in f.data : x.key <= q.key
      BY <1>3 DEF Touches
    <3>3. PICK p \in g.data : TRUE
      BY <1>5
    <3>4. Before(q, p) /\ p.key < x.key /\ p.key \in Nat /\ q.key \in Nat
      BY <3>1, <3>2, <3>3, <1>5, <1>11, <1>12 DEF InFront
    <3> QED
      BY <3>2, <3>4, <1>6 DEF Before
  <2>3. InFront(g.data, AllData(in0 \union in1))
    BY <1>7, <2>1, <2>2 DEF InFront, Before
  <2>4. NoneShared(g.data, AllData(in0))
    BY <2>1, <1>4, <1>5 DEF NoneShared
  <2> QED
    BY <2>3, <2>4 DEF Apart
<1>13. CASE \A e \in g.data : y.key < e.key
  <2>1. \A e \in g.data, d \in AllData(in0) : d.key < e.key
    BY <1>3, <1>4, <1>5, <1>6, <1>13
  <2>2. ASSUME NEW f \in in1 PROVE InFront(f.data, g.data)
    <3>1. SUFFICES ASSUME InFront(g.data, f.data) PROVE FALSE
      BY <1>11 DEF Apart
    <3>2. PICK q \in f.data : q.key <= y.key
      BY <1>3 DEF Touches
    <3>3. PICK p \in g.data : TRUE
      BY <1>5
    <3>4. Before(p, q) /\ y.key < p.key /\ p.key \in Nat /\ q.key \in Nat
      BY <3>1, <3>2, <3>3, <1>5, <1>11, <1>13 DEF InFront
    <3> QED
      BY <3>2, <3>4, <1>6 DEF Before
  <2>3. InFront(AllData(in0 \union in1), g.data)
    BY <1>7, <2>1, <2>2 DEF InFront, Before
  <2>4. NoneShared(g.data, AllData(in0))
    BY <2>1, <1>4, <1>5 DEF NoneShared
  <2> QED
    BY <2>3, <2>4 DEF Apart
<1> QED
  BY <1>10, <1>12, <1>13

\* The tables of its own level that are not taken share a key with it only where a
\* compaction has split the key.
LEMMA ChosenAmong ==
  ASSUME LevelsAssumption, LevelsApart,
         NEW level \in 0 .. NumLevels - 2, NEW first, NEW manual, NEW c,
         Chosen(c, level, first, manual), level = 0 => Separate(0, first)
  PROVE  \A g \in files[level] \ c.in0, f \in c.in0 : SharedIn(g.data, f.data, split)
<1>0. level \in Level /\ c.in0 \subseteq files[level]
  BY LevelFacts DEF Chosen
<1>1. CASE level = 0
  BY <1>1 DEF Chosen, Separate, NoneShared, SharedIn
<1>2. CASE level # 0
  BY <1>0, <1>2 DEF LevelsApart
<1> QED
  BY <1>1, <1>2

\* A compaction starts right.
LEMMA ChosenRight ==
  ASSUME LevelsAssumption, HistoryOK, TablesOK, LevelsApart,
         NEW level \in 0 .. NumLevels - 2, NEW first, NEW manual \in BOOLEAN, NEW c,
         Chosen(c, level, first, manual), level = 0 => Separate(0, first),
         ~manual => Covered(first)
  PROVE  JobRight(c)
<1>1. Isolated(c)
  BY ChosenIsolated
<1>2. OthersNewer(c)
  <2>1. \A g \in files[level] \ c.in0, f \in c.in0 : SharedIn(g.data, f.data, split)
    BY ChosenAmong
  <2>2. c.level = level
    BY DEF Chosen
  <2> QED
    BY <2>1, <2>2 DEF OthersNewer, Newer, SharedIn, AllData
<1>3. NoneDeeper(c)
  <2>1. \A m \in level + 2 .. NumLevels - 1 : files[m] \subseteq c.deeper /\ c.level = level
    BY DEF Chosen
  <2>2. c.level = level
    BY DEF Chosen
  <2> QED
    BY <2>1, <2>2 DEF NoneDeeper
<1>4. ~c.manual => Covered(c.in0 \union c.in1)
  BY DEF Chosen
<1> QED
  BY <1>1, <1>2, <1>3, <1>4 DEF JobRight

\* The tables of a level have an order by their first entries.
LEMMA FirstFileFacts ==
  ASSUME HistoryOK, TablesOK, NEW l \in Level, NEW fs, fs \subseteq files[l], fs # {}
  PROVE  /\ FirstFile(fs) \in fs
         /\ \A g \in fs \ {FirstFile(fs)} : BySmallestKey(FirstFile(fs), g)
<1> DEFINE R == {p \in fs \X fs : BySmallestKey(p[1], p[2])}
<1>1. IsFiniteSet(fs)
  BY FS_Subset DEF TablesOK
<1>2. \A f \in fs : Smallest(f) \in history /\ f.number \in Nat
  BY LevelHolds, TableFacts, EndsAreIn DEF Smallest, TablesOK, IsTable
<1>3. \A f, g \in fs : f.number = g.number => f = g
  BY DEF TablesOK
<1>4. \A f, g \in fs : <<f, g>> \in R <=> BySmallestKey(f, g)
  OBVIOUS
<1> HIDE DEF R
<1>5. Proper(history)
  BY DEF HistoryOK
<1>6. Orders(R, fs)
  <2>1. \A f \in fs : ~BySmallestKey(f, f)
    BY <1>2, <1>5, BeforeOrders DEF BySmallestKey
  <2>2. ASSUME NEW f \in fs, NEW g \in fs, NEW h \in fs, BySmallestKey(f, g), BySmallestKey(g, h)
        PROVE  BySmallestKey(f, h)
    <3> DEFINE a == Smallest(f)
               b == Smallest(g)
               c == Smallest(h)
    <3>1. a \in history /\ b \in history /\ c \in history
      BY <1>2
    <3>2. /\ Before(a, b) \/ (a = b /\ f.number < g.number)
          /\ Before(b, c) \/ (b = c /\ g.number < h.number)
      BY <2>2 DEF BySmallestKey
    <3> HIDE DEF a, b, c
    <3>3. Before(a, c) \/ (a = c /\ f.number < h.number)
      BY <3>1, <3>2, <1>2, <1>5, BeforeOrders
    <3> QED
      BY <3>3 DEF BySmallestKey, a, c
  <2>3. ASSUME NEW f \in fs, NEW g \in fs
        PROVE  f = g \/ BySmallestKey(f, g) \/ BySmallestKey(g, f)
    <3> DEFINE a == Smallest(f)
               b == Smallest(g)
    <3>1. a \in history /\ b \in history /\ f.number \in Nat /\ g.number \in Nat
      BY <1>2
    <3> HIDE DEF a, b
    <3>2. a = b \/ Before(a, b) \/ Before(b, a)
      BY <3>1, <1>5, BeforeOrders
    <3>3. f = g \/ f.number < g.number \/ g.number < f.number
      BY <3>1, <1>3
    <3> QED
      BY <3>2, <3>3 DEF BySmallestKey, a, b
  <2> QED
    BY <1>4, <2>1, <2>2, <2>3 DEF Orders
<1>7. PICK m \in fs : \A g \in fs \ {m} : <<m, g>> \in R
  BY <1>1, <1>6, FirstExists
<1>8. \E f \in fs : \A g \in fs \ {f} : BySmallestKey(f, g)
  BY <1>4, <1>7
<1> QED
  BY <1>8 DEF FirstFile

\* The size of tables is a number; it is 0 where there are none.
LEMMA SizeIsNumber ==
  ASSUME HistoryOK, NEW fs, Holding(fs, history)
  PROVE  TotalFileSize(fs) \in Nat /\ (fs = {} => TotalFileSize(fs) = 0)
<1> DEFINE S == UNION {{f} \X f.data : f \in fs}
<1>1. IsFiniteSet(fs \X history)
  BY FS_Product DEF Holding, Proper
<1>2. S \in SUBSET (fs \X history)
  BY DEF Holding
<1>3. fs = {} => S = {}
  OBVIOUS
<1>4. TotalFileSize(fs) = Cardinality(S)
  BY DEF TotalFileSize
<1> HIDE DEF S
<1> QED
  BY <1>1, <1>2, <1>3, <1>4, FS_Subset, FS_CardinalityType, FS_EmptySet

\* Products of positive numbers are positive.
LEMMA Products ==
  ASSUME NEW a \in Nat, NEW b \in Nat, a > 0, b > 0
  PROVE  a * b > 0
OBVIOUS

\* Finalize: the fullest level has something in it, if any level is full.
LEMMA FullestHasTables ==
  ASSUME LevelsAssumption, HistoryOK, TablesOK, SizeCompaction, NEW l \in FullestLevel
  PROVE  l \in 0 .. NumLevels - 2 /\ files[l] # {}
<1>1. l \in 0 .. NumLevels - 2 /\ \A m \in 0 .. NumLevels - 2 : ~Fuller(m, l)
  BY DEF FullestLevel
<1>2. ASSUME NEW k \in 0 .. NumLevels - 2
      PROVE  /\ Fill(k)[1] \in Nat /\ Fill(k)[2] \in Nat /\ Fill(k)[2] > 0
             /\ files[k] = {} => Fill(k)[1] = 0
  <2>1. k \in Level /\ Holding(files[k], history)
    BY LevelFacts, LevelHolds
  <2>2. /\ Cardinality(files[k]) \in Nat /\ (files[k] = {} => Cardinality(files[k]) = 0)
        /\ TotalFileSize(files[k]) \in Nat /\ (files[k] = {} => TotalFileSize(files[k]) = 0)
    BY <2>1, FS_CardinalityType, FS_EmptySet, SizeIsNumber DEF Holding
  <2>3. k = 0 \/ k \in 1 .. NumLevels - 2
    BY LimitFacts
  <2> QED
    BY <2>2, <2>3, LimitFacts DEF Fill
<1>3. PICK m \in 0 .. NumLevels - 2 : Fill(m)[1] >= Fill(m)[2]
  BY DEF SizeCompaction
<1>4. SUFFICES ASSUME files[l] = {} PROVE FALSE
  BY <1>1
<1> DEFINE a == Fill(m)[1]
           b == Fill(m)[2]
           d == Fill(l)[2]
<1>5. Fill(l)[1] = 0 /\ d \in Nat /\ d > 0 /\ a \in Nat /\ b \in Nat /\ a > 0
  BY <1>1, <1>2, <1>3, <1>4
<1>6. ~(a * d > 0 * b)
  BY <1>1, <1>5 DEF Fuller
<1> HIDE DEF a, b, d
<1>7. a * d > 0 /\ 0 * b = 0
  BY <1>5, Products
<1> QED
  BY <1>6, <1>7

\* What a compaction may take: in level 0, all that shares keys with it; and without a
\* gap, if it is not a manual one.
Startable(level, first, manual) ==
  /\ level \in 0 .. NumLevels - 2 /\ first # {} /\ first \subseteq files[level]
  /\ level = 0 => Separate(0, first)
  /\ ~manual => Covered(first)

\* PickCompaction.
LEMMA PickFacts ==
  ASSUME LevelsAssumption, HistoryOK, TablesOK, SeekOK,
         NEW level \in IF SizeCompaction THEN FullestLevel ELSE {x.level : x \in seek}
  PROVE  \E first : /\ Startable(level, first, FALSE)
                    /\ PickCompaction(level) = SetupOtherInputs(level, first, FALSE)
<1> DEFINE picked == IF SizeCompaction THEN NextFile(level) ELSE {x.file : x \in seek}
           first == IF level = 0 THEN OverlappingRange(0, picked) ELSE picked
<1>1. level \in 0 .. NumLevels - 2 /\ \E f \in files[level] : picked = {f}
  <2>1. CASE SizeCompaction
    <3>1. level \in 0 .. NumLevels - 2 /\ files[level] # {} /\ level \in Level
      BY <2>1, FullestHasTables, LevelFacts
    <3>2. \E fs : fs # {} /\ fs \subseteq files[level] /\ NextFile(level) = {FirstFile(fs)}
      BY <3>1 DEF NextFile
    <3> QED
      BY <2>1, <3>1, <3>2, FirstFileFacts
  <2>2. CASE ~SizeCompaction
    <3>1. PICK x \in seek : level = x.level
      BY <2>2
    <3>2. seek = {x}
      BY <3>1 DEF SeekOK
    <3>3. x.level \in 0 .. NumLevels - 2 /\ x.file \in files[x.level]
      BY <3>1 DEF SeekOK
    <3> QED
      BY <2>2, <3>1, <3>2, <3>3
  <2> QED
    BY <2>1, <2>2
<1>2. PICK f \in files[level] : picked = {f}
  BY <1>1
<1>3. PickCompaction(level) = SetupOtherInputs(level, first, FALSE)
  BY DEF PickCompaction
<1> HIDE DEF picked
<1>4. Covered(picked) /\ picked # {} /\ picked \subseteq files[level]
  BY <1>2, OneCovered
<1>5. CASE level # 0
  <2>1. first = picked
    BY <1>5
  <2> QED
    BY <1>1, <1>3, <1>4, <1>5, <2>1 DEF Startable
<1>6. CASE level = 0
  <2>1. first = OverlappingRange(0, picked) /\ 0 \in Level
    BY <1>6, LevelFacts
  <2>2. Holding(picked, history)
    BY <1>4, <1>6, <2>1, LevelHolds, HoldingPart
  <2> HIDE DEF first
  <2>3. first \subseteq files[0] /\ \A g \in files[0] \ first, h \in first : NoneShared(g.data, h.data)
    BY <1>4, <2>1, <2>2, OverlappingRangeFacts
  <2>4. picked \subseteq first
    BY <1>4, <1>6, <2>1, <2>2, RangeHasItself
  <2>5. Covered(picked \union first)
    BY <1>4, <2>1, <2>2, TogetherCovered
  <2>6. picked \union first = first
    BY <2>4
  <2> QED
    BY <1>1, <1>3, <1>4, <1>6, <2>3, <2>4, <2>5, <2>6 DEF Startable, Separate
<1> QED
  BY <1>5, <1>6

\* VersionSet::CompactRange.
LEMMA CompactFacts ==
  ASSUME LevelsAssumption, HistoryOK, TablesOK, NEW level \in 0 .. NumLevels - 2,
         NEW low \in Key, NEW high \in Key, CompactRange(level, low, high)
  PROVE  /\ \E first : /\ Startable(level, first, TRUE)
                       /\ job' = {SetupOtherInputs(level, first, TRUE)}
         /\ UNCHANGED <<mem, files, seek, nextNumber, snapshots, history, split, lapped>>
<1> DEFINE inputs  == Overlapping(level, low, high)
           upTo(f) == {g \in inputs : g = f \/ BySmallestKey(g, f)}
           enough  == {f \in inputs : TotalFileSize(upTo(f)) >= MaxFileSize}
           first   == IF level > 0 /\ enough # {} THEN upTo(FirstFile(enough)) ELSE inputs
<1>0. level \in Level /\ level \in Nat
  BY LevelFacts
<1>1. /\ inputs # {} /\ job' = {SetupOtherInputs(level, first, TRUE)}
      /\ UNCHANGED <<mem, files, seek, nextNumber, snapshots, history, split, lapped>>
  BY DEF CompactRange
<1>2. /\ inputs \subseteq files[level]
      /\ level = 0 => \A f \in files[level] \ inputs, g \in inputs : NoneShared(f.data, g.data)
  <2>1. Holding(files[level], history) /\ inputs = GetOverlappingInputs(files[level], level, low, high)
    BY <1>0, LevelHolds DEF Overlapping
  <2> HIDE DEF inputs
  <2> QED
    BY <1>0, <2>1, OverlapFacts
<1>3. Startable(level, first, TRUE)
  <2>1. CASE level > 0 /\ enough # {}
    <3>1. enough \subseteq files[level]
      BY <1>2
    <3>2. FirstFile(enough) \in enough
      <4> HIDE DEF enough
      <4> QED
        BY <1>0, <2>1, <3>1, FirstFileFacts
    <3> DEFINE g == FirstFile(enough)
    <3>2a. g \in inputs /\ first = upTo(g)
      BY <2>1, <3>2
    <3> HIDE DEF g, first
    <3>2b. g \in first /\ first \subseteq inputs
      BY <3>2a
    <3>3. first # {} /\ first \subseteq files[level] /\ level # 0
      BY <1>0, <1>2, <2>1, <3>2b
    <3> QED
      BY <3>3 DEF Startable
  <2>2. CASE ~(level > 0 /\ enough # {})
    <3>1. first = inputs
      BY <2>2
    <3> HIDE DEF first, inputs
    <3> QED
      BY <1>1, <1>2, <3>1 DEF Startable, Separate
  <2> QED
    BY <2>1, <2>2
<1> QED
  BY <1>1, <1>3

\* PickLevelForMemTableOutput: a level behind level 0 is one where, and above which,
\* no table overlaps the memtable.
LEMMA FlushLevel ==
  ASSUME LevelsAssumption, NEW low, NEW high,
         NEW level, level = PickLevelForMemTableOutput(low, high)
  PROVE  /\ level \in Level
         /\ level # 0 => \A m \in 0 .. level : Overlapping(m, low, high) = {}
<1> DEFINE free(l) == /\ Overlapping(l, low, high) = {}
                      /\ l + 1 < NumLevels =>
                           TotalFileSize(Overlapping(l + 1, low, high))
                             <= GrandparentFactor * MaxFileSize
           S == {l \in 0 .. MaxMemCompactLevel : \A m \in 1 .. l : free(m)}
<1>1. CASE Overlapping(0, low, high) # {}
  BY <1>1, LevelFacts DEF PickLevelForMemTableOutput
<1>2. CASE Overlapping(0, low, high) = {}
  <2>1. level = Max(S)
    BY <1>2 DEF PickLevelForMemTableOutput
  <2>2. S \subseteq Nat /\ 0 \in S /\ \A n \in S : n <= MaxMemCompactLevel
    BY LimitFacts
  <2>3. \E m \in S : \A n \in S : n <= m
    <3> HIDE DEF S
    <3> QED
      BY <2>2, GreatestNumber, LimitFacts
  <2>4. \E m \in S : \A n \in S : m >= n
    <3> HIDE DEF S
    <3> QED
      BY <2>2, <2>3
  <2>5. level \in S
    <3> HIDE DEF S
    <3> QED
      BY <2>1, <2>4 DEF Max
  <2>6. level \in 0 .. MaxMemCompactLevel /\ \A m \in 1 .. level : Overlapping(m, low, high) = {}
    BY <2>5
  <2>7. \A m \in 0 .. level : m = 0 \/ m \in 1 .. level
    BY <2>6
  <2> QED
    BY <1>2, <2>6, <2>7, LimitFacts DEF Level
<1> QED
  BY <1>1, <1>2

\* Where GetOverlappingInputs finds nothing, nothing touches the range.
LEMMA NothingOverlaps ==
  ASSUME LevelsAssumption, HistoryOK, TablesOK, NEW l \in Level, NEW low \in Key, NEW high \in Key,
         Overlapping(l, low, high) = {}
  PROVE  \A f \in files[l] : ~Touches(f.data, low, high)
<1>1. Holding(files[l], history) /\ l \in Nat
  BY LevelHolds, LevelFacts
<1> QED
  BY <1>1, OverlapFacts DEF Overlapping

-----------------------------------------------------------------------------
(* What a read point sees. *)

Seen(S, k, s) == {e \in S : e.key = k /\ e.seq <= s}

\* What is visible is the newest of what a read point sees.
LEMMA VisibleFacts ==
  ASSUME NEW S, Proper(S), NEW k, NEW s
  PROVE  /\ Seen(S, k, s) = {} => Visible(S, k, s) = {}
         /\ Seen(S, k, s) # {} => Visible(S, k, s) # {}
         /\ \A v \in Visible(S, k, s) :
              /\ Visible(S, k, s) = {v} /\ v \in Seen(S, k, s) /\ v \in S
              /\ \A x \in Seen(S, k, s) : x = v \/ x.seq < v.seq
<1>1. Visible(S, k, s) = IF Seen(S, k, s) = {} THEN {} ELSE {FirstOf(Seen(S, k, s))}
  BY DEF Visible, Seen
<1>2. Proper(Seen(S, k, s)) /\ \A x \in Seen(S, k, s) : x \in S /\ x.key = k /\ x.seq \in Nat
  BY ProperPart, EntryFields DEF Seen
<1>3. CASE Seen(S, k, s) # {}
  <2> DEFINE v == FirstOf(Seen(S, k, s))
  <2>1. v \in Seen(S, k, s) /\ \A x \in Seen(S, k, s) : x = v \/ Before(v, x)
    BY <1>2, <1>3, EndsAreIn
  <2>2. Visible(S, k, s) = {v}
    BY <1>1, <1>3
  <2> HIDE DEF v
  <2>3. k = v.key /\ \A x \in Seen(S, k, s) : x = v \/ x.seq < v.seq
    <3>1. v.key = k /\ v.seq \in Nat
      BY <1>2, <2>1
    <3>2. ASSUME NEW x \in Seen(S, k, s), Before(v, x) PROVE x.seq < v.seq
      <4>1. x.key = k /\ x.seq \in Nat
        BY <1>2
      <4>2. k \in Nat
        BY <2>1, <3>1, <1>2, EntryFields
      <4> QED
        BY <3>1, <3>2, <4>1, <4>2 DEF Before
    <3> QED
      BY <3>1, <3>2, <2>1
  <2> QED
    BY <1>2, <1>3, <2>1, <2>2, <2>3
<1> QED
  BY <1>1, <1>3

\* The newest of what is seen is what is visible.
LEMMA NewestIsVisible ==
  ASSUME NEW S, Proper(S), NEW k, NEW s, NEW v \in Seen(S, k, s),
         \A x \in Seen(S, k, s) : x.seq <= v.seq
  PROVE  Visible(S, k, s) = {v}
<1>1. PICK w : w \in Visible(S, k, s)
  BY VisibleFacts
<1>2. /\ Visible(S, k, s) = {w} /\ w \in Seen(S, k, s)
      /\ \A x \in Seen(S, k, s) : x = w \/ x.seq < w.seq
  BY <1>1, VisibleFacts
<1>3. v.seq \in Nat /\ w.seq \in Nat
  BY <1>2, EntryFields DEF Seen
<1> QED
  BY <1>2, <1>3

\* Who sees the same finds the same.
LEMMA SameSeen ==
  ASSUME NEW S, NEW T, NEW k, NEW s, NEW t, Seen(S, k, s) = Seen(T, k, t)
  PROVE  Visible(S, k, s) = Visible(T, k, t)
<1>1. Visible(S, k, s) = IF Seen(S, k, s) = {} THEN {} ELSE {FirstOf(Seen(S, k, s))}
  BY DEF Visible, Seen
<1>2. Visible(T, k, t) = IF Seen(T, k, t) = {} THEN {} ELSE {FirstOf(Seen(T, k, t))}
  BY DEF Visible, Seen
<1> QED
  BY <1>1, <1>2

\* What is left is part of what was written.
LEMMA EverythingProper ==
  ASSUME HistoryOK, TablesOK, MemOK
  PROVE  /\ Everything \subseteq history /\ Proper(Everything) /\ Proper(history)
         /\ \A e \in history : e.seq \in Nat /\ e.seq <= LastSequence /\ e.key \in Key /\ e.key \in Nat
<1>1. \A l \in Level : AllData(files[l]) \subseteq history
  BY DEF TablesOK, IsTable, AllData
<1>2. Everything \subseteq history
  BY <1>1 DEF Everything, MemOK
<1>3. \A e \in history : e.seq \in Nat /\ e.seq <= LastSequence
  BY OldestRead DEF HistoryOK
<1> QED
  BY <1>2, <1>3, ProperPart, EntryFields DEF HistoryOK

\* Where nothing is dropped and no read point comes in, each one goes on seeing its newest write.
LEMMA RetainedStays ==
  ASSUME Retained, Everything' = Everything, history' = history, split \subseteq split',
         \A s \in ReadPoints' : s \in ReadPoints
  PROVE  Retained'
BY DEF Retained

-----------------------------------------------------------------------------
(* Writes, snapshots and statistics. *)

\* A write takes the next sequence number.
LEMMA WriteBase ==
  ASSUME Base, NEW k \in Key, NEW del \in BOOLEAN, Write(k, del)
  PROVE  Base' /\ LastSequence' = LastSequence + 1 /\ LastSequence \in Nat
<1> DEFINE e == [key |-> k, seq |-> LastSequence + 1, del |-> del]
<1>1. /\ mem' = mem \union {e} /\ history' = history \union {e}
      /\ UNCHANGED <<files, pointer, seek, nextNumber, job, snapshots, asked, split, lapped>>
  BY DEF Write
<1>2. /\ LastSequence \in Nat /\ Proper(history) /\ \A x \in history : x.seq \in 1 .. LastSequence
  BY OldestRead DEF Base, HistoryOK
<1>3. e \in Entry(Nat) /\ e.seq = LastSequence + 1 /\ e.key = k
  BY <1>2 DEF Entry
<1> HIDE DEF e
<1>4. e \notin history
  BY <1>2, <1>3
<1>5. LastSequence' = LastSequence + 1 /\ IsFiniteSet(history')
  BY <1>1, <1>2, <1>4, FS_AddElement DEF LastSequence, Proper
<1>6. Proper(history)' /\ \A x \in history' : x.seq \in 1 .. LastSequence'
  BY <1>1, <1>2, <1>3, <1>5 DEF Proper
<1>7. HistoryOK'
  BY <1>1, <1>2, <1>5, <1>6 DEF Base, HistoryOK
<1>8. TablesOK'
  BY <1>1 DEF Base, TablesOK, IsTable
<1>9. MemOK'
  <2>1. mem' \subseteq history'
    BY <1>1 DEF Base, MemOK
  <2>2. \A l \in Level : \A f \in files[l] : \A x \in f.data : x.seq \in 1 .. LastSequence
    BY <1>2 DEF Base, TablesOK, IsTable
  <2>3. \A l \in Level : \A f \in files[l] : \A x \in f.data : e.seq > x.seq
    BY <1>2, <1>3, <2>2
  <2> QED
    BY <1>1, <2>1, <2>3 DEF Base, MemOK
<1>10. SeekOK'
  BY <1>1 DEF Base, SeekOK
<1>11. JobOK'
  <2>1. \A c \in job : c.oldest \in Nat /\ c.oldest <= LastSequence
    BY DEF Base, JobOK, JobTyped, ReadPoints
  <2>2. \A c \in job : \A s \in ReadPoints' : c.oldest <= s
    BY <1>1, <1>2, <1>5, <2>1 DEF Base, JobOK, JobTyped, ReadPoints
  <2> QED
    BY <1>1, <2>2 DEF Base, JobOK, JobTyped
<1> QED
  BY <1>1, <1>2, <1>5, <1>7, <1>8, <1>9, <1>10, <1>11 DEF Base

\* Files, compaction and split keys stay: so does what is right about them.
LEMMA RightStays ==
  ASSUME Right, Retained', UNCHANGED <<files, job, split>>
  PROVE  Right'
BY DEF Right, LevelsApart, LevelsNewer, JobsRight, JobRight, Isolated, OthersNewer, NoneDeeper

\* A write is seen by the last sequence number, and by no older read point.
LEMMA WriteRight ==
  ASSUME Base, Right, NEW k \in Key, NEW del \in BOOLEAN, Write(k, del)
  PROVE  Right'
<1> DEFINE e == [key |-> k, seq |-> LastSequence + 1, del |-> del]
<1>1. /\ mem' = mem \union {e} /\ history' = history \union {e}
      /\ UNCHANGED <<files, pointer, seek, nextNumber, job, snapshots, asked, split, lapped>>
  BY DEF Write
<1>2. e.seq = LastSequence + 1 /\ e.key = k
  OBVIOUS
<1> HIDE DEF e
<1>3. Base' /\ LastSequence' = LastSequence + 1 /\ LastSequence \in Nat
  BY WriteBase
<1>4. /\ Everything \subseteq history
      /\ \A x \in history : x.seq \in Nat /\ x.seq <= LastSequence
  BY EverythingProper DEF Base
<1>5. Proper(Everything') /\ Proper(history')
  <2>1. Proper(Everything)' /\ Proper(history)'
    BY <1>3, EverythingProper, PTL DEF Base
  <2> QED
    BY <2>1
<1>6. Everything' = Everything \union {e}
  BY <1>1 DEF Everything
<1>7. ASSUME NEW q \in Key \ split, NEW s \in ReadPoints'
      PROVE  ValueOf(Visible(Everything', q, s)) = ValueOf(Visible(history', q, s))
  <2>1. CASE s \in snapshots
    <3>1. s <= LastSequence /\ s \in Nat /\ s \in ReadPoints
      BY <1>3, <2>1 DEF Base, HistoryOK, ReadPoints
    <3>2. Seen(Everything', q, s) = Seen(Everything, q, s) /\ Seen(history', q, s) = Seen(history, q, s)
      BY <1>1, <1>2, <1>3, <1>6, <3>1 DEF Seen
    <3> QED
      BY <3>1, <3>2, SameSeen DEF Right, Retained
  <2>2. CASE s = LastSequence + 1 /\ q = k
    <3>1. /\ e \in Seen(Everything', q, s) /\ e \in Seen(history', q, s)
          /\ \A x \in Seen(Everything', q, s) : x.seq <= e.seq
          /\ \A x \in Seen(history', q, s) : x.seq <= e.seq
      BY <1>1, <1>2, <1>3, <1>6, <2>2 DEF Seen
    <3> DEFINE S == Everything'
               T == history'
    <3>2. Proper(S) /\ e \in Seen(S, q, s) /\ \A x \in Seen(S, q, s) : x.seq <= e.seq
      BY <1>5, <3>1
    <3>3. Proper(T) /\ e \in Seen(T, q, s) /\ \A x \in Seen(T, q, s) : x.seq <= e.seq
      BY <1>5, <3>1
    <3> HIDE DEF S, T
    <3>4. Visible(S, q, s) = {e} /\ Visible(T, q, s) = {e}
      BY <3>2, <3>3, NewestIsVisible
    <3> QED
      BY <3>4 DEF S, T
  <2>3. CASE s = LastSequence + 1 /\ q # k
    <3>1. LastSequence \in ReadPoints
      BY DEF ReadPoints
    <3>2. /\ Seen(Everything', q, s) = Seen(Everything, q, LastSequence)
          /\ Seen(history', q, s) = Seen(history, q, LastSequence)
      <4>1. \A x \in history : x.seq <= s /\ x.seq <= LastSequence
        BY <1>3, <1>4, <2>3
      <4> QED
        BY <1>1, <1>2, <1>4, <1>6, <2>3, <4>1 DEF Seen
    <3> QED
      BY <3>1, <3>2, SameSeen DEF Right, Retained
  <2> QED
    BY <1>1, <1>3, <2>1, <2>2, <2>3 DEF ReadPoints
<1>8. Retained'
  BY <1>1, <1>7 DEF Retained
<1> QED
  BY <1>1, <1>8, RightStays

\* A change of the snapshots leaves the base as it is.
LEMMA SnapshotBase ==
  ASSUME Base, UNCHANGED <<mem, files, seek, nextNumber, job, history, lapped>>,
         IsFiniteSet(snapshots'), snapshots' \subseteq snapshots \union {LastSequence}
  PROVE  Base' /\ LastSequence' = LastSequence /\ \A s \in ReadPoints' : s \in ReadPoints
<1>1. LastSequence' = LastSequence /\ \A s \in ReadPoints' : s \in ReadPoints
  BY DEF LastSequence, ReadPoints
<1>2. HistoryOK'
  BY <1>1, OldestRead DEF Base, HistoryOK
<1>3. TablesOK'
  BY DEF Base, TablesOK, IsTable
<1>4. MemOK' /\ SeekOK'
  BY DEF Base, MemOK, SeekOK
<1>5. JobOK'
  BY <1>1 DEF Base, JobOK, JobTyped
<1> QED
  BY <1>1, <1>2, <1>3, <1>4, <1>5 DEF Base

\* Where memtable and tables stay, the entries do.
LEMMA EverythingStays ==
  ASSUME UNCHANGED <<mem, files>>
  PROVE  Everything' = Everything
BY DEF Everything

\* GetSnapshot and ReleaseSnapshot.
LEMMA SnapshotKeeps ==
  ASSUME IInv, GetSnapshot \/ \E s \in snapshots : ReleaseSnapshot(s)
  PROVE  IInv'
<1>1. /\ UNCHANGED <<mem, files, seek, nextNumber, job, history, split, lapped>>
      /\ snapshots' = snapshots \union {LastSequence} \/ \E s \in snapshots : snapshots' = snapshots \ {s}
  BY DEF GetSnapshot, ReleaseSnapshot
<1>2. IsFiniteSet(snapshots') /\ snapshots' \subseteq snapshots \union {LastSequence}
  BY <1>1, FS_AddElement, FS_RemoveElement DEF IInv, Base, HistoryOK
<1>3. Base' /\ \A s \in ReadPoints' : s \in ReadPoints
  BY <1>1, <1>2, SnapshotBase DEF IInv
<1>4. Right => Right'
  BY <1>1, <1>3, EverythingStays, RetainedStays, RightStays DEF Right
<1> QED
  BY <1>1, <1>3, <1>4 DEF IInv

\* DBImpl::Write keeps the invariant.
LEMMA WriteKeeps ==
  ASSUME IInv, NEW k \in Key, NEW del \in BOOLEAN, Write(k, del)
  PROVE  IInv'
<1>1. lapped' = lapped
  BY DEF Write
<1> QED
  BY <1>1, WriteBase, WriteRight DEF IInv

\* The tables that a lookup looks into: one of each level behind level 0.
LEMMA TablesForFacts ==
  ASSUME HistoryOK, TablesOK, NEW l \in Level, NEW k, NEW s
  PROVE  /\ TablesFor(l, k, s) \subseteq files[l]
         /\ l # 0 => \A f, g \in TablesFor(l, k, s) : f = g
<1>1. CASE l = 0
  BY <1>1 DEF TablesFor, InRange
<1>2. CASE l # 0
  <2> DEFINE ends == {f \in files[l] : ~Before(Largest(f), [key |-> k, seq |-> s])}
  <2>1. CASE ends = {}
    BY <1>2, <2>1 DEF TablesFor
  <2>2. CASE ends # {}
    <3>1. TablesFor(l, k, s) = {f \in {FirstFile(ends)} : Smallest(f).key <= k}
      BY <1>2, <2>2 DEF TablesFor
    <3>2. ends \subseteq files[l]
      OBVIOUS
    <3> HIDE DEF ends
    <3>3. FirstFile(ends) \in files[l]
      BY <2>2, <3>2, FirstFileFacts
    <3> QED
      BY <3>1, <3>3
  <2> QED
    BY <2>1, <2>2
<1> QED
  BY <1>1, <1>2

\* Each candidate is a table of its level, and behind level 0 there is one of each level.
LEMMA CandidateFacts ==
  ASSUME HistoryOK, TablesOK, NEW k, NEW s
  PROVE  /\ \A a \in Candidates(k, s) : /\ a = [level |-> a.level, file |-> a.file]
                                        /\ a.level \in Level /\ a.file \in files[a.level]
                                        /\ a.file \in TablesFor(a.level, k, s)
         /\ \A a, b \in Candidates(k, s) : a.level = b.level /\ a.level # 0 => a = b
         /\ \A l \in Level : \A f \in TablesFor(l, k, s) : [level |-> l, file |-> f] \in Candidates(k, s)
<1>1. \A a \in Candidates(k, s) : /\ a = [level |-> a.level, file |-> a.file]
                                  /\ a.level \in Level /\ a.file \in TablesFor(a.level, k, s)
  BY DEF Candidates
<1>2. \A l \in Level : \A f \in TablesFor(l, k, s) : [level |-> l, file |-> f] \in Candidates(k, s)
  BY DEF Candidates
<1>3. ASSUME NEW a \in Candidates(k, s), NEW b \in Candidates(k, s), a.level = b.level, a.level # 0
      PROVE  a = b
  <2>1. a.file = b.file
    BY <1>1, <1>3, TablesForFacts
  <2> QED
    BY <1>1, <1>3, <2>1
<1> QED
  BY <1>1, <1>2, <1>3, TablesForFacts

\* Among some of them there is one that is looked into first.
LEMMA FirstSearchedFacts ==
  ASSUME LevelsAssumption, HistoryOK, TablesOK, NEW k, NEW s,
         NEW S, S \subseteq Candidates(k, s), S # {}
  PROVE  /\ FirstSearched(S) \in S
         /\ \A b \in S \ {FirstSearched(S)} : SearchedBefore(FirstSearched(S), b)
<1>1. \A a \in S : /\ a = [level |-> a.level, file |-> a.file] /\ a.level \in Level /\ a.level \in Nat
                   /\ a.file \in files[a.level]
                   /\ a.file.number \in Nat /\ a.file.number < nextNumber
  BY CandidateFacts, LevelFacts DEF TablesOK, IsTable
<1>2. \A a, b \in S : a.level = b.level => a = b \/ (a.level = 0 /\ a.file.number # b.file.number)
  <2>1. SUFFICES ASSUME NEW a \in S, NEW b \in S, a.level = b.level, a.level = 0,
                        a.file.number = b.file.number
                 PROVE  a = b
    BY CandidateFacts
  <2>2. a.file = b.file
    BY <1>1, <2>1 DEF TablesOK
  <2> QED
    BY <1>1, <2>1, <2>2
<1> DEFINE levels == {a.level : a \in S}
<1>3. PICK l \in levels : \A m \in levels : l <= m
  <2>1. levels \subseteq Nat /\ levels # {}
    BY <1>1
  <2> HIDE DEF levels
  <2> QED
    BY <2>1, LeastNumber
<1>4. l \in Nat /\ (\E a \in S : a.level = l) /\ \A a \in S : l <= a.level
  BY <1>1, <1>3
<1> DEFINE numbers == {a.file.number : a \in {b \in S : b.level = l}}
<1>5. PICK n \in numbers : \A m \in numbers : m <= n
  <2>1. numbers \subseteq Nat /\ numbers # {} /\ \A m \in numbers : m <= nextNumber
    <3>1. \A a \in S : a.file.number <= nextNumber
      BY <1>1 DEF TablesOK
    <3> QED
      BY <1>1, <1>4, <3>1
  <2>2. nextNumber \in Nat
    BY DEF TablesOK
  <2> HIDE DEF numbers
  <2> QED
    BY <2>1, <2>2, GreatestNumber
<1>6. PICK a \in S : a.level = l /\ a.file.number = n /\ n \in Nat
  BY <1>1, <1>5
<1>7. \A b \in S : b.level = l => b.file.number <= n
  BY <1>5
<1>8. ASSUME NEW b \in S \ {a} PROVE SearchedBefore(a, b)
  <2>1. CASE b.level = l
    <3>1. a.file.number # b.file.number
      BY <1>2, <1>6, <1>8, <2>1
    <3> QED
      BY <1>1, <1>6, <1>7, <1>8, <2>1, <3>1 DEF SearchedBefore
  <2>2. CASE b.level # l
    BY <1>1, <1>4, <1>6, <1>8, <2>2 DEF SearchedBefore
  <2> QED
    BY <2>1, <2>2
<1>9. \E c \in S : \A b \in S \ {c} : SearchedBefore(c, b)
  BY <1>8
<1> QED
  BY <1>9 DEF FirstSearched

\* UpdateStats: the table that wastes seeks is not of the last level.
LEMMA UpdateStatsKeeps ==
  ASSUME LevelsAssumption, IInv, NEW k \in Key, NEW s \in ReadPoints, UpdateStats(k, s)
  PROVE  IInv'
<1> DEFINE S == Candidates(k, s)
           a == FirstSearched(S)
<1>1. /\ Cardinality(S) >= 2 /\ seek' = {a}
      /\ UNCHANGED <<mem, files, pointer, nextNumber, job, snapshots, history, split, lapped>>
  BY DEF UpdateStats
<1>2. HistoryOK /\ TablesOK
  BY DEF IInv, Base
<1>3. S # {}
  <2> HIDE DEF S
  <2> QED
    BY <1>1, FS_EmptySet
<1>4. a \in S /\ \A b \in S \ {a} : SearchedBefore(a, b)
  BY <1>2, <1>3, FirstSearchedFacts
<1>5. \E b \in S : b # a
  <2>1. SUFFICES ASSUME S = {a} PROVE FALSE
    BY <1>4
  <2> HIDE DEF S, a
  <2>2. Cardinality(S) = 1
    BY <2>1, FS_Singleton
  <2> QED
    BY <1>1, <2>2
<1>6. PICK b \in S : b # a /\ SearchedBefore(a, b)
  BY <1>4, <1>5
<1>7. /\ a.level \in Level /\ b.level \in Level /\ a.file \in files[a.level]
      /\ a.level = b.level => a.level = 0
  BY <1>2, <1>4, <1>6, CandidateFacts
<1> HIDE DEF a, S
<1>8. a.level \in 0 .. NumLevels - 2
  BY <1>6, <1>7, LimitFacts DEF SearchedBefore, Level
<1>9. SeekOK'
  BY <1>1, <1>7, <1>8 DEF SeekOK
<1>10. HistoryOK' /\ TablesOK' /\ MemOK' /\ JobOK'
  <2>1. LastSequence' = LastSequence /\ ReadPoints' = ReadPoints
    BY <1>1 DEF LastSequence, ReadPoints
  <2>2. HistoryOK /\ TablesOK /\ MemOK /\ JobOK
    BY DEF IInv, Base
  <2>3. HistoryOK'
    BY <1>1, <2>1, <2>2 DEF HistoryOK
  <2>4. TablesOK'
    BY <1>1, <2>1, <2>2 DEF TablesOK, IsTable
  <2>5. MemOK'
    BY <1>1, <2>2 DEF MemOK
  <2>6. JobOK'
    BY <1>1, <2>1, <2>2 DEF JobOK, JobTyped
  <2> QED
    BY <2>3, <2>4, <2>5, <2>6
<1>11. Right => Right'
  <2>1. \A r \in ReadPoints' : r \in ReadPoints
    BY <1>1 DEF LastSequence, ReadPoints
  <2> QED
    BY <1>1, <2>1, EverythingStays, RetainedStays, RightStays DEF Right
<1> QED
  BY <1>1, <1>9, <1>10, <1>11 DEF IInv, Base

-----------------------------------------------------------------------------
(* The memtable becomes a table. *)

\* What does not touch the range of some entries lies outside it.
LEMMA Away ==
  ASSUME NEW S, Proper(S), S # {}, NEW T, \A x \in T : x.key \in Nat,
         ~Touches(T, FirstOf(S).key, LastOf(S).key)
  PROVE  Apart(S, T) /\ Apart(T, S) /\ NoneShared(S, T) /\ NoneShared(T, S)
<1> DEFINE low == FirstOf(S).key
           high == LastOf(S).key
<1>1. low \in Nat /\ high \in Nat /\ \A x \in S : low <= x.key /\ x.key <= high /\ x.key \in Nat
  BY EndKeys, EntryFields
<1> HIDE DEF low, high
<1>2. (\A x \in T : high < x.key) \/ (\A x \in T : x.key < low)
  <2>1. \A e \in T, d \in T : ~(e.key <= high) \/ ~(low <= d.key)
    BY DEF Touches, low, high
  <2>2. (\A e \in T : ~(e.key <= high)) \/ (\A e \in T : ~(low <= e.key))
    BY <2>1
  <2> QED
    BY <2>2, <1>1
<1>3. CASE \A x \in T : high < x.key
  <2>1. \A x \in S, y \in T : x.key < y.key /\ x.key \in Nat /\ y.key \in Nat
    BY <1>1, <1>3
  <2> QED
    BY <2>1 DEF Apart, InFront, NoneShared, Before
<1>4. CASE \A x \in T : x.key < low
  <2>1. \A x \in S, y \in T : y.key < x.key /\ x.key \in Nat /\ y.key \in Nat
    BY <1>1, <1>4
  <2> QED
    BY <2>1 DEF Apart, InFront, NoneShared, Before
<1> QED
  BY <1>2, <1>3, <1>4

\* A table of its own is added to a level.
FlushedTo(level, f) ==
  /\ level \in Level /\ mem # {} /\ mem' = {}
  /\ f = [number |-> nextNumber, data |-> mem] /\ nextNumber' = nextNumber + 1
  /\ files' = [files EXCEPT ![level] = @ \union {f}] /\ seek' = {}
  /\ lapped' = (lapped \/ \E j \in job : j.manual)
  /\ UNCHANGED <<job, snapshots, history, split>>
  /\ level # 0 => \A m \in 0 .. level : \A g \in files[m] :
       ~Touches(g.data, FirstOf(mem).key, LastOf(mem).key)

\* CompactMemTable adds the memtable as a table that is away from what lies above it.
LEMMA FlushFacts ==
  ASSUME LevelsAssumption, Base, Flush
  PROVE  \E level, f : FlushedTo(level, f)
<1> DEFINE f == [number |-> nextNumber, data |-> mem]
           level == PickLevelForMemTableOutput(FirstOf(mem).key, LastOf(mem).key)
<1>1. f.data = mem
  OBVIOUS
<1>2. Smallest(f).key = FirstOf(mem).key /\ Largest(f).key = LastOf(mem).key
  BY <1>1 DEF Smallest, Largest
<1>3. /\ mem # {} /\ mem' = {} /\ files' = [files EXCEPT ![level] = @ \union {f}]
      /\ nextNumber' = nextNumber + 1 /\ seek' = {}
      /\ lapped' = (lapped \/ \E j \in job : j.manual)
      /\ UNCHANGED <<job, snapshots, history, split>>
  BY <1>2 DEF Flush, NewVersion
<1> HIDE DEF level
<1>4. /\ level \in Level
      /\ level # 0 => \A m \in 0 .. level : Overlapping(m, FirstOf(mem).key, LastOf(mem).key) = {}
  BY FlushLevel DEF level
<1>5. Proper(mem) /\ FirstOf(mem).key \in Key /\ LastOf(mem).key \in Key
  BY <1>3, ProperPart, EndKeys DEF Base, HistoryOK, MemOK
<1>6. \A m \in 0 .. level : m \in Level
  BY <1>4, LimitFacts DEF Level
<1>7. level # 0 => \A m \in 0 .. level : \A g \in files[m] :
        ~Touches(g.data, FirstOf(mem).key, LastOf(mem).key)
  BY <1>4, <1>5, <1>6, NothingOverlaps DEF Base
<1>8. FlushedTo(level, f)
  BY <1>3, <1>4, <1>7 DEF FlushedTo
<1> QED
  BY <1>8

\* Where the tables are afterwards.
LEMMA FlushedFiles ==
  ASSUME Base, NEW level, NEW f, FlushedTo(level, f)
  PROVE  /\ files' = [l \in Level |-> files'[l]]
         /\ \A l \in Level : files'[l] = IF l = level THEN files[l] \union {f} ELSE files[l]
         /\ f.data = mem /\ f.number = nextNumber /\ f = [number |-> f.number, data |-> f.data]
         /\ nextNumber \in Nat
         /\ \A l \in Level : \A g \in files[l] :
              /\ g.number < nextNumber /\ g.number \in Nat
              /\ \A e \in f.data, x \in g.data : e.seq > x.seq
         /\ LastSequence' = LastSequence /\ ReadPoints' = ReadPoints
<1>1. files = [l \in Level |-> files[l]] /\ files' = [files EXCEPT ![level] = @ \union {f}]
  BY DEF FlushedTo, Base, TablesOK
<1>2. f.data = mem /\ f.number = nextNumber /\ f = [number |-> f.number, data |-> f.data]
  BY DEF FlushedTo
<1>3. LastSequence' = LastSequence /\ ReadPoints' = ReadPoints
  BY DEF FlushedTo, LastSequence, ReadPoints
<1>4. nextNumber \in Nat /\ \A l \in Level : \A g \in files[l] : g.number < nextNumber /\ g.number \in Nat
  BY DEF Base, TablesOK, IsTable
<1>5. \A l \in Level : \A g \in files[l] : \A e \in f.data, x \in g.data : e.seq > x.seq
  BY <1>2 DEF Base, MemOK
<1> QED
  BY <1>1, <1>2, <1>3, <1>4, <1>5 DEF FlushedTo

\* The new table is newer than all others and has a number of its own.
LEMMA FlushBase ==
  ASSUME LevelsAssumption, Base, NEW level, NEW f, FlushedTo(level, f)
  PROVE  Base'
<1>1. /\ files' = [l \in Level |-> files'[l]]
      /\ \A l \in Level : files'[l] = IF l = level THEN files[l] \union {f} ELSE files[l]
      /\ f.data = mem /\ f.number = nextNumber /\ f = [number |-> f.number, data |-> f.data]
      /\ nextNumber \in Nat
      /\ \A l \in Level : \A g \in files[l] :
           /\ g.number < nextNumber /\ g.number \in Nat
           /\ \A e \in f.data, x \in g.data : e.seq > x.seq
  BY FlushedFiles
<1>2. LastSequence' = LastSequence /\ ReadPoints' = ReadPoints
  BY FlushedFiles
<1>3. /\ level \in Level /\ mem # {} /\ mem' = {} /\ nextNumber' = nextNumber + 1 /\ seek' = {}
      /\ lapped' = (lapped \/ \E j \in job : j.manual)
      /\ UNCHANGED <<job, snapshots, history, split>>
  BY DEF FlushedTo
<1>4. HistoryOK'
  BY <1>2, <1>3 DEF Base, HistoryOK
<1>5. TablesOK'
  <2>1. nextNumber' \in Nat
    BY <1>1, <1>3
  <2>2. ASSUME NEW l \in Level PROVE IsFiniteSet(files'[l]) /\ \A g \in files'[l] : IsTable(g)'
    <3>1. IsFiniteSet(files[l]) /\ \A g \in files[l] : IsTable(g)
      BY DEF Base, TablesOK
    <3>2. IsFiniteSet(files'[l])
      BY <1>1, <3>1, FS_AddElement
    <3>3. \A g \in files[l] : IsTable(g)'
      BY <1>1, <1>3, <3>1 DEF IsTable
    <3>4. IsTable(f)'
      BY <1>1, <1>3 DEF IsTable, Base, MemOK
    <3> QED
      BY <1>1, <3>2, <3>3, <3>4
  <2>3. ASSUME NEW l \in Level, NEW m \in Level, NEW g \in files'[l], NEW h \in files'[m],
               g.number = h.number
        PROVE  l = m /\ g = h
    <3>1. (g = f /\ l = level) \/ g \in files[l]
      BY <1>1
    <3>2. (h = f /\ m = level) \/ h \in files[m]
      BY <1>1
    <3>3. CASE g \in files[l] /\ h \in files[m]
      BY <2>3, <3>3 DEF Base, TablesOK
    <3>4. ~(g = f /\ h \in files[m]) /\ ~(h = f /\ g \in files[l])
      BY <1>1, <2>3
    <3> QED
      BY <3>1, <3>2, <3>3, <3>4
  <2> QED
    BY <1>1, <2>1, <2>2, <2>3 DEF TablesOK
<1>6. MemOK'
  <2>1. ASSUME NEW g \in files'[0], NEW h \in files'[0], g.number > h.number,
               NEW e \in g.data, NEW x \in h.data
        PROVE  e.seq > x.seq
    <3>0. 0 \in Level
      BY LevelFacts
    <3>1. g = f \/ g \in files[0]
      BY <1>1, <3>0
    <3>2. h = f \/ h \in files[0]
      BY <1>1, <3>0
    <3>3. CASE g \in files[0] /\ h \in files[0]
      BY <2>1, <3>3 DEF Base, MemOK
    <3>4. CASE g = f /\ h \in files[0]
      BY <1>1, <2>1, <3>0, <3>4
    <3>5. ~(h = f /\ g \in files[0]) /\ ~(g = f /\ h = f)
      BY <1>1, <2>1, <3>0
    <3> QED
      BY <3>1, <3>2, <3>3, <3>4, <3>5
  <2> QED
    BY <1>3, <2>1 DEF MemOK
<1>7. SeekOK'
  BY <1>3 DEF SeekOK
<1>8. JobOK'
  <2>1. \A l \in Level : files[l] \subseteq files'[l]
    BY <1>1
  <2>2. ASSUME NEW c \in job PROVE JobTyped(c)'
    <3>1. JobTyped(c)
      BY DEF Base, JobOK
    <3>2. c.level \in Level /\ c.level + 1 \in Level
      BY <3>1, LevelFacts DEF JobTyped
    <3> QED
      BY <1>2, <2>1, <3>1, <3>2 DEF JobTyped
  <2> QED
    BY <1>3, <2>2 DEF Base, JobOK
<1> QED
  BY <1>3, <1>4, <1>5, <1>6, <1>7, <1>8 DEF Base

\* The new table is away from every table of its level and above it, behind level 0.
LEMMA FlushedAway ==
  ASSUME LevelsAssumption, Base, NEW level, NEW f, FlushedTo(level, f), level # 0,
         NEW m \in 0 .. level, NEW g \in files[m]
  PROVE  /\ Apart(f.data, g.data) /\ Apart(g.data, f.data)
         /\ NoneShared(f.data, g.data) /\ NoneShared(g.data, f.data)
<1>1. ~Touches(g.data, FirstOf(mem).key, LastOf(mem).key) /\ mem # {} /\ level \in Level /\ f.data = mem
  BY DEF FlushedTo
<1>2. m \in Level
  BY <1>1, LimitFacts DEF Level
<1>3. Proper(mem)
  BY ProperPart DEF Base, HistoryOK, MemOK
<1>4. \A x \in g.data : x.key \in Nat
  BY <1>2, LevelHolds, TableFacts DEF Base
<1> QED
  BY <1>1, <1>3, <1>4, Away

\* Behind level 0 the new table is apart from those of its level.
LEMMA FlushApart ==
  ASSUME LevelsAssumption, Base, NEW level, NEW f, FlushedTo(level, f), LevelsApart
  PROVE  LevelsApart'
<1>1. \A l \in Level : files'[l] = IF l = level THEN files[l] \union {f} ELSE files[l]
  BY FlushedFiles
<1>2. split' = split /\ level \in Level
  BY DEF FlushedTo
<1>3. ASSUME NEW l \in Level \ {0}, NEW g \in files'[l], NEW h \in files'[l], g # h
      PROVE  Apart(g.data, h.data) /\ SharedIn(g.data, h.data, split)
  <2>1. CASE g \in files[l] /\ h \in files[l]
    BY <1>3, <2>1 DEF LevelsApart
  <2>2. ASSUME NEW x \in files[l], l = level
        PROVE  /\ Apart(f.data, x.data) /\ Apart(x.data, f.data)
               /\ SharedIn(f.data, x.data, split) /\ SharedIn(x.data, f.data, split)
    <3>1. l \in 0 .. level /\ level # 0
      BY <1>2, <2>2, LevelFacts
    <3> QED
      BY <2>2, <3>1, FlushedAway DEF NoneShared, SharedIn
  <2>3. /\ g \in files[l] \/ (g = f /\ l = level)
        /\ h \in files[l] \/ (h = f /\ l = level)
    BY <1>1
  <2>4. CASE g = f /\ h \in files[l] /\ l = level
    BY <2>2, <2>4
  <2>5. CASE h = f /\ g \in files[l] /\ l = level
    BY <2>2, <2>5
  <2> QED
    BY <1>3, <2>1, <2>3, <2>4, <2>5
<1> QED
  BY <1>2, <1>3 DEF LevelsApart

\* The new table is newer than all that lies below it, and shares no key with what lies above.
LEMMA FlushNewer ==
  ASSUME LevelsAssumption, Base, NEW level, NEW f, FlushedTo(level, f), LevelsNewer
  PROVE  LevelsNewer'
<1>1. \A l \in Level : files'[l] = IF l = level THEN files[l] \union {f} ELSE files[l]
  BY FlushedFiles
<1>2. split' = split /\ level \in Level /\ level \in Nat
  BY LevelFacts DEF FlushedTo
<1>3. \A l \in Level : \A g \in files[l] : \A e \in f.data, x \in g.data : e.seq > x.seq
  BY FlushedFiles
<1>4. ASSUME NEW l \in Level, NEW m \in Level, l < m, NEW g \in files'[l], NEW h \in files'[m]
      PROVE  Newer(g.data, h.data, split)
  <2>1. CASE g \in files[l] /\ h \in files[m]
    BY <1>4, <2>1 DEF LevelsNewer
  <2>2. CASE g = f /\ h \in files[m]
    BY <1>3, <2>2 DEF Newer
  <2>3. CASE h = f /\ g \in files[l] /\ m = level
    <3>1. l \in 0 .. level /\ level # 0
      BY <1>2, <1>4, <2>3, LevelFacts
    <3>2. NoneShared(g.data, f.data)
      BY <2>3, <3>1, FlushedAway
    <3> QED
      BY <2>3, <3>2 DEF NoneShared, Newer
  <2>4. ~(g = f /\ l = level /\ h = f /\ m = level)
    BY <1>2, <1>4
  <2> QED
    BY <1>1, <1>4, <2>1, <2>2, <2>3, <2>4
<1> QED
  BY <1>2, <1>4 DEF LevelsNewer

\* A memtable that is written out loses nothing.
LEMMA FlushEverything ==
  ASSUME Base, NEW level, NEW f, FlushedTo(level, f)
  PROVE  Everything' = Everything
<1>1. /\ \A l \in Level : files'[l] = IF l = level THEN files[l] \union {f} ELSE files[l]
      /\ f.data = mem /\ level \in Level /\ mem' = {}
  BY FlushedFiles DEF FlushedTo
<1>2. \A e : e \in UNION {AllData(files'[l]) : l \in Level} <=>
              \E l \in Level : \E g \in files'[l] : e \in g.data
  BY DEF AllData
<1>3. \A e : e \in UNION {AllData(files[l]) : l \in Level} <=>
              \E l \in Level : \E g \in files[l] : e \in g.data
  BY DEF AllData
<1>4. \A e : e \in Everything' <=> e \in mem' \/ \E l \in Level : \E g \in files'[l] : e \in g.data
  BY <1>2 DEF Everything
<1>5. \A e : e \in Everything <=> e \in mem \/ \E l \in Level : \E g \in files[l] : e \in g.data
  BY <1>3 DEF Everything
<1>6. \A e : e \in Everything' <=> e \in Everything
  BY <1>1, <1>4, <1>5
<1> QED
  BY <1>6

\* A new table does not come between those that a compaction under way has taken.
LEMMA FlushJobs ==
  ASSUME LevelsAssumption, Base, NEW level, NEW f, FlushedTo(level, f), JobsRight,
         \A c \in job : ~c.manual
  PROVE  JobsRight'
<1>1. \A l \in Level : files'[l] = IF l = level THEN files[l] \union {f} ELSE files[l]
  BY FlushedFiles
<1>2. /\ split' = split /\ job' = job /\ level \in Level /\ level \in Nat /\ mem # {} /\ f.data = mem
      /\ level # 0 => \A m \in 0 .. level : \A g \in files[m] :
           ~Touches(g.data, FirstOf(mem).key, LastOf(mem).key)
  BY LevelFacts DEF FlushedTo
<1>3. \A l \in Level : \A g \in files[l] : \A e \in f.data, x \in g.data : e.seq > x.seq
  BY FlushedFiles
<1>4. SUFFICES ASSUME NEW c \in job PROVE JobRight(c)'
  BY <1>2 DEF JobsRight
<1>5. /\ c.level \in 0 .. NumLevels - 2 /\ c.in0 \subseteq files[c.level]
      /\ c.in1 \subseteq files[c.level + 1] /\ c.in0 # {}
      /\ JobRight(c) /\ ~c.manual
  BY DEF Base, JobOK, JobTyped, JobsRight
<1>6. c.level \in Level /\ c.level \in Nat /\ c.level + 1 \in Level
  BY <1>5, LevelFacts
<1> DEFINE taken == c.in0 \union c.in1
<1>7. \A t \in taken : \A x \in t.data : x.key \in Nat
  BY <1>5, <1>6, LevelHolds, TableFacts DEF Base
<1>8. Proper(mem) /\ FirstOf(mem).key \in Nat /\ LastOf(mem).key \in Nat
      /\ FirstOf(mem).key <= LastOf(mem).key
  <2>1. Proper(mem)
    BY ProperPart DEF Base, HistoryOK, MemOK
  <2> QED
    BY <1>2, <2>1, EndKeys, EndsAreIn
<1>9. ASSUME level >= c.level + 1
      PROVE  Apart(f.data, Input(c)) /\ NoneShared(f.data, Input(c))
  <2>1. \A t \in taken : ~Touches(t.data, FirstOf(mem).key, LastOf(mem).key)
    BY <1>2, <1>5, <1>6, <1>9
  <2>2. Covered(taken)
    BY <1>5 DEF JobRight
  <2>3. ~Touches(AllData(taken), FirstOf(mem).key, LastOf(mem).key)
    BY <1>8, <2>1, <2>2 DEF Covered
  <2>4. \A x \in AllData(taken) : x.key \in Nat
    BY <1>7 DEF AllData
  <2>5. Input(c) = AllData(taken)
    BY DEF Input
  <2> HIDE DEF taken
  <2> QED
    BY <1>2, <1>8, <2>3, <2>4, <2>5, Away
<1>10. \A x \in AllData(c.in0) : x \in Input(c)
  BY DEF Input, AllData
<1>11. Isolated(c)'
  <2>1. ASSUME NEW g \in files'[c.level + 1] \ c.in1
        PROVE  Apart(g.data, Input(c)) /\ NoneShared(g.data, AllData(c.in0))
    <3>1. CASE g \in files[c.level + 1]
      BY <1>5, <2>1, <3>1 DEF JobRight, Isolated
    <3>2. CASE g = f /\ level = c.level + 1
      BY <1>6, <1>9, <1>10, <3>2 DEF NoneShared
    <3> QED
      BY <1>1, <1>6, <2>1, <3>1, <3>2
  <2> QED
    BY <2>1 DEF Isolated, Input, AllData
<1>12. OthersNewer(c)'
  <2>1. ASSUME NEW g \in files'[c.level] \ c.in0 PROVE Newer(g.data, AllData(c.in0), split)
    <3>1. CASE g \in files[c.level]
      BY <1>5, <2>1, <3>1 DEF JobRight, OthersNewer
    <3>2. CASE g = f
      BY <1>3, <1>5, <1>6, <3>2 DEF Newer, AllData
    <3> QED
      BY <1>1, <1>6, <2>1, <3>1, <3>2
  <2> QED
    BY <1>2, <2>1 DEF OthersNewer
<1>13. NoneDeeper(c)'
  <2>1. ASSUME NEW m \in c.level + 2 .. NumLevels - 1, NEW g \in files'[m] \ c.deeper
        PROVE  NoneShared(g.data, Input(c))
    <3>0. m \in Level /\ m \in Nat /\ m >= c.level + 1
      BY <1>6, LimitFacts DEF Level
    <3>1. CASE g \in files[m]
      BY <1>5, <2>1, <3>1 DEF JobRight, NoneDeeper
    <3>2. CASE g = f /\ level = m
      BY <1>9, <3>0, <3>2
    <3> QED
      BY <1>1, <2>1, <3>0, <3>1, <3>2
  <2> QED
    BY <2>1 DEF NoneDeeper, Input, AllData
<1> QED
  BY <1>5, <1>11, <1>12, <1>13 DEF JobRight

\* CompactMemTable.
LEMMA FlushKeeps ==
  ASSUME LevelsAssumption, IInv, Flush
  PROVE  IInv'
<1>1. PICK level, f : FlushedTo(level, f)
  BY FlushFacts DEF IInv
<1>2. Base'
  BY <1>1, FlushBase DEF IInv
<1>3. ASSUME ~lapped' PROVE Right'
  <2>1. ~lapped /\ \A c \in job : ~c.manual
    BY <1>1, <1>3 DEF FlushedTo
  <2>2. Right
    BY <2>1 DEF IInv
  <2>3. Everything' = Everything /\ history' = history /\ split' = split /\ ReadPoints' = ReadPoints
    BY <1>1, FlushEverything, FlushedFiles DEF FlushedTo, IInv
  <2>4. Retained'
    BY <2>2, <2>3, RetainedStays DEF Right
  <2> QED
    BY <1>1, <2>1, <2>2, <2>4, FlushApart, FlushNewer, FlushJobs DEF Right, IInv
<1> QED
  BY <1>2, <1>3 DEF IInv

-----------------------------------------------------------------------------
(* A compaction starts. *)

\* A compaction that starts with the right tables keeps the invariant.
LEMMA JobStarts ==
  ASSUME LevelsAssumption, IInv, NEW level, NEW first, NEW manual \in BOOLEAN,
         Startable(level, first, manual), NEW c, c = SetupOtherInputs(level, first, manual),
         job' = {c}, UNCHANGED <<mem, files, seek, nextNumber, snapshots, history, split, lapped>>
  PROVE  IInv'
<1>1. HistoryOK /\ TablesOK /\ MemOK /\ SeekOK /\ lapped \in BOOLEAN
  BY DEF IInv, Base
<1>2. /\ level \in 0 .. NumLevels - 2 /\ first # {} /\ first \subseteq files[level]
      /\ level = 0 => Separate(0, first)
      /\ ~manual => Covered(first)
  BY DEF Startable
<1>3. Chosen(c, level, first, manual)
  BY <1>1, <1>2, SetupFacts
<1>4. LastSequence' = LastSequence /\ ReadPoints' = ReadPoints
  BY DEF LastSequence, ReadPoints
<1>5. JobTyped(c)
  BY <1>1, <1>2, <1>3, ChosenTyped
<1>6. JobOK'
  BY <1>4, <1>5 DEF JobOK, JobTyped
<1>7. HistoryOK' /\ TablesOK' /\ MemOK' /\ SeekOK'
  BY <1>1, <1>4 DEF HistoryOK, TablesOK, IsTable, MemOK, SeekOK
<1>8. Base'
  BY <1>1, <1>6, <1>7 DEF Base
<1>9. ASSUME ~lapped PROVE Right'
  <2>1. Right
    BY <1>9 DEF IInv
  <2>2. LevelsApart' /\ LevelsNewer'
    BY <2>1 DEF Right, LevelsApart, LevelsNewer
  <2>3. Everything' = Everything
    BY EverythingStays
  <2>4. Retained'
    BY <1>4, <2>1, <2>3, RetainedStays DEF Right
  <2>5. LevelsApart
    BY <2>1 DEF Right
  <2>6. JobRight(c)
    BY <1>1, <1>2, <1>3, <2>5, ChosenRight
  <2>7. JobRight(c)'
    BY <2>6 DEF JobRight, Isolated, OthersNewer, NoneDeeper
  <2>8. JobsRight'
    BY <2>7 DEF JobsRight
  <2> QED
    BY <2>2, <2>4, <2>8 DEF Right
<1> QED
  BY <1>8, <1>9 DEF IInv

\* TEST_CompactRange.
LEMMA CompactKeeps ==
  ASSUME LevelsAssumption, IInv, NEW level \in 0 .. NumLevels - 2,
         NEW low \in Key, NEW high \in Key, CompactRange(level, low, high)
  PROVE  IInv'
<1>1. HistoryOK /\ TablesOK
  BY DEF IInv, Base
<1>2. /\ \E first : /\ Startable(level, first, TRUE)
                    /\ job' = {SetupOtherInputs(level, first, TRUE)}
      /\ UNCHANGED <<mem, files, seek, nextNumber, snapshots, history, split, lapped>>
  BY <1>1, CompactFacts
<1>3. PICK first : Startable(level, first, TRUE) /\ job' = {SetupOtherInputs(level, first, TRUE)}
  BY <1>2
<1> QED
  BY <1>2, <1>3, JobStarts

-----------------------------------------------------------------------------
(* A compaction ends: other tables replace those it has taken.  A trivial move *)
(* puts the table it takes in the level below.                                 *)

Replaced(c, tables) ==
  /\ JobTyped(c)
  /\ files' = [files EXCEPT ![c.level] = @ \ c.in0, ![c.level + 1] = (@ \ c.in1) \union tables]
  /\ IsFiniteSet(tables)
  /\ \A t \in tables : /\ t = [number |-> t.number, data |-> t.data]
                       /\ t.number \in Nat /\ t.number < nextNumber'
                       /\ t.data # {} /\ t.data \subseteq Input(c)
                       /\ \A l \in Level : \A g \in files[l] : t.number = g.number => g \in c.in0
  /\ \A t, u \in tables : t.number = u.number => t = u
  /\ nextNumber' \in Nat /\ nextNumber <= nextNumber'
  /\ split \subseteq split'
  /\ \A t, u \in tables : t # u => Apart(t.data, u.data) /\ SharedIn(t.data, u.data, split')
  /\ \/ AllData(tables) = Input(c)
     \/ \A e \in Input(c) : e \in AllData(tables) <=> Kept(c, Input(c), e)
  /\ job' = {} /\ seek' = {} /\ UNCHANGED <<mem, snapshots, history, lapped>>

\* Where the tables are afterwards.
LEMMA ReplacedFiles ==
  ASSUME LevelsAssumption, Base, NEW c, NEW tables, Replaced(c, tables)
  PROVE  /\ files' = [l \in Level |-> files'[l]]
         /\ c.level \in Level /\ c.level \in Nat /\ c.level + 1 \in Level
         /\ \A l \in Level : files'[l] = IF l = c.level THEN files[l] \ c.in0
                                         ELSE IF l = c.level + 1 THEN (files[l] \ c.in1) \union tables
                                         ELSE files[l]
         /\ \A l \in Level : \A g \in files'[l] : g \in files[l] \/ (l = c.level + 1 /\ g \in tables)
         /\ c.in0 \subseteq files[c.level] /\ c.in1 \subseteq files[c.level + 1]
         /\ LastSequence' = LastSequence /\ ReadPoints' = ReadPoints
<1>1. files = [l \in Level |-> files[l]] /\ JobTyped(c)
      /\ files' = [files EXCEPT ![c.level] = @ \ c.in0, ![c.level + 1] = (@ \ c.in1) \union tables]
  BY DEF Replaced, Base, TablesOK
<1>2. /\ c.level \in 0 .. NumLevels - 2
      /\ c.in0 \subseteq files[c.level] /\ c.in1 \subseteq files[c.level + 1]
  BY <1>1 DEF JobTyped
<1>3. c.level \in Level /\ c.level \in Nat /\ c.level + 1 \in Level
  BY <1>2, LevelFacts
<1>4. LastSequence' = LastSequence /\ ReadPoints' = ReadPoints
  BY DEF Replaced, LastSequence, ReadPoints
<1>5. \A l \in Level : files'[l] = IF l = c.level THEN files[l] \ c.in0
                                   ELSE IF l = c.level + 1 THEN (files[l] \ c.in1) \union tables
                                   ELSE files[l]
  <2> DEFINE L == c.level
             G == [files EXCEPT ![L] = @ \ c.in0]
  <2>1. L + 1 # L /\ L \in Level /\ L + 1 \in Level
    BY <1>3
  <2>2. files' = [G EXCEPT ![L + 1] = (files[L + 1] \ c.in1) \union tables]
    BY <1>1
  <2>3. G = [l \in Level |-> G[l]] /\ \A l \in Level : G[l] = IF l = L THEN files[l] \ c.in0 ELSE files[l]
    BY <1>1, <2>1
  <2> HIDE DEF G
  <2>4. \A l \in Level : files'[l] = IF l = L + 1 THEN (files[l] \ c.in1) \union tables ELSE G[l]
    BY <2>2, <2>3
  <2> QED
    BY <2>1, <2>3, <2>4
<1>6. files' = [l \in Level |-> files'[l]]
  BY <1>1
<1>7. \A l \in Level : \A g \in files'[l] : g \in files[l] \/ (l = c.level + 1 /\ g \in tables)
  BY <1>5
<1> QED
  BY <1>2, <1>3, <1>4, <1>5, <1>6, <1>7

\* The tables that come have numbers of their own and entries of those that go.
LEMMA ReplacedBase ==
  ASSUME LevelsAssumption, Base, NEW c, NEW tables, Replaced(c, tables)
  PROVE  Base'
<1>1. /\ files' = [l \in Level |-> files'[l]]
      /\ c.level \in Level /\ c.level \in Nat /\ c.level + 1 \in Level
      /\ \A l \in Level : files'[l] = IF l = c.level THEN files[l] \ c.in0
                                      ELSE IF l = c.level + 1 THEN (files[l] \ c.in1) \union tables
                                      ELSE files[l]
      /\ \A l \in Level : \A g \in files'[l] : g \in files[l] \/ (l = c.level + 1 /\ g \in tables)
      /\ c.in0 \subseteq files[c.level] /\ c.in1 \subseteq files[c.level + 1]
  BY ReplacedFiles
<1>2. LastSequence' = LastSequence /\ ReadPoints' = ReadPoints
  BY ReplacedFiles
<1>3. /\ job' = {} /\ seek' = {} /\ UNCHANGED <<mem, snapshots, history, lapped>>
      /\ IsFiniteSet(tables) /\ nextNumber' \in Nat /\ nextNumber <= nextNumber'
      /\ \A t \in tables : /\ t = [number |-> t.number, data |-> t.data]
                           /\ t.number \in Nat /\ t.number < nextNumber'
                           /\ t.data # {} /\ t.data \subseteq Input(c)
                           /\ \A l \in Level : \A g \in files[l] : t.number = g.number => g \in c.in0
      /\ \A t, u \in tables : t.number = u.number => t = u
  BY DEF Replaced
<1>4. /\ HistoryOK /\ MemOK /\ nextNumber \in Nat
      /\ \A l \in Level : IsFiniteSet(files[l]) /\ \A f \in files[l] : IsTable(f)
      /\ \A l, m \in Level : \A f \in files[l], g \in files[m] :
           f.number = g.number => l = m /\ f = g
      /\ lapped \in BOOLEAN
  BY DEF Base, TablesOK
<1>5. \A e \in Input(c) : \E l \in Level : \E g \in files[l] : e \in g.data
  BY <1>1 DEF Input, AllData
<1>6. HistoryOK'
  BY <1>2, <1>3, <1>4 DEF HistoryOK
<1>7. TablesOK'
  <2>1. ASSUME NEW l \in Level PROVE IsFiniteSet(files'[l]) /\ \A g \in files'[l] : IsTable(g)'
    <3>1. IsFiniteSet(files[l]) /\ \A g \in files[l] : IsTable(g)
      BY <1>4
    <3>2. IsFiniteSet(files[l] \union tables)
      BY <1>3, <3>1, FS_Union
    <3>3. files'[l] \subseteq files[l] \union tables
      BY <1>1
    <3>4. IsFiniteSet(files'[l])
      BY <3>2, <3>3, FS_Subset
    <3>5. \A g \in files[l] : IsTable(g)'
      BY <1>3, <1>4, <3>1 DEF IsTable
    <3>6. Input(c) \subseteq history
      BY <1>4, <1>5 DEF IsTable
    <3>7. \A g \in tables : IsTable(g)'
      BY <1>3, <3>6 DEF IsTable
    <3> QED
      BY <3>3, <3>4, <3>5, <3>7
  <2>2. ASSUME NEW l \in Level, NEW g \in files'[l], g \in tables, l = c.level + 1,
               NEW m \in Level, NEW h \in files'[m], h \in files[m], g.number = h.number
        PROVE  FALSE
    <3>1. h \in c.in0
      BY <1>3, <2>2
    <3>2. m = c.level
      BY <1>1, <1>4, <2>2, <3>1
    <3> QED
      BY <1>1, <2>2, <3>1, <3>2
  <2>3. ASSUME NEW l \in Level, NEW m \in Level, NEW g \in files'[l], NEW h \in files'[m],
               g.number = h.number
        PROVE  l = m /\ g = h
    <3>1. g \in files[l] \/ (l = c.level + 1 /\ g \in tables)
      BY <1>1
    <3>2. h \in files[m] \/ (m = c.level + 1 /\ h \in tables)
      BY <1>1
    <3>3. CASE g \in files[l] /\ h \in files[m]
      BY <1>4, <2>3, <3>3
    <3>4. CASE l = c.level + 1 /\ g \in tables /\ h \in files[m]
      BY <2>2, <2>3, <3>4
    <3>5. CASE m = c.level + 1 /\ h \in tables /\ g \in files[l]
      BY <2>2, <2>3, <3>5
    <3>6. CASE l = c.level + 1 /\ g \in tables /\ m = c.level + 1 /\ h \in tables
      BY <1>3, <2>3, <3>6
    <3> QED
      BY <3>1, <3>2, <3>3, <3>4, <3>5, <3>6
  <2> QED
    BY <1>1, <1>3, <2>1, <2>3 DEF TablesOK
<1>8. MemOK'
  <2>1. \A l \in Level : \A g \in files[l] : \A e \in mem, x \in g.data : e.seq > x.seq
    BY <1>4 DEF MemOK
  <2>2. \A e \in mem, x \in Input(c) : e.seq > x.seq
    BY <1>5, <2>1
  <2>3. \A l \in Level : \A g \in files'[l] : \A e \in mem, x \in g.data : e.seq > x.seq
    BY <1>1, <1>3, <2>1, <2>2
  <2>4. 0 \in Level /\ c.level + 1 # 0
    BY <1>1, LevelFacts
  <2>5. files'[0] \subseteq files[0]
    BY <1>1, <2>4
  <2> QED
    BY <1>3, <1>4, <2>3, <2>5 DEF MemOK
<1>9. SeekOK' /\ JobOK'
  BY <1>3 DEF SeekOK, JobOK
<1> QED
  BY <1>3, <1>4, <1>6, <1>7, <1>8, <1>9 DEF Base

\* What is taken, table by table.
LEMMA InputIs ==
  ASSUME NEW c
  PROVE  \A x : x \in Input(c) <=> (\E h \in c.in0 : x \in h.data) \/ (\E h \in c.in1 : x \in h.data)
BY DEF Input, AllData

\* The tables that come are apart from those of their level that stay.
LEMMA ReplacedApart ==
  ASSUME LevelsAssumption, Base, NEW c, NEW tables, Replaced(c, tables), LevelsApart, Isolated(c)
  PROVE  LevelsApart'
<1>1. /\ c.level \in Level /\ c.level \in Nat /\ c.level + 1 \in Level
      /\ \A l \in Level : files'[l] = IF l = c.level THEN files[l] \ c.in0
                                      ELSE IF l = c.level + 1 THEN (files[l] \ c.in1) \union tables
                                      ELSE files[l]
      /\ \A l \in Level : \A g \in files'[l] : g \in files[l] \/ (l = c.level + 1 /\ g \in tables)
      /\ c.in0 \subseteq files[c.level] /\ c.in1 \subseteq files[c.level + 1]
  BY ReplacedFiles
<1>2. /\ \A t \in tables : t.data \subseteq Input(c)
      /\ \A t, u \in tables : t # u => Apart(t.data, u.data) /\ SharedIn(t.data, u.data, split')
      /\ split \subseteq split'
  BY DEF Replaced
<1>3. ASSUME NEW t \in tables, NEW g \in files[c.level + 1] \ c.in1
      PROVE  /\ Apart(t.data, g.data) /\ Apart(g.data, t.data)
             /\ SharedIn(t.data, g.data, split') /\ SharedIn(g.data, t.data, split')
  <2>1. Apart(g.data, Input(c)) /\ NoneShared(g.data, AllData(c.in0))
    BY DEF Isolated
  <2>2. Apart(t.data, g.data) /\ Apart(g.data, t.data)
    BY <1>2, <2>1 DEF Apart, InFront
  <2>3. ASSUME NEW x \in t.data, NEW y \in g.data, x.key = y.key PROVE x.key \in split'
    <3>1. x \in Input(c)
      BY <1>2
    <3>2. x \notin AllData(c.in0)
      BY <2>1, <2>3 DEF NoneShared
    <3>3. PICK h \in c.in1 : x \in h.data
      BY <3>1, <3>2, InputIs DEF AllData
    <3>4. h \in files[c.level + 1] /\ g \in files[c.level + 1] /\ h # g
      BY <1>1, <3>3
    <3>5. c.level + 1 \in Level \ {0}
      BY <1>1
    <3>6. SharedIn(h.data, g.data, split)
      BY <3>4, <3>5 DEF LevelsApart
    <3> QED
      BY <1>2, <2>3, <3>3, <3>6 DEF SharedIn
  <2> QED
    BY <2>2, <2>3 DEF SharedIn
<1>4. SUFFICES ASSUME NEW l \in Level \ {0}, NEW f \in files'[l], NEW g \in files'[l], f # g
               PROVE  Apart(f.data, g.data) /\ SharedIn(f.data, g.data, split')
  BY DEF LevelsApart
<1>5. CASE f \in files[l] /\ g \in files[l]
  BY <1>2, <1>4, <1>5 DEF LevelsApart, SharedIn
<1>6. CASE l = c.level + 1 /\ f \in tables /\ g \in tables
  BY <1>2, <1>4, <1>6
<1>7. l = c.level + 1 => \A h \in files'[l] : h \in files[l] \ c.in1 \/ h \in tables
  <2>1. c.level + 1 # c.level
    BY <1>1
  <2>2. files'[c.level + 1] = (files[c.level + 1] \ c.in1) \union tables
    BY <1>1, <2>1
  <2> QED
    BY <2>2
<1>8. CASE l = c.level + 1 /\ f \in tables /\ g \in files[l] \ c.in1
  BY <1>3, <1>8
<1>9. CASE l = c.level + 1 /\ g \in tables /\ f \in files[l] \ c.in1
  BY <1>3, <1>9
<1>10. (f \in files[l] \/ (l = c.level + 1 /\ f \in tables)) /\ (g \in files[l] \/ (l = c.level + 1 /\ g \in tables))
  BY <1>1
<1> QED
  BY <1>5, <1>6, <1>7, <1>8, <1>9, <1>10

\* What lies above stays newer when tables move down.
LEMMA ReplacedNewer ==
  ASSUME LevelsAssumption, Base, NEW c, NEW tables, Replaced(c, tables), LevelsNewer, OthersNewer(c)
  PROVE  LevelsNewer'
<1>1. /\ c.level \in Level /\ c.level \in Nat /\ c.level + 1 \in Level
      /\ \A l \in Level : files'[l] = IF l = c.level THEN files[l] \ c.in0
                                      ELSE IF l = c.level + 1 THEN (files[l] \ c.in1) \union tables
                                      ELSE files[l]
      /\ \A l \in Level : \A g \in files'[l] : g \in files[l] \/ (l = c.level + 1 /\ g \in tables)
      /\ c.in0 \subseteq files[c.level] /\ c.in1 \subseteq files[c.level + 1]
  BY ReplacedFiles
<1>2. (\A t \in tables : t.data \subseteq Input(c)) /\ split \subseteq split'
  BY DEF Replaced
<1>3. \A l, m \in Level : l < m => \A f \in files[l], g \in files[m] :
         \A x \in f.data, y \in g.data : x.key = y.key => x.seq > y.seq \/ x.key \in split
  BY DEF LevelsNewer, Newer
<1>4. SUFFICES ASSUME NEW l \in Level, NEW m \in Level, l < m, NEW f \in files'[l], NEW g \in files'[m],
                      NEW x \in f.data, NEW y \in g.data, x.key = y.key
               PROVE  x.seq > y.seq \/ x.key \in split
  BY <1>2 DEF LevelsNewer, Newer
<1>5. \A n \in Level : n \in Nat
  BY LevelFacts
<1>6. CASE f \in files[l] /\ g \in files[m]
  BY <1>3, <1>4, <1>6
<1>7. CASE l = c.level + 1 /\ f \in tables /\ g \in files[m]
  <2>1. (\E h \in c.in0 : x \in h.data) \/ (\E h \in c.in1 : x \in h.data)
    BY <1>2, <1>7, InputIs
  <2>2. c.level < m /\ c.level + 1 < m
    BY <1>1, <1>4, <1>5, <1>7
  <2> QED
    BY <1>1, <1>3, <1>4, <1>7, <2>1, <2>2
<1>8. CASE m = c.level + 1 /\ g \in tables /\ f \in files[l]
  <2>1. (\E h \in c.in0 : y \in h.data) \/ (\E h \in c.in1 : y \in h.data)
    BY <1>2, <1>8, InputIs
  <2>2. CASE \E h \in c.in1 : y \in h.data
    BY <1>1, <1>3, <1>4, <1>8, <2>2
  <2>3. CASE l < c.level /\ \E h \in c.in0 : y \in h.data
    BY <1>1, <1>3, <1>4, <1>8, <2>3
  <2>4. CASE l = c.level /\ \E h \in c.in0 : y \in h.data
    <3>1. f \in files[c.level] \ c.in0 /\ y \in AllData(c.in0)
      BY <1>1, <2>4 DEF AllData
    <3> QED
      BY <1>4, <3>1 DEF OthersNewer, Newer
  <2>5. l < c.level \/ l = c.level
    BY <1>1, <1>4, <1>5, <1>8
  <2> QED
    BY <2>1, <2>2, <2>3, <2>4, <2>5
<1>9. ~(l = c.level + 1 /\ m = c.level + 1)
  BY <1>1, <1>4
<1>10. (f \in files[l] \/ (l = c.level + 1 /\ f \in tables)) /\ (g \in files[m] \/ (m = c.level + 1 /\ g \in tables))
  BY <1>1
<1> QED
  BY <1>6, <1>7, <1>8, <1>9, <1>10

\* What is left is what was left before, but for entries that are dropped.
LEMMA ReplacedEverything ==
  ASSUME LevelsAssumption, Base, NEW c, NEW tables, Replaced(c, tables)
  PROVE  /\ Everything' \subseteq Everything
         /\ \A e \in Everything : e \in Everything' \/ (e \in Input(c) /\ e \notin AllData(tables))
         /\ Input(c) \subseteq Everything
<1>1. /\ c.level \in Level /\ c.level \in Nat /\ c.level + 1 \in Level
      /\ \A l \in Level : files'[l] = IF l = c.level THEN files[l] \ c.in0
                                      ELSE IF l = c.level + 1 THEN (files[l] \ c.in1) \union tables
                                      ELSE files[l]
      /\ \A l \in Level : \A g \in files'[l] : g \in files[l] \/ (l = c.level + 1 /\ g \in tables)
      /\ c.in0 \subseteq files[c.level] /\ c.in1 \subseteq files[c.level + 1]
  BY ReplacedFiles
<1>2. (\A t \in tables : t.data \subseteq Input(c)) /\ mem' = mem
  BY DEF Replaced
<1>3. \A e : e \in Everything' <=> e \in mem' \/ \E l \in Level : \E g \in files'[l] : e \in g.data
  <2>1. \A e : e \in UNION {AllData(files'[l]) : l \in Level} <=>
                \E l \in Level : \E g \in files'[l] : e \in g.data
    BY DEF AllData
  <2> QED
    BY <2>1 DEF Everything
<1>4. \A e : e \in Everything <=> e \in mem \/ \E l \in Level : \E g \in files[l] : e \in g.data
  <2>1. \A e : e \in UNION {AllData(files[l]) : l \in Level} <=>
                \E l \in Level : \E g \in files[l] : e \in g.data
    BY DEF AllData
  <2> QED
    BY <2>1 DEF Everything
<1>5. \A e \in Input(c) : e \in Everything
  BY <1>1, <1>4, InputIs
<1>6. \A e \in Everything' : e \in Everything
  BY <1>1, <1>2, <1>3, <1>4, <1>5
<1>7. \A e \in AllData(tables) : e \in Everything'
  <2>0. c.level + 1 # c.level
    BY <1>1
  <2>1. tables \subseteq files'[c.level + 1]
    BY <1>1, <2>0
  <2> QED
    BY <1>1, <1>3, <2>1 DEF AllData
<1>8. ASSUME NEW e \in Everything, e \notin Everything' PROVE e \in Input(c) /\ e \notin AllData(tables)
  <2>1. e \notin mem
    BY <1>2, <1>3, <1>8
  <2>2. PICK l \in Level : \E g \in files[l] : e \in g.data
    BY <1>4, <2>1
  <2>3. PICK g \in files[l] : e \in g.data
    BY <2>2
  <2>4. g \notin files'[l]
    BY <1>3, <1>8, <2>3
  <2>5. (l = c.level /\ g \in c.in0) \/ (l = c.level + 1 /\ g \in c.in1)
    BY <1>1, <2>4
  <2> QED
    BY <1>7, <1>8, <2>3, <2>5, InputIs
<1> QED
  BY <1>5, <1>6, <1>8

\* The table of an entry with a key is one whose range has the key.
LEMMA KeyInRange ==
  ASSUME HistoryOK, TablesOK, NEW l \in Level, NEW g \in files[l], NEW e \in g.data
  PROVE  e.key \in Smallest(g).key .. Largest(g).key
<1>1. Proper(g.data) /\ g.data # {}
  BY LevelHolds, TableFacts
<1>2. e.key \in Nat
  BY <1>1, EntryFields
<1> QED
  BY <1>1, <1>2, EndKeys DEF Smallest, Largest

\* Where a compaction is at the base level of a key, nothing that it does not take is
\* older than what it takes.
LEMMA NoneOlder ==
  ASSUME LevelsAssumption, Base, NEW c, JobTyped(c), LevelsApart, LevelsNewer,
         Isolated(c), OthersNewer(c), NoneDeeper(c),
         NEW v \in Input(c), v.key \notin split, IsBaseLevelForKey(c, v.key),
         NEW m \in Level, NEW g \in files[m], g \notin c.in0, g \notin c.in1,
         NEW e \in g.data, e.key = v.key
  PROVE  e.seq > v.seq
<1>1. /\ c.level \in 0 .. NumLevels - 2
      /\ c.in0 \subseteq files[c.level] /\ c.in1 \subseteq files[c.level + 1]
  BY DEF JobTyped
<1>2. c.level \in Level /\ c.level \in Nat /\ c.level + 1 \in Level /\ c.level + 1 # 0
  BY <1>1, LevelFacts
<1>3. (\E h \in c.in0 : v \in h.data) \/ (\E h \in c.in1 : v \in h.data)
  BY InputIs
<1>4. \A l, n \in Level : l < n => \A f \in files[l], h \in files[n] :
         \A x \in f.data, y \in h.data : x.key = y.key => x.seq > y.seq \/ x.key \in split
  BY DEF LevelsNewer, Newer
<1>5. m \in Nat /\ NumLevels \in Nat /\ m <= NumLevels - 1
  BY LimitFacts DEF Level
<1>6. CASE m < c.level
  <2>1. m < c.level + 1
    BY <1>2, <1>5, <1>6
  <2> QED
    BY <1>1, <1>2, <1>3, <1>4, <1>6, <2>1
<1>7. CASE m = c.level
  <2>1. CASE \E h \in c.in0 : v \in h.data
    <3>1. g \in files[c.level] \ c.in0 /\ v \in AllData(c.in0)
      BY <1>7, <2>1 DEF AllData
    <3> QED
      BY <3>1 DEF OthersNewer, Newer
  <2>2. CASE \E h \in c.in1 : v \in h.data
    <3>1. m < c.level + 1
      BY <1>2, <1>7
    <3> QED
      BY <1>1, <1>2, <1>4, <2>2, <3>1
  <2> QED
    BY <1>3, <2>1, <2>2
<1>8. CASE m = c.level + 1
  <2>1. g \in files[c.level + 1] \ c.in1
    BY <1>8
  <2>2. v \notin AllData(c.in0)
    BY <2>1 DEF Isolated, NoneShared
  <2>3. PICK h \in c.in1 : v \in h.data
    BY <1>3, <2>2 DEF AllData
  <2>4. h \in files[c.level + 1] /\ h # g /\ c.level + 1 \in Level \ {0}
    BY <1>1, <1>2, <2>3
  <2>5. SharedIn(h.data, g.data, split)
    BY <2>1, <2>4 DEF LevelsApart
  <2> QED
    BY <2>3, <2>5 DEF SharedIn
<1>9. CASE m >= c.level + 2
  <2>1. m \in c.level + 2 .. NumLevels - 1
    BY <1>2, <1>5, <1>9
  <2>2. g \in c.deeper
    BY <2>1 DEF NoneDeeper, NoneShared
  <2>3. v.key \in Smallest(g).key .. Largest(g).key
    BY KeyInRange DEF Base
  <2> QED
    BY <2>2, <2>3 DEF IsBaseLevelForKey
<1>10. m < c.level \/ m = c.level \/ m = c.level + 1 \/ m >= c.level + 2
  BY <1>2, <1>5
<1> QED
  BY <1>6, <1>7, <1>8, <1>9, <1>10

\* What is dropped was hidden, or was a deletion that hid nothing any more.
LEMMA DroppedUnseen ==
  ASSUME LevelsAssumption, Base, NEW c, NEW tables, Replaced(c, tables), Right, JobRight(c),
         NEW k \in Key \ split, NEW s \in ReadPoints,
         NEW v, Visible(Everything, k, s) = {v}, v \notin Everything'
  PROVE  v.del /\ Seen(Everything', k, s) = {}
<1>1. HistoryOK /\ TablesOK /\ MemOK
  BY DEF Base
<1>2. Proper(Everything) /\ \A e \in Everything : e.seq \in Nat
  BY <1>1, EverythingProper DEF Proper, Entry
<1>3. /\ v \in Everything /\ v.key = k /\ v.seq <= s
      /\ \A x \in Everything : x.key = k /\ x.seq <= s => x = v \/ x.seq < v.seq
  <2>1. v \in Visible(Everything, k, s)
    OBVIOUS
  <2>2. v \in Seen(Everything, k, s) /\ \A x \in Seen(Everything, k, s) : x = v \/ x.seq < v.seq
    BY <1>2, <2>1, VisibleFacts
  <2> QED
    BY <2>2 DEF Seen
<1>4. /\ Everything' \subseteq Everything /\ Input(c) \subseteq Everything
      /\ v \in Input(c) /\ v \notin AllData(tables)
  BY <1>3, ReplacedEverything
<1>5. \A e \in Input(c) : e \in AllData(tables) <=> Kept(c, Input(c), e)
  BY <1>4 DEF Replaced
<1>6. JobTyped(c) /\ c.oldest <= s /\ c.oldest \in Nat /\ s \in Nat
  <2>1. JobTyped(c)
    BY DEF Replaced
  <2>2. s \in Nat
    BY <1>1, OldestRead
  <2> QED
    BY <2>1, <2>2 DEF JobTyped
<1>7. ~Hidden(c, Input(c), v)
  <2>1. SUFFICES ASSUME NEW n \in Input(c), n.key = v.key, n.seq > v.seq, n.seq <= c.oldest
                 PROVE  FALSE
    BY DEF Hidden
  <2>2. n \in Everything /\ n.seq \in Nat /\ v.seq \in Nat
    BY <1>2, <1>3, <1>4
  <2>3. n.seq <= s
    BY <1>6, <2>1, <2>2
  <2>4. n = v \/ n.seq < v.seq
    BY <1>3, <2>1, <2>2, <2>3
  <2> QED
    BY <2>1, <2>2, <2>4
<1>8. v.del /\ v.seq <= c.oldest /\ IsBaseLevelForKey(c, k)
  BY <1>3, <1>4, <1>5, <1>7 DEF Kept, Obsolete
<1>9. ASSUME NEW e \in Everything', e.key = k, e.seq <= s PROVE FALSE
  <2>1. e \in Everything /\ e # v /\ e.seq \in Nat /\ v.seq \in Nat
    BY <1>2, <1>3, <1>4, <1>9
  <2>2. e.seq < v.seq
    BY <1>3, <1>9, <2>1
  <2>3. e \notin mem
    <3>1. (\E h \in c.in0 : v \in h.data) \/ (\E h \in c.in1 : v \in h.data)
      BY <1>4, InputIs
    <3>2. /\ c.level \in Level /\ c.level + 1 \in Level
          /\ c.in0 \subseteq files[c.level] /\ c.in1 \subseteq files[c.level + 1]
      BY ReplacedFiles
    <3>3. \A x \in mem : x.seq > v.seq
      BY <1>1, <3>1, <3>2 DEF MemOK
    <3> QED
      BY <2>1, <2>2, <3>3
  <2>4. e \notin AllData(tables)
    <3>1. SUFFICES ASSUME e \in AllData(tables) PROVE FALSE
      OBVIOUS
    <3>2. e \in Input(c)
      BY <3>1 DEF AllData, Replaced
    <3>3. Hidden(c, Input(c), e)
      BY <1>3, <1>4, <1>8, <1>9, <2>2, <2>1 DEF Hidden
    <3> QED
      BY <1>5, <3>1, <3>2, <3>3 DEF Kept
  <2>5. PICK m \in Level : \E g \in files'[m] : e \in g.data
    <3>1. mem' = mem
      BY DEF Replaced
    <3> QED
      BY <1>9, <2>3, <3>1 DEF Everything, AllData
  <2>6. PICK g \in files'[m] : e \in g.data
    BY <2>5
  <2>7. g \notin tables
    BY <2>4, <2>6 DEF AllData
  <2>8. g \in files[m] /\ g \notin c.in0 /\ g \notin c.in1
    <3>1. /\ c.level \in Level /\ c.level \in Nat /\ c.level + 1 \in Level
          /\ \A l \in Level : files'[l] = IF l = c.level THEN files[l] \ c.in0
                                          ELSE IF l = c.level + 1 THEN (files[l] \ c.in1) \union tables
                                          ELSE files[l]
          /\ c.in0 \subseteq files[c.level] /\ c.in1 \subseteq files[c.level + 1]
          /\ \A l \in Level : \A h \in files'[l] : h \in files[l] \/ (l = c.level + 1 /\ h \in tables)
      BY ReplacedFiles
    <3>2. g \in files[m]
      BY <2>7, <3>1
    <3>3. \A l \in Level : g \in files[l] => l = m
      BY <1>1, <3>2 DEF TablesOK
    <3>4. c.level + 1 # c.level
      BY <3>1
    <3> QED
      BY <2>6, <2>7, <3>1, <3>2, <3>3, <3>4
  <2>9. LevelsApart /\ LevelsNewer /\ Isolated(c) /\ OthersNewer(c) /\ NoneDeeper(c)
    BY DEF Right, JobRight
  <2>10. e.seq > v.seq
    BY <1>3, <1>4, <1>6, <1>8, <1>9, <2>6, <2>8, <2>9, NoneOlder
  <2> QED
    BY <2>1, <2>2, <2>10
<1>10. Seen(Everything', k, s) = {}
  <2> DEFINE E == Everything'
  <2>1. \A e \in E : ~(e.key = k /\ e.seq <= s)
    BY <1>9
  <2> HIDE DEF E
  <2>2. Seen(E, k, s) = {}
    BY <2>1 DEF Seen
  <2> QED
    BY <2>2 DEF E
<1> QED
  BY <1>8, <1>10

\* Every read point goes on seeing the newest value of a key, or that there is none.
LEMMA ReplacedRetained ==
  ASSUME LevelsAssumption, Base, NEW c, NEW tables, Replaced(c, tables), Right, JobRight(c)
  PROVE  Retained'
<1>1. HistoryOK /\ TablesOK /\ MemOK
  BY DEF Base
<1>2. ReadPoints' = ReadPoints /\ history' = history /\ split \subseteq split'
  BY ReplacedFiles DEF Replaced
<1> DEFINE E == Everything'
           S == Everything
<1>3. E \subseteq S /\ Proper(S) /\ Proper(E)
  BY <1>1, ReplacedEverything, EverythingProper, ProperPart
<1>4. ASSUME NEW k \in Key \ split, NEW s \in ReadPoints
      PROVE  ValueOf(Visible(E, k, s)) = ValueOf(Visible(S, k, s))
  <2>1. CASE Seen(S, k, s) = {}
    <3> HIDE DEF E, S
    <3>1. Seen(E, k, s) = {}
      BY <1>3, <2>1 DEF Seen
    <3>2. Visible(E, k, s) = {} /\ Visible(S, k, s) = {}
      BY <1>3, <2>1, <3>1, VisibleFacts
    <3> QED
      BY <3>2
  <2>2. CASE Seen(S, k, s) # {}
    <3>1. PICK v : Visible(S, k, s) = {v} /\ v \in Seen(S, k, s) /\ \A x \in Seen(S, k, s) : x = v \/ x.seq < v.seq
      <4> HIDE DEF E, S
      <4>1. Visible(S, k, s) # {}
        BY <1>3, <2>2, VisibleFacts
      <4>2. PICK v \in Visible(S, k, s) : TRUE
        BY <4>1
      <4> QED
        BY <1>3, <4>2, VisibleFacts
    <3>2. CASE v \in E
      <4> HIDE DEF E, S
      <4>1. v \in Seen(E, k, s)
        BY <3>1, <3>2 DEF Seen
      <4>2. \A x \in Seen(E, k, s) : x.seq <= v.seq
        <5>1. \A x \in E : x.seq \in Nat
          BY <1>3 DEF Proper, Entry
        <5>2. \A x \in Seen(E, k, s) : x \in E /\ x \in Seen(S, k, s)
          BY <1>3 DEF Seen
        <5>3. v.seq \in Nat
          BY <3>2, <5>1
        <5> QED
          BY <3>1, <5>1, <5>2, <5>3
      <4>3. Visible(E, k, s) = {v}
        BY <1>3, <4>1, <4>2, NewestIsVisible
      <4> QED
        BY <3>1, <4>3
    <3>3. CASE v \notin E
      <4>1. v.del /\ Seen(E, k, s) = {}
        BY <3>1, <3>3, DroppedUnseen
      <4> HIDE DEF E, S
      <4>2. Visible(E, k, s) = {}
        BY <1>3, <4>1, VisibleFacts
      <4>3. ValueOf({v}) = 0 /\ ValueOf({}) = 0
        BY <4>1 DEF ValueOf
      <4> QED
        BY <3>1, <4>2, <4>3
    <3> QED
      BY <3>2, <3>3
  <2> QED
    BY <2>1, <2>2
<1>5. \A k \in Key \ split, s \in ReadPoints : ValueOf(Visible(S, k, s)) = ValueOf(Visible(history, k, s))
  BY DEF Right, Retained
<1>6. \A k \in Key \ split, s \in ReadPoints : ValueOf(Visible(E, k, s)) = ValueOf(Visible(history, k, s))
  <2> HIDE DEF E, S
  <2> QED
    BY <1>4, <1>5
<1>7. \A k \in Key \ split', s \in ReadPoints' : ValueOf(Visible(E, k, s)) = ValueOf(Visible(history', k, s))
  <2> HIDE DEF E
  <2> QED
    BY <1>2, <1>6
<1>8. Retained' <=> \A k \in Key \ split', s \in ReadPoints' :
                      ValueOf(Visible(E, k, s)) = ValueOf(Visible(history', k, s))
  BY DEF Retained
<1> QED
  BY <1>7, <1>8

\* Replacing the tables of a compaction keeps the invariant.
LEMMA ReplacedKeeps ==
  ASSUME LevelsAssumption, IInv, NEW c, NEW tables, Replaced(c, tables), lapped \/ JobRight(c)
  PROVE  IInv'
<1>1. Base'
  BY ReplacedBase DEF IInv
<1>2. ASSUME ~lapped' PROVE Right'
  <2>1. ~lapped /\ Right /\ JobRight(c) /\ Base
    BY <1>2 DEF Replaced, IInv
  <2>2. LevelsApart'
    BY <2>1, ReplacedApart DEF Right, JobRight
  <2>3. LevelsNewer'
    BY <2>1, ReplacedNewer DEF Right, JobRight
  <2>4. Retained'
    BY <2>1, ReplacedRetained
  <2>5. JobsRight'
    BY DEF JobsRight, Replaced
  <2> QED
    BY <2>2, <2>3, <2>4, <2>5 DEF Right
<1> QED
  BY <1>1, <1>2 DEF IInv

\* A trivial move replaces the table by itself, one level down.
LEMMA MoveReplaces ==
  ASSUME LevelsAssumption, Base, NEW c, JobTyped(c), IsTrivialMove(c), job = {},
         files' = [files EXCEPT ![c.level] = @ \ c.in0, ![c.level + 1] = @ \union c.in0],
         seek' = {}, UNCHANGED <<job, mem, nextNumber, snapshots, history, split, lapped>>
  PROVE  Replaced(c, c.in0)
<1>1. c.in1 = {} /\ Cardinality(c.in0) = 1
  BY DEF IsTrivialMove
<1>2. c.level \in 0 .. NumLevels - 2 /\ c.in0 \subseteq files[c.level] /\ c.level \in Level
  BY LevelFacts DEF JobTyped
<1>3. /\ nextNumber \in Nat /\ IsFiniteSet(files[c.level])
      /\ \A f \in files[c.level] : IsTable(f)
      /\ \A l, m \in Level : \A f \in files[l], g \in files[m] :
           f.number = g.number => l = m /\ f = g
  BY <1>2 DEF Base, TablesOK
<1>4. IsFiniteSet(c.in0)
  BY <1>2, <1>3, FS_Subset
<1>5. PICK f : c.in0 = {f}
  BY <1>1, <1>4, FS_Singleton
<1>6. AllData(c.in0) = Input(c)
  BY <1>1 DEF Input
<1>7. f \in files[c.level] /\ IsTable(f) /\ f.data \subseteq Input(c)
  BY <1>2, <1>3, <1>5, <1>6 DEF AllData
<1>8. \A l \in Level : \A g \in files[l] : f.number = g.number => g \in c.in0
  BY <1>2, <1>3, <1>5, <1>7
<1>9. \A t \in c.in0 : /\ t = [number |-> t.number, data |-> t.data]
                       /\ t.number \in Nat /\ t.number < nextNumber'
                       /\ t.data # {} /\ t.data \subseteq Input(c)
                       /\ \A l \in Level : \A g \in files[l] : t.number = g.number => g \in c.in0
  BY <1>5, <1>7, <1>8 DEF IsTable
<1>10. files' = [files EXCEPT ![c.level] = @ \ c.in0, ![c.level + 1] = (@ \ c.in1) \union c.in0]
  BY <1>1
<1>11. \A t, u \in c.in0 : t = u
  BY <1>5
<1>12. \A t, u \in c.in0 : t # u => Apart(t.data, u.data) /\ SharedIn(t.data, u.data, split')
  BY <1>11
<1>13. nextNumber' \in Nat /\ nextNumber <= nextNumber' /\ split \subseteq split'
  BY <1>3
<1>14. \A t, u \in c.in0 : t.number = u.number => t = u
  BY <1>11
<1>15. job' = {} /\ seek' = {} /\ UNCHANGED <<mem, snapshots, history, lapped>>
  OBVIOUS
<1> QED
  BY ONLY <1>4, <1>6, <1>9, <1>10, <1>12, <1>13, <1>14, <1>15, JobTyped(c) DEF Replaced

\* BackgroundCompaction.
LEMMA StartKeeps ==
  ASSUME LevelsAssumption, IInv, StartCompaction
  PROVE  IInv'
<1>1. HistoryOK /\ TablesOK /\ SeekOK /\ job = {}
  BY DEF IInv, Base, StartCompaction
<1>2. PICK level \in IF SizeCompaction THEN FullestLevel ELSE {x.level : x \in seek} :
        LET c == PickCompaction(level)
        IN  /\ \/ /\ IsTrivialMove(c)
                  /\ files' = [files EXCEPT ![level] = @ \ c.in0,
                                           ![level + 1] = @ \union c.in0]
                  /\ seek' = {}
                  /\ UNCHANGED job
               \/ /\ job' = {c}
                  /\ UNCHANGED <<files, seek>>
            /\ UNCHANGED <<mem, nextNumber, snapshots, history, split, lapped>>
  BY DEF StartCompaction, NewVersion
<1> DEFINE c == PickCompaction(level)
<1>3. PICK first : Startable(level, first, FALSE) /\ c = SetupOtherInputs(level, first, FALSE)
  BY <1>1, PickFacts
<1>4. /\ \/ /\ IsTrivialMove(c)
            /\ files' = [files EXCEPT ![level] = @ \ c.in0,
                                      ![level + 1] = @ \union c.in0]
            /\ seek' = {}
            /\ UNCHANGED job
         \/ /\ job' = {c}
            /\ UNCHANGED <<files, seek>>
      /\ UNCHANGED <<mem, nextNumber, snapshots, history, split, lapped>>
  BY <1>2
<1> HIDE DEF c
<1>5. CASE job' = {c} /\ UNCHANGED <<files, seek>>
  BY <1>3, <1>4, <1>5, JobStarts
<1>6. CASE /\ IsTrivialMove(c)
           /\ files' = [files EXCEPT ![level] = @ \ c.in0,
                                     ![level + 1] = @ \union c.in0]
           /\ seek' = {}
           /\ UNCHANGED job
  <2>1. /\ level \in 0 .. NumLevels - 2 /\ first # {} /\ first \subseteq files[level]
        /\ level = 0 => Separate(0, first)
        /\ Covered(first)
    BY <1>3 DEF Startable
  <2>2. Chosen(c, level, first, FALSE)
    BY <1>1, <1>3, <2>1, SetupFacts
  <2>3. JobTyped(c) /\ c.level = level
    BY <1>1, <2>1, <2>2, ChosenTyped DEF Chosen
  <2>4. Replaced(c, c.in0)
    BY <1>1, <1>4, <1>6, <2>3, MoveReplaces DEF IInv
  <2>5. lapped \/ JobRight(c)
    <3>1. lapped \/ LevelsApart
      BY DEF IInv, Right
    <3> QED
      BY <1>1, <2>1, <2>2, <3>1, ChosenRight
  <2> QED
    BY <2>4, <2>5, ReplacedKeeps
<1> QED
  BY <1>4, <1>5, <1>6

\* The tables of a compaction's output replace those that it merged.
LEMMA OutputsReplace ==
  ASSUME LevelsAssumption, Base, NEW c, JobTyped(c),
         NEW outs, outs = Outputs(c), NEW tables,
         tables = {[number |-> nextNumber + i - 1, data |-> outs[i]] : i \in DOMAIN outs},
         files' = [files EXCEPT ![c.level] = @ \ c.in0, ![c.level + 1] = (@ \ c.in1) \union tables],
         nextNumber' = nextNumber + Len(outs), split' = split \union SharedKeys(tables),
         job' = {}, seek' = {}, UNCHANGED <<mem, snapshots, history, lapped>>
  PROVE  Replaced(c, tables)
<1>1. /\ c.level \in Level /\ c.level + 1 \in Level /\ c.in0 # {}
      /\ c.in0 \subseteq files[c.level] /\ c.in1 \subseteq files[c.level + 1]
  BY LevelFacts DEF JobTyped
<1>2. /\ nextNumber \in Nat
      /\ \A l \in Level : \A g \in files[l] : g.number \in Nat /\ g.number < nextNumber
  BY DEF Base, TablesOK, IsTable
<1>3. Proper(Input(c))
  <2>1. Holding(files[c.level], history) /\ Holding(files[c.level + 1], history)
    BY <1>1, LevelHolds DEF Base
  <2>2. Holding(c.in0 \union c.in1, history)
    BY <1>1, <2>1, FS_Subset, FS_Union DEF Holding
  <2> QED
    BY <1>1, <2>2, DataFacts DEF Input
<1>4. Written(c, Input(c), Input(c), outs, {})
  BY <1>3, OutputsHold DEF Input
<1>5. /\ Len(outs) \in Nat /\ DOMAIN outs = 1 .. Len(outs)
      /\ \A i \in 1 .. Len(outs) : outs[i] # {} /\ outs[i] \subseteq Input(c)
      /\ \A i, j \in 1 .. Len(outs) : i < j => InFront(outs[i], outs[j])
      /\ \A x \in Input(c) : (\E i \in 1 .. Len(outs) : x \in outs[i]) <=> Kept(c, Input(c), x)
  BY <1>4 DEF Written
<1>6. \A t \in tables : \E i \in 1 .. Len(outs) :
         t.number = nextNumber + i - 1 /\ t.data = outs[i] /\ t = [number |-> t.number, data |-> t.data]
  BY <1>5
<1>7. \A i \in 1 .. Len(outs) : \E t \in tables : t.data = outs[i]
  <2>1. SUFFICES ASSUME NEW i \in 1 .. Len(outs) PROVE \E t \in tables : t.data = outs[i]
    OBVIOUS
  <2>2. [number |-> nextNumber + i - 1, data |-> outs[i]] \in tables
    BY <1>5
  <2> QED
    BY <2>2
<1>8. IsFiniteSet(tables)
  <2>1. IsFiniteSet(1 .. Len(outs))
    BY <1>5, FS_Interval
  <2> DEFINE S == 1 .. Len(outs)
             f == [i \in S |-> [number |-> nextNumber + i - 1, data |-> outs[i]]]
  <2>2. f \in [S -> tables] /\ \A t \in tables : \E i \in S : f[i] = t
    BY <1>5
  <2>3. f \in Surjection(S, tables)
    BY <2>2 DEF Surjection
  <2> QED
    BY <2>1, <2>3, FS_Surjection
<1>9. ASSUME NEW t \in tables
      PROVE  /\ t = [number |-> t.number, data |-> t.data]
             /\ t.number \in Nat /\ t.number < nextNumber' /\ t.number >= nextNumber
             /\ t.data # {} /\ t.data \subseteq Input(c)
  BY <1>2, <1>5, <1>6
<1>10. \A t \in tables : \A l \in Level : \A g \in files[l] : t.number # g.number
  BY <1>2, <1>9
<1>11. \A t, u \in tables : t.number = u.number => t = u
  BY <1>2, <1>5, <1>6
<1>12. ASSUME NEW t \in tables, NEW u \in tables, t # u
       PROVE  Apart(t.data, u.data) /\ SharedIn(t.data, u.data, split')
  <2>1. Apart(t.data, u.data)
    <3>1. PICK i \in 1 .. Len(outs) : t.number = nextNumber + i - 1 /\ t.data = outs[i]
      BY <1>6
    <3>2. PICK j \in 1 .. Len(outs) : u.number = nextNumber + j - 1 /\ u.data = outs[j]
      BY <1>6
    <3>3. i # j
      BY <1>11, <1>12, <3>1, <3>2
    <3>4. i < j \/ j < i
      BY <1>5, <3>3
    <3> QED
      BY <1>5, <3>1, <3>2, <3>4 DEF Apart
  <2>2. ASSUME NEW x \in t.data, NEW y \in u.data, x.key = y.key PROVE x.key \in split'
    <3>1. Proper(t.data) /\ Proper(u.data) /\ t.data # {} /\ u.data # {}
      BY <1>3, <1>9, ProperPart
    <3>2. x.key \in Key /\ x.key \in Nat
      BY <3>1, EntryFields
    <3>3. Smallest(t).key <= x.key /\ x.key <= Largest(t).key
      BY <3>1, EndKeys DEF Smallest, Largest
    <3>4. Smallest(u).key <= x.key /\ x.key <= Largest(u).key
      BY <2>2, <3>1, EndKeys DEF Smallest, Largest
    <3>5. {t, u} \subseteq InRange(tables, x.key, x.key)
      BY <3>3, <3>4 DEF InRange
    <3>6. x.key \in SharedKeys(tables)
      <4> DEFINE k == x.key
                 near == InRange(tables, k, k)
      <4>1. k \in Key /\ t # u /\ {t, u} \subseteq near
        BY <1>12, <3>2, <3>5
      <4>2. SharedKeys(tables) = {n \in Key : \E g \in tables, h \in tables : g # h /\
                                   {g, h} \subseteq InRange(tables, n, n)}
        BY DEF SharedKeys
      <4> HIDE DEF k
      <4>3. k \in SharedKeys(tables)
        <5>1. \E g \in tables, h \in tables : g # h /\ {g, h} \subseteq InRange(tables, k, k)
          BY ONLY <4>1, t \in tables, u \in tables
        <5> HIDE DEF near
        <5>2. k \in {n \in Key : \E g \in tables, h \in tables : g # h /\
                                   {g, h} \subseteq InRange(tables, n, n)}
          BY <4>1, <5>1, Zenon
        <5> QED
          BY <4>2, <5>2
      <4> QED
        BY <4>3 DEF k
    <3> QED
      BY <3>6
  <2> QED
    BY <2>1, <2>2 DEF SharedIn
<1>13. \A e \in Input(c) : e \in AllData(tables) <=> Kept(c, Input(c), e)
  <2>1. \A e : e \in AllData(tables) <=> \E i \in 1 .. Len(outs) : e \in outs[i]
    BY <1>6, <1>7 DEF AllData
  <2> QED
    BY <1>5, <2>1
<1>14. nextNumber' \in Nat /\ nextNumber <= nextNumber' /\ split \subseteq split'
  BY <1>2, <1>5
<1>15. \A t \in tables : /\ t = [number |-> t.number, data |-> t.data]
                         /\ t.number \in Nat /\ t.number < nextNumber'
                         /\ t.data # {} /\ t.data \subseteq Input(c)
                         /\ \A l \in Level : \A g \in files[l] : t.number = g.number => g \in c.in0
  BY <1>9, <1>10
<1> QED
  BY ONLY <1>8, <1>11, <1>12, <1>13, <1>14, <1>15, JobTyped(c), job' = {}, seek' = {},
     files' = [files EXCEPT ![c.level] = @ \ c.in0, ![c.level + 1] = (@ \ c.in1) \union tables],
     UNCHANGED <<mem, snapshots, history, lapped>> DEF Replaced

\* InstallCompactionResults.
LEMMA FinishKeeps ==
  ASSUME LevelsAssumption, IInv, FinishCompaction
  PROVE  IInv'
<1>1. PICK c \in job :
        LET outs   == Outputs(c)
            tables == {[number |-> nextNumber + i - 1, data |-> outs[i]] :
                         i \in DOMAIN outs}
        IN  /\ files' = [files EXCEPT ![c.level] = @ \ c.in0,
                                      ![c.level + 1] = (@ \ c.in1) \union tables]
            /\ nextNumber' = nextNumber + Len(outs)
            /\ split' = split \union SharedKeys(tables)
            /\ job' = {} /\ seek' = {}
            /\ UNCHANGED <<mem, snapshots, history, lapped>>
  BY DEF FinishCompaction, NewVersion
<1> DEFINE outs   == Outputs(c)
           tables == {[number |-> nextNumber + i - 1, data |-> outs[i]] : i \in DOMAIN outs}
<1>2. JobTyped(c) /\ Base
  BY DEF IInv, Base, JobOK
<1>3. Replaced(c, tables)
  BY <1>1, <1>2, OutputsReplace
<1>4. lapped \/ JobRight(c)
  BY DEF IInv, Right, JobsRight
<1> QED
  BY <1>3, <1>4, ReplacedKeeps

-----------------------------------------------------------------------------
(* Version::Get looks into the right table. *)

\* FindFile: the table of a level that has an entry is the one that is looked into.
LEMMA TableFound ==
  ASSUME HistoryOK, TablesOK, LevelsApart, NEW k \in Key \ split, NEW s \in Nat,
         NEW l \in Level, NEW f \in files[l], NEW e \in Seen(f.data, k, s)
  PROVE  f \in TablesFor(l, k, s)
<1>1. e \in f.data /\ e.key = k /\ e.seq <= s
  BY DEF Seen
<1>2. e.key \in Smallest(f).key .. Largest(f).key /\ e.key \in Nat /\ e.seq \in Nat
  BY <1>1, KeyInRange, LevelHolds, TableFacts, EntryFields
<1>3. CASE l = 0
  BY <1>1, <1>2, <1>3 DEF TablesFor, InRange
<1>4. CASE l # 0
  <2> DEFINE sought == [key |-> k, seq |-> s]
             ends == {g \in files[l] : ~Before(Largest(g), sought)}
             g == FirstFile(ends)
  <2>1. \A h \in files[l] : /\ Proper(h.data) /\ Smallest(h) \in h.data /\ Largest(h) \in h.data
                            /\ \A x \in h.data : x = Largest(h) \/ Before(x, Largest(h))
    BY LevelHolds, TableFacts, EndsAreIn DEF Smallest, Largest
  <2>2. ~Before(Largest(f), sought)
    <3>1. Largest(f).key \in Nat /\ Largest(f).seq \in Nat
      BY <2>1, EntryFields
    <3>2. e = Largest(f) \/ Before(e, Largest(f))
      BY <1>1, <2>1
    <3> QED
      BY <1>1, <1>2, <3>1, <3>2 DEF Before
  <2>3. f \in ends /\ ends \subseteq files[l]
    BY <2>2
  <2>4. g \in ends /\ \A h \in ends \ {g} : BySmallestKey(g, h)
    <3> HIDE DEF ends
    <3> QED
      BY <2>3, FirstFileFacts
  <2>5. g \in files[l] /\ ~Before(Largest(g), sought)
    BY <2>4
  <2>6. TablesFor(l, k, s) = {h \in {g} : Smallest(h).key <= k}
    BY <1>4, <2>3 DEF TablesFor
  <2> HIDE DEF g
  <2>7. ASSUME g # f PROVE FALSE
    <3>1. BySmallestKey(g, f)
      BY <2>3, <2>4, <2>7
    <3>2. Apart(g.data, f.data) /\ SharedIn(g.data, f.data, split)
      BY <1>4, <2>5, <2>7 DEF LevelsApart
    <3>3. ~InFront(f.data, g.data)
      <4>1. SUFFICES ASSUME Before(Smallest(f), Smallest(g)) PROVE FALSE
        BY <2>1, <2>5 DEF InFront
      <4>2. /\ Smallest(f).key \in Nat /\ Smallest(f).seq \in Nat
            /\ Smallest(g).key \in Nat /\ Smallest(g).seq \in Nat
        BY <2>1, <2>5, EntryFields
      <4> QED
        BY <3>1, <4>1, <4>2 DEF BySmallestKey, Before
    <3>4. Before(Largest(g), e)
      BY <1>1, <2>1, <2>5, <3>2, <3>3 DEF Apart, InFront
    <3>5. Largest(g).key \in Nat /\ Largest(g).seq \in Nat /\ Largest(g) \in g.data
      BY <2>1, <2>5, EntryFields
    <3>6. Largest(g).key = k
      BY <1>1, <1>2, <2>5, <3>4, <3>5 DEF Before
    <3> QED
      BY <1>1, <3>2, <3>5, <3>6 DEF SharedIn
  <2> QED
    BY <1>1, <1>2, <2>6, <2>7
<1> QED
  BY <1>3, <1>4

\* The tables that have an entry for a lookup are the candidates that have one.
Hits(k, s) == {a \in Candidates(k, s) : Visible(a.file.data, k, s) # {}}

\* A table that has an entry is among them.
LEMMA HitFacts ==
  ASSUME HistoryOK, TablesOK, LevelsApart, NEW k \in Key \ split, NEW s \in Nat,
         NEW l \in Level, NEW f \in files[l], NEW e \in Seen(f.data, k, s)
  PROVE  [level |-> l, file |-> f] \in Hits(k, s)
<1>1. f \in TablesFor(l, k, s)
  BY TableFound
<1>2. [level |-> l, file |-> f] \in Candidates(k, s)
  BY <1>1, CandidateFacts
<1>3. Proper(f.data)
  BY LevelHolds, TableFacts
<1>4. Seen(f.data, k, s) # {}
  OBVIOUS
<1>5. Visible(f.data, k, s) # {}
  BY <1>3, <1>4, VisibleFacts
<1> QED
  BY <1>2, <1>5 DEF Hits

\* DBImpl::Get finds the newest entry that is left.
LEMMA GetFindsNewest ==
  ASSUME LevelsAssumption, Base, LevelsApart, LevelsNewer, NEW k \in Key \ split, NEW s \in ReadPoints
  PROVE  Get(k, s) = Visible(Everything, k, s)
<1>1. HistoryOK /\ TablesOK /\ MemOK
  BY DEF Base
<1>2. s \in Nat
  BY <1>1, OldestRead
<1>3. Proper(Everything) /\ Proper(mem) /\ mem \subseteq Everything
  <2>1. mem \subseteq Everything
    BY DEF Everything
  <2> QED
    BY <1>1, <2>1, EverythingProper, ProperPart
<1>4. \A e : e \in Seen(Everything, k, s) <=>
        e \in Seen(mem, k, s) \/ \E l \in Level : \E f \in files[l] : e \in Seen(f.data, k, s)
  BY DEF Seen, Everything, AllData
<1>5. Get(k, s) = IF Visible(mem, k, s) # {} THEN Visible(mem, k, s)
                  ELSE IF Hits(k, s) = {} THEN {}
                  ELSE Visible(FirstSearched(Hits(k, s)).file.data, k, s)
  BY DEF Get, Hits
<1>6. CASE Visible(mem, k, s) # {}
  <2>1. PICK v : v \in Visible(mem, k, s)
    BY <1>6
  <2>2. /\ Visible(mem, k, s) = {v} /\ v \in Seen(mem, k, s) /\ v \in mem
        /\ \A x \in Seen(mem, k, s) : x = v \/ x.seq < v.seq
    BY <1>3, <2>1, VisibleFacts
  <2>3. ASSUME NEW x \in Seen(Everything, k, s) PROVE x.seq <= v.seq
    <3>1. x \in Everything /\ x.seq \in Nat /\ v.seq \in Nat
      BY <1>3, <2>2, EntryFields DEF Seen
    <3>2. CASE x \in Seen(mem, k, s)
      BY <2>2, <3>1, <3>2
    <3>3. CASE \E l \in Level : \E f \in files[l] : x \in Seen(f.data, k, s)
      <4>1. \E l \in Level : \E f \in files[l] : x \in f.data
        BY <3>3 DEF Seen
      <4>2. v.seq > x.seq
        BY <1>1, <2>2, <4>1 DEF MemOK
      <4> QED
        BY <3>1, <4>2
    <3> QED
      BY <1>4, <3>2, <3>3
  <2>4. v \in Seen(Everything, k, s)
    BY <1>4, <2>2
  <2>5. Visible(Everything, k, s) = {v}
    BY <1>3, <2>3, <2>4, NewestIsVisible
  <2> QED
    BY <1>5, <1>6, <2>2, <2>5
<1>7. CASE Visible(mem, k, s) = {}
  <2>1. Seen(mem, k, s) = {}
    BY <1>3, <1>7, VisibleFacts
  <2>2. CASE Hits(k, s) = {}
    <3>1. ASSUME NEW e \in Seen(Everything, k, s) PROVE FALSE
      <4>1. PICK l \in Level : \E f \in files[l] : e \in Seen(f.data, k, s)
        BY <1>4, <2>1
      <4>2. PICK f \in files[l] : e \in Seen(f.data, k, s)
        BY <4>1
      <4> QED
        BY <1>1, <1>2, <2>2, <4>2, HitFacts
    <3>2. Visible(Everything, k, s) = {}
      BY <1>3, <3>1, VisibleFacts
    <3> QED
      BY <1>5, <1>7, <2>2, <3>2
  <2>3. CASE Hits(k, s) # {}
    <3> DEFINE a == FirstSearched(Hits(k, s))
    <3>1. a \in Hits(k, s) /\ \A b \in Hits(k, s) \ {a} : SearchedBefore(a, b)
      <4>1. Hits(k, s) \subseteq Candidates(k, s)
        BY DEF Hits
      <4> QED
        BY <1>1, <2>3, <4>1, FirstSearchedFacts
    <3>2. Get(k, s) = Visible(a.file.data, k, s)
      BY <1>5, <1>7, <2>3
    <3> HIDE DEF a
    <3>3. a \in Candidates(k, s) /\ Visible(a.file.data, k, s) # {}
      BY <3>1 DEF Hits
    <3>4. a.level \in Level /\ a.file \in files[a.level]
      BY <1>1, <3>3, CandidateFacts
    <3>5. PICK v : v \in Visible(a.file.data, k, s)
      BY <3>3
    <3>6. Proper(a.file.data)
      BY <1>1, <3>4, LevelHolds, TableFacts
    <3>7. /\ Visible(a.file.data, k, s) = {v} /\ v \in Seen(a.file.data, k, s) /\ v \in a.file.data
          /\ \A x \in Seen(a.file.data, k, s) : x = v \/ x.seq < v.seq
      BY <3>5, <3>6, VisibleFacts
    <3>8. v \in Seen(Everything, k, s)
      BY <1>4, <3>4, <3>7
    <3>9. v.key = k /\ v.seq \in Nat
      BY <1>3, <3>8, EntryFields DEF Seen
    <3>10. ASSUME NEW x \in Seen(Everything, k, s) PROVE x.seq <= v.seq
      <4>1. x \in Everything /\ x.seq \in Nat /\ x.key = k
        BY <1>3, EntryFields DEF Seen
      <4>2. PICK l \in Level : \E f \in files[l] : x \in Seen(f.data, k, s)
        BY <1>4, <2>1
      <4>3. PICK f \in files[l] : x \in Seen(f.data, k, s)
        BY <4>2
      <4> DEFINE b == [level |-> l, file |-> f]
      <4>4. b \in Hits(k, s) /\ b.level = l /\ b.file = f
        BY <1>1, <1>2, <4>3, HitFacts
      <4> HIDE DEF b
      <4>5. x \in f.data
        BY <4>3 DEF Seen
      <4>6. CASE b = a
        <5>1. x \in Seen(a.file.data, k, s)
          BY <4>3, <4>4, <4>6
        <5> QED
          BY <3>7, <3>9, <4>1, <5>1
      <4>7. CASE b # a
        <5>1. SearchedBefore(a, b)
          BY <3>1, <4>4, <4>7
        <5>2. CASE a.level < l
          <6>1. Newer(a.file.data, f.data, split)
            BY <3>4, <5>2 DEF LevelsNewer
          <6>2. v.seq > x.seq
            BY <3>7, <3>9, <4>1, <4>5, <6>1 DEF Newer
          <6> QED
            BY <3>9, <4>1, <6>2
        <5>3. CASE a.level = l /\ a.file.number > f.number
          <6>1. l = 0
            <7>1. b \in Candidates(k, s)
              BY <4>4 DEF Hits
            <7>2. a.level = b.level /\ a.level # 0 => a = b
              BY <1>1, <3>3, <7>1, CandidateFacts
            <7> QED
              BY <4>4, <4>7, <5>3, <7>2
          <6>2. v.seq > x.seq
            BY <1>1, <3>4, <3>7, <4>5, <5>3, <6>1 DEF MemOK
          <6> QED
            BY <3>9, <4>1, <6>2
        <5> QED
          BY <4>4, <5>1, <5>2, <5>3 DEF SearchedBefore
      <4> QED
        BY <4>6, <4>7
    <3>11. Visible(Everything, k, s) = {v}
      BY <1>3, <3>8, <3>10, NewestIsVisible
    <3> QED
      BY <3>2, <3>7, <3>11
  <2> QED
    BY <2>2, <2>3
<1> QED
  BY <1>6, <1>7

-----------------------------------------------------------------------------
(* The invariant. *)

\* An empty database satisfies the invariant.
LEMMA InitHolds ==
  ASSUME LevelsAssumption, Init
  PROVE  IInv
<1>1. /\ mem = {} /\ history = {} /\ snapshots = {} /\ job = {} /\ seek = {}
      /\ files = [l \in Level |-> {}] /\ nextNumber = 2 /\ split = {} /\ lapped = FALSE
  BY DEF Init
<1>2. \A l \in Level : files[l] = {}
  BY <1>1
<1>3. 0 \in Level
  BY LevelFacts
<1>4. HistoryOK
  BY <1>1, FS_EmptySet DEF HistoryOK, Proper
<1>5. TablesOK
  BY <1>1, <1>2, FS_EmptySet DEF TablesOK
<1>6. MemOK /\ SeekOK /\ JobOK
  BY <1>1, <1>2, <1>3 DEF MemOK, SeekOK, JobOK
<1>7. LevelsApart /\ LevelsNewer /\ JobsRight
  BY <1>1, <1>2 DEF LevelsApart, LevelsNewer, JobsRight
<1>8. Everything = history
  BY <1>1, <1>2 DEF Everything, AllData
<1>9. Retained
  BY <1>8 DEF Retained
<1> QED
  BY <1>1, <1>4, <1>5, <1>6, <1>7, <1>9 DEF IInv, Base, Right

\* A step that changes nothing keeps the invariant.
LEMMA StutterKeeps ==
  ASSUME IInv, UNCHANGED vars
  PROVE  IInv'
<1>1. UNCHANGED <<mem, files, pointer, seek, nextNumber, job, snapshots, history, asked, split, lapped>>
  BY DEF vars
<1>2. Base'
  <2>1. HistoryOK /\ TablesOK /\ MemOK /\ SeekOK /\ JobOK /\ lapped \in BOOLEAN
    BY DEF IInv, Base
  <2>2. LastSequence' = LastSequence /\ ReadPoints' = ReadPoints
    BY <1>1 DEF LastSequence, ReadPoints
  <2>3. HistoryOK' /\ MemOK' /\ SeekOK'
    BY <1>1, <2>1, <2>2 DEF HistoryOK, MemOK, SeekOK
  <2>4. TablesOK'
    BY <1>1, <2>1 DEF TablesOK, IsTable
  <2>5. JobOK'
    BY <1>1, <2>1, <2>2 DEF JobOK, JobTyped
  <2> QED
    BY <1>1, <2>1, <2>3, <2>4, <2>5 DEF Base
<1>3. ASSUME ~lapped PROVE Right'
  <2>1. Right
    BY <1>3 DEF IInv
  <2>2. Everything' = Everything /\ ReadPoints' = ReadPoints
    BY <1>1, EverythingStays DEF ReadPoints, LastSequence
  <2>3. Retained'
    BY <1>1, <2>1, <2>2, RetainedStays DEF Right
  <2> QED
    BY <1>1, <2>1, <2>3, RightStays
<1> QED
  BY <1>1, <1>2, <1>3 DEF IInv

\* Every step keeps the invariant.
LEMMA NextKeeps ==
  ASSUME LevelsAssumption, IInv, [Next]_vars
  PROVE  IInv'
<1>1. CASE \E k \in Key, del \in BOOLEAN : Write(k, del)
  BY <1>1, WriteKeeps
<1>2. CASE GetSnapshot \/ \E s \in snapshots : ReleaseSnapshot(s)
  BY <1>2, SnapshotKeeps
<1>3. CASE \E k \in Key, s \in ReadPoints : UpdateStats(k, s)
  BY <1>3, UpdateStatsKeeps
<1>4. CASE Flush
  BY <1>4, FlushKeeps
<1>5. CASE StartCompaction
  BY <1>5, StartKeeps
<1>6. CASE \E level \in 0 .. NumLevels - 2, low \in Key, high \in Key :
             low <= high /\ CompactRange(level, low, high)
  BY <1>6, CompactKeeps
<1>7. CASE FinishCompaction
  BY <1>7, FinishKeeps
<1>8. CASE UNCHANGED vars
  BY <1>8, StutterKeeps
<1> QED
  BY <1>1, <1>2, <1>3, <1>4, <1>5, <1>6, <1>7, <1>8 DEF Next

\* What the invariant says of the tables: they are disjoint behind level 0, and what
\* lies above is newer.
LEMMA WellFormedThen ==
  ASSUME LevelsAssumption, IInv
  PROVE  LevelsWellFormed
<1>1. HistoryOK /\ TablesOK /\ MemOK /\ SeekOK /\ JobOK
  BY DEF IInv, Base
<1>2. TypeOK
  <2>1. \A e \in history : e \in Entry(1 .. LastSequence)
    <3>1. \A e \in history : e \in Entry(Nat) /\ e.seq \in 1 .. LastSequence
      BY <1>1 DEF HistoryOK, Proper
    <3> QED
      BY <3>1 DEF Entry
  <2>2. \A l \in Level : \A f \in files[l] : f.data # {} /\ f.data \subseteq history /\ f.number < nextNumber
    BY <1>1 DEF TablesOK, IsTable
  <2>3. \A x \in seek : x.level < NumLevels - 1 /\ x.file \in files[x.level]
    BY <1>1, LimitFacts DEF SeekOK
  <2>4. \A c \in job : c.in0 \subseteq files[c.level] /\ c.in1 \subseteq files[c.level + 1]
    BY <1>1 DEF JobOK, JobTyped
  <2> QED
    BY <1>1, <2>1, <2>2, <2>3, <2>4 DEF TypeOK, MemOK, HistoryOK
<1>3. ASSUME ~lapped PROVE LevelsDisjoint
  <2>1. LevelsApart
    BY <1>3 DEF IInv, Right
  <2>2. SUFFICES ASSUME NEW l \in Level \ {0}, NEW f \in files[l], NEW g \in files[l], f # g
                 PROVE  Before(Largest(f), Smallest(g)) \/ Before(Largest(g), Smallest(f))
    BY DEF LevelsDisjoint, Disjoint
  <2>3. \A h \in files[l] : Smallest(h) \in h.data /\ Largest(h) \in h.data
    BY <1>1, LevelHolds, TableFacts, EndsAreIn DEF Smallest, Largest
  <2>4. Apart(f.data, g.data)
    BY <2>1, <2>2 DEF LevelsApart
  <2> QED
    BY <2>3, <2>4 DEF Apart, InFront
<1>4. ASSUME ~lapped PROVE \A k \in Key \ split : NewerAbove(k)
  <2>1. LevelsNewer
    BY <1>4 DEF IInv, Right
  <2> QED
    BY <2>1 DEF LevelsNewer, Newer, NewerAbove, AllData
<1> QED
  BY <1>2, <1>3, <1>4 DEF LevelsWellFormed, DisjointUnlessLapped, OrderedUnlessSplit

\* The invariant implies that reads find the newest value.
LEMMA ReadsNewestThen ==
  ASSUME LevelsAssumption, IInv
  PROVE  ReadsNewest
<1>1. SUFFICES ASSUME ~lapped, NEW k \in Key \ split, NEW s \in ReadPoints
               PROVE  ValueOf(Get(k, s)) = ValueOf(Visible(history, k, s))
  BY DEF ReadsNewest
<1>2. Base /\ LevelsApart /\ LevelsNewer /\ Retained
  BY <1>1 DEF IInv, Right
<1>3. Get(k, s) = Visible(Everything, k, s)
  BY <1>2, GetFindsNewest
<1> QED
  BY <1>2, <1>3 DEF Retained

\* The invariant is one.
LEMMA InvariantHolds ==
  ASSUME LevelsAssumption
  PROVE  Spec => []IInv
<1>1. Init => IInv
  BY InitHolds
<1>2. IInv /\ [Next]_vars => IInv'
  BY NextKeeps
<1> QED
  BY <1>1, <1>2, PTL DEF Spec

\* Whatever is flushed, moved and merged, the tables of every level behind level 0 stay
\* disjoint, and for every key what lies above is newer than what lies below - unless a
\* memtable was written out during a manual compaction, or, for that key, two output
\* tables came to share it.  (Version::PickLevelForMemTableOutput,
\* Version::GetOverlappingInputs, VersionSet::PickCompaction and SetupOtherInputs,
\* DBImpl::BackgroundCompaction and DoCompactionWork.)
THEOREM TablesStayInOrder ==
  ASSUME LevelsAssumption
  PROVE  Spec => []LevelsWellFormed
<1>1. IInv => LevelsWellFormed
  BY WellFormedThen
<1> QED
  BY <1>1, InvariantHolds, PTL

\* A Get at the last sequence number or at a snapshot returns what was written last up to
\* there, wherever that write has come to lie and whatever compactions have dropped, on
\* the same two conditions.  (Version::Get, DBImpl::Get, DBImpl::DoCompactionWork.)
THEOREM ReadsTheNewest ==
  ASSUME LevelsAssumption
  PROVE  Spec => []ReadsNewest
<1>1. IInv => ReadsNewest
  BY ReadsNewestThen
<1> QED
  BY <1>1, InvariantHolds, PTL

=============================================================================
