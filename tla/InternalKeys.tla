---------------------------- MODULE InternalKeys ----------------------------
(***************************************************************************)
(* The entries of LevelDB (Pods/leveldb-library/db/dbformat): a user key,  *)
(* the sequence number of the write and whether it stored or deleted.  The *)
(* sequence number stands for the value that was written with it.          *)
(***************************************************************************)
EXTENDS Naturals, FiniteSets, FiniteSetsExt, SequencesExt

CONSTANT Key          \* user keys: an interval of numbers, in their order
ASSUME KeysAreNumbers == Key \subseteq Nat \ {0} /\ IsFiniteSet(Key)

Entry(seqs) == [key : Key, seq : seqs, del : BOOLEAN]

\* Internal keys are ordered by user key and, for one user key, newest first.
Before(a, b) == \/ a.key < b.key
                \/ a.key = b.key /\ a.seq > b.seq

FirstOf(entries) == CHOOSE e \in entries : \A x \in entries : ~Before(x, e)
LastOf(entries)  == CHOOSE e \in entries : \A x \in entries : ~Before(e, x)

\* A set in an order: the element with n others in front of it is number n + 1.
Sorted(S, before(_, _)) ==
  [n \in 1 .. Cardinality(S) |->
     CHOOSE x \in S : Cardinality({y \in S : before(y, x)}) = n - 1]
InOrder(entries) == Sorted(entries, Before)

\* What a seek for user key k at sequence number s stops at, among `entries`,
\* if it still has that user key: the newest version that is visible at s.
Visible(entries, k, s) ==
  LET seen == {e \in entries : e.key = k /\ e.seq <= s}
  IN  IF seen = {} THEN {} ELSE {FirstOf(seen)}

\* The value that a lookup reports for what it found (0: not found).
ValueOf(found) == IF \E e \in found : ~e.del
                  THEN (CHOOSE e \in found : TRUE).seq ELSE 0
=============================================================================
