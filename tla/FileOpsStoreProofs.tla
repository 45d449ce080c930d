------------------------- MODULE FileOpsStoreProofs -------------------------
(***************************************************************************)
(* What settle does to an operation, whatever its items are: the lemmas the *)
(* proofs about the upload runner and the job runner both rest on.           *)
(***************************************************************************)
EXTENDS FileOpsStore, FiniteSetTheorems, SequenceTheorems, TLAPS

\* The phase of an operation that has come to rest is one of the ends.
LEMMA EndPhaseIsEnd ==
    ASSUME NEW op \in OpRecord, NEW states, NEW done
    PROVE  EndPhase(op, states, done, FALSE) \in {"done", "partial", "failed", "cancelled"}
<1>1. op.cancelled \in BOOLEAN
  BY DEF OpRecord
<1>2. CASE op.cancelled
  BY <1>2 DEF EndPhase
<1>3. CASE ~op.cancelled
  BY <1>3 DEF EndPhase
<1>4. QED
  BY <1>1, <1>2, <1>3

\* settle re-derives the phase, endedAt and the clear timer, and nothing else of
\* the operation: never whether it is listed, cancelled, or what its policy is.
LEMMA SettledFacts ==
    ASSUME NEW op \in OpRecord, NEW states, NEW done, NEW walking
    PROVE  LET n == Settled(op, states, done, walking, FALSE)
           IN  /\ n \in OpRecord
               /\ n.listed = op.listed /\ n.cancelled = op.cancelled /\ n.policy = op.policy
               /\ op.listed = FALSE => n = op
<1> DEFINE n == Settled(op, states, done, walking, FALSE)
           e == EndPhase(op, states, done, FALSE)
<1>1. e \in {"done", "partial", "failed", "cancelled"}
  BY EndPhaseIsEnd
<1>2. CASE ~op.listed
  BY <1>2 DEF Settled
<1>3. CASE op.listed /\ (walking \/ states \cap Active # {})
  <2>1. n = [op EXCEPT !.phase = IF states = {} THEN "preparing" ELSE "running",
                       !.ended = FALSE, !.clear = op.clear /\ ~op.ended]
    BY <1>3 DEF Settled
  <2>2. (op.clear /\ ~op.ended) \in BOOLEAN
    OBVIOUS
  <2>3. n \in OpRecord /\ n.listed = op.listed /\ n.cancelled = op.cancelled
        /\ n.policy = op.policy /\ n.ended = FALSE
    BY <2>1, <2>2 DEF OpRecord, OpPhase
  <2>4. QED
    BY <1>3, <2>3
<1>4. CASE op.listed /\ ~walking /\ states \cap Active = {} /\ "needs-decision" \in states
  <2>1. n = [op EXCEPT !.phase = "waiting"]
    BY <1>4 DEF Settled
  <2>2. QED
    BY <1>4, <2>1 DEF OpRecord, OpPhase
<1>5. CASE op.listed /\ ~walking /\ states \cap Active = {} /\ "needs-decision" \notin states
  <2> DEFINE c == op.clear \/ (~op.ended /\ states \cap Problem = {} /\ e # "failed")
  <2>1. n = [op EXCEPT !.phase = e, !.ended = TRUE, !.clear = c]
    BY <1>5 DEF Settled
  <2>2. c \in BOOLEAN
    OBVIOUS
  <2> HIDE DEF c, e
  <2>3. n \in OpRecord /\ n.listed = op.listed /\ n.cancelled = op.cancelled /\ n.policy = op.policy
    BY <2>1, <2>2, <1>1 DEF OpRecord, OpPhase
  <2>4. QED
    BY <1>5, <2>3
<1>6. QED
  BY <1>2, <1>3, <1>4, <1>5

\* settle leaves an operation ended only if it has just found nothing going on
\* and nothing to ask, or if it was ended and has something to ask.
LEMMA SettledEnded ==
    ASSUME NEW op \in OpRecord, NEW states, NEW done, NEW walking, walking \in BOOLEAN,
           op.listed, Settled(op, states, done, walking, FALSE).ended
    PROVE  /\ walking = FALSE
           /\ states \cap Active = {}
           /\ "needs-decision" \in states => op.ended
<1> DEFINE n == Settled(op, states, done, walking, FALSE)
           c == op.clear /\ ~op.ended
<1>1. CASE walking \/ states \cap Active # {}
  <2>1. n = [op EXCEPT !.phase = IF states = {} THEN "preparing" ELSE "running",
                       !.ended = FALSE, !.clear = c]
    BY <1>1 DEF Settled
  <2> HIDE DEF c
  <2>2. n.ended = FALSE
    BY <2>1 DEF OpRecord
  <2>3. QED
    BY <2>2
<1>2. CASE ~(walking \/ states \cap Active # {}) /\ "needs-decision" \in states
  <2>1. n = [op EXCEPT !.phase = "waiting"]
    BY <1>2 DEF Settled
  <2>2. n.ended = op.ended
    BY <2>1 DEF OpRecord
  <2>3. QED
    BY <1>2, <2>2
<1>3. QED
  BY <1>1, <1>2

\* An operation settle has not ended is in a phase that says so.
LEMMA SettledPhase ==
    ASSUME NEW op \in OpRecord, NEW states, NEW done, NEW walking, op.listed,
           ~Settled(op, states, done, walking, FALSE).ended
    PROVE  Settled(op, states, done, walking, FALSE).phase \in {"preparing", "running", "waiting"}
<1> DEFINE n == Settled(op, states, done, walking, FALSE)
           c == op.clear /\ ~op.ended
           e == EndPhase(op, states, done, FALSE)
           d == op.clear \/ (~op.ended /\ states \cap Problem = {} /\ e # "failed")
<1>1. CASE walking \/ states \cap Active # {}
  <2>1. n = [op EXCEPT !.phase = IF states = {} THEN "preparing" ELSE "running",
                       !.ended = FALSE, !.clear = c]
    BY <1>1 DEF Settled
  <2> HIDE DEF c
  <2>2. QED
    BY <2>1 DEF OpRecord
<1>2. CASE ~(walking \/ states \cap Active # {}) /\ "needs-decision" \in states
  <2>1. n = [op EXCEPT !.phase = "waiting"]
    BY <1>2 DEF Settled
  <2>2. QED
    BY <2>1 DEF OpRecord
<1>3. CASE ~(walking \/ states \cap Active # {}) /\ "needs-decision" \notin states
  <2>1. n = [op EXCEPT !.phase = e, !.ended = TRUE, !.clear = d]
    BY <1>3 DEF Settled
  <2> HIDE DEF d, e
  <2>2. n.ended = TRUE
    BY <2>1 DEF OpRecord
  <2>3. QED
    BY <2>2
<1>4. QED
  BY <1>1, <1>2, <1>3

----------------------------------------------------------------------------
(* Lists of items *)

LEMMA OrderSeq ==
    ASSUME NEW S, NEW N \in Nat, NEW q \in [1 .. N -> S]
    PROVE  q \in Seq(S)
BY SeqDef

\* InOrder(T) names every item of T once.
LEMMA InOrderFacts ==
    ASSUME NEW K \in Nat, NEW T \in SUBSET (1 .. K), NEW q \in InOrder(T)
    PROVE  /\ q \in Seq(T) /\ q \in Seq(1 .. K)
           /\ \A p \in DOMAIN q : q[p] \in T
           /\ \A i \in T : \E p \in DOMAIN q : q[p] = i
           /\ \A p, r \in DOMAIN q : q[p] = q[r] => p = r
<1>1. Cardinality(T) \in Nat
  <2>1. IsFiniteSet(1 .. K)
    BY FS_Interval
  <2>2. QED
    BY <2>1, FS_Subset, FS_CardinalityType
<1>2. /\ q \in [1 .. Cardinality(T) -> T]
      /\ \A i \in T : \E n \in DOMAIN q : q[n] = i
      /\ \A m, n \in DOMAIN q : m < n => q[m] < q[n]
  BY DEF InOrder
<1> DEFINE N == Cardinality(T)
<1> HIDE DEF N
<1>3. N \in Nat /\ q \in [1 .. N -> T] /\ DOMAIN q = 1 .. N
  BY <1>1, <1>2 DEF N
<1>4. q \in Seq(T) /\ q \in Seq(1 .. K)
  <2>1. q \in [1 .. N -> 1 .. K]
    BY <1>3
  <2>2. QED
    BY <1>3, <2>1, OrderSeq
<1>5. ASSUME NEW m \in 1 .. N, NEW n \in 1 .. N, q[m] = q[n]
      PROVE  m = n
  <2>1. q[m] \in Int /\ q[n] \in Int
    <3>1. q[m] \in T /\ q[n] \in T
      BY <1>3
    <3>2. \A i \in T : i \in Int
      OBVIOUS
    <3>3. QED
      BY <3>1, <3>2
  <2>2. (m < n => q[m] < q[n]) /\ (n < m => q[n] < q[m])
    <3>1. m \in DOMAIN q /\ n \in DOMAIN q
      BY <1>3
    <3>2. \A k, l \in DOMAIN q : k < l => q[k] < q[l]
      BY <1>2
    <3>3. QED
      BY <3>1, <3>2, Zenon
  <2>3. ~(m < n) /\ ~(n < m)
    BY <1>5, <2>1, <2>2
  <2>4. QED
    BY <2>3
<1>6. QED
  BY <1>2, <1>3, <1>4, <1>5
=============================================================================
