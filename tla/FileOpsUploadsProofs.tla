------------------------ MODULE FileOpsUploadsProofs ------------------------
(***************************************************************************)
(* Proofs about FileOpsUploads, for every number of items, of parallel       *)
(* uploads, of retries and of faults.                                        *)
(***************************************************************************)
EXTENDS FileOpsUploads, FileOpsStoreProofs

USE UploadConstants DEF Items

----------------------------------------------------------------------------
(* The inductive invariant *)

TabState == [op : OpRecord, walking : BOOLEAN, item : [Items -> ItemRecord],
             co : [Items -> Await], net : [Items -> Answer], ready : Seq(Items)]

\* What an item's state r, of kind k, says about its coroutine, which stands at
\* c and waits for n.
InStep(r, c, n, k) ==
    /\ r.st \in {"none", "needs-decision", "failed", "done", "skipped"} => c = "idle"
    /\ r.st = "queued" => c \in {"idle", "names"}
    /\ r.st \in {"uploading", "finishing"} => c \in Pooled
    /\ r.st = "running" => c \in Making
    /\ r.st # "submitting"
    /\ c \in {"idle", "names"} => n = "idle"
    /\ k = "dir" => /\ c \in Making \cup {"idle"}
                    /\ r.st \notin {"queued", "needs-decision", "uploading", "finishing"}
    /\ k # "dir" => c \notin Making /\ r.st # "running"

Steps(s) == \A i \in Items : InStep(s.item[i], s.co[i], s.net[i], Kind[i])

\* `ready` holds an item once, and only items that wait or were cancelled waiting.
ReadyOnce(s) ==
    /\ \A p \in DOMAIN s.ready : /\ s.item[s.ready[p]].st \in {"queued", "cancelled"}
                                 /\ s.co[s.ready[p]] = "idle"
    /\ \A p, r \in DOMAIN s.ready : s.ready[p] = s.ready[r] => p = r

InReady(s, i) == \E p \in DOMAIN s.ready : s.ready[p] = i

\* A queued row is on its way into the pool.
Waiting(s) ==
    s.op.listed => \A i \in Items : s.item[i].st = "queued" => s.co[i] = "names" \/ InReady(s, i)

\* The pool is never over its limit, and `ready` is not left alone while it has room.
PoolOK(s) ==
    /\ Cardinality(InPool(s)) <= Parallel
    /\ s.ready = << >> \/ Cardinality(InPool(s)) = Parallel

\* What every handler keeps, of the record it passes on.
Sound(s) == s \in TabState /\ Steps(s) /\ ReadyOnce(s) /\ Waiting(s)

\* An operation shown as ended has no row at work and none that asks.
Over(s) ==
    s.op.listed = TRUE /\ s.op.ended = TRUE =>
        /\ s.walking = FALSE
        /\ \A i \in Items : s.item[i].shown = TRUE => s.item[i].st \notin Active \cup {"needs-decision"}

\* Before the folder's listing is there (it stands at `at`, and names what holds
\* the item's name), no file has got past the name check or onto Luna.
UnlistedAt(r, c, k, at, name, t, gone) ==
    k # "dir" =>
        /\ name # "own"
        /\ at \in {"unasked", "asked"} =>
              /\ r.st \in {"none", "queued", "cancelled", "failed"}
              /\ r.st = "queued" => c = "names"
              /\ c \in {"idle", "names"}
              /\ r.again = FALSE
              /\ gone = FALSE => t # "own"

\* Whatever may lead to overwriting t was asked for, and t is not a folder.
ReplacingAt(i, r, c, n, name, t, who) ==
    /\ r.conflict = "replace" => i \in who /\ t # "dir"
    /\ r.dec = "file" => t # "dir"
    /\ r.st = "needs-decision" => r.dec # "none"
    /\ c \in Pooled /\ n = "file" => t # "dir"
    /\ name = "file" => t # "dir"

\* This attempt has made no copy of the file yet.
FreshAt(r, c, n) ==
    \/ r.st \in {"none", "queued", "needs-decision"}
    \/ c \in {"create", "chunk"}
    \/ c \in {"multipart", "complete", "recomplete"} /\ n \in {"sent", "file", "dir"}

\* m copies were made: at most one per attempt, and a new attempt after a copy
\* takes a lost answer.
CopyingAt(r, c, n, k, t, m, u, gone) ==
    /\ t = "own" => m >= 1
    /\ k = "dir" => m <= 1 /\ (m = 1 => t = "own")
    /\ k # "dir" =>
          /\ m <= u.retries + 1
          /\ m > 1 => u.faults > 0
          /\ gone = FALSE /\ FreshAt(r, c, n) => m <= u.retries /\ (m >= 1 => u.faults > 0)
          /\ r.st = "done" => m >= 1
          /\ c \in {"multipart", "complete", "recomplete"} /\ n = "ok" => m >= 1
          /\ r.again = TRUE => u.faults > 0
          /\ n \in {"lost", "busy"} => u.faults > 0

ItemInv(i, r, c, n, at, name, t, m, who, u, gone) ==
    /\ UnlistedAt(r, c, Kind[i], at, name, t, gone)
    /\ ReplacingAt(i, r, c, n, name, t, who)
    /\ CopyingAt(r, c, n, Kind[i], t, m, u, gone)

ItemsInv ==
    \A i \in Items : ItemInv(i, item[i], co[i], net[i], listing.at, listing.names[i], taken[i],
                             copies[i], asked, used, closed)

\* A tab in which nothing was started yet, or whose page is gone.
Untouched ==
    /\ op = NoOp => /\ item = NoItems /\ co = AllIdle /\ net = AllIdle /\ ready = << >>
                    /\ walk = 0 /\ walking = FALSE
    /\ walk # 0 => \A i \in Items : i >= walk => item[i] = NoItemRecord
    /\ closed = TRUE => op = NoOp /\ listing = NoListing

\* TypeOK, the tab's record aside, and with no bound on the copies.
RestTyped ==
    /\ walk \in 0 .. NItems + 1 /\ closed \in BOOLEAN
    /\ listing \in [at : {"unasked", "asked", "known", "failed"}, names : [Items -> Taken]]
    /\ taken \in [Items -> Taken] /\ open \subseteq Sids /\ copies \in [Items -> Nat]
    /\ asked \subseteq Items /\ adrift \subseteq Sids
    /\ used \in [retries : 0 .. MaxRetries, faults : 0 .. MaxFaults]

Inv == RestTyped /\ Sound(Now) /\ PoolOK(Now) /\ Over(Now) /\ Untouched /\ ItemsInv

----------------------------------------------------------------------------
(* Operators *)

\* settle changes the operation only.
LEMMA SettleFacts ==
    ASSUME NEW s \in TabState
    PROVE  /\ Settle(s) \in TabState
           /\ Settle(s).walking = s.walking /\ Settle(s).item = s.item /\ Settle(s).co = s.co
           /\ Settle(s).net = s.net /\ Settle(s).ready = s.ready
           /\ Settle(s).op.listed = s.op.listed /\ Settle(s).op.cancelled = s.op.cancelled
           /\ s.op.listed = FALSE => Settle(s).op = s.op
<1> DEFINE shown == {i \in Items : s.item[i].shown}
           states == {s.item[i].st : i \in shown}
           done == \E i \in shown : s.item[i].st = "done" /\ Kind[i] # "dir"
           n == Settled(s.op, states, done, s.walking, FALSE)
<1>1. s.op \in OpRecord
  BY DEF TabState
<1>2. ASSUME NEW o \in OpRecord
      PROVE  LET m == Settled(o, states, done, s.walking, FALSE)
             IN  /\ m \in OpRecord /\ m.listed = o.listed /\ m.cancelled = o.cancelled
                 /\ o.listed = FALSE => m = o
  <2> DEFINE w == s.walking
  <2> HIDE DEF states, done, w
  <2>1. LET m == Settled(o, states, done, w, FALSE)
        IN  /\ m \in OpRecord /\ m.listed = o.listed /\ m.cancelled = o.cancelled
            /\ o.listed = FALSE => m = o
    BY SettledFacts
  <2>2. QED
    BY <2>1 DEF w
<1> HIDE DEF states, done
<1>3. n \in OpRecord /\ n.listed = s.op.listed /\ n.cancelled = s.op.cancelled
      /\ (s.op.listed = FALSE => n = s.op)
  BY <1>1, <1>2, Zenon
<1>4. Settle(s) = [s EXCEPT !.op = n]
  BY DEF Settle, states, done, shown
<1> HIDE DEF n
<1>5. QED
  BY <1>3, <1>4 DEF TabState

LEMMA SettleSound ==
    ASSUME NEW s, Sound(s)
    PROVE  Sound(Settle(s))
<1> DEFINE n == Settle(s)
<1>1. /\ n \in TabState /\ n.item = s.item /\ n.co = s.co
      /\ n.net = s.net /\ n.ready = s.ready /\ n.op.listed = s.op.listed
  BY SettleFacts DEF Sound
<1> HIDE DEF n
<1>2. Steps(n)
  BY <1>1 DEF Sound, Steps
<1>3. ReadyOnce(n)
  BY <1>1 DEF Sound, ReadyOnce
<1>4. Waiting(n)
  BY <1>1 DEF Sound, Waiting, InReady
<1>5. QED
  BY <1>1, <1>2, <1>3, <1>4 DEF Sound, n

LEMMA StateSet ==
    ASSUME NEW r \in ItemRecord, NEW x \in ItemState
    PROVE  [r EXCEPT !.st = x] \in ItemRecord
BY DEF ItemRecord

\* The items that k turns of pump's loop start.
Who(s, k) == {s.ready[p] : p \in Started(s, k)}

\* r went into the pool as n, its coroutine standing at c.
Starts(r, c, n) ==
    /\ r.st = "queued"
    /\ n = [r EXCEPT !.st = IF r.only THEN "finishing" ELSE "uploading"]
    /\ c \in {"multipart", "create", "recomplete"}
    /\ c = "recomplete" <=> r.only
    /\ c = "create" => ~r.only

LEMMA StartsFacts ==
    ASSUME NEW r \in ItemRecord, NEW c, NEW n, Starts(r, c, n)
    PROVE  /\ n.st \in {"uploading", "finishing"}
           /\ n.shown = r.shown /\ n.dec = r.dec /\ n.again = r.again /\ n.off = r.off
           /\ n.conflict = r.conflict /\ n.sid = r.sid /\ n.only = r.only
BY DEF Starts, ItemRecord

LEMMA StartedFacts ==
    ASSUME NEW s, Sound(s), NEW k \in 0 .. Len(s.ready), NEW i \in Who(s, k)
    PROVE  /\ i \in Items /\ s.item[i].st = "queued" /\ s.co[i] = "idle" /\ s.net[i] = "idle"
           /\ Kind[i] # "dir"
<1>1. PICK p \in Started(s, k) : i = s.ready[p]
  BY DEF Who
<1>2. p \in DOMAIN s.ready /\ s.item[s.ready[p]].st = "queued"
  BY <1>1 DEF Started, Startable
<1>3. i \in Items
  BY <1>1, <1>2 DEF Sound, TabState
<1>4. s.co[i] = "idle"
  BY <1>1, <1>2 DEF Sound, ReadyOnce
<1>5. InStep(s.item[i], s.co[i], s.net[i], Kind[i])
  BY <1>3 DEF Sound, Steps
<1>6. QED
  BY <1>1, <1>2, <1>3, <1>4, <1>5 DEF InStep

LEMMA SentFacts ==
    ASSUME NEW s, Sound(s), NEW k \in 0 .. Len(s.ready)
    PROVE  LET n == Sent(s, k)
           IN  /\ n \in TabState /\ n.op = s.op /\ n.walking = s.walking
               /\ n.ready = SubSeq(s.ready, k + 1, Len(s.ready))
               /\ \A i \in Items \ Who(s, k) :
                     n.item[i] = s.item[i] /\ n.co[i] = s.co[i] /\ n.net[i] = s.net[i]
               /\ \A i \in Who(s, k) :
                     Starts(s.item[i], n.co[i], n.item[i]) /\ n.net[i] = "sent"
<1> DEFINE n == Sent(s, k)
           W == Who(s, k)
           to(i) == [s.item[i] EXCEPT !.st = IF s.item[i].only THEN "finishing" ELSE "uploading"]
           first(i) == IF s.item[i].only THEN "recomplete"
                       ELSE IF Kind[i] = "small" THEN "multipart" ELSE "create"
           it == [i \in Items |-> IF i \in W THEN to(i) ELSE s.item[i]]
           cs == [i \in Items |-> IF i \in W THEN first(i) ELSE s.co[i]]
           ns == [i \in Items |-> IF i \in W THEN "sent" ELSE s.net[i]]
           rs == SubSeq(s.ready, k + 1, Len(s.ready))
<1>1. n = [s EXCEPT !.ready = rs, !.item = it, !.co = cs, !.net = ns]
  BY DEF Sent, Who
<1>2. s \in TabState /\ s.ready \in Seq(Items) /\ Len(s.ready) \in Nat
  BY DEF Sound, TabState
<1>3. rs \in Seq(Items)
  BY <1>2
<1>4. \A i \in Items : to(i) \in ItemRecord
  <2>1. \A i \in Items : s.item[i] \in ItemRecord
    BY <1>2 DEF TabState
  <2>2. "finishing" \in ItemState /\ "uploading" \in ItemState
    BY DEF ItemState, Active
  <2>3. QED
    BY <2>1, <2>2, StateSet
<1>5. it \in [Items -> ItemRecord]
  <2> HIDE DEF to, W
  <2>1. QED
    BY <1>2, <1>4 DEF TabState
<1>6. cs \in [Items -> Await] /\ ns \in [Items -> Answer]
  <2> HIDE DEF W
  <2>1. QED
    BY <1>2 DEF TabState, Await, Making, Pooled, Answer
<1>7. /\ n \in TabState /\ n.op = s.op /\ n.walking = s.walking
      /\ n.ready = rs /\ n.item = it /\ n.co = cs /\ n.net = ns
  <2> HIDE DEF rs, it, cs, ns
  <2>1. QED
    BY <1>1, <1>2, <1>3, <1>5, <1>6 DEF TabState
<1>8. ASSUME NEW i \in Items \ W
      PROVE  n.item[i] = s.item[i] /\ n.co[i] = s.co[i] /\ n.net[i] = s.net[i]
  <2> HIDE DEF to, W, n
  <2>1. QED
    BY <1>7, <1>8
<1>9. ASSUME NEW i \in W
      PROVE  Starts(s.item[i], n.co[i], n.item[i]) /\ n.net[i] = "sent"
  <2>1. i \in Items /\ s.item[i].st = "queued"
    BY StartedFacts
  <2> HIDE DEF W, n
  <2>2. n.item[i] = to(i) /\ n.co[i] = first(i) /\ n.net[i] = "sent"
    BY <1>7, <2>1
  <2>3. QED
    BY <2>1, <2>2 DEF Starts
<1>10. QED
  BY <1>7, <1>8, <1>9

\* pump keeps what a handler keeps, after however many turns.
LEMMA SentSound ==
    ASSUME NEW s, Sound(s), NEW k \in 0 .. Len(s.ready)
    PROVE  Sound(Sent(s, k))
<1> DEFINE n == Sent(s, k)
           W == Who(s, k)
           L == Len(s.ready)
<1>1. /\ n \in TabState /\ n.op = s.op
      /\ n.ready = SubSeq(s.ready, k + 1, L)
      /\ \A i \in Items \ W : n.item[i] = s.item[i] /\ n.co[i] = s.co[i] /\ n.net[i] = s.net[i]
      /\ \A i \in W : Starts(s.item[i], n.co[i], n.item[i]) /\ n.net[i] = "sent"
  BY SentFacts
<1>2. \A i \in W : /\ i \in Items /\ s.item[i].st = "queued" /\ s.co[i] = "idle"
                    /\ s.net[i] = "idle" /\ Kind[i] # "dir"
  BY StartedFacts
<1>3. s \in TabState /\ s.ready \in Seq(Items) /\ L \in Nat /\ DOMAIN s.ready = 1 .. L
  BY DEF Sound, TabState
<1>4. /\ DOMAIN n.ready = 1 .. L - k
      /\ \A p \in 1 .. L - k : p + k \in 1 .. L /\ n.ready[p] = s.ready[p + k]
  <2> HIDE DEF n
  <2>1. QED
    BY <1>1, <1>3
<1>5. \A p \in 1 .. L : s.ready[p] \in W => p <= k
  <2> SUFFICES ASSUME NEW p \in 1 .. L, s.ready[p] \in W
               PROVE  p <= k
    OBVIOUS
  <2>1. PICK r \in Started(s, k) : s.ready[p] = s.ready[r]
    BY DEF Who
  <2>2. r \in DOMAIN s.ready /\ r <= k
    BY <2>1 DEF Started, Startable
  <2>3. p = r
    BY <2>1, <2>2, <1>3 DEF Sound, ReadyOnce
  <2>4. QED
    BY <2>2, <2>3
<1>6. /\ \A p \in 1 .. L : /\ s.ready[p] \in Items
                           /\ s.item[s.ready[p]].st \in {"queued", "cancelled"}
                           /\ s.co[s.ready[p]] = "idle"
      /\ \A p, r \in 1 .. L : s.ready[p] = s.ready[r] => p = r
  <2>1. \A p \in 1 .. L : s.ready[p] \in Items
    BY <1>3
  <2>2. ReadyOnce(s)
    BY DEF Sound
  <2> HIDE DEF L
  <2>3. QED
    BY <2>1, <2>2, <1>3 DEF ReadyOnce
<1> HIDE DEF n, W, L
<1>7. Steps(n)
  <2> SUFFICES ASSUME NEW i \in Items
               PROVE  InStep(n.item[i], n.co[i], n.net[i], Kind[i])
    BY DEF Steps
  <2>1. CASE i \in W
    <3>1. /\ n.item[i].st \in {"uploading", "finishing"}
          /\ n.co[i] \in {"multipart", "create", "recomplete"} /\ n.net[i] = "sent"
      <4>1. s.item[i] \in ItemRecord
        BY <1>3 DEF TabState
      <4>2. Starts(s.item[i], n.co[i], n.item[i]) /\ n.net[i] = "sent"
        BY <1>1, <2>1
      <4>3. n.co[i] \in {"multipart", "create", "recomplete"}
        BY <4>2 DEF Starts
      <4>4. QED
        BY <4>1, <4>2, <4>3, StartsFacts
    <3>2. QED
      BY <3>1, <2>1, <1>2 DEF InStep, Pooled, Making
  <2>2. CASE i \notin W
    BY <2>2, <1>1 DEF Sound, Steps
  <2>3. QED
    BY <2>1, <2>2
<1>8. ReadyOnce(n)
  <2>1. ASSUME NEW p \in 1 .. L - k
        PROVE  /\ n.item[n.ready[p]].st \in {"queued", "cancelled"}
               /\ n.co[n.ready[p]] = "idle"
    <3> DEFINE i == n.ready[p]
               r == p + k
    <3>1. r \in 1 .. L /\ i = s.ready[r]
      BY <1>4
    <3>2. ~(r <= k)
      OBVIOUS
    <3> HIDE DEF i, r
    <3>3. i \in Items \ W
      BY <3>1, <3>2, <1>5, <1>6
    <3>4. s.item[i].st \in {"queued", "cancelled"} /\ s.co[i] = "idle"
      BY <3>1, <1>6
    <3>5. n.item[i] = s.item[i] /\ n.co[i] = s.co[i]
      BY <3>3, <1>1
    <3>6. QED
      BY <3>4, <3>5 DEF i
  <2>2. ASSUME NEW p \in 1 .. L - k, NEW r \in 1 .. L - k, n.ready[p] = n.ready[r]
        PROVE  p = r
    <3>1. p + k = r + k
      BY <2>2, <1>4, <1>6
    <3>2. QED
      BY <3>1, <1>3
  <2>3. QED
    BY <2>1, <2>2, <1>4 DEF ReadyOnce
<1>9. Waiting(n)
  <2> SUFFICES ASSUME n.op.listed, NEW i \in Items, n.item[i].st = "queued"
               PROVE  n.co[i] = "names" \/ InReady(n, i)
    BY DEF Waiting
  <2>1. i \notin W
    <3>1. s.item[i] \in ItemRecord
      BY <1>3 DEF TabState
    <3>2. QED
      BY <1>1, <3>1, StartsFacts
  <2>2. s.item[i].st = "queued" /\ n.co[i] = s.co[i]
    BY <1>1, <2>1
  <2>3. CASE s.co[i] = "names"
    BY <2>2, <2>3
  <2>4. CASE InReady(s, i)
    <3>1. PICK p \in 1 .. L : s.ready[p] = i
      BY <2>4, <1>3 DEF InReady
    <3>2. p > k
      <4>1. SUFFICES ASSUME p <= k PROVE FALSE
        BY <1>3
      <4>2. p \in Started(s, k)
        BY <4>1, <3>1, <2>2, <1>1, <1>3 DEF Started, Startable
      <4>3. i \in W
        BY <4>2, <3>1 DEF W, Who
      <4>4. QED
        BY <4>3, <2>1
    <3>3. p - k \in 1 .. L - k /\ n.ready[p - k] = i
      <4>1. p - k \in 1 .. L - k /\ (p - k) + k = p
        BY <3>2, <1>3
      <4>2. n.ready[p - k] = s.ready[(p - k) + k]
        BY <4>1, <1>4
      <4>3. QED
        BY <3>1, <4>1, <4>2
    <3>4. QED
      BY <3>3, <1>4 DEF InReady
  <2>5. QED
    BY <2>2, <2>3, <2>4, <1>1 DEF Sound, Waiting
<1>10. QED
  BY <1>1, <1>7, <1>8, <1>9 DEF Sound, n

LEMMA PoolFinite ==
    ASSUME NEW s
    PROVE  IsFiniteSet(InPool(s)) /\ Cardinality(InPool(s)) \in Nat
<1>1. IsFiniteSet(1 .. NItems)
  BY FS_Interval
<1>2. InPool(s) \in SUBSET (1 .. NItems)
  BY DEF InPool
<1>3. IsFiniteSet(InPool(s))
  BY <1>1, <1>2, FS_Subset
<1>4. QED
  BY <1>3, FS_CardinalityType

\* The entries k turns start: finitely many, and at most one more per turn.
LEMMA StartedCount ==
    ASSUME NEW s, s.ready \in Seq(Items), NEW k \in 0 .. Len(s.ready)
    PROVE  /\ IsFiniteSet(Started(s, k)) /\ Cardinality(Started(s, k)) \in Nat
           /\ k = 0 => Cardinality(Started(s, k)) = 0
           /\ k > 0 => Cardinality(Started(s, k)) <= Cardinality(Started(s, k - 1)) + 1
<1>1. Started(s, k) \in SUBSET (1 .. Len(s.ready)) /\ Started(s, k - 1) \in SUBSET (1 .. Len(s.ready))
  BY DEF Started, Startable
<1>2. IsFiniteSet(1 .. Len(s.ready))
  <2>1. 1 \in Int /\ Len(s.ready) \in Int
    OBVIOUS
  <2>2. QED
    BY <2>1, FS_Interval
<1>3. IsFiniteSet(Started(s, k)) /\ IsFiniteSet(Started(s, k - 1))
  BY <1>1, <1>2, FS_Subset
<1>4. Cardinality(Started(s, k)) \in Nat /\ Cardinality(Started(s, k - 1)) \in Nat
  BY <1>3, FS_CardinalityType
<1>5. k = 0 => Started(s, k) = {}
  BY <1>1 DEF Started
<1>6. k = 0 => Cardinality(Started(s, k)) = 0
  BY <1>5, FS_EmptySet
<1>7. Started(s, k) \in SUBSET (Started(s, k - 1) \cup {k})
  BY <1>1 DEF Started
<1>8. /\ IsFiniteSet(Started(s, k - 1) \cup {k})
      /\ Cardinality(Started(s, k - 1) \cup {k}) <= Cardinality(Started(s, k - 1)) + 1
  <2> DEFINE T == Started(s, k - 1)
  <2> HIDE DEF T
  <2>1. IsFiniteSet(T) /\ Cardinality(T) \in Nat
    BY <1>3, <1>4 DEF T
  <2>2. /\ IsFiniteSet(T \cup {k})
        /\ Cardinality(T \cup {k}) = IF k \in T THEN Cardinality(T) ELSE Cardinality(T) + 1
    BY <2>1, FS_AddElement
  <2>3. QED
    BY <2>1, <2>2 DEF T
<1>9. Cardinality(Started(s, k)) <= Cardinality(Started(s, k - 1) \cup {k})
  BY <1>7, <1>8, FS_Subset
<1>10. Cardinality(Started(s, k - 1) \cup {k}) \in Nat
  BY <1>8, FS_CardinalityType
<1>11. QED
  BY <1>3, <1>4, <1>6, <1>8, <1>9, <1>10

\* As many items start as entries: none is in `ready` twice.
LEMMA WhoCount ==
    ASSUME NEW s, Sound(s), NEW k \in 0 .. Len(s.ready)
    PROVE  IsFiniteSet(Who(s, k)) /\ Cardinality(Who(s, k)) = Cardinality(Started(s, k))
<1> DEFINE S == Started(s, k)
           f == [p \in S |-> s.ready[p]]
<1>1. IsFiniteSet(S)
  BY StartedCount DEF Sound, TabState
<1>2. \A p, r \in S : s.ready[p] = s.ready[r] => p = r
  BY DEF Sound, ReadyOnce, Started, Startable
<1>3. f \in Surjection(S, Who(s, k))
  BY DEF Surjection, Who
<1>4. f \in Injection(S, Who(s, k))
  BY <1>2, <1>3 DEF Surjection, Injection, IsInjective
<1>5. QED
  BY <1>1, <1>3, <1>4, FS_Surjection

\* After pump the pool is full, or nothing is left that could go.
LEMMA PumpFillsPool ==
    ASSUME NEW s, Sound(s), Cardinality(InPool(s)) <= Parallel,
           NEW k \in 0 .. Len(s.ready), Shifts(s, k)
    PROVE  PoolOK(Sent(s, k))
<1> DEFINE n == Sent(s, k)
           W == Who(s, k)
           room == Parallel - Cardinality(InPool(s))
<1>1. /\ n.ready = SubSeq(s.ready, k + 1, Len(s.ready))
      /\ \A i \in Items \ W : n.co[i] = s.co[i]
      /\ \A i \in W : n.co[i] \in {"multipart", "create", "recomplete"}
  <2>1. /\ n.ready = SubSeq(s.ready, k + 1, Len(s.ready))
        /\ \A i \in Items \ W : n.co[i] = s.co[i]
        /\ \A i \in W : Starts(s.item[i], n.co[i], n.item[i])
    BY SentFacts
  <2> HIDE DEF n, W
  <2>2. QED
    BY <2>1 DEF Starts
<1>2. \A i \in W : i \in Items /\ s.co[i] = "idle"
  BY StartedFacts
<1>3. InPool(n) = InPool(s) \cup W /\ InPool(s) \cap W = {}
  <2> HIDE DEF n, W
  <2>1. QED
    BY <1>1, <1>2 DEF InPool, Pooled
<1>4. IsFiniteSet(InPool(s)) /\ Cardinality(InPool(s)) \in Nat
  BY PoolFinite
<1>5. IsFiniteSet(W) /\ Cardinality(W) = Cardinality(Started(s, k))
  BY WhoCount
<1>6. Cardinality(InPool(s) \cap W) = 0
  BY <1>3, FS_EmptySet
<1>7. s.ready \in Seq(Items) /\ Len(s.ready) \in Nat
  BY DEF Sound, TabState
<1>8. /\ Cardinality(Started(s, k)) \in Nat
      /\ k = 0 => Cardinality(Started(s, k)) = 0
      /\ k > 0 => Cardinality(Started(s, k)) <= Cardinality(Started(s, k - 1)) + 1
  BY <1>7, StartedCount
<1>9. Cardinality(InPool(s) \cup W) = Cardinality(InPool(s)) + Cardinality(Started(s, k))
  <2>1. Cardinality(InPool(s) \cup W)
          = Cardinality(InPool(s)) + Cardinality(W) - Cardinality(InPool(s) \cap W)
    BY <1>4, <1>5, FS_Union
  <2>2. QED
    BY <2>1, <1>4, <1>5, <1>6, <1>8
<1>10. Cardinality(Started(s, k)) <= room
  <2>1. CASE k = 0
    BY <2>1, <1>4, <1>8
  <2>2. CASE k > 0
    <3>1. k - 1 \in 0 .. k - 1 /\ k - 1 \in 0 .. Len(s.ready)
      BY <2>2, <1>7
    <3>2. Cardinality(Started(s, k - 1)) < room
      BY <3>1 DEF Shifts
    <3>3. Cardinality(Started(s, k - 1)) \in Nat
      BY <3>1, <1>7, StartedCount
    <3>4. QED
      BY <2>2, <3>2, <3>3, <1>4, <1>8
  <2>3. QED
    BY <2>1, <2>2, <1>7
<1>11. k = Len(s.ready) \/ Cardinality(Started(s, k)) >= room
  BY DEF Shifts
<1>12. k = Len(s.ready) => n.ready = << >>
  <2> HIDE DEF n
  <2>1. QED
    BY <1>1, <1>7
<1>13. QED
  <2> HIDE DEF n, W
  <2>1. QED
    BY <1>3, <1>4, <1>8, <1>9, <1>10, <1>11, <1>12 DEF PoolOK, n

\* A handler that leaves `ready` alone: entries keep a row that waits, or one
\* that was cancelled; a row that begins to wait waits for the names.
LEMMA ChangeSound ==
    ASSUME NEW s, Sound(s), NEW n \in TabState, n.ready = s.ready, Steps(n),
           n.op.listed = s.op.listed \/ \A i \in Items : s.item[i].st # "queued",
           \A i \in Items :
              \/ n.item[i].st = s.item[i].st /\ n.co[i] = s.co[i]
              \/ n.item[i].st = "cancelled" /\ n.co[i] = s.co[i]
              \/ /\ s.item[i].st \notin {"queued", "cancelled"} \/ s.co[i] # "idle"
                 /\ n.item[i].st = "queued" => n.co[i] = "names"
    PROVE  Sound(n)
<1>1. \A p \in DOMAIN s.ready : s.ready[p] \in Items
  BY DEF Sound, TabState
<1>2. ReadyOnce(n)
  <2>1. ReadyOnce(s)
    BY DEF Sound
  <2>2. QED
    BY <1>1, <2>1 DEF ReadyOnce
<1>3. Waiting(n)
  <2> SUFFICES ASSUME n.op.listed, NEW i \in Items, n.item[i].st = "queued"
               PROVE  n.co[i] = "names" \/ InReady(n, i)
    BY DEF Waiting
  <2>1. Waiting(s)
    BY DEF Sound
  <2>2. CASE n.op.listed = s.op.listed
    BY <2>1, <2>2 DEF Waiting, InReady
  <2>3. CASE \A j \in Items : s.item[j].st # "queued"
    BY <2>3
  <2>4. QED
    BY <2>2, <2>3
<1>4. QED
  BY <1>2, <1>3 DEF Sound

\* The rows of T begin to wait, all others do not, and T is pushed as q.
Pushes(s, n, T, q) ==
    /\ n.op.listed = s.op.listed /\ n.ready = s.ready \o q
    /\ \A p \in DOMAIN q : q[p] \in T
    /\ \A i \in T : \E p \in DOMAIN q : q[p] = i
    /\ \A p, r \in DOMAIN q : q[p] = q[r] => p = r
    /\ \A i \in T : /\ s.item[i].st \notin {"queued", "cancelled"} \/ s.co[i] # "idle"
                    /\ n.item[i].st = "queued" /\ n.co[i] = "idle"
    /\ \A i \in Items \ T :
          \/ n.item[i].st = s.item[i].st /\ n.co[i] = s.co[i]
          \/ /\ s.item[i].st \notin {"queued", "cancelled"} \/ s.co[i] # "idle"
             /\ n.item[i].st # "queued"

LEMMA QueueSound ==
    ASSUME NEW s, Sound(s), NEW n \in TabState, Steps(n),
           NEW T \in SUBSET Items, NEW q \in Seq(Items), Pushes(s, n, T, q)
    PROVE  Sound(n)
<1>0. /\ n.op.listed = s.op.listed /\ n.ready = s.ready \o q
      /\ \A p \in DOMAIN q : q[p] \in T
      /\ \A i \in T : \E p \in DOMAIN q : q[p] = i
      /\ \A p, r \in DOMAIN q : q[p] = q[r] => p = r
      /\ \A i \in T : /\ s.item[i].st \notin {"queued", "cancelled"} \/ s.co[i] # "idle"
                      /\ n.item[i].st = "queued" /\ n.co[i] = "idle"
      /\ \A i \in Items \ T :
            \/ n.item[i].st = s.item[i].st /\ n.co[i] = s.co[i]
            \/ /\ s.item[i].st \notin {"queued", "cancelled"} \/ s.co[i] # "idle"
               /\ n.item[i].st # "queued"
  BY DEF Pushes
<1> USE <1>0
<1> DEFINE L == Len(s.ready)
           M == Len(q)
<1>1. /\ s.ready \in Seq(Items) /\ L \in Nat /\ M \in Nat
      /\ DOMAIN s.ready = 1 .. L /\ DOMAIN q = 1 .. M /\ DOMAIN n.ready = 1 .. L + M
  BY DEF Sound, TabState
<1>2. /\ \A p \in 1 .. L : p \in 1 .. L + M /\ n.ready[p] = s.ready[p]
      /\ \A p \in 1 .. M : L + p \in 1 .. L + M /\ n.ready[L + p] = q[p]
  BY <1>1
<1>3. \A p \in 1 .. L + M : p \in 1 .. L \/ \E r \in 1 .. M : p = L + r
  <2> SUFFICES ASSUME NEW p \in 1 .. L + M, p \notin 1 .. L
               PROVE  \E r \in 1 .. M : p = L + r
    OBVIOUS
  <2>1. p - L \in 1 .. M /\ p = L + (p - L)
    BY <1>1
  <2>2. QED
    BY <2>1
<1>4. \A p \in 1 .. L : /\ s.ready[p] \in Items
                        /\ s.item[s.ready[p]].st \in {"queued", "cancelled"}
                        /\ s.co[s.ready[p]] = "idle"
  <2>1. ReadyOnce(s)
    BY DEF Sound
  <2>2. \A p \in 1 .. L : s.ready[p] \in Items
    BY <1>1
  <2>3. QED
    BY <1>1, <2>1, <2>2 DEF ReadyOnce
<1>5. \A p, r \in 1 .. L : s.ready[p] = s.ready[r] => p = r
  BY <1>1 DEF Sound, ReadyOnce
<1>6. \A p \in 1 .. L : s.ready[p] \notin T
  BY <1>4
<1> HIDE DEF L, M
<1>7. ReadyOnce(n)
  <2>1. ASSUME NEW p \in 1 .. L + M
        PROVE  n.item[n.ready[p]].st \in {"queued", "cancelled"} /\ n.co[n.ready[p]] = "idle"
    <3>1. CASE p \in 1 .. L
      <4> DEFINE i == s.ready[p]
      <4>1. n.ready[p] = i
        BY <3>1, <1>2
      <4>2. i \in Items \ T /\ s.item[i].st \in {"queued", "cancelled"} /\ s.co[i] = "idle"
        BY <3>1, <1>4, <1>6
      <4> HIDE DEF i
      <4>3. QED
        BY <4>1, <4>2
    <3>2. CASE \E r \in 1 .. M : p = L + r
      <4>1. PICK r \in 1 .. M : p = L + r
        BY <3>2
      <4>2. n.ready[p] = q[r]
        BY <4>1, <1>2
      <4>3. q[r] \in T
        BY <4>1, <1>1
      <4>4. QED
        BY <4>2, <4>3
    <3>3. QED
      BY <3>1, <3>2, <1>3
  <2>2. ASSUME NEW p \in 1 .. L + M, NEW r \in 1 .. L + M, n.ready[p] = n.ready[r]
        PROVE  p = r
    <3>0. /\ \A m \in 1 .. L : n.ready[m] = s.ready[m] /\ n.ready[m] \notin T
          /\ \A m \in 1 .. M : n.ready[L + m] = q[m] /\ n.ready[L + m] \in T
      <4>1. \A m \in 1 .. M : q[m] \in T
        BY <1>1
      <4>2. QED
        BY <4>1, <1>2, <1>6
    <3>1. CASE p \in 1 .. L /\ r \in 1 .. L
      <4>1. s.ready[p] = s.ready[r]
        BY <3>0, <3>1, <2>2
      <4>2. QED
        BY <4>1, <3>1, <1>5
    <3>2. CASE p \in 1 .. L /\ \E m \in 1 .. M : r = L + m
      <4>1. n.ready[p] \notin T
        BY <3>0, <3>2
      <4>2. n.ready[r] \in T
        BY <3>0, <3>2
      <4>3. QED
        BY <4>1, <4>2, <2>2
    <3>3. CASE r \in 1 .. L /\ \E m \in 1 .. M : p = L + m
      <4>1. n.ready[r] \notin T
        BY <3>0, <3>3
      <4>2. n.ready[p] \in T
        BY <3>0, <3>3
      <4>3. QED
        BY <4>1, <4>2, <2>2
    <3>4. CASE (\E m \in 1 .. M : p = L + m) /\ (\E m \in 1 .. M : r = L + m)
      <4>1. PICK a \in 1 .. M : p = L + a
        BY <3>4
      <4>2. PICK c \in 1 .. M : r = L + c
        BY <3>4
      <4>3. q[a] = q[c]
        BY <4>1, <4>2, <2>2, <3>0
      <4>4. a = c
        BY <4>3, <1>1
      <4>5. QED
        BY <4>1, <4>2, <4>4
    <3>5. QED
      BY <3>1, <3>2, <3>3, <3>4, <1>3
  <2>3. QED
    BY <2>1, <2>2, <1>1 DEF ReadyOnce
<1>8. Waiting(n)
  <2> SUFFICES ASSUME n.op.listed, NEW i \in Items, n.item[i].st = "queued"
               PROVE  n.co[i] = "names" \/ InReady(n, i)
    BY DEF Waiting
  <2>1. CASE i \in T
    <3>1. PICK p \in 1 .. M : q[p] = i
      BY <2>1, <1>1
    <3>2. QED
      BY <3>1, <1>1, <1>2 DEF InReady
  <2>2. CASE i \notin T
    <3>1. s.item[i].st = "queued" /\ n.co[i] = s.co[i]
      BY <2>2
    <3>2. s.co[i] = "names" \/ InReady(s, i)
      BY <3>1 DEF Sound, Waiting
    <3>3. CASE InReady(s, i)
      BY <3>3, <1>1, <1>2 DEF InReady
    <3>4. QED
      BY <3>1, <3>2, <3>3
  <2>3. QED
    BY <2>1, <2>2
<1>9. QED
  BY <1>7, <1>8 DEF Sound

\* Leaving the pool makes room; nothing but pump takes it.
LEMMA PoolShrinks ==
    ASSUME NEW s, NEW n, \A i \in Items : n.co[i] \in Pooled => s.co[i] \in Pooled
    PROVE  Cardinality(InPool(n)) <= Cardinality(InPool(s))
<1>1. InPool(n) \in SUBSET InPool(s)
  BY DEF InPool
<1>2. QED
  BY <1>1, PoolFinite, FS_Subset

LEMMA PoolStays ==
    ASSUME NEW s, PoolOK(s), NEW n, n.ready = s.ready,
           \A i \in Items : n.co[i] \in Pooled <=> s.co[i] \in Pooled
    PROVE  PoolOK(n)
<1>1. InPool(n) = InPool(s)
  BY DEF InPool
<1>2. QED
  BY <1>1 DEF PoolOK

\* settle ends an operation only when no row is at work and none asks.
LEMMA SettleOver ==
    ASSUME NEW s \in TabState,
           s.op.listed = TRUE /\ s.op.ended = TRUE =>
              \A i \in Items : s.item[i].shown = TRUE => s.item[i].st # "needs-decision"
    PROVE  Over(Settle(s))
<1> DEFINE shown == {i \in Items : s.item[i].shown}
           states == {s.item[i].st : i \in shown}
           done == \E i \in shown : s.item[i].st = "done" /\ Kind[i] # "dir"
           n == Settle(s)
<1>1. /\ n.item = s.item /\ n.walking = s.walking /\ n.op.listed = s.op.listed
      /\ s.walking \in BOOLEAN /\ s.op \in OpRecord
  BY SettleFacts DEF TabState
<1>2. n.op = Settled(s.op, states, done, s.walking, FALSE)
  BY DEF Settle, TabState
<1> SUFFICES ASSUME s.op.listed = TRUE, n.op.ended = TRUE
             PROVE  /\ s.walking = FALSE
                    /\ \A i \in Items : s.item[i].shown = TRUE =>
                          s.item[i].st \notin Active \cup {"needs-decision"}
  BY <1>1 DEF Over
<1>3. /\ s.walking = FALSE
      /\ states \cap Active = {}
      /\ "needs-decision" \in states => s.op.ended
  <2> DEFINE o == s.op
             w == s.walking
  <2> HIDE DEF states, done, n, o, w
  <2>1. o \in OpRecord /\ w \in BOOLEAN /\ o.listed /\ Settled(o, states, done, w, FALSE).ended
    BY <1>1, <1>2 DEF o, w
  <2>2. w = FALSE /\ states \cap Active = {} /\ ("needs-decision" \in states => o.ended)
    BY <2>1, SettledEnded
  <2>3. QED
    BY <2>2 DEF o, w
<1>4. ASSUME NEW i \in Items, s.item[i].shown = TRUE
      PROVE  s.item[i].st \notin Active \cup {"needs-decision"}
  <2>1. s.item[i].st \in states
    BY <1>4
  <2> HIDE DEF states
  <2>2. s.op.ended \in BOOLEAN
    BY <1>1 DEF OpRecord
  <2>3. QED
    BY <2>1, <2>2, <1>3, <1>4
<1>5. QED
  BY <1>3, <1>4

----------------------------------------------------------------------------
(* How a handler ends *)

LEMMA NowIs ==
    ASSUME NEW s \in TabState, Becomes(s)
    PROVE  Now' = s
<1>1. /\ op' = s.op /\ walking' = s.walking /\ item' = s.item
      /\ co' = s.co /\ net' = s.net /\ ready' = s.ready
  BY DEF Becomes
<1>2. Now' = [op |-> s.op, walking |-> s.walking, item |-> s.item, co |-> s.co, net |-> s.net,
              ready |-> s.ready]
  BY <1>1 DEF Now
<1>3. QED
  BY <1>2 DEF TabState

\* What becomes of row i under a handler that leaves r, c, n and may pump: it
\* is that, or it has started.
Follows(i, r, c, n) ==
    \/ item'[i] = r /\ co'[i] = c /\ net'[i] = n
    \/ /\ c = "idle" /\ n = "idle" /\ Kind[i] # "dir"
       /\ Starts(r, co'[i], item'[i]) /\ net'[i] = "sent"

\* Both ends of a handler.
Ends(s) == \/ Becomes(s) /\ PoolOK(s)
           \/ Pump(s) /\ Cardinality(InPool(s)) <= Parallel

LEMMA EndsFacts ==
    ASSUME NEW s, Sound(s), Ends(s)
    PROVE  /\ Sound(Now') /\ PoolOK(Now')
           /\ op' = s.op /\ walking' = s.walking
           /\ \A i \in Items : Follows(i, s.item[i], s.co[i], s.net[i])
<1>0. s \in TabState
  BY DEF Sound
<1>1. CASE Becomes(s) /\ PoolOK(s)
  <2>1. Now' = s
    BY <1>0, <1>1, NowIs
  <2>2. Sound(Now') /\ PoolOK(Now')
    BY <2>1, <1>1
  <2>3. op' = s.op /\ walking' = s.walking /\ item' = s.item /\ co' = s.co /\ net' = s.net
    BY <1>1 DEF Becomes
  <2>4. QED
    BY <2>2, <2>3 DEF Follows
<1>2. CASE Pump(s) /\ Cardinality(InPool(s)) <= Parallel
  <2>1. PICK k \in 0 .. Len(s.ready) : Shifts(s, k) /\ Becomes(Sent(s, k))
    BY <1>2 DEF Pump
  <2> DEFINE n == Sent(s, k)
  <2>2. Sound(n) /\ PoolOK(n)
    BY <1>2, <2>1, SentSound, PumpFillsPool
  <2>3. Now' = n
    BY <2>1, <2>2, NowIs DEF Sound
  <2>4. Sound(Now') /\ PoolOK(Now')
    BY <2>2, <2>3
  <2>5. op' = n.op /\ walking' = n.walking /\ item' = n.item /\ co' = n.co /\ net' = n.net
    BY <2>1 DEF Becomes
  <2>6. /\ n.op = s.op /\ n.walking = s.walking
        /\ \A i \in Items \ Who(s, k) :
              n.item[i] = s.item[i] /\ n.co[i] = s.co[i] /\ n.net[i] = s.net[i]
        /\ \A i \in Who(s, k) :
              Starts(s.item[i], n.co[i], n.item[i]) /\ n.net[i] = "sent"
    <3>1. Sound(s) /\ k \in 0 .. Len(s.ready)
      BY <2>1
    <3>2. n.op = s.op /\ n.walking = s.walking
      BY <3>1, SentFacts
    <3>3. ASSUME NEW i \in Items \ Who(s, k)
          PROVE  n.item[i] = s.item[i] /\ n.co[i] = s.co[i] /\ n.net[i] = s.net[i]
      BY <3>1, SentFacts
    <3>4. ASSUME NEW i \in Who(s, k)
          PROVE  Starts(s.item[i], n.co[i], n.item[i]) /\ n.net[i] = "sent"
      BY <3>1, SentFacts
    <3>5. QED
      BY <3>2, <3>3, <3>4
  <2>7. \A i \in Who(s, k) : s.co[i] = "idle" /\ s.net[i] = "idle" /\ Kind[i] # "dir"
    BY StartedFacts
  <2> HIDE DEF n
  <2>8. \A i \in Items : Follows(i, s.item[i], s.co[i], s.net[i])
    <3> SUFFICES ASSUME NEW i \in Items
                 PROVE  Follows(i, s.item[i], s.co[i], s.net[i])
      OBVIOUS
    <3>1. CASE i \in Who(s, k)
      BY <2>5, <2>6, <2>7, <3>1 DEF Follows
    <3>2. CASE i \notin Who(s, k)
      BY <2>5, <2>6, <3>2 DEF Follows
    <3>3. QED
      BY <3>1, <3>2
  <2>9. QED
    BY <2>4, <2>5, <2>6, <2>8
<1>3. QED
  BY <1>1, <1>2 DEF Ends

\* A row that starts keeps what holds of it.
LEMMA StartKeeps ==
    ASSUME NEW i, NEW r \in ItemRecord, NEW c, NEW x, NEW at, NEW name, NEW t, NEW m, NEW who,
           NEW u, NEW gone,
           Starts(r, c, x), Kind[i] # "dir",
           ItemInv(i, r, "idle", "idle", at, name, t, m, who, u, gone)
    PROVE  ItemInv(i, x, c, "sent", at, name, t, m, who, u, gone)
<1>1. /\ x.st \in {"uploading", "finishing"} /\ x.dec = r.dec /\ x.again = r.again
      /\ x.conflict = r.conflict
  BY StartsFacts
<1>2. r.st = "queued" /\ c \in {"multipart", "create", "recomplete"}
  BY DEF Starts
<1>3. UnlistedAt(x, c, Kind[i], at, name, t, gone)
  BY <1>2 DEF ItemInv, UnlistedAt
<1>4. ReplacingAt(i, x, c, "sent", name, t, who)
  BY <1>1 DEF ItemInv, ReplacingAt
<1>5. CopyingAt(x, c, "sent", Kind[i], t, m, u, gone)
  <2>1. FreshAt(r, "idle", "idle")
    BY <1>2 DEF FreshAt
  <2>2. QED
    BY <1>1, <1>2, <2>1 DEF ItemInv, CopyingAt
<1>6. QED
  BY <1>3, <1>4, <1>5 DEF ItemInv

\* What a handler has to leave behind.
LEMMA HandlerLeaves ==
    ASSUME RestTyped', closed' = FALSE,
           NEW s, Sound(s), Ends(s), Over(s), s.op # NoOp,
           walk' # 0 => \A i \in Items : i >= walk' => s.item[i] = NoItemRecord,
           \A i \in Items : ItemInv(i, s.item[i], s.co[i], s.net[i], listing'.at, listing'.names[i],
                                    taken'[i], copies'[i], asked', used', closed')
    PROVE  Inv'
<1>1. /\ Sound(Now') /\ PoolOK(Now') /\ op' = s.op /\ walking' = s.walking
      /\ \A i \in Items : Follows(i, s.item[i], s.co[i], s.net[i])
  BY EndsFacts
<1>2. s \in TabState /\ s.op \in OpRecord /\ \A i \in Items : s.item[i] \in ItemRecord
  BY DEF Sound, TabState
<1>4. Over(Now')
  <2> SUFFICES ASSUME s.op.listed = TRUE, s.op.ended = TRUE
               PROVE  /\ walking' = FALSE
                      /\ \A i \in Items : item'[i].shown = TRUE =>
                            item'[i].st \notin Active \cup {"needs-decision"}
    BY <1>1 DEF Over, Now
  <2>1. s.walking = FALSE /\ \A i \in Items : s.item[i].shown = TRUE =>
                                s.item[i].st \notin Active \cup {"needs-decision"}
    BY DEF Over
  <2>2. ASSUME NEW i \in Items, item'[i].shown = TRUE
        PROVE  item'[i].st \notin Active \cup {"needs-decision"}
    <3>1. CASE item'[i] = s.item[i]
      BY <2>1, <2>2, <3>1
    <3>2. CASE Starts(s.item[i], co'[i], item'[i])
      <4>1. item'[i].shown = s.item[i].shown
        BY <1>2, <3>2, StartsFacts
      <4>2. s.item[i].st = "queued"
        BY <3>2 DEF Starts
      <4>3. QED
        BY <2>1, <2>2, <4>1, <4>2 DEF Active
    <3>3. QED
      BY <1>1, <3>1, <3>2 DEF Follows
  <2>3. QED
    BY <1>1, <2>1, <2>2
<1>7. Untouched'
  <2>1. ASSUME NEW i \in Items, s.item[i] = NoItemRecord
        PROVE  item'[i] = NoItemRecord
    <3>1. s.item[i].st # "queued"
      BY <2>1 DEF NoItemRecord
    <3>2. Follows(i, s.item[i], s.co[i], s.net[i])
      BY <1>1
    <3>3. QED
      BY <2>1, <3>1, <3>2 DEF Follows, Starts
  <2>2. walk' # 0 => \A i \in Items : i >= walk' => item'[i] = NoItemRecord
    BY <2>1
  <2>3. QED
    BY <1>1, <2>2 DEF Untouched
<1>8. ItemsInv'
  <2> SUFFICES ASSUME NEW i \in Items
               PROVE  ItemInv(i, item'[i], co'[i], net'[i], listing'.at, listing'.names[i],
                              taken'[i], copies'[i], asked', used', closed')
    BY DEF ItemsInv
  <2>1. Follows(i, s.item[i], s.co[i], s.net[i])
    BY <1>1
  <2>2. CASE item'[i] = s.item[i] /\ co'[i] = s.co[i] /\ net'[i] = s.net[i]
    BY <2>2
  <2>3. CASE /\ s.co[i] = "idle" /\ s.net[i] = "idle" /\ Kind[i] # "dir"
             /\ Starts(s.item[i], co'[i], item'[i]) /\ net'[i] = "sent"
    <3>1. ItemInv(i, s.item[i], "idle", "idle", listing'.at, listing'.names[i],
                  taken'[i], copies'[i], asked', used', closed')
      BY <2>3
    <3>2. QED
      BY <1>2, <2>3, <3>1, StartKeeps
  <2>4. QED
    BY <2>1, <2>2, <2>3 DEF Follows
<1>9. QED
  BY <1>1, <1>4, <1>7, <1>8 DEF Inv

\* The same for a handler of a tab at work that finds no new row.
LEMMA HandlerEnds ==
    ASSUME Inv, op # NoOp, RestTyped', closed' = closed,
           NEW s, Sound(s), Ends(s), Over(s),
           s.op.listed = op.listed, op.listed = FALSE => s.op = op,
           walk' \in {0, walk}, \A i \in Items : item[i].st = "none" => s.item[i] = item[i],
           \A i \in Items : ItemInv(i, s.item[i], s.co[i], s.net[i], listing'.at, listing'.names[i],
                                    taken'[i], copies'[i], asked', used', closed')
    PROVE  Inv'
<1>1. closed' = FALSE
  BY DEF Inv, Untouched, RestTyped
<1>2. op \in OpRecord /\ s.op \in OpRecord
  BY DEF Inv, Sound, TabState, Now
<1>3. s.op # NoOp
  BY <1>2 DEF OpRecord, NoOp
<1>4. ASSUME NEW i \in Items, item[i] = NoItemRecord
      PROVE  s.item[i] = NoItemRecord
  <2>1. item[i].st = "none"
    BY <1>4 DEF NoItemRecord
  <2>2. QED
    BY <1>4, <2>1
<1>5. walk' # 0 => \A i \in Items : i >= walk' => s.item[i] = NoItemRecord
  BY <1>4 DEF Inv, Untouched
<1>6. QED
  BY <1>1, <1>3, <1>5, HandlerLeaves

\* A handler that settles, and may pump.
LEMMA HandlerSettles ==
    ASSUME Inv, op # NoOp, RestTyped', closed' = closed,
           NEW x, Sound(x),
           \/ Becomes(Settle(x)) /\ PoolOK(x)
           \/ Pump(Settle(x)) /\ Cardinality(InPool(x)) <= Parallel,
           x.op.listed = op.listed, op.listed = FALSE => x.op = op,
           x.op.listed = TRUE /\ x.op.ended = TRUE =>
              \A i \in Items : x.item[i].shown = TRUE => x.item[i].st # "needs-decision",
           walk' \in {0, walk}, \A i \in Items : item[i].st = "none" => x.item[i] = item[i],
           \A i \in Items : ItemInv(i, x.item[i], x.co[i], x.net[i], listing'.at, listing'.names[i],
                                    taken'[i], copies'[i], asked', used', closed')
    PROVE  Inv'
<1> DEFINE s == Settle(x)
<1>1. x \in TabState
  BY DEF Sound
<1>2. /\ s.item = x.item /\ s.co = x.co /\ s.net = x.net /\ s.ready = x.ready
      /\ s.op.listed = x.op.listed /\ (x.op.listed = FALSE => s.op = x.op)
  BY <1>1, SettleFacts
<1>3. Sound(s)
  BY SettleSound
<1>4. InPool(s) = InPool(x)
  BY <1>2 DEF InPool
<1>5. Ends(s)
  BY <1>2, <1>4 DEF Ends, PoolOK
<1>6. Over(s)
  BY <1>1, SettleOver
<1> HIDE DEF s
<1>7. QED
  BY <1>2, <1>3, <1>5, <1>6, HandlerEnds

----------------------------------------------------------------------------
(* Handlers that change one row *)

LEMMA RowFacts ==
    ASSUME Inv, NEW i \in Items
    PROVE  /\ item[i] \in ItemRecord /\ co[i] \in Await /\ net[i] \in Answer
           /\ InStep(item[i], co[i], net[i], Kind[i])
           /\ ItemInv(i, item[i], co[i], net[i], listing.at, listing.names[i], taken[i],
                      copies[i], asked, used, closed)
           /\ Kind[i] \in {"small", "big", "dir"}
<1>1. item[i] \in ItemRecord /\ co[i] \in Await /\ net[i] \in Answer
  BY DEF Inv, Sound, TabState, Now
<1>2. InStep(item[i], co[i], net[i], Kind[i])
  BY DEF Inv, Sound, Steps, Now
<1>3. QED
  BY <1>1, <1>2 DEF Inv, ItemsInv

LEMMA NowFacts ==
    ASSUME Inv
    PROVE  /\ Now \in TabState /\ Sound(Now) /\ PoolOK(Now) /\ RestTyped
           /\ op \in OpRecord /\ walking \in BOOLEAN /\ item \in [Items -> ItemRecord]
           /\ co \in [Items -> Await] /\ net \in [Items -> Answer] /\ ready \in Seq(Items)
           /\ Cardinality(InPool(Now)) <= Parallel
<1>1. Now \in TabState /\ Sound(Now) /\ PoolOK(Now) /\ RestTyped
  BY DEF Inv, Sound
<1>2. QED
  BY <1>1 DEF TabState, Now, PoolOK

\* A row that is there, or a coroutine that stands anywhere, is of a tab at work.
LEMMA AtWork ==
    ASSUME Inv, NEW i \in Items, item[i].st # "none" \/ co[i] # "idle"
    PROVE  op # NoOp /\ closed = FALSE
<1>1. op # NoOp
  BY DEF Inv, Untouched, NoItems, AllIdle, NoItemRecord
<1>2. QED
  BY <1>1 DEF Inv, Untouched, RestTyped

\* More was asked for, tried again or lost since.
LEMMA ItemInvGrows ==
    ASSUME NEW i, NEW r, NEW c, NEW n, NEW at, NEW name, NEW t, NEW m \in Nat,
           NEW who, NEW u \in [retries : 0 .. MaxRetries, faults : 0 .. MaxFaults],
           NEW who2, NEW u2 \in [retries : 0 .. MaxRetries, faults : 0 .. MaxFaults], NEW gone,
           who \subseteq who2, u.retries <= u2.retries, u.faults <= u2.faults,
           ItemInv(i, r, c, n, at, name, t, m, who, u, gone)
    PROVE  ItemInv(i, r, c, n, at, name, t, m, who2, u2, gone)
<1>1. UnlistedAt(r, c, Kind[i], at, name, t, gone)
  BY DEF ItemInv
<1>2. ReplacingAt(i, r, c, n, name, t, who2)
  BY DEF ItemInv, ReplacingAt
<1>3. CopyingAt(r, c, n, Kind[i], t, m, u2, gone)
  BY DEF ItemInv, CopyingAt
<1>4. QED
  BY <1>1, <1>2, <1>3 DEF ItemInv

\* The tab with row i changed to r, its coroutine at c, waiting for n.
Row(i, r, c, n) ==
    [op |-> op, walking |-> walking, item |-> [item EXCEPT ![i] = r],
     co |-> [co EXCEPT ![i] = c], net |-> [net EXCEPT ![i] = n], ready |-> ready]

\* Row i is not one that waits in `ready`, or it stays so.
Free(i, r, c) ==
    \/ /\ item[i].st \notin {"queued", "cancelled"} \/ co[i] # "idle"
       /\ r.st = "queued" => c = "names"
    \/ r.st \in {item[i].st, "cancelled"} /\ c = co[i]

LEMMA RowSound ==
    ASSUME Inv, NEW i \in Items, NEW r \in ItemRecord, NEW c \in Await, NEW n \in Answer,
           InStep(r, c, n, Kind[i]), Free(i, r, c)
    PROVE  LET s == Row(i, r, c, n)
           IN  /\ Sound(s)
               /\ s.item[i] = r /\ s.co[i] = c /\ s.net[i] = n
               /\ \A j \in Items \ {i} : s.item[j] = item[j] /\ s.co[j] = co[j] /\ s.net[j] = net[j]
               /\ s.op = op /\ s.walking = walking /\ s.ready = ready
<1> DEFINE s == Row(i, r, c, n)
<1>1. /\ op \in OpRecord /\ walking \in BOOLEAN /\ item \in [Items -> ItemRecord]
      /\ co \in [Items -> Await] /\ net \in [Items -> Answer] /\ ready \in Seq(Items)
      /\ Sound(Now)
  BY NowFacts
<1>2. s \in TabState
  BY <1>1 DEF Row, TabState
<1>3. /\ s.item[i] = r /\ s.co[i] = c /\ s.net[i] = n
      /\ \A j \in Items \ {i} : s.item[j] = item[j] /\ s.co[j] = co[j] /\ s.net[j] = net[j]
      /\ s.op = op /\ s.walking = walking /\ s.ready = ready
  BY <1>1 DEF Row
<1> HIDE DEF s
<1>4. Now.op = op /\ Now.item = item /\ Now.co = co /\ Now.net = net /\ Now.ready = ready
  BY DEF Now
<1>5. Steps(s)
  <2> SUFFICES ASSUME NEW j \in Items
               PROVE  InStep(s.item[j], s.co[j], s.net[j], Kind[j])
    BY DEF Steps
  <2>1. CASE j = i
    BY <1>3, <2>1
  <2>2. CASE j # i
    BY <1>3, <2>2, RowFacts
  <2>3. QED
    BY <2>1, <2>2
<1>6. \A j \in Items :
        \/ s.item[j].st = Now.item[j].st /\ s.co[j] = Now.co[j]
        \/ s.item[j].st = "cancelled" /\ s.co[j] = Now.co[j]
        \/ /\ Now.item[j].st \notin {"queued", "cancelled"} \/ Now.co[j] # "idle"
           /\ s.item[j].st = "queued" => s.co[j] = "names"
  <2> SUFFICES ASSUME NEW j \in Items
               PROVE  \/ s.item[j].st = item[j].st /\ s.co[j] = co[j]
                      \/ s.item[j].st = "cancelled" /\ s.co[j] = co[j]
                      \/ /\ item[j].st \notin {"queued", "cancelled"} \/ co[j] # "idle"
                         /\ s.item[j].st = "queued" => s.co[j] = "names"
    BY <1>4
  <2>1. CASE j = i
    BY <1>3, <2>1 DEF Free
  <2>2. CASE j # i
    BY <1>3, <2>2
  <2>3. QED
    BY <2>1, <2>2
<1>7. Sound(s)
  <2> DEFINE o == Now
  <2>1. s.ready = o.ready /\ s.op.listed = o.op.listed /\ Sound(o)
    BY <1>1, <1>3, <1>4
  <2> HIDE DEF o
  <2>2. QED
    BY <1>2, <1>5, <1>6, <2>1, ChangeSound DEF o
<1>8. QED
  BY <1>3, <1>7 DEF s

Resting(r) == r.st \notin Active \cup {"needs-decision"}

\* A handler that changes one row, settles, and may pump.
LEMMA RowEnds ==
    ASSUME Inv, NEW i \in Items, item[i].st # "none",
           NEW r \in ItemRecord, NEW c \in Await, NEW n \in Answer,
           InStep(r, c, n, Kind[i]), Free(i, r, c), c \in Pooled => co[i] \in Pooled,
           \/ /\ Becomes(Row(i, r, c, n)) /\ (co[i] \in Pooled => c \in Pooled)
              /\ r.shown = item[i].shown /\ (Resting(item[i]) => Resting(r))
           \/ /\ Becomes(Settle(Row(i, r, c, n))) /\ (co[i] \in Pooled => c \in Pooled)
              /\ r.st = "needs-decision" => r.shown = item[i].shown /\ ~Resting(item[i])
           \/ /\ Pump(Settle(Row(i, r, c, n)))
              /\ r.st = "needs-decision" => r.shown = item[i].shown /\ ~Resting(item[i]),
           RestTyped', UNCHANGED <<walk, listing, closed, taken, copies>>,
           asked \subseteq asked', used.retries <= used'.retries, used.faults <= used'.faults,
           ItemInv(i, r, c, n, listing.at, listing.names[i], taken[i], copies[i], asked', used', closed)
    PROVE  Inv'
<1> DEFINE x == Row(i, r, c, n)
<1>1. /\ Sound(x)
      /\ x.item[i] = r /\ x.co[i] = c /\ x.net[i] = n
      /\ \A j \in Items \ {i} : x.item[j] = item[j] /\ x.co[j] = co[j] /\ x.net[j] = net[j]
      /\ x.op = op /\ x.walking = walking /\ x.ready = ready
  BY RowSound
<1>2. op # NoOp /\ closed = FALSE
  BY AtWork
<1>3. /\ PoolOK(Now) /\ Cardinality(InPool(Now)) <= Parallel /\ Cardinality(InPool(Now)) \in Nat
      /\ RestTyped /\ op \in OpRecord /\ Now.co = co /\ Now.ready = ready
  BY NowFacts, PoolFinite DEF Now
<1>4. Over(Now)
  BY DEF Inv
<1>5. \A j \in Items : ItemInv(j, x.item[j], x.co[j], x.net[j], listing'.at, listing'.names[j],
                               taken'[j], copies'[j], asked', used', closed')
  <2> SUFFICES ASSUME NEW j \in Items
               PROVE  ItemInv(j, x.item[j], x.co[j], x.net[j], listing.at, listing.names[j],
                              taken[j], copies[j], asked', used', closed)
    OBVIOUS
  <2> HIDE DEF x
  <2>1. CASE j = i
    BY <1>1, <2>1
  <2>2. CASE j # i
    <3>1. /\ copies[j] \in Nat /\ used \in [retries : 0 .. MaxRetries, faults : 0 .. MaxFaults]
          /\ used' \in [retries : 0 .. MaxRetries, faults : 0 .. MaxFaults]
      BY <1>3 DEF RestTyped
    <3>2. ItemInv(j, item[j], co[j], net[j], listing.at, listing.names[j], taken[j], copies[j],
                  asked, used, closed)
      BY RowFacts
    <3>3. ItemInv(j, item[j], co[j], net[j], listing.at, listing.names[j], taken[j], copies[j],
                  asked', used', closed)
      BY <3>1, <3>2, ItemInvGrows
    <3>4. QED
      BY <1>1, <2>2, <3>3
  <2>3. QED
    BY <2>1, <2>2
<1> HIDE DEF x
<1>6. x \in TabState
  BY <1>1 DEF Sound
<1>7. \A j \in Items : item[j].st = "none" => x.item[j] = item[j]
  BY <1>1
<1>8. Cardinality(InPool(x)) <= Parallel
  <2>1. Cardinality(InPool(x)) <= Cardinality(InPool(Now))
    <3>1. \A j \in Items : x.co[j] \in Pooled => Now.co[j] \in Pooled
      BY <1>1, <1>3
    <3>2. QED
      BY <3>1, PoolShrinks
  <2>2. Cardinality(InPool(x)) \in Nat
    BY PoolFinite
  <2>3. QED
    BY <2>1, <2>2, <1>3
<1>9. (co[i] \in Pooled => c \in Pooled) => PoolOK(x)
  <2> SUFFICES ASSUME co[i] \in Pooled => c \in Pooled
               PROVE  PoolOK(x)
    OBVIOUS
  <2>1. \A j \in Items : x.co[j] \in Pooled <=> Now.co[j] \in Pooled
    BY <1>1, <1>3
  <2>2. x.ready = Now.ready
    BY <1>1, <1>3
  <2>3. QED
    BY <1>3, <2>1, <2>2, PoolStays
<1>10. op.listed = TRUE /\ op.ended = TRUE =>
          walking = FALSE /\ \A j \in Items : item[j].shown = TRUE => Resting(item[j])
  BY <1>4 DEF Over, Now, Resting
<1>11. CASE /\ Becomes(x) /\ (co[i] \in Pooled => c \in Pooled)
            /\ r.shown = item[i].shown /\ (Resting(item[i]) => Resting(r))
  <2>1. Ends(x)
    BY <1>9, <1>11 DEF Ends
  <2>2. \A j \in Items : x.item[j].shown = item[j].shown /\ (Resting(item[j]) => Resting(x.item[j]))
    BY <1>1, <1>11
  <2>3. Over(x)
    BY <1>1, <1>10, <2>2 DEF Over, Resting
  <2>4. QED
    BY <1>1, <1>2, <1>5, <1>7, <2>1, <2>3, HandlerEnds
<1>12. CASE /\ (Becomes(Settle(x)) /\ (co[i] \in Pooled => c \in Pooled)) \/ Pump(Settle(x))
            /\ r.st = "needs-decision" => r.shown = item[i].shown /\ ~Resting(item[i])
  <2>1. op.listed = TRUE /\ op.ended = TRUE =>
            \A j \in Items : x.item[j].shown = TRUE => x.item[j].st # "needs-decision"
    BY <1>1, <1>10, <1>12 DEF Resting
  <2>2. \/ Becomes(Settle(x)) /\ PoolOK(x)
        \/ Pump(Settle(x)) /\ Cardinality(InPool(x)) <= Parallel
    BY <1>8, <1>9, <1>12
  <2>3. QED
    BY <1>1, <1>2, <1>5, <1>7, <2>1, <2>2, HandlerSettles
<1>13. QED
  BY <1>11, <1>12 DEF x

\* A row being sent belongs to a file, and it is sending or was cancelled.
LEMMA PooledRow ==
    ASSUME Inv, NEW i \in Items, co[i] \in Pooled
    PROVE  /\ item[i].st \in {"uploading", "finishing", "cancelled"} /\ co[i] # "idle"
           /\ Kind[i] # "dir" /\ listing.at \notin {"unasked", "asked"} /\ closed = FALSE
<1>1. /\ item[i] \in ItemRecord /\ co[i] # "idle" /\ co[i] # "names"
      /\ InStep(item[i], co[i], net[i], Kind[i])
      /\ UnlistedAt(item[i], co[i], Kind[i], listing.at, listing.names[i], taken[i], closed)
  BY RowFacts DEF ItemInv, Pooled
<1>2. item[i].st \in ItemState /\ co[i] \notin Making
  BY <1>1 DEF ItemRecord, Pooled, Making
<1>3. item[i].st \in {"uploading", "finishing", "cancelled"} /\ Kind[i] # "dir"
  BY <1>1, <1>2 DEF InStep, ItemState, Active
<1>4. closed = FALSE
  BY <1>1, AtWork
<1>5. QED
  BY <1>1, <1>3, <1>4 DEF UnlistedAt

LEMMA NowRow ==
    ASSUME NEW i, NEW r
    PROVE  [Now EXCEPT !.item[i] = r]
             = [op |-> op, walking |-> walking, item |-> [item EXCEPT ![i] = r],
                co |-> co, net |-> net, ready |-> ready]
BY DEF Now

\* Row i in three assignments.
LEMMA RowOf ==
    ASSUME NEW i, NEW r, NEW c, NEW n
    PROVE  [[[Now EXCEPT !.item[i] = r] EXCEPT !.co[i] = c] EXCEPT !.net[i] = n] = Row(i, r, c, n)
<1> DEFINE it == [item EXCEPT ![i] = r]
           cs == [co EXCEPT ![i] = c]
           x == [op |-> op, walking |-> walking, item |-> it, co |-> co, net |-> net, ready |-> ready]
           y == [op |-> op, walking |-> walking, item |-> it, co |-> cs, net |-> net, ready |-> ready]
<1>1. [Now EXCEPT !.item[i] = r] = x
  BY NowRow
<1>2. [x EXCEPT !.co[i] = c] = y
  <2> HIDE DEF it
  <2>1. QED
    OBVIOUS
<1>3. [y EXCEPT !.net[i] = n]
        = [op |-> op, walking |-> walking, item |-> it, co |-> cs,
           net |-> [net EXCEPT ![i] = n], ready |-> ready]
  <2> HIDE DEF it, cs
  <2>1. QED
    OBVIOUS
<1>4. [[[Now EXCEPT !.item[i] = r] EXCEPT !.co[i] = c] EXCEPT !.net[i] = n]
        = [y EXCEPT !.net[i] = n]
  <2> HIDE DEF x, y
  <2>1. QED
    BY <1>1, <1>2
<1> HIDE DEF y
<1>5. QED
  BY <1>3, <1>4 DEF Row

LEMMA LeftRow ==
    ASSUME NEW i, NEW r
    PROVE  Left([Now EXCEPT !.item[i] = r], i) = Row(i, r, "idle", "idle")
<1> DEFINE x == [Now EXCEPT !.item[i] = r]
<1>1. [[x EXCEPT !.co[i] = "idle"] EXCEPT !.net[i] = "idle"] = Row(i, r, "idle", "idle")
  BY RowOf
<1> HIDE DEF x
<1>2. Left(x, i) = [[x EXCEPT !.co[i] = "idle"] EXCEPT !.net[i] = "idle"]
  BY DEF Left
<1>3. QED
  BY <1>1, <1>2 DEF x

LEMMA UploadedKeeps ==
    ASSUME Inv, NEW i \in Items, Uploaded(i)
    PROVE  Inv'
<1> DEFINE r == [item[i] EXCEPT !.st = "done", !.sid = NoSid, !.only = FALSE]
<1>1. /\ item[i] \in ItemRecord
      /\ ItemInv(i, item[i], co[i], net[i], listing.at, listing.names[i], taken[i],
                 copies[i], asked, used, closed)
      /\ RestTyped /\ item \in [Items -> ItemRecord]
  BY RowFacts, NowFacts
<1>2. /\ co[i] \in {"multipart", "complete", "recomplete"} /\ co[i] \in Pooled /\ net[i] = "ok"
      /\ UNCHANGED <<walk, listing, closed, taken, open, copies, asked, adrift, used>>
  BY DEF Uploaded, Pooled, lunad
<1>3. /\ item[i].st \in {"uploading", "finishing", "cancelled"} /\ co[i] # "idle"
      /\ Kind[i] # "dir" /\ listing.at \notin {"unasked", "asked"}
  BY <1>2, PooledRow
<1>4. /\ r \in ItemRecord /\ r.st = "done" /\ r.dec = item[i].dec /\ r.conflict = item[i].conflict
      /\ r.again = item[i].again
  BY <1>1 DEF ItemRecord, ItemState
<1>5. Pump(Settle(Row(i, r, "idle", "idle")))
  <2>1. Left([Now EXCEPT !.item[i] = r], i) = Row(i, r, "idle", "idle")
    BY LeftRow
  <2>2. QED
    BY <2>1 DEF Uploaded, RunEnds, Now
<1> HIDE DEF r
<1>6. InStep(r, "idle", "idle", Kind[i])
  BY <1>3, <1>4 DEF InStep, Pooled, Making
<1>7. ItemInv(i, r, "idle", "idle", listing.at, listing.names[i], taken[i], copies[i], asked, used, closed)
  <2>1. UnlistedAt(r, "idle", Kind[i], listing.at, listing.names[i], taken[i], closed)
    BY <1>1, <1>3 DEF ItemInv, UnlistedAt
  <2>2. ReplacingAt(i, r, "idle", "idle", listing.names[i], taken[i], asked)
    BY <1>1, <1>4 DEF ItemInv, ReplacingAt, Pooled
  <2>3. CopyingAt(r, "idle", "idle", Kind[i], taken[i], copies[i], used, closed)
    BY <1>1, <1>2, <1>4 DEF ItemInv, CopyingAt, FreshAt
  <2>4. QED
    BY <2>1, <2>2, <2>3 DEF ItemInv
<1>8. /\ Free(i, r, "idle") /\ "idle" \in Await /\ "idle" \in Answer
      /\ "idle" \notin Pooled /\ item[i].st # "none"
  BY <1>3, <1>4 DEF Free, Await, Making, Answer, Pooled
<1>9. /\ RestTyped' /\ asked \subseteq asked' /\ used.retries <= used'.retries
      /\ used.faults <= used'.faults
  BY <1>1, <1>2 DEF RestTyped
<1>10. QED
  BY <1>2, <1>4, <1>5, <1>6, <1>7, <1>8, <1>9, RowEnds

LEMMA LeftNow ==
    ASSUME Inv, NEW i \in Items
    PROVE  Left(Now, i) = Row(i, item[i], "idle", "idle")
<1>1. item \in [Items -> ItemRecord]
  BY NowFacts
<1>2. [item EXCEPT ![i] = item[i]] = item
  BY <1>1
<1>3. [Now EXCEPT !.item[i] = item[i]] = Now
  BY <1>2, NowRow DEF Now
<1>4. QED
  BY <1>3, LeftRow

\* A fault is within its bound, and only counts up.
LEMMA FaultFacts ==
    ASSUME RestTyped, Fault
    PROVE  /\ used' \in [retries : 0 .. MaxRetries, faults : 0 .. MaxFaults]
           /\ used.retries <= used'.retries /\ used.faults <= used'.faults /\ used'.faults > 0
<1>1. /\ used \in [retries : 0 .. MaxRetries, faults : 0 .. MaxFaults]
      /\ used.faults < MaxFaults /\ used' = [used EXCEPT !.faults = used.faults + 1]
  BY DEF RestTyped, Fault
<1>2. used.retries \in 0 .. MaxRetries /\ used.faults + 1 \in 0 .. MaxFaults
  BY <1>1
<1>3. QED
  BY <1>1, <1>2

LEMMA DeleteFacts ==
    ASSUME RestTyped, NEW S, SendDelete(S), S \cap open # {} => S \subseteq Sids
    PROVE  /\ open' \subseteq Sids /\ adrift' \subseteq Sids
           /\ used' \in [retries : 0 .. MaxRetries, faults : 0 .. MaxFaults]
           /\ used.retries <= used'.retries /\ used.faults <= used'.faults
<1>1. CASE open' = open \ S /\ UNCHANGED <<adrift, used>>
  BY <1>1 DEF RestTyped
<1>2. CASE S \cap open # {} /\ Fault /\ adrift' = adrift \cup S /\ UNCHANGED open
  <2>1. /\ used' \in [retries : 0 .. MaxRetries, faults : 0 .. MaxFaults]
        /\ used.retries <= used'.retries /\ used.faults <= used'.faults
    BY <1>2, FaultFacts
  <2>2. open' \subseteq Sids /\ adrift' \subseteq Sids
    BY <1>2 DEF RestTyped
  <2>3. QED
    BY <2>1, <2>2
<1>3. QED
  BY <1>1, <1>2 DEF SendDelete

LEMMA FailedKeeps ==
    ASSUME Inv, NEW i \in Items, Failed(i)
    PROVE  Inv'
<1> DEFINE worth == net[i] \in {"lost", "busy"}
           lost == net[i] = "lost"
           r == IF item[i].st = "cancelled" THEN item[i]
                ELSE [item[i] EXCEPT !.st = "failed", !.again = worth, !.off = lost]
           S == IF co[i] \in {"chunk", "complete", "recomplete"} THEN {item[i].sid} ELSE {}
<1>1. /\ item[i] \in ItemRecord
      /\ ItemInv(i, item[i], co[i], net[i], listing.at, listing.names[i], taken[i],
                 copies[i], asked, used, closed)
      /\ RestTyped
  BY RowFacts, NowFacts
<1>2. /\ co[i] \in Pooled /\ net[i] \in {"lost", "busy", "refused", "aborted"} /\ SendDelete(S)
      /\ UNCHANGED <<walk, listing, closed, taken, copies, asked>>
  BY DEF Failed
<1>3. /\ item[i].st \in {"uploading", "finishing", "cancelled"} /\ co[i] # "idle"
      /\ Kind[i] # "dir" /\ listing.at \notin {"unasked", "asked"}
  BY <1>2, PooledRow
<1>4. lost \in BOOLEAN /\ worth \in BOOLEAN
  OBVIOUS
<1>5. /\ r \in ItemRecord /\ r.st \in {"failed", "cancelled"}
      /\ r.dec = item[i].dec /\ r.conflict = item[i].conflict
      /\ r.again = TRUE => item[i].again = TRUE \/ net[i] \in {"lost", "busy"}
  <2>1. CASE item[i].st = "cancelled"
    BY <1>1, <2>1
  <2>2. CASE item[i].st # "cancelled"
    <3>1. r = [item[i] EXCEPT !.st = "failed", !.again = worth, !.off = lost]
      BY <2>2
    <3>2. r.again = worth
      BY <3>1, <1>1 DEF ItemRecord
    <3> HIDE DEF lost, worth
    <3>3. /\ r \in ItemRecord /\ r.st = "failed" /\ r.dec = item[i].dec
          /\ r.conflict = item[i].conflict
      <4> DEFINE a == [item[i] EXCEPT !.st = "failed"]
      <4>1. a \in ItemRecord /\ a.st = "failed" /\ a.dec = item[i].dec /\ a.conflict = item[i].conflict
        BY <1>1 DEF ItemRecord, ItemState
      <4>2. r = [[a EXCEPT !.again = worth] EXCEPT !.off = lost]
        BY <3>1
      <4> HIDE DEF a
      <4> DEFINE b == [a EXCEPT !.again = worth]
      <4>3. b \in ItemRecord /\ b.st = a.st /\ b.dec = a.dec /\ b.conflict = a.conflict
        BY <4>1, <1>4 DEF ItemRecord
      <4> HIDE DEF b
      <4>4. QED
        BY <4>1, <4>2, <4>3, <1>4 DEF ItemRecord, b
    <3>4. QED
      BY <3>2, <3>3 DEF worth
  <2>3. QED
    BY <2>1, <2>2
<1>6. Pump(Settle(Row(i, r, "idle", "idle")))
  <2>1. CASE item[i].st = "cancelled"
    <3>1. Pump(Settle(Left(Now, i)))
      BY <2>1 DEF Failed, RunEnds
    <3>2. r = item[i]
      BY <2>1
    <3>3. QED
      BY <3>1, <3>2, LeftNow
  <2>2. CASE item[i].st # "cancelled"
    <3>1. r = [item[i] EXCEPT !.st = "failed", !.again = worth, !.off = lost]
      BY <2>2
    <3> HIDE DEF r
    <3>2. Left([Now EXCEPT !.item[i] = r], i) = Row(i, r, "idle", "idle")
      BY LeftRow
    <3>3. Pump(Settle(Left([Now EXCEPT !.item[i] = r], i)))
      BY <2>2, <3>1 DEF Failed, RunEnds, Now
    <3>4. QED
      BY <3>2, <3>3
  <2>3. QED
    BY <2>1, <2>2
<1> HIDE DEF r
<1>7. InStep(r, "idle", "idle", Kind[i])
  BY <1>3, <1>5 DEF InStep, Pooled, Making
<1>8. S \cap open # {} => S \subseteq Sids
  BY <1>1 DEF RestTyped
<1>9. /\ open' \subseteq Sids /\ adrift' \subseteq Sids
      /\ used' \in [retries : 0 .. MaxRetries, faults : 0 .. MaxFaults]
      /\ used.retries <= used'.retries /\ used.faults <= used'.faults
  BY <1>1, <1>2, <1>8, DeleteFacts
<1>10. ItemInv(i, r, "idle", "idle", listing.at, listing.names[i], taken[i], copies[i], asked', used', closed)
  <2>1. UnlistedAt(r, "idle", Kind[i], listing.at, listing.names[i], taken[i], closed)
    BY <1>1, <1>3 DEF ItemInv, UnlistedAt
  <2>2. ReplacingAt(i, r, "idle", "idle", listing.names[i], taken[i], asked)
    BY <1>1, <1>5 DEF ItemInv, ReplacingAt, Pooled
  <2>3. CopyingAt(r, "idle", "idle", Kind[i], taken[i], copies[i], used, closed)
    BY <1>1, <1>2, <1>5 DEF ItemInv, CopyingAt, FreshAt
  <2>4. ItemInv(i, r, "idle", "idle", listing.at, listing.names[i], taken[i], copies[i], asked, used, closed)
    BY <2>1, <2>2, <2>3 DEF ItemInv
  <2>5. copies[i] \in Nat /\ used \in [retries : 0 .. MaxRetries, faults : 0 .. MaxFaults]
    BY <1>1 DEF RestTyped
  <2>6. QED
    BY <1>2, <1>9, <2>4, <2>5, ItemInvGrows
<1>11. /\ Free(i, r, "idle") /\ "idle" \in Await /\ "idle" \in Answer
       /\ "idle" \notin Pooled /\ item[i].st # "none" /\ r.st # "needs-decision"
  BY <1>3, <1>5 DEF Free, Await, Making, Answer, Pooled
<1>12. RestTyped'
  BY <1>1, <1>2, <1>9 DEF RestTyped
<1>13. QED
  BY <1>2, <1>5, <1>6, <1>7, <1>9, <1>10, <1>11, <1>12, RowEnds

\* The last steps of a handler that changes row i and nothing outside the tab.
LEMMA RowEndsInTab ==
    ASSUME Inv, NEW i \in Items, item[i].st # "none",
           NEW r \in ItemRecord, NEW c \in Await, NEW n \in Answer,
           InStep(r, c, n, Kind[i]), Free(i, r, c), c \in Pooled => co[i] \in Pooled,
           \/ /\ Becomes(Row(i, r, c, n)) /\ (co[i] \in Pooled => c \in Pooled)
              /\ r.shown = item[i].shown /\ (Resting(item[i]) => Resting(r))
           \/ /\ Becomes(Settle(Row(i, r, c, n))) /\ (co[i] \in Pooled => c \in Pooled)
              /\ r.st = "needs-decision" => r.shown = item[i].shown /\ ~Resting(item[i])
           \/ /\ Pump(Settle(Row(i, r, c, n)))
              /\ r.st = "needs-decision" => r.shown = item[i].shown /\ ~Resting(item[i]),
           UNCHANGED <<walk, listing, closed, taken, open, copies, asked, adrift, used>>,
           UnlistedAt(r, c, Kind[i], listing.at, listing.names[i], taken[i], closed),
           ReplacingAt(i, r, c, n, listing.names[i], taken[i], asked),
           CopyingAt(r, c, n, Kind[i], taken[i], copies[i], used, closed)
    PROVE  Inv'
<1>1. ItemInv(i, r, c, n, listing.at, listing.names[i], taken[i], copies[i], asked', used', closed)
  BY DEF ItemInv
<1>2. RestTyped
  BY NowFacts
<1>3. RestTyped' /\ asked \subseteq asked' /\ used.retries <= used'.retries /\ used.faults <= used'.faults
  BY <1>2 DEF RestTyped
<1>4. QED
  BY <1>1, <1>3, RowEnds

LEMMA ProceedsKeeps ==
    ASSUME Inv, NEW i \in Items, Proceeds(i)
    PROVE  Inv'
<1>1. /\ item[i] \in ItemRecord /\ InStep(item[i], co[i], net[i], Kind[i])
      /\ UnlistedAt(item[i], co[i], Kind[i], listing.at, listing.names[i], taken[i], closed)
      /\ ReplacingAt(i, item[i], co[i], net[i], listing.names[i], taken[i], asked)
      /\ CopyingAt(item[i], co[i], net[i], Kind[i], taken[i], copies[i], used, closed)
      /\ RestTyped
  BY RowFacts, NowFacts DEF ItemInv
<1>2. /\ co[i] \in {"create", "chunk"} /\ co[i] \in Pooled
      /\ UNCHANGED <<walk, listing, closed, taken, open, copies, asked, adrift, used>>
  BY DEF Proceeds, Pooled, lunad
<1>3. /\ item[i].st \in {"uploading", "finishing", "cancelled"} /\ co[i] # "idle"
      /\ Kind[i] # "dir" /\ listing.at \notin {"unasked", "asked"}
  BY <1>2, PooledRow
<1>4. ASSUME NEW r \in ItemRecord, NEW c \in {"chunk", "complete"}, Becomes(Row(i, r, c, "sent")),
             r.st \in {"uploading", "finishing", "cancelled"}, r.shown = item[i].shown,
             r.dec = item[i].dec, r.conflict = item[i].conflict, r.again = item[i].again,
             Resting(item[i]) => Resting(r)
      PROVE  Inv'
  <2>1. InStep(r, c, "sent", Kind[i])
    BY <1>3, <1>4 DEF InStep, Pooled, Making
  <2>2. UnlistedAt(r, c, Kind[i], listing.at, listing.names[i], taken[i], closed)
    BY <1>1, <1>3 DEF UnlistedAt
  <2>3. ReplacingAt(i, r, c, "sent", listing.names[i], taken[i], asked)
    BY <1>1, <1>4 DEF ReplacingAt
  <2>4. CopyingAt(r, c, "sent", Kind[i], taken[i], copies[i], used, closed)
    <3>1. FreshAt(item[i], co[i], net[i])
      BY <1>2 DEF FreshAt
    <3>2. QED
      BY <1>1, <1>4, <3>1 DEF CopyingAt
  <2>5. c \in Await /\ c \in Pooled /\ "sent" \in Answer /\ Free(i, r, c)
    BY <1>3, <1>4 DEF Await, Making, Pooled, Answer, Free
  <2>6. QED
    BY <1>2, <1>3, <1>4, <2>1, <2>2, <2>3, <2>4, <2>5, RowEndsInTab
<1>5. CASE co[i] = "create"
  <2>1. PICK d \in open \ adrift :
             Becomes([Now EXCEPT !.item[i].sid = d, !.co[i] = "chunk", !.net[i] = "sent"])
    BY <1>5 DEF Proceeds
  <2> DEFINE r == [item[i] EXCEPT !.sid = d]
  <2>2. [Now EXCEPT !.item[i].sid = d, !.co[i] = "chunk", !.net[i] = "sent"]
          = Row(i, r, "chunk", "sent")
    <3>1. [Now EXCEPT !.item[i].sid = d] = [Now EXCEPT !.item[i] = r]
      BY DEF Now
    <3>2. QED
      BY <3>1, RowOf
  <2>3. d \in Sids
    BY <1>1 DEF RestTyped
  <2>4. /\ r \in ItemRecord /\ r.st = item[i].st /\ r.shown = item[i].shown
        /\ r.dec = item[i].dec /\ r.conflict = item[i].conflict /\ r.again = item[i].again
    BY <1>1, <2>3 DEF ItemRecord
  <2> HIDE DEF r
  <2>5. Becomes(Row(i, r, "chunk", "sent"))
    BY <2>1, <2>2
  <2>6. QED
    BY <1>3, <1>4, <2>4, <2>5 DEF Resting
<1>6. CASE co[i] = "chunk"
  <2> DEFINE st == IF item[i].st = "uploading" THEN "finishing" ELSE item[i].st
             r == [item[i] EXCEPT !.st = st]
  <2>1. Becomes([Now EXCEPT !.item[i].st = IF @ = "uploading" THEN "finishing" ELSE @,
                            !.co[i] = "complete", !.net[i] = "sent"])
    BY <1>6 DEF Proceeds
  <2>2. [Now EXCEPT !.item[i].st = IF @ = "uploading" THEN "finishing" ELSE @,
                    !.co[i] = "complete", !.net[i] = "sent"]
          = Row(i, r, "complete", "sent")
    <3>1. [Now EXCEPT !.item[i].st = IF @ = "uploading" THEN "finishing" ELSE @]
            = [Now EXCEPT !.item[i] = r]
      BY DEF Now
    <3>2. QED
      BY <3>1, RowOf
  <2>3. st \in {"finishing", "cancelled"} /\ st \in ItemState
    BY <1>3 DEF ItemState, Active
  <2>4. Resting([item[i] EXCEPT !.st = st]) \/ ~Resting(item[i])
    BY <1>1, <1>3 DEF Resting, Active, ItemRecord
  <2> HIDE DEF st
  <2>5. /\ r \in ItemRecord /\ r.st = st /\ r.shown = item[i].shown
        /\ r.dec = item[i].dec /\ r.conflict = item[i].conflict /\ r.again = item[i].again
    BY <1>1, <2>3 DEF ItemRecord
  <2>6. Becomes(Row(i, r, "complete", "sent")) /\ (Resting(item[i]) => Resting(r))
    BY <2>1, <2>2, <2>4
  <2> HIDE DEF r
  <2>7. QED
    BY <1>4, <2>3, <2>5, <2>6
<1>7. QED
  BY <1>2, <1>5, <1>6

LEMMA RowSame ==
    ASSUME Inv, NEW i \in Items, NEW c, NEW n
    PROVE  [[Now EXCEPT !.co[i] = c] EXCEPT !.net[i] = n] = Row(i, item[i], c, n)
<1>1. item \in [Items -> ItemRecord]
  BY NowFacts
<1>2. [item EXCEPT ![i] = item[i]] = item
  BY <1>1
<1>3. [Now EXCEPT !.item[i] = item[i]] = Now
  BY <1>2, NowRow DEF Now
<1>4. QED
  BY <1>3, RowOf

\* A folder's coroutine goes on, or comes to an end.
LEMMA FolderStepKeeps ==
    ASSUME Inv, NEW i \in Items, FolderStep(i)
    PROVE  Inv'
<1> DEFINE gone == item[i].st = "cancelled"
           failed(a, off) == [item[i] EXCEPT !.st = "failed", !.again = a, !.off = off]
           fails(a, off) == Settle(Left([Now EXCEPT !.item[i] = failed(a, off)], i))
<1>1. /\ item[i] \in ItemRecord /\ InStep(item[i], co[i], net[i], Kind[i])
      /\ ReplacingAt(i, item[i], co[i], net[i], listing.names[i], taken[i], asked)
      /\ CopyingAt(item[i], co[i], net[i], Kind[i], taken[i], copies[i], used, closed)
  BY RowFacts DEF ItemInv
<1>2. /\ co[i] \in Making /\ co[i] \notin Pooled
      /\ UNCHANGED <<walk, listing, closed, taken, open, copies, asked, adrift, used>>
  BY DEF FolderStep, Pooled, Making, lunad
<1>3. item[i].st \in {"running", "cancelled"} /\ co[i] # "idle" /\ Kind[i] = "dir"
  BY <1>1, <1>2 DEF InStep, ItemRecord, ItemState, Active, Pooled, Making
<1>4. ASSUME NEW r \in ItemRecord, NEW c \in Making \cup {"idle"}, NEW n \in {"idle", "sent"},
             r.dec = item[i].dec, r.conflict = item[i].conflict,
             \/ /\ Becomes(Settle(Row(i, r, c, n))) /\ c = "idle" /\ n = "idle"
                /\ r.st \in {"failed", "done", "cancelled"}
             \/ Becomes(Row(i, r, c, n)) /\ r = item[i] /\ c \in Making
      PROVE  Inv'
  <2>1. InStep(r, c, n, Kind[i])
    BY <1>3, <1>4 DEF InStep, Pooled, Making
  <2>2. UnlistedAt(r, c, Kind[i], listing.at, listing.names[i], taken[i], closed)
    BY <1>3 DEF UnlistedAt
  <2>3. ReplacingAt(i, r, c, n, listing.names[i], taken[i], asked)
    BY <1>1, <1>4 DEF ReplacingAt, Pooled, Making
  <2>4. CopyingAt(r, c, n, Kind[i], taken[i], copies[i], used, closed)
    BY <1>1, <1>3 DEF CopyingAt
  <2>5. c \in Await /\ c \notin Pooled /\ n \in Answer /\ Free(i, r, c)
    BY <1>3, <1>4 DEF Await, Pooled, Making, Answer, Free
  <2>6. \/ /\ Becomes(Row(i, r, c, n)) /\ (co[i] \in Pooled => c \in Pooled)
           /\ r.shown = item[i].shown /\ (Resting(item[i]) => Resting(r))
        \/ /\ Becomes(Settle(Row(i, r, c, n))) /\ (co[i] \in Pooled => c \in Pooled)
           /\ r.st = "needs-decision" => r.shown = item[i].shown /\ ~Resting(item[i])
    BY <1>2, <1>4
  <2>7. QED
    BY <1>2, <1>3, <1>4, <2>1, <2>2, <2>3, <2>4, <2>5, <2>6, RowEndsInTab
<1>5. ASSUME NEW r \in ItemRecord, r.dec = item[i].dec, r.conflict = item[i].conflict,
             r.st \in {"failed", "done", "cancelled"},
             Becomes(Settle(Left([Now EXCEPT !.item[i] = r], i)))
      PROVE  Inv'
  BY <1>4, <1>5, LeftRow
<1>6. ASSUME NEW c \in Making, Becomes([Now EXCEPT !.co[i] = c, !.net[i] = "sent"])
      PROVE  Inv'
  <2>1. Becomes(Row(i, item[i], c, "sent"))
    BY <1>6, RowSame
  <2>2. QED
    BY <1>1, <1>4, <2>1
<1>7. CASE Becomes(Stopped(Now, i))
  <2> DEFINE r == [item[i] EXCEPT !.st = "cancelled"]
  <2>1. r \in ItemRecord /\ r.dec = item[i].dec /\ r.conflict = item[i].conflict /\ r.st = "cancelled"
    BY <1>1 DEF ItemRecord, ItemState
  <2>2. [Now EXCEPT !.item[i].st = "cancelled"] = [Now EXCEPT !.item[i] = r]
    BY DEF Now
  <2> HIDE DEF r
  <2>3. QED
    BY <1>5, <1>7, <2>1, <2>2 DEF Stopped
<1>8. CASE Becomes(Settle(Left([Now EXCEPT !.item[i].st = "done"], i)))
  <2> DEFINE r == [item[i] EXCEPT !.st = "done"]
  <2>1. r \in ItemRecord /\ r.dec = item[i].dec /\ r.conflict = item[i].conflict /\ r.st = "done"
    BY <1>1 DEF ItemRecord, ItemState
  <2>2. [Now EXCEPT !.item[i].st = "done"] = [Now EXCEPT !.item[i] = r]
    BY DEF Now
  <2> HIDE DEF r
  <2>3. QED
    BY <1>5, <1>8, <2>1, <2>2
<1>9. ASSUME NEW a \in BOOLEAN, NEW off \in BOOLEAN, Becomes(fails(a, off))
      PROVE  Inv'
  <2> DEFINE r == failed(a, off)
  <2>1. r \in ItemRecord /\ r.dec = item[i].dec /\ r.conflict = item[i].conflict /\ r.st = "failed"
    BY <1>1 DEF ItemRecord, ItemState
  <2>2. Becomes(Settle(Left([Now EXCEPT !.item[i] = r], i)))
    BY <1>9
  <2> HIDE DEF r
  <2>3. QED
    BY <1>5, <2>1, <2>2
<1>10. \/ Becomes(Stopped(Now, i))
       \/ Becomes(fails(net[i] \in {"lost", "busy"}, net[i] = "lost")) \/ Becomes(fails(TRUE, FALSE))
       \/ \E c \in Making : Becomes([Now EXCEPT !.co[i] = c, !.net[i] = "sent"])
       \/ Becomes(Settle(Left([Now EXCEPT !.item[i].st = "done"], i)))
  <2> DEFINE A == Stopped(Now, i)
             B(a, off) == Settle(Left([Now EXCEPT !.item[i] = [@ EXCEPT !.st = "failed", !.again = a,
                                                                       !.off = off]], i))
             B1 == B(net[i] \in {"lost", "busy"}, net[i] = "lost")
             B2 == B(TRUE, FALSE)
             C == [Now EXCEPT !.co[i] = "mkdir2", !.net[i] = "sent"]
             d == IF co[i] = "mkdir" THEN "stat1" ELSE "stat"
             D == [Now EXCEPT !.co[i] = IF @ = "mkdir" THEN "stat1" ELSE "stat", !.net[i] = "sent"]
             E == Settle(Left([Now EXCEPT !.item[i].st = "done"], i))
             G == item[i].st = "cancelled"
             P1 == net[i] \in {"lost", "busy", "refused"} /\ co[i] \in {"mkdir", "mkdir2"}
             P2 == co[i] \in {"mkdir", "mkdir2"} /\ net[i] = "file"
             P3 == co[i] \in {"stat1", "stat"} /\ net[i] = "file"
             P4 == (co[i] = "mkdir" /\ net[i] = "ok") \/ (co[i] = "stat1" /\ net[i] # "file")
  <2>1. Becomes(CASE P1 -> IF G THEN A ELSE B1
                  [] P2 -> D
                  [] P3 -> B2
                  [] P4 -> IF G THEN A ELSE C
                  [] OTHER -> IF G THEN A ELSE E)
    BY DEF FolderStep
  <2>2. B1 = fails(net[i] \in {"lost", "busy"}, net[i] = "lost") /\ B2 = fails(TRUE, FALSE)
    BY DEF Now
  <2>3. D = [Now EXCEPT !.co[i] = d, !.net[i] = "sent"]
    BY DEF Now
  <2>4. d \in Making /\ "mkdir2" \in Making
    BY DEF Making
  <2> HIDE DEF A, B1, B2, C, D, E, G, P1, P2, P3, P4, d
  <2>5. Becomes(A) \/ Becomes(B1) \/ Becomes(B2) \/ Becomes(C) \/ Becomes(D) \/ Becomes(E)
    <3>1. ASSUME NEW s, s = (CASE P1 -> IF G THEN A ELSE B1
                               [] P2 -> D
                               [] P3 -> B2
                               [] P4 -> IF G THEN A ELSE C
                               [] OTHER -> IF G THEN A ELSE E)
          PROVE  s \in {A, B1, B2, C, D, E}
      BY <3>1
    <3>2. QED
      BY <2>1, <3>1
  <2>6. Becomes(C) \/ Becomes(D) =>
            \E c \in Making : Becomes([Now EXCEPT !.co[i] = c, !.net[i] = "sent"])
    BY <2>3, <2>4 DEF C
  <2>7. QED
    BY <2>2, <2>5, <2>6 DEF A, E
<1>11. QED
  <2>1. (net[i] \in {"lost", "busy"}) \in BOOLEAN /\ (net[i] = "lost") \in BOOLEAN
    OBVIOUS
  <2>2. QED
    BY <1>6, <1>7, <1>8, <1>9, <1>10, <2>1

----------------------------------------------------------------------------
(* Rows that go into `ready` one at a time *)

\* The tab with row i changed to r and pushed.
Queued(i, r) ==
    [op |-> op, walking |-> walking, item |-> [item EXCEPT ![i] = r],
     co |-> [co EXCEPT ![i] = "idle"], net |-> [net EXCEPT ![i] = "idle"], ready |-> ready \o <<i>>]

\* What apply makes of a row.
SkippedRow(r) == [r EXCEPT !.st = "skipped", !.dec = "none", !.sid = NoSid, !.only = FALSE]
QueuedRow(r, choice) == [r EXCEPT !.st = "queued", !.dec = "none", !.conflict = choice]
AskingRow(r, kind) == [r EXCEPT !.st = "needs-decision", !.dec = kind]

LEMMA QueuedEnds ==
    ASSUME Inv, NEW i \in Items, item[i].st # "none", Kind[i] # "dir",
           item[i].st \notin {"queued", "cancelled"} \/ co[i] # "idle",
           NEW r \in ItemRecord, r.st = "queued", r.shown = item[i].shown, ~Resting(item[i]),
           Pump(Queued(i, r)) \/ Pump(Settle(Queued(i, r))),
           RestTyped', UNCHANGED <<walk, listing, closed, taken, copies>>,
           asked \subseteq asked', used.retries <= used'.retries, used.faults <= used'.faults,
           ItemInv(i, r, "idle", "idle", listing.at, listing.names[i], taken[i], copies[i],
                   asked', used', closed)
    PROVE  Inv'
<1> DEFINE x == Queued(i, r)
           q == <<i>>
<1>1. /\ op \in OpRecord /\ walking \in BOOLEAN /\ item \in [Items -> ItemRecord]
      /\ co \in [Items -> Await] /\ net \in [Items -> Answer] /\ ready \in Seq(Items)
      /\ Sound(Now) /\ Cardinality(InPool(Now)) <= Parallel /\ RestTyped
  BY NowFacts
<1>2. /\ q \in Seq(Items) /\ DOMAIN q = {1} /\ q[1] = i /\ ready \o q \in Seq(Items)
  BY <1>1
<1>3. "idle" \in Await /\ "idle" \in Answer /\ "idle" \notin Pooled
  BY DEF Await, Making, Answer, Pooled
<1>4. x \in TabState
  BY <1>1, <1>2, <1>3 DEF Queued, TabState
<1>5. /\ x.item[i] = r /\ x.co[i] = "idle" /\ x.net[i] = "idle"
      /\ \A j \in Items \ {i} : x.item[j] = item[j] /\ x.co[j] = co[j] /\ x.net[j] = net[j]
      /\ x.op = op /\ x.walking = walking /\ x.ready = ready \o q
  BY <1>1 DEF Queued
<1>6. /\ Now.op = op /\ Now.item = item /\ Now.co = co /\ Now.net = net /\ Now.ready = ready
      /\ Now.walking = walking
  BY DEF Now
<1> HIDE DEF x, q
<1>7. Steps(x)
  <2> SUFFICES ASSUME NEW j \in Items
               PROVE  InStep(x.item[j], x.co[j], x.net[j], Kind[j])
    BY DEF Steps
  <2>1. CASE j = i
    BY <1>5, <2>1 DEF InStep, Making
  <2>2. CASE j # i
    BY <1>5, <2>2, RowFacts
  <2>3. QED
    BY <2>1, <2>2
<1>8. Sound(x)
  <2> DEFINE o == Now
             T == {i}
  <2>1. Pushes(o, x, T, q)
    BY <1>2, <1>5, <1>6 DEF Pushes
  <2>2. Sound(o) /\ T \in SUBSET Items /\ q \in Seq(Items)
    BY <1>1, <1>2
  <2> HIDE DEF o, T
  <2>3. QED
    BY <1>4, <1>7, <2>1, <2>2, QueueSound
<1>9. Cardinality(InPool(x)) <= Parallel
  <2>1. \A j \in Items : x.co[j] \in Pooled => Now.co[j] \in Pooled
    BY <1>3, <1>5, <1>6
  <2>2. Cardinality(InPool(x)) <= Cardinality(InPool(Now))
    BY <2>1, PoolShrinks
  <2>3. Cardinality(InPool(x)) \in Nat /\ Cardinality(InPool(Now)) \in Nat
    BY PoolFinite
  <2>4. QED
    BY <1>1, <2>2, <2>3
<1>10. \A j \in Items : ItemInv(j, x.item[j], x.co[j], x.net[j], listing'.at, listing'.names[j],
                                taken'[j], copies'[j], asked', used', closed')
  <2> SUFFICES ASSUME NEW j \in Items
               PROVE  ItemInv(j, x.item[j], x.co[j], x.net[j], listing.at, listing.names[j],
                              taken[j], copies[j], asked', used', closed)
    OBVIOUS
  <2>1. CASE j = i
    BY <1>5, <2>1
  <2>2. CASE j # i
    <3>1. /\ copies[j] \in Nat /\ used \in [retries : 0 .. MaxRetries, faults : 0 .. MaxFaults]
          /\ used' \in [retries : 0 .. MaxRetries, faults : 0 .. MaxFaults]
      BY <1>1 DEF RestTyped
    <3>2. ItemInv(j, item[j], co[j], net[j], listing.at, listing.names[j], taken[j], copies[j],
                  asked', used', closed)
      BY <3>1, RowFacts, ItemInvGrows
    <3>3. QED
      BY <1>5, <2>2, <3>2
  <2>3. QED
    BY <2>1, <2>2
<1>11. op.listed = TRUE /\ op.ended = TRUE =>
          walking = FALSE /\ \A j \in Items : item[j].shown = TRUE => Resting(item[j])
  BY <1>6 DEF Inv, Over, Resting
<1>12. op # NoOp /\ \A j \in Items : item[j].st = "none" => x.item[j] = item[j]
  BY <1>5, AtWork
<1>13. CASE Pump(x)
  <2>1. Ends(x)
    BY <1>9, <1>13 DEF Ends
  <2>2. Over(x)
    BY <1>5, <1>11 DEF Over, Resting
  <2>3. QED
    BY <1>5, <1>8, <1>10, <1>12, <2>1, <2>2, HandlerEnds
<1>14. CASE Pump(Settle(x))
  <2>1. op.listed = TRUE /\ op.ended = TRUE =>
            \A j \in Items : x.item[j].shown = TRUE => x.item[j].st # "needs-decision"
    BY <1>5, <1>11 DEF Resting
  <2>2. QED
    BY <1>5, <1>8, <1>9, <1>10, <1>12, <1>14, <2>1, HandlerSettles
<1>15. QED
  BY <1>13, <1>14 DEF x

LEMMA RowAgain ==
    ASSUME Inv, NEW i \in Items, NEW r, NEW c, NEW n, NEW x
    PROVE  [Row(i, r, c, n) EXCEPT !.item[i] = x] = Row(i, x, c, n)
<1>1. item \in [Items -> ItemRecord]
  BY NowFacts
<1>2. [[item EXCEPT ![i] = r] EXCEPT ![i] = x] = [item EXCEPT ![i] = x]
  BY <1>1
<1> DEFINE it == [item EXCEPT ![i] = r]
           cs == [co EXCEPT ![i] = c]
           ns == [net EXCEPT ![i] = n]
<1>3. Row(i, r, c, n) = [op |-> op, walking |-> walking, item |-> it, co |-> cs, net |-> ns, ready |-> ready]
  BY DEF Row
<1>4. Row(i, x, c, n) = [op |-> op, walking |-> walking, item |-> [it EXCEPT ![i] = x],
                         co |-> cs, net |-> ns, ready |-> ready]
  BY <1>2 DEF Row
<1> HIDE DEF it, cs, ns
<1>5. QED
  BY <1>3, <1>4

\* apply to one row whose coroutine has left.
LEMMA AppliedRow ==
    ASSUME Inv, NEW i \in Items, NEW r, NEW choice
    PROVE  Applied(Row(i, r, "idle", "idle"), <<i>>, choice)
             = IF choice = "skip" THEN Row(i, SkippedRow(r), "idle", "idle")
               ELSE Queued(i, QueuedRow(r, choice))
<1> DEFINE it == [item EXCEPT ![i] = r]
           cs == [co EXCEPT ![i] = "idle"]
           ns == [net EXCEPT ![i] = "idle"]
           q == <<i>>
           x == [op |-> op, walking |-> walking, item |-> it, co |-> cs, net |-> ns, ready |-> ready]
           to(y) == IF choice = "skip" THEN SkippedRow(y) ELSE QueuedRow(y, choice)
           all == [j \in Items |-> IF \E n \in DOMAIN q : q[n] = j THEN to(it[j]) ELSE it[j]]
           rs == IF choice = "skip" THEN ready ELSE ready \o q
<1>1. item \in [Items -> ItemRecord]
  BY NowFacts
<1>2. Row(i, r, "idle", "idle") = x
  BY DEF Row
<1>3. \A j : (\E n \in DOMAIN q : q[n] = j) <=> j = i
  OBVIOUS
<1>4. all = [j \in Items |-> IF j = i THEN to(r) ELSE item[j]]
  <2> HIDE DEF q, to
  <2>1. QED
    BY <1>1, <1>3
<1>5. [item EXCEPT ![i] = to(r)] = [j \in Items |-> IF j = i THEN to(r) ELSE item[j]]
  <2> HIDE DEF to
  <2>1. QED
    BY <1>1
<1>6. Applied(x, q, choice) = [op |-> op, walking |-> walking, item |-> all, co |-> cs, net |-> ns,
                               ready |-> rs]
  <2>1. Applied(x, q, choice) = [x EXCEPT !.item = all, !.ready = rs]
    <3> HIDE DEF q, it, cs, ns
    <3>1. QED
      BY DEF Applied, SkippedRow, QueuedRow
  <2> HIDE DEF all, rs, it, cs, ns
  <2>2. QED
    BY <2>1
<1> HIDE DEF all, x
<1>7. QED
  BY <1>2, <1>4, <1>5, <1>6 DEF Row, Queued

\* What a clash over a name of this kind offers.
LEMMA OptionsFacts ==
    ASSUME NEW kind \in {"file", "dir"}, NEW choice \in Options(kind)
    PROVE  choice \in {"replace", "keep_both", "skip"} /\ (choice = "replace" => kind = "file")
<1>1. CASE kind = "file"
  BY <1>1 DEF Options
<1>2. CASE kind = "dir"
  BY <1>2 DEF Options
<1>3. QED
  BY <1>1, <1>2

LEMMA AnsweredRows ==
    ASSUME NEW r \in ItemRecord, NEW choice \in {"replace", "keep_both"}, NEW kind \in {"file", "dir"}
    PROVE  /\ SkippedRow(r) \in ItemRecord /\ SkippedRow(r).st = "skipped"
           /\ SkippedRow(r).dec = "none" /\ SkippedRow(r).conflict = r.conflict
           /\ SkippedRow(r).again = r.again /\ SkippedRow(r).shown = r.shown
           /\ QueuedRow(r, choice) \in ItemRecord /\ QueuedRow(r, choice).st = "queued"
           /\ QueuedRow(r, choice).dec = "none" /\ QueuedRow(r, choice).conflict = choice
           /\ QueuedRow(r, choice).again = r.again /\ QueuedRow(r, choice).shown = r.shown
           /\ AskingRow(r, kind) \in ItemRecord /\ AskingRow(r, kind).st = "needs-decision"
           /\ AskingRow(r, kind).dec = kind /\ AskingRow(r, kind).conflict = r.conflict
           /\ AskingRow(r, kind).again = r.again /\ AskingRow(r, kind).shown = r.shown
<1>1. "skipped" \in ItemState /\ "queued" \in ItemState /\ "needs-decision" \in ItemState
  BY DEF ItemState, Active
<1>2. /\ SkippedRow(r) \in ItemRecord /\ SkippedRow(r).st = "skipped"
      /\ SkippedRow(r).dec = "none" /\ SkippedRow(r).conflict = r.conflict
      /\ SkippedRow(r).again = r.again /\ SkippedRow(r).shown = r.shown
  BY <1>1 DEF SkippedRow, ItemRecord
<1>3. /\ QueuedRow(r, choice) \in ItemRecord /\ QueuedRow(r, choice).st = "queued"
      /\ QueuedRow(r, choice).dec = "none" /\ QueuedRow(r, choice).conflict = choice
      /\ QueuedRow(r, choice).again = r.again /\ QueuedRow(r, choice).shown = r.shown
  BY <1>1 DEF QueuedRow, ItemRecord
<1>4. /\ AskingRow(r, kind) \in ItemRecord /\ AskingRow(r, kind).st = "needs-decision"
      /\ AskingRow(r, kind).dec = kind /\ AskingRow(r, kind).conflict = r.conflict
      /\ AskingRow(r, kind).again = r.again /\ AskingRow(r, kind).shown = r.shown
  BY <1>1 DEF AskingRow, ItemRecord
<1>5. QED
  BY <1>2, <1>3, <1>4

\* A clash before any copy was made leaves a row, x, that asks, is skipped, or
\* waits with a choice that was made for it.
LEMMA AnsweredInv ==
    ASSUME Inv, NEW i \in Items, Kind[i] # "dir", listing.at \notin {"unasked", "asked"},
           closed = FALSE, FreshAt(item[i], co[i], net[i]),
           NEW x \in ItemRecord, x.again = item[i].again,
           x.st \in {"skipped", "queued", "needs-decision"},
           x.st = "needs-decision" => x.dec # "none",
           x.dec = "file" => taken[i] # "dir",
           NEW who, NEW u \in [retries : 0 .. MaxRetries, faults : 0 .. MaxFaults],
           asked \subseteq who, used.retries <= u.retries, used.faults <= u.faults,
           x.conflict \in {item[i].conflict, "keep_both"} \/ (i \in who /\ taken[i] # "dir")
    PROVE  ItemInv(i, x, "idle", "idle", listing.at, listing.names[i], taken[i], copies[i], who, u, closed)
<1>1. /\ RestTyped
      /\ UnlistedAt(item[i], co[i], Kind[i], listing.at, listing.names[i], taken[i], closed)
      /\ ReplacingAt(i, item[i], co[i], net[i], listing.names[i], taken[i], asked)
      /\ CopyingAt(item[i], co[i], net[i], Kind[i], taken[i], copies[i], used, closed)
  BY RowFacts, NowFacts DEF ItemInv
<1>2. UnlistedAt(x, "idle", Kind[i], listing.at, listing.names[i], taken[i], closed)
  BY <1>1 DEF UnlistedAt
<1>3. ReplacingAt(i, x, "idle", "idle", listing.names[i], taken[i], who)
  BY <1>1 DEF ReplacingAt, Pooled
<1>4. CopyingAt(x, "idle", "idle", Kind[i], taken[i], copies[i], u, closed)
  <2>1. copies[i] \in Nat /\ used \in [retries : 0 .. MaxRetries, faults : 0 .. MaxFaults]
    BY <1>1 DEF RestTyped
  <2>2. QED
    BY <1>1, <2>1 DEF CopyingAt
<1>5. QED
  BY <1>2, <1>3, <1>4 DEF ItemInv

LEMMA LeavesNames ==
    ASSUME Inv, NEW i \in Items, net[i] = "idle"
    PROVE  [Now EXCEPT !.co[i] = "idle"] = Row(i, item[i], "idle", "idle")
<1>1. item \in [Items -> ItemRecord] /\ net \in [Items -> Answer]
  BY NowFacts
<1>2. [item EXCEPT ![i] = item[i]] = item /\ [net EXCEPT ![i] = "idle"] = net
  BY <1>1
<1>3. Row(i, item[i], "idle", "idle")
        = [op |-> op, walking |-> walking, item |-> item, co |-> [co EXCEPT ![i] = "idle"],
           net |-> net, ready |-> ready]
  BY <1>2 DEF Row
<1>4. QED
  BY <1>3 DEF Now

LEMMA PushedRow ==
    ASSUME NEW i \in Items, NEW r, ready \in Seq(Items)
    PROVE  [Row(i, r, "idle", "idle") EXCEPT !.ready = Append(@, i)] = Queued(i, r)
<1>1. Append(ready, i) = ready \o <<i>>
  OBVIOUS
<1> DEFINE it == [item EXCEPT ![i] = r]
           cs == [co EXCEPT ![i] = "idle"]
           ns == [net EXCEPT ![i] = "idle"]
           x == [op |-> op, walking |-> walking, item |-> it, co |-> cs, net |-> ns, ready |-> ready]
<1>2. Row(i, r, "idle", "idle") = x
  BY DEF Row
<1>3. [x EXCEPT !.ready = Append(x.ready, i)]
         = [op |-> op, walking |-> walking, item |-> it, co |-> cs, net |-> ns, ready |-> ready \o <<i>>]
  <2> DEFINE rs == ready \o <<i>>
  <2> HIDE DEF it, cs, ns, rs
  <2>1. Append(x.ready, i) = rs
    BY <1>1 DEF rs
  <2>2. [x EXCEPT !.ready = rs]
          = [op |-> op, walking |-> walking, item |-> it, co |-> cs, net |-> ns, ready |-> rs]
    OBVIOUS
  <2>3. QED
    BY <2>1, <2>2 DEF rs
<1> HIDE DEF x
<1>4. QED
  BY <1>2, <1>3 DEF Queued

LEMMA PreparedKeeps ==
    ASSUME Inv, NEW i \in Items, Prepared(i)
    PROVE  Inv'
<1> DEFINE hit == IF listing.at = "known" THEN listing.names[i] ELSE "none"
           s == [Now EXCEPT !.co[i] = "idle"]
           r == item[i]
<1>1. /\ item[i] \in ItemRecord /\ InStep(item[i], co[i], net[i], Kind[i])
      /\ UnlistedAt(item[i], co[i], Kind[i], listing.at, listing.names[i], taken[i], closed)
      /\ ReplacingAt(i, item[i], co[i], net[i], listing.names[i], taken[i], asked)
      /\ CopyingAt(item[i], co[i], net[i], Kind[i], taken[i], copies[i], used, closed)
      /\ RestTyped /\ ready \in Seq(Items) /\ op \in OpRecord
  BY RowFacts, NowFacts DEF ItemInv
<1>2. /\ co[i] = "names" /\ listing.at \in {"known", "failed"}
      /\ IF item[i].st # "queued" THEN Becomes(s)
         ELSE IF hit = "none" THEN Enqueue(s, i)
         ELSE IF PolicyAnswers(hit) THEN Apply(s, <<i>>, op.policy)
         ELSE Becomes(Settle(Clash(s, i, hit)))
      /\ asked' = IF item[i].st = "queued" /\ hit # "none" THEN AskedBy(i, hit) ELSE asked
      /\ UNCHANGED <<walk, listing, closed, taken, open, copies, adrift, used>>
  BY DEF Prepared, lunad
<1>3. /\ item[i].st \in {"queued", "cancelled"} /\ co[i] # "idle" /\ net[i] = "idle"
      /\ Kind[i] # "dir" /\ co[i] \notin Pooled
  BY <1>1, <1>2 DEF InStep, ItemRecord, ItemState, Active, Pooled, Making
<1>4. /\ "idle" \in Await /\ "idle" \in Answer /\ "idle" \notin Pooled
      /\ "idle" \notin Making
  BY DEF Await, Answer, Pooled, Making
<1>5. s = Row(i, item[i], "idle", "idle")
  BY <1>3, LeavesNames
<1>6. closed = FALSE
  BY <1>3, AtWork
<1>7. hit = "none" \/ (hit \in {"file", "dir"} /\ (hit = "file" => taken[i] # "dir"))
  <2>1. listing.names[i] \in Taken
    BY <1>1 DEF RestTyped
  <2>2. QED
    BY <1>1, <1>3, <2>1 DEF UnlistedAt, ReplacingAt, Taken
<1> HIDE DEF s, hit
<1>8. asked \subseteq asked' /\ asked' \subseteq Items
  BY <1>1, <1>2 DEF AskedBy, RestTyped
<1>9. RestTyped' /\ used.retries <= used'.retries /\ used.faults <= used'.faults
  BY <1>1, <1>2, <1>8 DEF RestTyped
<1>10. /\ FreshAt(item[i], co[i], net[i]) \/ item[i].st # "queued"
       /\ used' \in [retries : 0 .. MaxRetries, faults : 0 .. MaxFaults]
  BY <1>9 DEF FreshAt, RestTyped
<1>11. CASE item[i].st # "queued"
  <2>1. Becomes(Row(i, item[i], "idle", "idle"))
    BY <1>2, <1>5, <1>11
  <2>2. item[i].st = "cancelled"
    BY <1>3, <1>11
  <2>3. InStep(item[i], "idle", "idle", Kind[i])
    BY <1>3, <1>4, <2>2 DEF InStep
  <2>4. UnlistedAt(item[i], "idle", Kind[i], listing.at, listing.names[i], taken[i], closed)
    BY <1>1, <2>2 DEF UnlistedAt
  <2>5. ReplacingAt(i, item[i], "idle", "idle", listing.names[i], taken[i], asked)
    BY <1>1, <1>4 DEF ReplacingAt
  <2>6. CopyingAt(item[i], "idle", "idle", Kind[i], taken[i], copies[i], used, closed)
    BY <1>1, <2>2 DEF CopyingAt, FreshAt
  <2>7. Free(i, item[i], "idle") /\ item[i].st # "none" /\ asked' = asked
    BY <1>2, <1>3, <2>2 DEF Free
  <2>8. QED
    BY <1>1, <1>2, <1>3, <1>4, <2>1, <2>3, <2>4, <2>5, <2>6, <2>7, RowEndsInTab
<1>12. ASSUME NEW x \in ItemRecord, item[i].st = "queued", x.st \in {"skipped", "needs-decision"},
              x.shown = item[i].shown, Becomes(Settle(Row(i, x, "idle", "idle"))),
              ItemInv(i, x, "idle", "idle", listing.at, listing.names[i], taken[i], copies[i],
                      asked', used', closed)
       PROVE  Inv'
  <2>1. InStep(x, "idle", "idle", Kind[i])
    BY <1>3, <1>4, <1>12 DEF InStep
  <2>2. Free(i, x, "idle") /\ ~Resting(item[i]) /\ item[i].st # "none"
    BY <1>3, <1>12 DEF Free, Resting, Active
  <2>3. QED
    BY <1>2, <1>3, <1>4, <1>8, <1>9, <1>12, <2>1, <2>2, RowEnds
<1>13. ASSUME NEW x \in ItemRecord, item[i].st = "queued", x.st = "queued",
              x.shown = item[i].shown, Pump(Queued(i, x)),
              ItemInv(i, x, "idle", "idle", listing.at, listing.names[i], taken[i], copies[i],
                      asked', used', closed)
       PROVE  Inv'
  <2>1. ~Resting(item[i]) /\ item[i].st # "none"
    BY <1>13 DEF Resting, Active
  <2>2. QED
    BY <1>2, <1>3, <1>8, <1>9, <1>13, <2>1, QueuedEnds
<1>14. CASE item[i].st = "queued" /\ hit = "none"
  <2>1. Pump(Queued(i, item[i]))
    <3>1. Enqueue(s, i)
      BY <1>2, <1>14
    <3>2. [s EXCEPT !.ready = Append(@, i)] = Queued(i, item[i])
      BY <1>1, <1>5, PushedRow
    <3>3. QED
      BY <3>1, <3>2 DEF Enqueue
  <2>2. asked' = asked
    BY <1>2, <1>14
  <2>3. /\ item[i].st = "needs-decision" => item[i].dec # "none"
        /\ item[i].dec = "file" => taken[i] # "dir"
    BY <1>1 DEF ReplacingAt
  <2>4. ItemInv(i, item[i], "idle", "idle", listing.at, listing.names[i], taken[i], copies[i],
                asked', used', closed)
    BY <1>1, <1>2, <1>3, <1>6, <1>8, <1>9, <1>10, <1>14, <2>3, AnsweredInv
  <2>5. QED
    BY <1>1, <1>13, <1>14, <2>1, <2>4
<1>15. CASE item[i].st = "queued" /\ hit # "none" /\ ~PolicyAnswers(hit)
  <2> DEFINE x == AskingRow(item[i], hit)
  <2>1. /\ x \in ItemRecord /\ x.st = "needs-decision" /\ x.dec = hit
        /\ x.conflict = item[i].conflict /\ x.again = item[i].again /\ x.shown = item[i].shown
    BY <1>1, <1>7, <1>15, AnsweredRows
  <2>2. Clash(s, i, hit) = Row(i, x, "idle", "idle")
    <3>1. Clash(s, i, hit) = [s EXCEPT !.item[i] = [s.item[i] EXCEPT !.st = "needs-decision", !.dec = hit]]
      BY <1>15 DEF Clash
    <3>2. s.item[i] = item[i]
      <4>1. item \in [Items -> ItemRecord]
        BY NowFacts
      <4>2. QED
        BY <1>5, <4>1 DEF Row
    <3>3. [s EXCEPT !.item[i] = x] = Row(i, x, "idle", "idle")
      BY <1>5, RowAgain
    <3>4. QED
      BY <3>1, <3>2, <3>3 DEF AskingRow
  <2>3. Becomes(Settle(Row(i, x, "idle", "idle")))
    BY <1>2, <1>15, <2>2
  <2> HIDE DEF x
  <2>4. ItemInv(i, x, "idle", "idle", listing.at, listing.names[i], taken[i], copies[i],
                asked', used', closed)
    BY <1>2, <1>3, <1>6, <1>7, <1>8, <1>9, <1>10, <1>15, <2>1, AnsweredInv
  <2>5. QED
    BY <1>12, <1>15, <2>1, <2>3, <2>4
<1>16. CASE item[i].st = "queued" /\ hit # "none" /\ PolicyAnswers(hit)
  <2>1. op.policy \in Options(hit) /\ Apply(s, <<i>>, op.policy) /\ hit \in {"file", "dir"}
    BY <1>2, <1>7, <1>16 DEF PolicyAnswers
  <2>2. /\ op.policy \in {"replace", "keep_both", "skip"}
        /\ op.policy = "replace" => hit = "file" /\ taken[i] # "dir" /\ i \in asked'
    BY <1>2, <1>7, <1>16, <2>1, OptionsFacts DEF AskedBy
  <2>3. CASE op.policy = "skip"
    <3> DEFINE x == SkippedRow(item[i])
    <3>1. /\ x \in ItemRecord /\ x.st = "skipped" /\ x.dec = "none"
          /\ x.conflict = item[i].conflict /\ x.again = item[i].again /\ x.shown = item[i].shown
      BY <1>1, AnsweredRows
    <3>2. Becomes(Settle(Row(i, x, "idle", "idle")))
      BY <1>5, <2>1, <2>3, AppliedRow DEF Apply
    <3> HIDE DEF x
    <3>3. ItemInv(i, x, "idle", "idle", listing.at, listing.names[i], taken[i], copies[i],
                  asked', used', closed)
      BY <1>2, <1>3, <1>6, <1>8, <1>9, <1>10, <1>16, <3>1, AnsweredInv
    <3>4. QED
      BY <1>12, <1>16, <3>1, <3>2, <3>3
  <2>4. CASE op.policy # "skip"
    <3> DEFINE x == QueuedRow(item[i], op.policy)
    <3>1. /\ x \in ItemRecord /\ x.st = "queued" /\ x.dec = "none"
          /\ x.conflict = op.policy /\ x.again = item[i].again /\ x.shown = item[i].shown
      BY <1>1, <2>2, <2>4, AnsweredRows
    <3>2. Pump(Queued(i, x))
      BY <1>5, <2>1, <2>4, AppliedRow DEF Apply
    <3> HIDE DEF x
    <3>3. ItemInv(i, x, "idle", "idle", listing.at, listing.names[i], taken[i], copies[i],
                  asked', used', closed)
      BY <1>2, <1>3, <1>6, <1>8, <1>9, <1>10, <1>16, <2>2, <2>4, <3>1, AnsweredInv
    <3>4. QED
      BY <1>13, <1>16, <3>1, <3>2, <3>3
  <2>5. QED
    BY <2>3, <2>4
<1>17. QED
  BY <1>11, <1>14, <1>15, <1>16

LEMMA UnwantedSids ==
    ASSUME RestTyped, NEW s, NEW i
    PROVE  Unwanted(s, i) \cap open # {} => Unwanted(s, i) \subseteq Sids
BY DEF Unwanted, RestTyped

\* A file's attempt ends in a clash: the row asks, is skipped, or goes again.
LEMMA ClashedKeeps ==
    ASSUME Inv, NEW i \in Items, Clashed(i)
    PROVE  Inv'
<1> DEFINE kind == net[i]
           only == co[i] \in {"complete", "recomplete"}
           r == [item[i] EXCEPT !.only = item[i].only \/ only]
           s == [Left(Now, i) EXCEPT !.item[i].only = @ \/ only]
<1>1. /\ item[i] \in ItemRecord /\ item \in [Items -> ItemRecord]
      /\ UnlistedAt(item[i], co[i], Kind[i], listing.at, listing.names[i], taken[i], closed)
      /\ ReplacingAt(i, item[i], co[i], net[i], listing.names[i], taken[i], asked)
      /\ CopyingAt(item[i], co[i], net[i], Kind[i], taken[i], copies[i], used, closed)
      /\ RestTyped
  BY RowFacts, NowFacts DEF ItemInv
<1>2. /\ co[i] \in Pooled /\ kind \in {"file", "dir"}
      /\ UNCHANGED <<walk, listing, closed, taken, copies>>
  BY DEF Clashed
<1>3. /\ item[i].st \in {"uploading", "finishing", "cancelled"} /\ co[i] # "idle"
      /\ Kind[i] # "dir" /\ listing.at \notin {"unasked", "asked"} /\ closed = FALSE
      /\ item[i].st # "none"
  BY <1>2, PooledRow
<1>4. /\ "idle" \in Await /\ "idle" \in Answer /\ "idle" \notin Pooled
      /\ "idle" \notin Making
  BY DEF Await, Answer, Pooled, Making
<1>5. FreshAt(item[i], co[i], net[i])
  BY <1>2 DEF FreshAt, Pooled
<1>6. kind = "file" => taken[i] # "dir"
  BY <1>1, <1>2 DEF ReplacingAt
<1>7. CASE item[i].st = "cancelled"
  <2>1. /\ Pump(Settle(Row(i, item[i], "idle", "idle")))
        /\ UNCHANGED <<open, asked, adrift, used>>
    <3>1. RunEnds(Now, i) /\ UNCHANGED <<open, asked, adrift, used>>
      BY <1>7 DEF Clashed
    <3>2. QED
      BY <3>1, LeftNow DEF RunEnds
  <2>2. InStep(item[i], "idle", "idle", Kind[i])
    BY <1>3, <1>4, <1>7 DEF InStep
  <2>3. UnlistedAt(item[i], "idle", Kind[i], listing.at, listing.names[i], taken[i], closed)
    BY <1>1, <1>3 DEF UnlistedAt
  <2>4. ReplacingAt(i, item[i], "idle", "idle", listing.names[i], taken[i], asked)
    BY <1>1, <1>4 DEF ReplacingAt
  <2>5. CopyingAt(item[i], "idle", "idle", Kind[i], taken[i], copies[i], used, closed)
    BY <1>1, <1>7 DEF CopyingAt, FreshAt
  <2>6. Free(i, item[i], "idle") /\ item[i].st # "needs-decision"
    BY <1>3, <1>7 DEF Free
  <2>7. QED
    BY <1>1, <1>2, <1>3, <1>4, <2>1, <2>2, <2>3, <2>4, <2>5, <2>6, RowEndsInTab
<1>8. CASE item[i].st # "cancelled"
  <2>1. /\ Pump(Settle(Clash(s, i, kind))) /\ SendDelete(Skipped(s, i, kind))
        /\ asked' = AskedBy(i, kind)
    BY <1>8 DEF Clashed
  <2>2. ~Resting(item[i])
    BY <1>3, <1>8 DEF Resting, Active
  <2>3. s = Row(i, r, "idle", "idle")
    <3> DEFINE w == Row(i, item[i], "idle", "idle")
    <3>1. Left(Now, i) = w
      BY LeftNow
    <3>2. w.item[i] = item[i]
      BY <1>1 DEF Row
    <3> HIDE DEF only
    <3>3. [w EXCEPT !.item[i] = r] = Row(i, r, "idle", "idle")
      BY RowAgain
    <3>4. s = [w EXCEPT !.item[i].only = @ \/ only]
      BY <3>1
    <3> HIDE DEF w, s
    <3>5. s = [w EXCEPT !.item[i] = [w.item[i] EXCEPT !.only = w.item[i].only \/ only]]
      BY <3>4
    <3>6. QED
      BY <3>2, <3>3, <3>5
  <2>4. /\ r \in ItemRecord /\ r.st = item[i].st /\ r.dec = item[i].dec
        /\ r.conflict = item[i].conflict /\ r.again = item[i].again /\ r.shown = item[i].shown
    <3> DEFINE o == item[i].only \/ only
    <3>1. o \in BOOLEAN
      OBVIOUS
    <3> HIDE DEF o
    <3>2. QED
      BY <1>1, <3>1 DEF ItemRecord
  <2> HIDE DEF s, r
  <2>5. asked \subseteq asked' /\ asked' \subseteq Items
    BY <1>1, <2>1 DEF AskedBy, RestTyped
  <2>6. /\ open' \subseteq Sids /\ adrift' \subseteq Sids
        /\ used' \in [retries : 0 .. MaxRetries, faults : 0 .. MaxFaults]
        /\ used.retries <= used'.retries /\ used.faults <= used'.faults
    <3>1. Skipped(s, i, kind) \cap open # {} => Skipped(s, i, kind) \subseteq Sids
      BY <1>1, UnwantedSids DEF Skipped
    <3>2. QED
      BY <1>1, <2>1, <3>1, DeleteFacts
  <2>7. RestTyped'
    BY <1>1, <1>2, <2>5, <2>6 DEF RestTyped
  <2>8. ASSUME NEW x \in ItemRecord, x.st \in {"skipped", "needs-decision"}, x.shown = item[i].shown,
               Pump(Settle(Row(i, x, "idle", "idle"))),
               ItemInv(i, x, "idle", "idle", listing.at, listing.names[i], taken[i], copies[i],
                       asked', used', closed)
        PROVE  Inv'
    <3>1. InStep(x, "idle", "idle", Kind[i])
      BY <1>3, <1>4, <2>8 DEF InStep
    <3>2. Free(i, x, "idle")
      BY <1>3, <2>8 DEF Free
    <3>3. QED
      BY <1>2, <1>3, <1>4, <2>2, <2>5, <2>6, <2>7, <2>8, <3>1, <3>2, RowEnds
  <2>9. CASE ~PolicyAnswers(kind)
    <3> DEFINE x == AskingRow(r, kind)
    <3>1. /\ x \in ItemRecord /\ x.st = "needs-decision" /\ x.dec = kind
          /\ x.conflict = r.conflict /\ x.again = r.again /\ x.shown = r.shown
      BY <1>2, <2>4, AnsweredRows
    <3>2. Clash(s, i, kind) = Row(i, x, "idle", "idle")
      <4>1. Clash(s, i, kind) = [s EXCEPT !.item[i] = [s.item[i] EXCEPT !.st = "needs-decision", !.dec = kind]]
        BY <2>9 DEF Clash
      <4>2. s.item[i] = r
        BY <1>1, <2>3 DEF Row
      <4>3. [s EXCEPT !.item[i] = x] = Row(i, x, "idle", "idle")
        BY <2>3, RowAgain
      <4>4. QED
        BY <4>1, <4>2, <4>3 DEF AskingRow
    <3>3. Pump(Settle(Row(i, x, "idle", "idle")))
      BY <2>1, <3>2
    <3> HIDE DEF x
    <3>4. ItemInv(i, x, "idle", "idle", listing.at, listing.names[i], taken[i], copies[i],
                  asked', used', closed)
      BY <1>2, <1>3, <1>5, <1>6, <2>4, <2>5, <2>6, <3>1, AnsweredInv
    <3>5. QED
      BY <2>4, <2>8, <3>1, <3>3, <3>4
  <2>10. CASE PolicyAnswers(kind)
    <3>1. op.policy \in Options(kind) /\ Pump(Settle(Applied(s, <<i>>, op.policy)))
      BY <2>1, <2>10 DEF PolicyAnswers, Clash
    <3>2. /\ op.policy \in {"replace", "keep_both", "skip"}
          /\ op.policy = "replace" => taken[i] # "dir" /\ i \in asked'
      BY <1>2, <1>6, <2>1, <2>10, <3>1, OptionsFacts DEF AskedBy
    <3>3. CASE op.policy = "skip"
      <4> DEFINE x == SkippedRow(r)
      <4>1. /\ x \in ItemRecord /\ x.st = "skipped" /\ x.dec = "none"
            /\ x.conflict = r.conflict /\ x.again = r.again /\ x.shown = r.shown
        BY <2>4, AnsweredRows
      <4>2. Pump(Settle(Row(i, x, "idle", "idle")))
        BY <2>3, <3>1, <3>3, AppliedRow
      <4> HIDE DEF x
      <4>3. ItemInv(i, x, "idle", "idle", listing.at, listing.names[i], taken[i], copies[i],
                    asked', used', closed)
        BY <1>3, <1>5, <2>4, <2>5, <2>6, <4>1, AnsweredInv
      <4>4. QED
        BY <2>4, <2>8, <4>1, <4>2, <4>3
    <3>4. CASE op.policy # "skip"
      <4> DEFINE x == QueuedRow(r, op.policy)
      <4>1. /\ x \in ItemRecord /\ x.st = "queued" /\ x.dec = "none"
            /\ x.conflict = op.policy /\ x.again = r.again /\ x.shown = r.shown
        BY <2>4, <3>2, <3>4, AnsweredRows
      <4>2. Pump(Settle(Queued(i, x)))
        BY <2>3, <3>1, <3>4, AppliedRow
      <4> HIDE DEF x
      <4>3. ItemInv(i, x, "idle", "idle", listing.at, listing.names[i], taken[i], copies[i],
                    asked', used', closed)
        BY <1>3, <1>5, <2>4, <2>5, <2>6, <3>2, <3>4, <4>1, AnsweredInv
      <4>4. QED
        BY <1>2, <1>3, <2>2, <2>4, <2>5, <2>6, <2>7, <4>1, <4>2, <4>3, QueuedEnds
    <3>5. QED
      BY <3>3, <3>4
  <2>11. QED
    BY <2>9, <2>10
<1>9. QED
  BY <1>7, <1>8

----------------------------------------------------------------------------
(* Handlers that change several rows *)

\* q lists the items of T, each once.
Lists(q, T) ==
    /\ q \in Seq(Items)
    /\ \A p \in DOMAIN q : q[p] \in T
    /\ \A i \in T : \E p \in DOMAIN q : q[p] = i
    /\ \A p, r \in DOMAIN q : q[p] = q[r] => p = r

LEMMA InOrderLists ==
    ASSUME NEW T \in SUBSET Items, NEW q \in InOrder(T)
    PROVE  Lists(q, T)
<1>1. /\ q \in Seq(1 .. NItems)
      /\ \A p \in DOMAIN q : q[p] \in T
      /\ \A i \in T : \E p \in DOMAIN q : q[p] = i
      /\ \A p, r \in DOMAIN q : q[p] = q[r] => p = r
  BY InOrderFacts
<1>2. QED
  BY <1>1 DEF Lists

LEMMA SingleLists ==
    ASSUME NEW i \in Items
    PROVE  Lists(<<i>>, {i})
<1> DEFINE q == <<i>>
<1>1. q \in Seq(Items) /\ DOMAIN q = {1} /\ q[1] = i
  OBVIOUS
<1> HIDE DEF q
<1>2. Lists(q, {i})
  BY <1>1 DEF Lists
<1>3. QED
  BY <1>2 DEF q

\* A row that asks.
LEMMA AskingFacts ==
    ASSUME Inv, NEW i \in Items, item[i].st = "needs-decision"
    PROVE  /\ co[i] = "idle" /\ net[i] = "idle" /\ Kind[i] # "dir"
           /\ listing.at \notin {"unasked", "asked"} /\ closed = FALSE /\ op # NoOp
           /\ FreshAt(item[i], co[i], net[i]) /\ item[i].dec \in {"file", "dir"}
           /\ item[i].dec = "file" => taken[i] # "dir"
<1>1. /\ item[i] \in ItemRecord /\ InStep(item[i], co[i], net[i], Kind[i])
      /\ UnlistedAt(item[i], co[i], Kind[i], listing.at, listing.names[i], taken[i], closed)
      /\ ReplacingAt(i, item[i], co[i], net[i], listing.names[i], taken[i], asked)
  BY RowFacts DEF ItemInv
<1>2. co[i] = "idle" /\ net[i] = "idle" /\ Kind[i] # "dir"
  BY <1>1 DEF InStep
<1>3. listing.at \notin {"unasked", "asked"}
  BY <1>1, <1>2 DEF UnlistedAt
<1>4. closed = FALSE /\ op # NoOp
  BY AtWork
<1>5. item[i].dec \in {"file", "dir"} /\ (item[i].dec = "file" => taken[i] # "dir")
  BY <1>1 DEF ReplacingAt, ItemRecord
<1>6. QED
  BY <1>2, <1>3, <1>4, <1>5 DEF FreshAt

\* The answer for the rows of T, with what it leaves as the operation.
LEMMA ApplyKeeps ==
    ASSUME Inv, NEW T \in SUBSET Items, T # {}, NEW q, Lists(q, T), NEW choice,
           \A i \in T : /\ item[i].shown = TRUE /\ item[i].st = "needs-decision"
                        /\ choice \in Options(item[i].dec),
           NEW o \in OpRecord, op.listed = TRUE, o.listed = TRUE, o.ended = op.ended,
           Apply([Now EXCEPT !.op = o], q, choice),
           RestTyped', UNCHANGED <<walk, listing, closed, taken, copies>>,
           asked \subseteq asked', used.retries <= used'.retries, used.faults <= used'.faults,
           choice = "replace" => T \subseteq asked'
    PROVE  Inv'
<1> DEFINE to(r) == IF choice = "skip" THEN SkippedRow(r) ELSE QueuedRow(r, choice)
           it == [i \in Items |-> IF i \in T THEN to(item[i]) ELSE item[i]]
           rs == IF choice = "skip" THEN ready ELSE ready \o q
           s == [Now EXCEPT !.op = o]
           x == Applied(s, q, choice)
<1>1. /\ op \in OpRecord /\ walking \in BOOLEAN /\ item \in [Items -> ItemRecord]
      /\ co \in [Items -> Await] /\ net \in [Items -> Answer] /\ ready \in Seq(Items)
      /\ Sound(Now) /\ PoolOK(Now) /\ Cardinality(InPool(Now)) <= Parallel /\ RestTyped
  BY NowFacts
<1>2. \A i \in T : /\ i \in Items /\ co[i] = "idle" /\ net[i] = "idle" /\ Kind[i] # "dir"
                   /\ listing.at \notin {"unasked", "asked"} /\ closed = FALSE /\ op # NoOp
                   /\ FreshAt(item[i], co[i], net[i]) /\ item[i].dec \in {"file", "dir"}
                   /\ item[i].dec = "file" => taken[i] # "dir"
  BY AskingFacts
<1>3. choice \in {"replace", "keep_both", "skip"} /\ \A i \in T : choice = "replace" => taken[i] # "dir"
  BY <1>2, OptionsFacts
<1>4. \A i \in T : LET n == to(item[i])
                   IN  /\ n \in ItemRecord /\ n.again = item[i].again /\ n.shown = item[i].shown
                       /\ n.dec = "none"
                       /\ n.st = IF choice = "skip" THEN "skipped" ELSE "queued"
                       /\ n.conflict = IF choice = "skip" THEN item[i].conflict ELSE choice
  <2> SUFFICES ASSUME NEW i \in T
               PROVE  LET n == to(item[i])
                      IN  /\ n \in ItemRecord /\ n.again = item[i].again /\ n.shown = item[i].shown
                          /\ n.dec = "none"
                          /\ n.st = IF choice = "skip" THEN "skipped" ELSE "queued"
                          /\ n.conflict = IF choice = "skip" THEN item[i].conflict ELSE choice
    OBVIOUS
  <2>1. item[i] \in ItemRecord
    BY <1>1
  <2>2. CASE choice = "skip"
    BY <2>1, <2>2, AnsweredRows
  <2>3. CASE choice # "skip"
    BY <1>3, <2>1, <2>3, AnsweredRows
  <2>4. QED
    BY <2>2, <2>3
<1>5. x = [op |-> o, walking |-> walking, item |-> it, co |-> co, net |-> net, ready |-> rs]
  <2> DEFINE y == [op |-> o, walking |-> walking, item |-> item, co |-> co, net |-> net, ready |-> ready]
             all == [i \in Items |-> IF \E n \in DOMAIN q : q[n] = i THEN to(item[i]) ELSE item[i]]
  <2>1. s = y
    BY DEF Now
  <2>2. \A i \in Items : (\E n \in DOMAIN q : q[n] = i) <=> i \in T
    BY DEF Lists
  <2>3. all = it
    <3> HIDE DEF to
    <3>1. QED
      BY <2>2
  <2>4. Applied(y, q, choice) = [y EXCEPT !.item = all, !.ready = rs]
    BY DEF Applied, SkippedRow, QueuedRow
  <2>5. [y EXCEPT !.item = all, !.ready = rs]
          = [op |-> o, walking |-> walking, item |-> all, co |-> co, net |-> net, ready |-> rs]
    <3> HIDE DEF all, rs
    <3> DEFINE z == [op |-> o, walking |-> walking, item |-> all, co |-> co, net |-> net,
                     ready |-> ready]
    <3>1. [y EXCEPT !.item = all] = z
      OBVIOUS
    <3>2. [z EXCEPT !.ready = rs]
            = [op |-> o, walking |-> walking, item |-> all, co |-> co, net |-> net, ready |-> rs]
      OBVIOUS
    <3> HIDE DEF y, z
    <3>3. QED
      BY <3>1, <3>2
  <2> HIDE DEF s, y, all, it, rs
  <2>6. QED
    BY <2>1, <2>3, <2>4, <2>5
<1> HIDE DEF to
<1>6. it \in [Items -> ItemRecord] /\ rs \in Seq(Items)
  <2>1. \A i \in T : to(item[i]) \in ItemRecord
    BY <1>4
  <2>2. it \in [Items -> ItemRecord]
    BY <1>1, <2>1
  <2>3. rs \in Seq(Items)
    <3>1. q \in Seq(Items)
      BY DEF Lists
    <3>2. ready \o q \in Seq(Items)
      BY <1>1, <3>1
    <3>3. QED
      BY <1>1, <3>2, Zenon
  <2>4. QED
    BY <2>2, <2>3
<1>7. /\ x \in TabState /\ x.op = o /\ x.walking = walking /\ x.co = co /\ x.net = net
      /\ x.ready = rs /\ x.item = it
  <2> HIDE DEF it, rs, x
  <2>1. QED
    BY <1>1, <1>5, <1>6 DEF TabState
<1>8. /\ \A i \in T : x.item[i] = to(item[i])
      /\ \A i \in Items \ T : x.item[i] = item[i]
  BY <1>7
<1>9. \/ Becomes(Settle(x)) /\ choice = "skip"
      \/ Pump(x) /\ choice # "skip"
  <2> HIDE DEF s
  <2>1. Apply(s, q, choice)
    BY DEF s
  <2>2. QED
    BY <2>1 DEF Apply
<1>10. op # NoOp /\ closed' = FALSE /\ closed' = closed /\ op.ended = FALSE
  <2>1. PICK i \in T : TRUE
    OBVIOUS
  <2>2. Over(Now) /\ Now.op = op /\ Now.item = item
    BY DEF Inv, Now
  <2>3. op.ended \in BOOLEAN
    BY <1>1 DEF OpRecord
  <2>4. op.ended # TRUE
    BY <2>1, <2>2 DEF Over
  <2>5. QED
    BY <1>2, <2>1, <2>3, <2>4
<1> HIDE DEF it, x
<1>11. Steps(x)
  <2> SUFFICES ASSUME NEW i \in Items
               PROVE  InStep(x.item[i], x.co[i], x.net[i], Kind[i])
    BY DEF Steps
  <2>1. CASE i \in T
    <3>1. x.item[i].st \in {"skipped", "queued"} /\ x.co[i] = "idle" /\ x.net[i] = "idle" /\ Kind[i] # "dir"
      BY <1>2, <1>4, <1>7, <1>8, <2>1
    <3>2. QED
      BY <3>1 DEF InStep, Making
  <2>2. CASE i \notin T
    BY <1>7, <1>8, <2>2, RowFacts
  <2>3. QED
    BY <2>1, <2>2
<1>12. Now.op = op /\ Now.item = item /\ Now.co = co /\ Now.net = net /\ Now.ready = ready
  BY DEF Now
<1>13. Sound(x)
  <2> DEFINE w == Now
  <2>1. Sound(w) /\ w.op = op /\ w.item = item /\ w.co = co /\ w.net = net /\ w.ready = ready
    BY <1>1, <1>12
  <2> HIDE DEF w
  <2>2. CASE choice = "skip"
    <3>1. x.ready = w.ready /\ x.op.listed = w.op.listed
      BY <1>7, <2>1, <2>2
    <3>2. \A i \in Items :
            \/ x.item[i].st = w.item[i].st /\ x.co[i] = w.co[i]
            \/ x.item[i].st = "cancelled" /\ x.co[i] = w.co[i]
            \/ /\ w.item[i].st \notin {"queued", "cancelled"} \/ w.co[i] # "idle"
               /\ x.item[i].st = "queued" => x.co[i] = "names"
      BY <1>4, <1>7, <1>8, <2>1, <2>2
    <3>3. QED
      BY <1>7, <1>11, <2>1, <3>1, <3>2, ChangeSound
  <2>3. CASE choice # "skip"
    <3>1. Pushes(w, x, T, q)
      <4>1. \A i \in T : /\ w.item[i].st \notin {"queued", "cancelled"} \/ w.co[i] # "idle"
                         /\ x.item[i].st = "queued" /\ x.co[i] = "idle"
        BY <1>2, <1>4, <1>7, <1>8, <2>1, <2>3
      <4>2. \A i \in Items \ T : x.item[i].st = w.item[i].st /\ x.co[i] = w.co[i]
        BY <1>7, <1>8, <2>1
      <4>3. x.op.listed = w.op.listed /\ x.ready = w.ready \o q
        BY <1>7, <2>1, <2>3
      <4>4. QED
        BY <4>1, <4>2, <4>3 DEF Pushes, Lists
    <3>2. QED
      BY <1>7, <1>11, <2>1, <3>1, QueueSound DEF Lists
  <2>4. QED
    BY <2>2, <2>3
<1>14. InPool(x) = InPool(Now)
  BY <1>7, <1>12 DEF InPool
<1>15. \A i \in Items : ItemInv(i, x.item[i], x.co[i], x.net[i], listing'.at, listing'.names[i],
                                taken'[i], copies'[i], asked', used', closed')
  <2> SUFFICES ASSUME NEW i \in Items
               PROVE  ItemInv(i, x.item[i], x.co[i], x.net[i], listing.at, listing.names[i],
                              taken[i], copies[i], asked', used', closed)
    OBVIOUS
  <2>1. /\ copies[i] \in Nat /\ used \in [retries : 0 .. MaxRetries, faults : 0 .. MaxFaults]
        /\ used' \in [retries : 0 .. MaxRetries, faults : 0 .. MaxFaults]
    BY <1>1 DEF RestTyped
  <2>2. CASE i \in T
    <3> DEFINE n == x.item[i]
    <3>1. /\ n \in ItemRecord /\ n.again = item[i].again /\ n.dec = "none"
          /\ n.st \in {"skipped", "queued"}
          /\ n.conflict = IF choice = "skip" THEN item[i].conflict ELSE choice
          /\ x.co[i] = "idle" /\ x.net[i] = "idle"
      BY <1>2, <1>4, <1>7, <1>8, <2>2
    <3>2. n.conflict \in {item[i].conflict, "keep_both"} \/ (i \in asked' /\ taken[i] # "dir")
      BY <1>3, <2>2, <3>1
    <3> HIDE DEF n
    <3>3. ItemInv(i, n, "idle", "idle", listing.at, listing.names[i], taken[i], copies[i],
                  asked', used', closed)
      BY <1>2, <2>1, <2>2, <3>1, <3>2, AnsweredInv
    <3>4. QED
      BY <3>1, <3>3 DEF n
  <2>3. CASE i \notin T
    <3>1. ItemInv(i, item[i], co[i], net[i], listing.at, listing.names[i], taken[i], copies[i],
                  asked', used', closed)
      BY <2>1, RowFacts, ItemInvGrows
    <3>2. QED
      BY <1>7, <1>8, <2>3, <3>1
  <2>4. QED
    BY <2>2, <2>3
<1>16. \A i \in Items : item[i].st = "none" => x.item[i] = item[i]
  BY <1>8
<1>17. CASE Becomes(Settle(x)) /\ choice = "skip"
  <2>1. PoolOK(x)
    BY <1>1, <1>7, <1>12, <1>14, <1>17 DEF PoolOK
  <2>2. QED
    BY <1>7, <1>10, <1>13, <1>15, <1>16, <1>17, <2>1, HandlerSettles
<1>18. CASE Pump(x) /\ choice # "skip"
  <2>1. Ends(x)
    BY <1>1, <1>14, <1>18 DEF Ends
  <2>2. Over(x)
    BY <1>7, <1>10 DEF Over
  <2>3. QED
    BY <1>7, <1>10, <1>13, <1>15, <1>16, <2>1, <2>2, HandlerEnds
<1>19. QED
  BY <1>9, <1>17, <1>18

LEMMA UnwantedTyped ==
    ASSUME Inv, NEW i \in Items
    PROVE  Unwanted(Now, i) \subseteq Sids
<1>1. item[i].sid \in Sids \cup {NoSid}
  BY RowFacts DEF ItemRecord
<1>2. Now.item[i] = item[i]
  BY DEF Now
<1>3. Unwanted(Now, i) \subseteq {item[i].sid} \ {NoSid}
  BY <1>2 DEF Unwanted
<1>4. QED
  BY <1>1, <1>3

LEMMA HereFacts ==
    ASSUME Inv, NEW i \in Items, Here(i)
    PROVE  item[i].shown = TRUE /\ op.listed = TRUE
<1>1. item[i].shown \in BOOLEAN /\ op.listed \in BOOLEAN
  BY RowFacts, NowFacts DEF ItemRecord, OpRecord
<1>2. QED
  BY <1>1 DEF Here

LEMMA DecideKeeps ==
    ASSUME Inv, NEW i \in Items, NEW choice \in {"replace", "keep_both", "skip"}, Decide(i, choice)
    PROVE  Inv'
<1> DEFINE S == IF choice = "skip" THEN Unwanted(Now, i) ELSE {}
<1>1. /\ Here(i) /\ item[i].st = "needs-decision" /\ choice \in Options(item[i].dec)
      /\ Apply(Now, <<i>>, choice) /\ SendDelete(S)
      /\ asked' = IF choice = "replace" THEN asked \cup {i} ELSE asked
      /\ UNCHANGED <<walk, listing, closed, taken, copies>>
  BY DEF Decide
<1>2. RestTyped /\ op \in OpRecord
  BY NowFacts
<1>3. S \subseteq Sids
  BY UnwantedTyped
<1>4. /\ open' \subseteq Sids /\ adrift' \subseteq Sids
      /\ used' \in [retries : 0 .. MaxRetries, faults : 0 .. MaxFaults]
      /\ used.retries <= used'.retries /\ used.faults <= used'.faults
  <2> HIDE DEF S
  <2>1. QED
    BY <1>1, <1>2, <1>3, DeleteFacts
<1>5. asked' \subseteq Items /\ asked \subseteq asked' /\ (choice = "replace" => {i} \subseteq asked')
  BY <1>1, <1>2 DEF RestTyped
<1>6. RestTyped'
  BY <1>1, <1>2, <1>4, <1>5 DEF RestTyped
<1>7. [Now EXCEPT !.op = op] = Now
  BY DEF Now
<1>8. Apply([Now EXCEPT !.op = op], <<i>>, choice)
  BY <1>1, <1>7
<1> DEFINE T == {i}
           q == <<i>>
<1>9. /\ T \in SUBSET Items /\ T # {} /\ Lists(q, T)
      /\ \A j \in T : /\ item[j].shown = TRUE /\ item[j].st = "needs-decision"
                      /\ choice \in Options(item[j].dec)
      /\ op.listed = TRUE /\ Apply([Now EXCEPT !.op = op], q, choice)
      /\ choice = "replace" => T \subseteq asked'
  BY <1>1, <1>5, <1>8, HereFacts, SingleLists
<1> HIDE DEF T, q
<1>10. QED
  BY <1>1, <1>2, <1>4, <1>5, <1>6, <1>9, ApplyKeeps

LEMMA DecideAllKeeps ==
    ASSUME Inv, NEW choice \in {"replace", "keep_both", "skip"}, DecideAll(choice)
    PROVE  Inv'
<1> DEFINE T == {i \in Items : /\ Here(i) /\ item[i].st = "needs-decision"
                               /\ AllowedForAll(item[i].dec, choice)}
           S == IF choice = "skip" THEN UNION {Unwanted(Now, i) : i \in T} ELSE {}
           o == [op EXCEPT !.policy = choice]
<1>1. /\ T # {} /\ SendDelete(S)
      /\ asked' = IF choice = "replace" THEN asked \cup T ELSE asked
      /\ UNCHANGED <<walk, listing, closed, taken, copies>>
  BY DEF DecideAll
<1>2. PICK q \in InOrder(T) : Apply([Now EXCEPT !.op.policy = choice], q, choice)
  BY DEF DecideAll
<1>3. RestTyped /\ op \in OpRecord
  BY NowFacts
<1>4. [Now EXCEPT !.op.policy = choice] = [Now EXCEPT !.op = o]
  BY DEF Now
<1>5. o \in OpRecord /\ o.listed = op.listed /\ o.ended = op.ended
  BY <1>3 DEF OpRecord
<1>6. /\ T \in SUBSET Items /\ op.listed = TRUE
      /\ \A i \in T : /\ item[i].shown = TRUE /\ item[i].st = "needs-decision"
                      /\ choice \in Options(item[i].dec)
  <2>1. ASSUME NEW i \in T
        PROVE  /\ i \in Items /\ item[i].shown = TRUE /\ op.listed = TRUE
               /\ item[i].st = "needs-decision" /\ choice \in Options(item[i].dec)
    <3>1. /\ i \in Items /\ Here(i) /\ item[i].st = "needs-decision"
          /\ AllowedForAll(item[i].dec, choice)
      OBVIOUS
    <3>2. item[i].dec # "broadens"
      BY <3>1, AskingFacts
    <3>3. QED
      BY <3>1, <3>2, HereFacts DEF AllowedForAll
  <2> HIDE DEF T
  <2>2. QED
    BY <1>1, <2>1
<1>7. S \subseteq Sids
  <2> HIDE DEF T
  <2>1. \A i \in T : Unwanted(Now, i) \subseteq Sids
    BY <1>6, UnwantedTyped
  <2>2. QED
    BY <2>1
<1> HIDE DEF T, S, o
<1>8. /\ open' \subseteq Sids /\ adrift' \subseteq Sids
      /\ used' \in [retries : 0 .. MaxRetries, faults : 0 .. MaxFaults]
      /\ used.retries <= used'.retries /\ used.faults <= used'.faults
  BY <1>1, <1>3, <1>7, DeleteFacts
<1>9. asked' \subseteq Items /\ asked \subseteq asked' /\ (choice = "replace" => T \subseteq asked')
  BY <1>1, <1>3, <1>6 DEF RestTyped
<1>10. RestTyped'
  BY <1>1, <1>3, <1>8, <1>9 DEF RestTyped
<1>11. Lists(q, T) /\ Apply([Now EXCEPT !.op = o], q, choice)
  BY <1>2, <1>4, <1>6, InOrderLists
<1>12. QED
  BY <1>1, <1>5, <1>6, <1>8, <1>9, <1>10, <1>11, ApplyKeeps

LEMMA RetryItemsKeeps ==
    ASSUME Inv, NEW T \in SUBSET Items, RetryItems(T)
    PROVE  Inv'
<1> DEFINE dirs == {i \in T : Kind[i] = "dir"}
           made(r) == [r EXCEPT !.st = "running", !.off = FALSE]
           sent(r) == [r EXCEPT !.st = "queued", !.off = FALSE, !.sid = NoSid, !.only = FALSE]
           it == [i \in Items |-> IF i \in dirs THEN made(item[i])
                                  ELSE IF i \in T THEN sent(item[i]) ELSE item[i]]
           cs == [i \in Items |-> IF i \in dirs THEN "mkdir" ELSE co[i]]
           ns == [i \in Items |-> IF i \in dirs THEN "sent" ELSE net[i]]
<1>1. /\ T # {} /\ \A i \in T : Retryable(i)
      /\ used.retries + Cardinality(T) <= MaxRetries
      /\ used' = [used EXCEPT !.retries = @ + Cardinality(T)]
      /\ UNCHANGED <<walk, listing, closed, taken, open, copies, asked, adrift>>
  BY DEF RetryItems, lunad
<1>2. PICK q \in InOrder(T \ dirs) :
         Pump(Settle([Now EXCEPT !.item = it, !.co = cs, !.net = ns, !.ready = @ \o q]))
  BY DEF RetryItems, Now
<1> DEFINE rs == ready \o q
           x == [Now EXCEPT !.item = it, !.co = cs, !.net = ns, !.ready = rs]
<1>3. /\ op \in OpRecord /\ walking \in BOOLEAN /\ item \in [Items -> ItemRecord]
      /\ co \in [Items -> Await] /\ net \in [Items -> Answer] /\ ready \in Seq(Items)
      /\ Sound(Now) /\ PoolOK(Now) /\ Cardinality(InPool(Now)) <= Parallel /\ RestTyped
      /\ Now \in TabState
  BY NowFacts
<1>4. Now.op = op /\ Now.item = item /\ Now.co = co /\ Now.net = net /\ Now.ready = ready
  BY DEF Now
<1>5. Pump(Settle(x))
  <2> HIDE DEF it, cs, ns
  <2>1. QED
    BY <1>2, <1>4
<1>6. ASSUME NEW i \in T
      PROVE  /\ i \in Items /\ item[i].shown = TRUE /\ op.listed = TRUE /\ item[i].st = "failed"
             /\ item[i].again = TRUE /\ co[i] = "idle" /\ net[i] = "idle" /\ op # NoOp
             /\ closed = FALSE
  <2>1. Retryable(i) /\ i \in Items
    BY <1>1
  <2>2. Here(i) /\ item[i].st = "failed" /\ item[i].again
    BY <2>1 DEF Retryable
  <2>3. item[i].again \in BOOLEAN /\ InStep(item[i], co[i], net[i], Kind[i])
    BY <2>1, RowFacts DEF ItemRecord
  <2>4. co[i] = "idle" /\ net[i] = "idle"
    BY <2>2, <2>3 DEF InStep
  <2>5. item[i].shown = TRUE /\ op.listed = TRUE
    BY <2>1, <2>2, HereFacts
  <2>6. op # NoOp /\ closed = FALSE
    BY <2>1, <2>2, AtWork
  <2>7. QED
    BY <2>1, <2>2, <2>3, <2>4, <2>5, <2>6
<1>7. ASSUME NEW i \in T
      PROVE  /\ made(item[i]) \in ItemRecord /\ sent(item[i]) \in ItemRecord
             /\ made(item[i]).st = "running" /\ sent(item[i]).st = "queued"
             /\ made(item[i]).dec = item[i].dec /\ sent(item[i]).dec = item[i].dec
             /\ made(item[i]).conflict = item[i].conflict /\ sent(item[i]).conflict = item[i].conflict
             /\ made(item[i]).again = item[i].again /\ sent(item[i]).again = item[i].again
  <2>1. item[i] \in ItemRecord
    BY <1>3, <1>6
  <2>2. "running" \in ItemState /\ "queued" \in ItemState
    BY DEF ItemState, Active
  <2>3. /\ made(item[i]) \in ItemRecord /\ made(item[i]).st = "running"
        /\ made(item[i]).dec = item[i].dec /\ made(item[i]).conflict = item[i].conflict
        /\ made(item[i]).again = item[i].again
    BY <2>1, <2>2 DEF ItemRecord
  <2>4. /\ sent(item[i]) \in ItemRecord /\ sent(item[i]).st = "queued"
        /\ sent(item[i]).dec = item[i].dec /\ sent(item[i]).conflict = item[i].conflict
        /\ sent(item[i]).again = item[i].again
    BY <2>1, <2>2 DEF ItemRecord
  <2>5. QED
    BY <2>3, <2>4
<1>8. Cardinality(T) \in Nat /\ Cardinality(T) >= 1
  <2>1. IsFiniteSet(1 .. NItems)
    BY FS_Interval
  <2>2. IsFiniteSet(T)
    BY <2>1, FS_Subset
  <2>3. Cardinality(T) \in Nat /\ Cardinality(T) # 0
    BY <1>1, <2>2, FS_CardinalityType, FS_EmptySet
  <2>4. QED
    BY <2>3
<1>9. Lists(q, T \ dirs)
  BY <1>2, InOrderLists
<1>10. /\ used' \in [retries : 0 .. MaxRetries, faults : 0 .. MaxFaults]
       /\ used'.retries >= used.retries + 1 /\ used'.faults = used.faults
       /\ used.retries \in Nat /\ used.faults \in Nat
  <2> DEFINE n == Cardinality(T)
  <2> HIDE DEF n
  <2>1. n \in Nat /\ n >= 1 /\ used.retries + n <= MaxRetries /\ used' = [used EXCEPT !.retries = used.retries + n]
    BY <1>1, <1>8 DEF n
  <2>2. used \in [retries : 0 .. MaxRetries, faults : 0 .. MaxFaults]
    BY <1>3 DEF RestTyped
  <2>3. QED
    BY <2>1, <2>2
<1>11. RestTyped'
  BY <1>1, <1>3, <1>10 DEF RestTyped
<1>6b. \A i \in T : i \in Items /\ item[i].st = "failed" /\ co[i] = "idle" /\ net[i] = "idle"
  BY <1>6
<1>7b. \A i \in T : made(item[i]).st = "running" /\ sent(item[i]).st = "queued"
  BY <1>7
<1> HIDE DEF made, sent
<1>12. /\ it \in [Items -> ItemRecord] /\ cs \in [Items -> Await] /\ ns \in [Items -> Answer]
       /\ rs \in Seq(Items)
  <2>1. it \in [Items -> ItemRecord]
    BY <1>3, <1>7
  <2>2. cs \in [Items -> Await] /\ ns \in [Items -> Answer]
    BY <1>3 DEF Await, Making, Answer
  <2>3. q \in Seq(Items)
    BY <1>9 DEF Lists
  <2>4. QED
    BY <1>3, <2>1, <2>2, <2>3
<1>13. /\ x \in TabState /\ x.op = op /\ x.walking = Now.walking
       /\ x.item = it /\ x.co = cs /\ x.net = ns /\ x.ready = rs
  <2> HIDE DEF it, cs, ns, rs
  <2>1. QED
    BY <1>3, <1>4, <1>12 DEF TabState
<1>14. /\ \A i \in dirs : x.item[i] = made(item[i]) /\ x.co[i] = "mkdir" /\ x.net[i] = "sent"
       /\ \A i \in T \ dirs : x.item[i] = sent(item[i]) /\ x.co[i] = "idle" /\ x.net[i] = "idle"
       /\ \A i \in Items \ T : x.item[i] = item[i] /\ x.co[i] = co[i] /\ x.net[i] = net[i]
       /\ dirs \subseteq T /\ (\A i \in dirs : Kind[i] = "dir") /\ (\A i \in T \ dirs : Kind[i] # "dir")
  <2> HIDE DEF x, made, sent
  <2>1. \A i \in dirs : x.item[i] = made(item[i]) /\ x.co[i] = "mkdir" /\ x.net[i] = "sent"
    BY <1>6b, <1>13
  <2>2. \A i \in T \ dirs : x.item[i] = sent(item[i]) /\ x.co[i] = "idle" /\ x.net[i] = "idle"
    BY <1>6b, <1>13
  <2>3. \A i \in Items \ T : x.item[i] = item[i] /\ x.co[i] = co[i] /\ x.net[i] = net[i]
    BY <1>13
  <2>4. dirs \subseteq T /\ (\A i \in dirs : Kind[i] = "dir") /\ (\A i \in T \ dirs : Kind[i] # "dir")
    OBVIOUS
  <2> HIDE DEF dirs
  <2>5. QED
    BY <2>1, <2>2, <2>3, <2>4
<1> HIDE DEF x, it, cs, ns, dirs
<1>15. Steps(x)
  <2> SUFFICES ASSUME NEW i \in Items
               PROVE  InStep(x.item[i], x.co[i], x.net[i], Kind[i])
    BY DEF Steps
  <2>1. CASE i \in dirs
    BY <1>7, <1>14, <2>1 DEF InStep, Making
  <2>2. CASE i \in T \ dirs
    BY <1>7, <1>14, <2>2 DEF InStep, Making
  <2>3. CASE i \notin T
    BY <1>14, <2>3, RowFacts
  <2>4. QED
    BY <2>1, <2>2, <2>3
<1>16. Sound(x)
  <2> DEFINE w == Now
             D == T \ dirs
  <2>1. Sound(w) /\ w.op = op /\ w.item = item /\ w.co = co /\ w.ready = ready
    BY <1>3, <1>4
  <2>2. D \in SUBSET Items /\ q \in Seq(Items)
    BY <1>9 DEF Lists
  <2>3. \A i \in D : /\ w.item[i].st \notin {"queued", "cancelled"} \/ w.co[i] # "idle"
                     /\ x.item[i].st = "queued" /\ x.co[i] = "idle"
    <3> SUFFICES ASSUME NEW i \in T, i \in T \ dirs
                 PROVE  /\ w.item[i].st \notin {"queued", "cancelled"} \/ w.co[i] # "idle"
                        /\ x.item[i].st = "queued" /\ x.co[i] = "idle"
      OBVIOUS
    <3> HIDE DEF w, D
    <3>1. x.item[i].st = "queued" /\ x.co[i] = "idle"
      BY <1>7b, <1>14
    <3>2. w.item[i].st = "failed"
      BY <1>6b, <2>1
    <3>3. QED
      BY <3>1, <3>2
  <2>4. \A i \in Items \ D :
          \/ x.item[i].st = w.item[i].st /\ x.co[i] = w.co[i]
          \/ /\ w.item[i].st \notin {"queued", "cancelled"} \/ w.co[i] # "idle"
             /\ x.item[i].st # "queued"
    <3> SUFFICES ASSUME NEW i \in Items \ D
                 PROVE  \/ x.item[i].st = w.item[i].st /\ x.co[i] = w.co[i]
                        \/ /\ w.item[i].st \notin {"queued", "cancelled"} \/ w.co[i] # "idle"
                           /\ x.item[i].st # "queued"
      OBVIOUS
    <3>1. CASE i \in dirs
      BY <1>6b, <1>7b, <1>14, <2>1, <3>1
    <3>2. CASE i \notin T
      BY <1>14, <2>1, <3>2
    <3>3. QED
      BY <3>1, <3>2
  <2>5. x.op.listed = w.op.listed /\ x.ready = w.ready \o q
    BY <1>13, <2>1
  <2>6. Lists(q, D)
    BY <1>9
  <2> HIDE DEF w, D
  <2>7. Pushes(w, x, D, q)
    BY <2>3, <2>4, <2>5, <2>6 DEF Pushes, Lists
  <2>8. QED
    BY <1>13, <1>15, <2>1, <2>2, <2>7, QueueSound
<1>17. Cardinality(InPool(x)) <= Parallel
  <2>1. \A i \in Items : x.co[i] \in Pooled => Now.co[i] \in Pooled
    BY <1>4, <1>14 DEF Pooled
  <2>2. Cardinality(InPool(x)) <= Cardinality(InPool(Now))
    BY <2>1, PoolShrinks
  <2>3. Cardinality(InPool(x)) \in Nat /\ Cardinality(InPool(Now)) \in Nat
    BY PoolFinite
  <2>4. QED
    BY <1>3, <2>2, <2>3
<1>18. \A i \in Items : ItemInv(i, x.item[i], x.co[i], x.net[i], listing'.at, listing'.names[i],
                                taken'[i], copies'[i], asked', used', closed')
  <2> SUFFICES ASSUME NEW i \in Items
               PROVE  ItemInv(i, x.item[i], x.co[i], x.net[i], listing.at, listing.names[i],
                              taken[i], copies[i], asked, used', closed)
    BY <1>1
  <2>1. /\ copies[i] \in Nat /\ used \in [retries : 0 .. MaxRetries, faults : 0 .. MaxFaults]
    BY <1>3 DEF RestTyped
  <2>2. /\ UnlistedAt(item[i], co[i], Kind[i], listing.at, listing.names[i], taken[i], closed)
        /\ ReplacingAt(i, item[i], co[i], net[i], listing.names[i], taken[i], asked)
        /\ CopyingAt(item[i], co[i], net[i], Kind[i], taken[i], copies[i], used, closed)
    BY RowFacts DEF ItemInv
  <2>3. CASE i \in dirs
    <3>1. /\ x.item[i].st = "running" /\ x.item[i].dec = item[i].dec
          /\ x.item[i].conflict = item[i].conflict /\ x.co[i] = "mkdir" /\ Kind[i] = "dir"
      BY <1>7, <1>14, <2>3
    <3>2. UnlistedAt(x.item[i], x.co[i], Kind[i], listing.at, listing.names[i], taken[i], closed)
      BY <3>1 DEF UnlistedAt
    <3>3. ReplacingAt(i, x.item[i], x.co[i], x.net[i], listing.names[i], taken[i], asked)
      BY <2>2, <3>1 DEF ReplacingAt, Pooled
    <3>4. CopyingAt(x.item[i], x.co[i], x.net[i], Kind[i], taken[i], copies[i], used', closed)
      BY <2>2, <3>1 DEF CopyingAt
    <3>5. QED
      BY <3>2, <3>3, <3>4 DEF ItemInv
  <2>4. CASE i \in T \ dirs
    <3>1. /\ x.item[i].st = "queued" /\ x.item[i].dec = item[i].dec
          /\ x.item[i].conflict = item[i].conflict /\ x.item[i].again = item[i].again
          /\ x.co[i] = "idle" /\ x.net[i] = "idle" /\ Kind[i] # "dir"
          /\ item[i].again = TRUE
      <4>1. item[i].again = TRUE
        BY <1>6, <2>4
      <4>2. x.item[i] = sent(item[i]) /\ x.co[i] = "idle" /\ x.net[i] = "idle" /\ Kind[i] # "dir"
        BY <1>14, <2>4
      <4>3. /\ sent(item[i]).st = "queued" /\ sent(item[i]).dec = item[i].dec
            /\ sent(item[i]).conflict = item[i].conflict /\ sent(item[i]).again = item[i].again
        BY <1>7, <2>4
      <4>4. QED
        BY <4>1, <4>2, <4>3
    <3>2. UnlistedAt(x.item[i], x.co[i], Kind[i], listing.at, listing.names[i], taken[i], closed)
      BY <2>2, <3>1 DEF UnlistedAt
    <3>3. ReplacingAt(i, x.item[i], x.co[i], x.net[i], listing.names[i], taken[i], asked)
      BY <2>2, <3>1 DEF ReplacingAt, Pooled
    <3>4. CopyingAt(x.item[i], x.co[i], x.net[i], Kind[i], taken[i], copies[i], used', closed)
      <4>1. copies[i] <= used'.retries /\ used'.faults > 0 /\ copies[i] <= used'.retries + 1
        BY <1>10, <2>1, <2>2, <3>1 DEF CopyingAt
      <4>2. QED
        BY <2>2, <3>1, <4>1 DEF CopyingAt
    <3>5. QED
      BY <3>2, <3>3, <3>4 DEF ItemInv
  <2>5. CASE i \notin T
    <3>1. ItemInv(i, item[i], co[i], net[i], listing.at, listing.names[i], taken[i], copies[i],
                  asked, used', closed)
      <4>1. used.retries <= used'.retries /\ used.faults <= used'.faults
        BY <1>10
      <4>2. QED
        BY <1>10, <2>1, <4>1, RowFacts, ItemInvGrows
    <3>2. QED
      BY <1>14, <2>5, <3>1
  <2>6. QED
    BY <2>3, <2>4, <2>5
<1>19. \A i \in Items : item[i].st = "none" => x.item[i] = item[i]
  BY <1>6, <1>14
<1>20. op.listed = TRUE /\ op.ended = TRUE =>
          \A i \in Items : x.item[i].shown = TRUE => x.item[i].st # "needs-decision"
  <2>1. op.listed = TRUE /\ op.ended = TRUE =>
          \A i \in Items : item[i].shown = TRUE => item[i].st # "needs-decision"
    BY <1>4 DEF Inv, Over
  <2>2. \A i \in T : x.item[i].st # "needs-decision"
    BY <1>7, <1>14
  <2>3. QED
    BY <1>14, <2>1, <2>2
<1>21. op # NoOp /\ closed' = closed /\ walk' = walk
  BY <1>1, <1>6
<1>22. QED
  BY <1>5, <1>11, <1>13, <1>16, <1>17, <1>18, <1>19, <1>20, <1>21, HandlerSettles

----------------------------------------------------------------------------
(* Cancel, Remove, Clear, Leave *)

\* What stop() makes of a row.
StopRow(r, in) ==
    IF in /\ r.st \in {"queued", "uploading", "finishing", "running"}
    THEN [r EXCEPT !.st = "cancelled"]
    ELSE IF in /\ r.st = "needs-decision"
    THEN [r EXCEPT !.st = "cancelled", !.dec = "none", !.sid = NoSid, !.only = FALSE]
    ELSE IF in /\ r.st = "failed" THEN [r EXCEPT !.sid = NoSid, !.only = FALSE]
    ELSE r

LEMMA StopRowFacts ==
    ASSUME NEW r \in ItemRecord, NEW in \in BOOLEAN
    PROVE  LET n == StopRow(r, in)
           IN  /\ n \in ItemRecord
               /\ n.conflict = r.conflict /\ n.again = r.again /\ n.shown = r.shown
               /\ \/ n.st = r.st /\ n.dec = r.dec
                  \/ n.st = "cancelled" /\ n.dec \in {r.dec, "none"}
               /\ r.st = "none" => n = r
<1>0. "cancelled" \in ItemState
  BY DEF ItemState
<1>1. CASE in /\ r.st \in {"queued", "uploading", "finishing", "running"}
  <2>1. StopRow(r, in) = [r EXCEPT !.st = "cancelled"]
    BY <1>1 DEF StopRow
  <2>2. QED
    BY <1>0, <1>1, <2>1 DEF ItemRecord
<1>2. CASE in /\ r.st = "needs-decision"
  <2>1. StopRow(r, in) = [r EXCEPT !.st = "cancelled", !.dec = "none", !.sid = NoSid, !.only = FALSE]
    BY <1>2 DEF StopRow
  <2>2. QED
    BY <1>0, <1>2, <2>1 DEF ItemRecord
<1>3. CASE in /\ r.st = "failed"
  <2>1. StopRow(r, in) = [r EXCEPT !.sid = NoSid, !.only = FALSE]
    BY <1>3 DEF StopRow
  <2>2. QED
    BY <1>3, <2>1 DEF ItemRecord
<1>4. CASE ~(in /\ r.st \in {"queued", "uploading", "finishing", "running", "needs-decision", "failed"})
  BY <1>4 DEF StopRow
<1>5. QED
  BY <1>1, <1>2, <1>3, <1>4

\* s is the tab, except that the operation was marked or a row was hidden.
NearNow(s) ==
    /\ s \in TabState /\ s.co = co /\ s.net = net /\ s.ready = ready
    /\ s.op.listed = op.listed /\ s.op.ended = op.ended
    /\ \A i \in Items :
          /\ s.item[i].st = item[i].st /\ s.item[i].dec = item[i].dec
          /\ s.item[i].conflict = item[i].conflict /\ s.item[i].again = item[i].again
          /\ s.item[i].shown = TRUE => item[i].shown = TRUE
          /\ item[i].st = "none" => s.item[i] = item[i]

LEMMA CancelKeeps ==
    ASSUME Inv, op # NoOp, op.listed = TRUE, NEW T \in SUBSET Items, NEW s, NearNow(s), Cancel(T, s)
    PROVE  Inv'
<1> DEFINE it == [i \in Items |-> StopRow(s.item[i], i \in T)]
           hit(i) == i \in T /\ s.co[i] \in Pooled \ {"recomplete"}
                     /\ s.item[i].st \in {"uploading", "finishing"}
           ns == [i \in Items |-> IF hit(i) THEN "aborted" ELSE s.net[i]]
           x == [s EXCEPT !.item = it, !.net = ns]
<1>1. /\ s \in TabState /\ s.co = co /\ s.net = net /\ s.ready = ready
      /\ s.op.listed = op.listed /\ s.op.ended = op.ended
  BY DEF NearNow
<1>2. \A i \in Items :
          /\ s.item[i].st = item[i].st /\ s.item[i].dec = item[i].dec
          /\ s.item[i].conflict = item[i].conflict /\ s.item[i].again = item[i].again
          /\ item[i].st = "none" => s.item[i] = item[i]
  BY DEF NearNow
<1>3. StopItems(s, T) = x
  BY DEF StopItems, StopRow
<1>4. /\ Becomes(Settle(x))
      /\ UNCHANGED <<walk, listing, closed, taken, copies, asked>>
  BY <1>3 DEF Cancel
<1>5. /\ Sound(Now) /\ PoolOK(Now) /\ RestTyped /\ co \in [Items -> Await] /\ net \in [Items -> Answer]
      /\ Now.co = co /\ Now.ready = ready /\ Now.op = op /\ Now.item = item
  BY NowFacts DEF Now
<1>6. s.item \in [Items -> ItemRecord] /\ s.op \in OpRecord
  BY <1>1 DEF TabState
<1>7. ASSUME NEW i \in Items
      PROVE  LET n == StopRow(s.item[i], i \in T)
             IN  /\ n \in ItemRecord
                 /\ n.conflict = s.item[i].conflict /\ n.again = s.item[i].again
                 /\ n.shown = s.item[i].shown
                 /\ \/ n.st = s.item[i].st /\ n.dec = s.item[i].dec
                    \/ n.st = "cancelled" /\ n.dec \in {s.item[i].dec, "none"}
                 /\ s.item[i].st = "none" => n = s.item[i]
  <2> DEFINE r == s.item[i]
             in == i \in T
  <2>1. r \in ItemRecord /\ in \in BOOLEAN
    BY <1>6
  <2> HIDE DEF r, in
  <2>2. LET n == StopRow(r, in)
        IN  /\ n \in ItemRecord
            /\ n.conflict = r.conflict /\ n.again = r.again /\ n.shown = r.shown
            /\ \/ n.st = r.st /\ n.dec = r.dec
               \/ n.st = "cancelled" /\ n.dec \in {r.dec, "none"}
            /\ r.st = "none" => n = r
    BY <2>1, StopRowFacts
  <2>3. QED
    BY <2>2 DEF r, in
<1>8. it \in [Items -> ItemRecord] /\ ns \in [Items -> Answer]
  <2>1. it \in [Items -> ItemRecord]
    BY <1>7
  <2> HIDE DEF hit
  <2>2. ns \in [Items -> Answer]
    BY <1>1, <1>5 DEF Answer
  <2>3. QED
    BY <2>1, <2>2
<1>9. /\ x \in TabState /\ x.op = s.op /\ x.co = co /\ x.ready = ready /\ x.item = it /\ x.net = ns
  <2> HIDE DEF it, ns
  <2>1. QED
    BY <1>1, <1>8 DEF TabState
<1>10. \A i \in Items : x.item[i] = StopRow(s.item[i], i \in T)
  BY <1>9
<1>11. \A i \in Items : \/ x.net[i] = net[i]
                        \/ /\ x.net[i] = "aborted" /\ co[i] \in Pooled
                           /\ item[i].st \in {"uploading", "finishing"}
  <2> HIDE DEF x
  <2>1. QED
    BY <1>1, <1>2, <1>9
<1> HIDE DEF x, it, ns
<1>12. ASSUME NEW i \in Items
       PROVE  /\ x.item[i].conflict = item[i].conflict /\ x.item[i].again = item[i].again
              /\ \/ x.item[i].st = item[i].st /\ x.item[i].dec = item[i].dec
                 \/ x.item[i].st = "cancelled" /\ x.item[i].dec \in {item[i].dec, "none"}
              /\ item[i].st = "none" => x.item[i] = item[i]
  BY <1>2, <1>7, <1>10
<1>13. \A i \in Items : x.item[i].shown = TRUE => item[i].shown = TRUE
  <2> SUFFICES ASSUME NEW i \in Items, x.item[i].shown = TRUE
               PROVE  item[i].shown = TRUE
    OBVIOUS
  <2>1. s.item[i].shown = TRUE
    BY <1>7, <1>10
  <2>2. QED
    BY <2>1 DEF NearNow
<1>14. \A i \in Items : \/ x.item[i].st = item[i].st /\ x.item[i].dec = item[i].dec
                        \/ x.item[i].st = "cancelled" /\ x.item[i].dec \in {item[i].dec, "none"}
  BY <1>12
<1>15. Steps(x)
  <2> SUFFICES ASSUME NEW i \in Items
               PROVE  InStep(x.item[i], x.co[i], x.net[i], Kind[i])
    BY DEF Steps
  <2>1. InStep(item[i], co[i], net[i], Kind[i])
    BY RowFacts
  <2>2. QED
    BY <1>9, <1>11, <1>14, <2>1 DEF InStep, Pooled, Making
<1>16. Sound(x)
  <2> DEFINE w == Now
  <2>1. Sound(w) /\ x.ready = w.ready /\ x.op.listed = w.op.listed
    BY <1>1, <1>5, <1>9
  <2>2. \A i \in Items :
            \/ x.item[i].st = w.item[i].st /\ x.co[i] = w.co[i]
            \/ x.item[i].st = "cancelled" /\ x.co[i] = w.co[i]
            \/ /\ w.item[i].st \notin {"queued", "cancelled"} \/ w.co[i] # "idle"
               /\ x.item[i].st = "queued" => x.co[i] = "names"
    BY <1>5, <1>9, <1>14
  <2> HIDE DEF w
  <2>3. QED
    BY <1>9, <1>15, <2>1, <2>2, ChangeSound
<1>17. PoolOK(x)
  <2>1. x.ready = Now.ready /\ \A i \in Items : x.co[i] \in Pooled <=> Now.co[i] \in Pooled
    BY <1>5, <1>9
  <2>2. QED
    BY <1>5, <2>1, PoolStays
<1>18. /\ open' \subseteq Sids /\ adrift' \subseteq Sids
       /\ used' \in [retries : 0 .. MaxRetries, faults : 0 .. MaxFaults]
       /\ used.retries <= used'.retries /\ used.faults <= used'.faults
  <2>1. Given(T) \subseteq Sids
    <3>1. \A i \in T : Unwanted(Now, i) \subseteq Sids
      BY UnwantedTyped
    <3>2. QED
      BY <3>1 DEF Given
  <2>2. Hidden(T) \subseteq Sids
    BY <1>5 DEF Hidden, RestTyped
  <2>3. CASE open' = open \ Given(T) /\ adrift' = adrift \cup Hidden(T) /\ UNCHANGED used
    BY <1>5, <2>2, <2>3 DEF RestTyped
  <2>4. CASE Fault /\ adrift' = adrift \cup Hidden(T) \cup Given(T) /\ UNCHANGED open
    <3>1. open' \subseteq Sids /\ adrift' \subseteq Sids
      BY <1>5, <2>1, <2>2, <2>4 DEF RestTyped
    <3>2. QED
      BY <1>5, <2>4, <3>1, FaultFacts
  <2>5. QED
    BY <2>3, <2>4 DEF Cancel
<1>19. RestTyped'
  BY <1>4, <1>5, <1>18 DEF RestTyped
<1>20. \A i \in Items : ItemInv(i, x.item[i], x.co[i], x.net[i], listing'.at, listing'.names[i],
                                taken'[i], copies'[i], asked', used', closed')
  <2> SUFFICES ASSUME NEW i \in Items
               PROVE  ItemInv(i, x.item[i], x.co[i], x.net[i], listing.at, listing.names[i],
                              taken[i], copies[i], asked, used', closed)
    BY <1>4
  <2>1. /\ UnlistedAt(item[i], co[i], Kind[i], listing.at, listing.names[i], taken[i], closed)
        /\ ReplacingAt(i, item[i], co[i], net[i], listing.names[i], taken[i], asked)
        /\ CopyingAt(item[i], co[i], net[i], Kind[i], taken[i], copies[i], used, closed)
        /\ copies[i] \in Nat /\ used \in [retries : 0 .. MaxRetries, faults : 0 .. MaxFaults]
    BY <1>5, RowFacts DEF ItemInv, RestTyped
  <2> DEFINE r == x.item[i]
             n == x.net[i]
  <2>2. /\ r.conflict = item[i].conflict /\ r.again = item[i].again
        /\ \/ r.st = item[i].st /\ r.dec = item[i].dec
           \/ r.st = "cancelled" /\ r.dec \in {item[i].dec, "none"}
        /\ n \in {net[i], "aborted"} /\ x.co[i] = co[i]
    BY <1>9, <1>11, <1>12
  <2> HIDE DEF r, n
  <2>3. UnlistedAt(r, co[i], Kind[i], listing.at, listing.names[i], taken[i], closed)
    BY <2>1, <2>2 DEF UnlistedAt
  <2>4. ReplacingAt(i, r, co[i], n, listing.names[i], taken[i], asked)
    BY <2>1, <2>2 DEF ReplacingAt
  <2>5. CopyingAt(r, co[i], n, Kind[i], taken[i], copies[i], used, closed)
    <3>1. FreshAt(r, co[i], n) => FreshAt(item[i], co[i], net[i])
      BY <2>2 DEF FreshAt
    <3>2. QED
      BY <2>1, <2>2, <3>1 DEF CopyingAt
  <2>6. ItemInv(i, r, co[i], n, listing.at, listing.names[i], taken[i], copies[i], asked, used, closed)
    BY <2>3, <2>4, <2>5 DEF ItemInv
  <2>7. ItemInv(i, r, co[i], n, listing.at, listing.names[i], taken[i], copies[i], asked, used', closed)
    BY <1>18, <2>1, <2>6, ItemInvGrows
  <2>8. QED
    BY <2>2, <2>7 DEF r, n
<1>21. x.op.listed = TRUE /\ x.op.ended = TRUE =>
          \A i \in Items : x.item[i].shown = TRUE => x.item[i].st # "needs-decision"
  <2>1. op.listed = TRUE /\ op.ended = TRUE =>
          \A i \in Items : item[i].shown = TRUE => item[i].st # "needs-decision"
    BY <1>5 DEF Inv, Over
  <2>2. QED
    BY <1>1, <1>9, <1>13, <1>14, <2>1
<1>22. \A i \in Items : item[i].st = "none" => x.item[i] = item[i]
  BY <1>12
<1>23. QED
  BY <1>1, <1>4, <1>9, <1>16, <1>17, <1>19, <1>20, <1>21, <1>22, HandlerSettles

LEMMA ListedAtWork ==
    ASSUME Inv, op.listed
    PROVE  op # NoOp /\ closed = FALSE /\ op.listed = TRUE
<1>1. op \in OpRecord /\ RestTyped
  BY NowFacts
<1>2. op # NoOp /\ op.listed = TRUE
  BY <1>1 DEF NoOp, OpRecord
<1>3. QED
  BY <1>1, <1>2 DEF Inv, Untouched, RestTyped

LEMMA WalkingSet ==
    ASSUME NEW y \in TabState, NEW w \in BOOLEAN
    PROVE  LET s == [y EXCEPT !.walking = w]
           IN  /\ s \in TabState /\ s.op = y.op /\ s.item = y.item /\ s.co = y.co
               /\ s.net = y.net /\ s.ready = y.ready
BY DEF TabState

LEMMA CancelOpKeeps ==
    ASSUME Inv, CancelOp
    PROVE  Inv'
<1> DEFINE o == [op EXCEPT !.cancelled = TRUE]
           s == [Now EXCEPT !.op.cancelled = TRUE, !.walking = FALSE]
           T == {i \in Items : item[i].shown}
<1>1. op.listed /\ Cancel(T, s)
  BY DEF CancelOp
<1>2. op # NoOp /\ op.listed = TRUE
  BY <1>1, ListedAtWork
<1>3. /\ op \in OpRecord /\ item \in [Items -> ItemRecord] /\ co \in [Items -> Await]
      /\ net \in [Items -> Answer] /\ ready \in Seq(Items)
  BY NowFacts
<1>4. o \in OpRecord /\ o.listed = op.listed /\ o.ended = op.ended
  BY <1>3 DEF OpRecord
<1> DEFINE y == [Now EXCEPT !.op = o]
<1>5. s = [y EXCEPT !.walking = FALSE]
  <2>1. [Now EXCEPT !.op.cancelled = TRUE] = y
    BY DEF Now
  <2> HIDE DEF y
  <2>2. QED
    BY <2>1
<1> HIDE DEF o, s
<1>6. y \in TabState /\ y.op = o /\ y.item = item /\ y.co = co /\ y.net = net /\ y.ready = ready
  <2>1. Now \in TabState /\ Now.item = item /\ Now.co = co /\ Now.net = net /\ Now.ready = ready
    BY NowFacts DEF Now
  <2>2. QED
    BY <1>4, <2>1 DEF TabState
<1> HIDE DEF y
<1>7. /\ s \in TabState /\ s.op = o /\ s.item = item /\ s.co = co /\ s.net = net
      /\ s.ready = ready
  BY <1>5, <1>6, WalkingSet
<1>8. NearNow(s)
  BY <1>4, <1>7 DEF NearNow
<1>9. QED
  BY <1>1, <1>2, <1>8, CancelKeeps

LEMMA CancelItemKeeps ==
    ASSUME Inv, NEW i \in Items, CancelItem(i)
    PROVE  Inv'
<1>1. Here(i) /\ Cancel({i}, Now)
  BY DEF CancelItem
<1>2. op # NoOp /\ op.listed = TRUE
  BY <1>1, HereFacts, ListedAtWork
<1>3. NearNow(Now)
  <2>1. Now \in TabState
    BY NowFacts
  <2>2. /\ Now.co = co /\ Now.net = net /\ Now.ready = ready /\ Now.op = op /\ Now.item = item
    BY DEF Now
  <2>3. QED
    BY <2>1, <2>2 DEF NearNow
<1>4. QED
  BY <1>1, <1>2, <1>3, CancelKeeps

\* Hiding row i.
LEMMA HiddenRow ==
    ASSUME Inv, NEW i \in Items, item[i].st # "none"
    PROVE  NearNow([Now EXCEPT !.item[i].shown = FALSE])
<1> DEFINE r == [item[i] EXCEPT !.shown = FALSE]
           it == [item EXCEPT ![i] = r]
           s == [op |-> op, walking |-> walking, item |-> it, co |-> co, net |-> net, ready |-> ready]
<1>1. [Now EXCEPT !.item[i].shown = FALSE] = s
  <2>1. [Now EXCEPT !.item[i].shown = FALSE] = [Now EXCEPT !.item[i] = r]
    BY DEF Now
  <2> HIDE DEF r
  <2>2. QED
    BY <2>1, NowRow
<1>2. /\ op \in OpRecord /\ item \in [Items -> ItemRecord] /\ co \in [Items -> Await]
      /\ net \in [Items -> Answer] /\ ready \in Seq(Items) /\ walking \in BOOLEAN
  BY NowFacts
<1>3. /\ r \in ItemRecord /\ r.st = item[i].st /\ r.dec = item[i].dec /\ r.conflict = item[i].conflict
      /\ r.again = item[i].again /\ r.shown = FALSE
  BY <1>2 DEF ItemRecord
<1> HIDE DEF r
<1>4. it \in [Items -> ItemRecord] /\ it[i] = r /\ \A j \in Items \ {i} : it[j] = item[j]
  BY <1>2, <1>3
<1> HIDE DEF it
<1>5. s \in TabState
  BY <1>2, <1>4 DEF TabState
<1>6. \A j \in Items :
          /\ it[j].st = item[j].st /\ it[j].dec = item[j].dec
          /\ it[j].conflict = item[j].conflict /\ it[j].again = item[j].again
          /\ it[j].shown = TRUE => item[j].shown = TRUE
          /\ item[j].st = "none" => it[j] = item[j]
  <2> SUFFICES ASSUME NEW j \in Items
               PROVE  /\ it[j].st = item[j].st /\ it[j].dec = item[j].dec
                      /\ it[j].conflict = item[j].conflict /\ it[j].again = item[j].again
                      /\ it[j].shown = TRUE => item[j].shown = TRUE
                      /\ item[j].st = "none" => it[j] = item[j]
    OBVIOUS
  <2>1. CASE j = i
    BY <1>3, <1>4, <2>1
  <2>2. CASE j # i
    BY <1>4, <2>2
  <2>3. QED
    BY <2>1, <2>2
<1>7. NearNow(s)
  <2>1. /\ s.co = co /\ s.net = net /\ s.ready = ready /\ s.op = op /\ s.item = it
    OBVIOUS
  <2> HIDE DEF s
  <2>2. QED
    BY <1>5, <1>6, <2>1 DEF NearNow
<1>8. QED
  BY <1>1, <1>7

LEMMA RemoveItemKeeps ==
    ASSUME Inv, NEW i \in Items, RemoveItem(i)
    PROVE  Inv'
<1>1. /\ Here(i) /\ item[i].st = "failed"
      /\ Cancel({i}, [Now EXCEPT !.item[i].shown = FALSE])
  BY DEF RemoveItem
<1>2. op # NoOp /\ op.listed = TRUE
  BY <1>1, HereFacts, ListedAtWork
<1>3. NearNow([Now EXCEPT !.item[i].shown = FALSE])
  BY <1>1, HiddenRow
<1> DEFINE s == [Now EXCEPT !.item[i].shown = FALSE]
<1>4. NearNow(s) /\ Cancel({i}, s) /\ {i} \in SUBSET Items
  BY <1>1, <1>3
<1> HIDE DEF s
<1>5. QED
  BY <1>2, <1>4, CancelKeeps

\* A handler that marks the operation or hides rows, and settles.
LEMMA NearSettles ==
    ASSUME Inv, op # NoOp, NEW s, NearNow(s), op.listed = FALSE => s.op = op, Becomes(Settle(s)),
           walk' \in {0, walk}, UNCHANGED <<listing, closed, taken, open, copies, asked, adrift, used>>
    PROVE  Inv'
<1>1. /\ s \in TabState /\ s.co = co /\ s.net = net /\ s.ready = ready
      /\ s.op.listed = op.listed /\ s.op.ended = op.ended
  BY DEF NearNow
<1>2. \A i \in Items :
          /\ s.item[i].st = item[i].st /\ s.item[i].dec = item[i].dec
          /\ s.item[i].conflict = item[i].conflict /\ s.item[i].again = item[i].again
          /\ item[i].st = "none" => s.item[i] = item[i]
  BY DEF NearNow
<1>3. /\ Sound(Now) /\ PoolOK(Now) /\ RestTyped
      /\ Now.co = co /\ Now.ready = ready /\ Now.op = op /\ Now.item = item
  BY NowFacts DEF Now
<1>4. Steps(s)
  <2> SUFFICES ASSUME NEW i \in Items
               PROVE  InStep(s.item[i], s.co[i], s.net[i], Kind[i])
    BY DEF Steps
  <2>1. InStep(item[i], co[i], net[i], Kind[i])
    BY RowFacts
  <2>2. s.item[i].st = item[i].st /\ s.co[i] = co[i] /\ s.net[i] = net[i]
    BY <1>1, <1>2
  <2>3. QED
    BY <2>1, <2>2 DEF InStep
<1>5. Sound(s)
  <2> DEFINE w == Now
  <2>1. Sound(w) /\ s.ready = w.ready /\ s.op.listed = w.op.listed
    BY <1>1, <1>3
  <2>2. \A i \in Items :
            \/ s.item[i].st = w.item[i].st /\ s.co[i] = w.co[i]
            \/ s.item[i].st = "cancelled" /\ s.co[i] = w.co[i]
            \/ /\ w.item[i].st \notin {"queued", "cancelled"} \/ w.co[i] # "idle"
               /\ s.item[i].st = "queued" => s.co[i] = "names"
    BY <1>1, <1>2, <1>3
  <2> HIDE DEF w
  <2>3. QED
    BY <1>1, <1>4, <2>1, <2>2, ChangeSound
<1>6. PoolOK(s)
  <2>1. s.ready = Now.ready /\ \A i \in Items : s.co[i] \in Pooled <=> Now.co[i] \in Pooled
    BY <1>1, <1>3
  <2>2. QED
    BY <1>3, <2>1, PoolStays
<1>7. \A i \in Items : ItemInv(i, s.item[i], s.co[i], s.net[i], listing'.at, listing'.names[i],
                               taken'[i], copies'[i], asked', used', closed')
  <2> SUFFICES ASSUME NEW i \in Items
               PROVE  ItemInv(i, s.item[i], co[i], net[i], listing.at, listing.names[i],
                              taken[i], copies[i], asked, used, closed)
    BY <1>1
  <2>1. /\ UnlistedAt(item[i], co[i], Kind[i], listing.at, listing.names[i], taken[i], closed)
        /\ ReplacingAt(i, item[i], co[i], net[i], listing.names[i], taken[i], asked)
        /\ CopyingAt(item[i], co[i], net[i], Kind[i], taken[i], copies[i], used, closed)
    BY RowFacts DEF ItemInv
  <2> DEFINE r == s.item[i]
  <2>2. /\ r.st = item[i].st /\ r.dec = item[i].dec
        /\ r.conflict = item[i].conflict /\ r.again = item[i].again
    BY <1>2
  <2> HIDE DEF r
  <2>3. UnlistedAt(r, co[i], Kind[i], listing.at, listing.names[i], taken[i], closed)
    BY <2>1, <2>2 DEF UnlistedAt
  <2>4. ReplacingAt(i, r, co[i], net[i], listing.names[i], taken[i], asked)
    BY <2>1, <2>2 DEF ReplacingAt
  <2>5. CopyingAt(r, co[i], net[i], Kind[i], taken[i], copies[i], used, closed)
    BY <2>1, <2>2 DEF CopyingAt, FreshAt
  <2>6. QED
    BY <2>3, <2>4, <2>5 DEF ItemInv, r
<1>8. s.op.listed = TRUE /\ s.op.ended = TRUE =>
          \A i \in Items : s.item[i].shown = TRUE => s.item[i].st # "needs-decision"
  <2>1. op.listed = TRUE /\ op.ended = TRUE =>
          \A i \in Items : item[i].shown = TRUE => item[i].st # "needs-decision"
    BY <1>3 DEF Inv, Over
  <2>2. \A i \in Items : s.item[i].shown = TRUE => item[i].shown = TRUE
    BY DEF NearNow
  <2>3. QED
    BY <1>1, <1>2, <2>1, <2>2
<1>9. RestTyped'
  BY <1>3 DEF RestTyped
<1>10. QED
  BY <1>1, <1>2, <1>5, <1>6, <1>7, <1>8, <1>9, HandlerSettles

LEMMA ClearFailedKeeps ==
    ASSUME Inv, ClearFailed
    PROVE  Inv'
<1> DEFINE T == {i \in Items : Here(i) /\ item[i].st = "failed"}
           off(r) == [r EXCEPT !.shown = FALSE]
           it == [i \in Items |-> IF i \in T THEN off(item[i]) ELSE item[i]]
           s == [Now EXCEPT !.item = it]
<1>1. /\ T # {} /\ Becomes(Settle(s))
      /\ UNCHANGED <<walk, listing, closed, taken, open, copies, asked, adrift, used>>
  <2>1. Now.item = item
    BY DEF Now
  <2>2. QED
    BY <2>1 DEF ClearFailed, lunad
<1>2. op # NoOp /\ op.listed = TRUE
  <2>1. PICK i \in T : TRUE
    BY <1>1
  <2>2. QED
    BY <2>1, HereFacts, ListedAtWork
<1>3. /\ Now \in TabState /\ item \in [Items -> ItemRecord] /\ Now.op = op /\ Now.co = co
      /\ Now.net = net /\ Now.ready = ready
  BY NowFacts DEF Now
<1>4. ASSUME NEW i \in Items
      PROVE  LET r == item[i]
             IN  /\ off(r) \in ItemRecord /\ off(r).st = r.st /\ off(r).dec = r.dec
                 /\ off(r).conflict = r.conflict /\ off(r).again = r.again /\ off(r).shown = FALSE
  <2> DEFINE r == item[i]
  <2>1. r \in ItemRecord
    BY <1>3
  <2> HIDE DEF r
  <2>2. /\ off(r) \in ItemRecord /\ off(r).st = r.st /\ off(r).dec = r.dec
        /\ off(r).conflict = r.conflict /\ off(r).again = r.again /\ off(r).shown = FALSE
    BY <2>1 DEF ItemRecord
  <2>3. QED
    BY <2>2 DEF r
<1>5. \A i \in T : item[i].st = "failed"
  OBVIOUS
<1> HIDE DEF off, T
<1>6. it \in [Items -> ItemRecord]
  BY <1>3, <1>4
<1>7. /\ s \in TabState /\ s.op = op /\ s.item = it /\ s.co = co /\ s.net = net /\ s.ready = ready
  <2> HIDE DEF it
  <2>1. QED
    BY <1>3, <1>6 DEF TabState
<1>8. ASSUME NEW i \in Items
      PROVE  /\ it[i].st = item[i].st /\ it[i].dec = item[i].dec
             /\ it[i].conflict = item[i].conflict /\ it[i].again = item[i].again
             /\ it[i].shown = TRUE => item[i].shown = TRUE
             /\ item[i].st = "none" => it[i] = item[i]
  <2>1. CASE i \in T
    <3>1. it[i] = off(item[i])
      BY <2>1
    <3>2. item[i].st # "none"
      BY <1>5, <2>1
    <3>3. QED
      BY <1>4, <3>1, <3>2
  <2>2. CASE i \notin T
    BY <2>2
  <2>3. QED
    BY <2>1, <2>2
<1> HIDE DEF s, it
<1>9. NearNow(s)
  BY <1>7, <1>8 DEF NearNow
<1>10. QED
  BY <1>1, <1>2, <1>9, NearSettles

LEMMA WalkEndsKeeps ==
    ASSUME Inv, WalkEnds
    PROVE  Inv'
<1> DEFINE s == [Now EXCEPT !.walking = FALSE]
<1>1. /\ walk # 0 /\ walk' = 0 /\ Becomes(Settle(s))
      /\ UNCHANGED <<listing, closed, taken, open, copies, asked, adrift, used>>
  BY DEF WalkEnds, lunad
<1>2. op # NoOp
  BY <1>1 DEF Inv, Untouched
<1>3. /\ Now \in TabState /\ Now.op = op /\ Now.item = item /\ Now.co = co
      /\ Now.net = net /\ Now.ready = ready
  BY NowFacts DEF Now
<1>4. /\ s \in TabState /\ s.op = op /\ s.item = item /\ s.co = co /\ s.net = net /\ s.ready = ready
  BY <1>3, WalkingSet
<1> HIDE DEF s
<1>5. NearNow(s)
  BY <1>4 DEF NearNow
<1>6. QED
  BY <1>1, <1>2, <1>4, <1>5, NearSettles

\* Dismissed or cleared: the runner goes on, unseen.
LEMMA LeaveKeeps ==
    ASSUME Inv, Leave
    PROVE  Inv'
<1> DEFINE o == [op EXCEPT !.listed = FALSE, !.clear = FALSE]
           s == [Now EXCEPT !.op = o]
<1>1. /\ op.listed
      /\ op.phase \notin {"preparing", "running", "waiting"} \/ op.ended
      /\ UNCHANGED <<walk, listing, closed, taken, open, copies, asked, adrift, used>>
  BY DEF Leave, lunad
<1>2. Becomes(s)
  <2>1. Becomes([Now EXCEPT !.op.listed = FALSE, !.op.clear = FALSE])
    BY DEF Leave
  <2>2. [Now EXCEPT !.op.listed = FALSE, !.op.clear = FALSE] = s
    BY DEF Now
  <2>3. QED
    BY <2>1, <2>2
<1>3. /\ Now \in TabState /\ op \in OpRecord /\ Sound(Now) /\ PoolOK(Now) /\ RestTyped
      /\ Now.item = item /\ Now.co = co /\ Now.net = net /\ Now.ready = ready
  BY NowFacts DEF Now
<1>4. op # NoOp /\ closed = FALSE
  BY <1>1, ListedAtWork
<1>5. o \in OpRecord /\ o.listed = FALSE /\ o.phase = op.phase /\ o.ended = op.ended
  BY <1>3 DEF OpRecord
<1>6. o # NoOp
  BY <1>1, <1>5 DEF NoOp
<1> HIDE DEF o
<1>7. /\ s \in TabState /\ s.op = o /\ s.item = item /\ s.co = co /\ s.net = net /\ s.ready = ready
  BY <1>3, <1>5 DEF TabState
<1> HIDE DEF s
<1>8. Steps(s) /\ ReadyOnce(s)
  BY <1>3, <1>7 DEF Sound, Steps, ReadyOnce
<1>9. Waiting(s)
  BY <1>5, <1>7 DEF Waiting
<1>10. Sound(s)
  BY <1>7, <1>8, <1>9 DEF Sound
<1>11. Over(s)
  BY <1>5, <1>7 DEF Over
<1>12. Ends(s)
  <2>1. s.ready = Now.ready /\ \A i \in Items : s.co[i] \in Pooled <=> Now.co[i] \in Pooled
    BY <1>3, <1>7
  <2>2. PoolOK(s)
    BY <1>3, <2>1, PoolStays
  <2>3. QED
    BY <1>2, <2>2 DEF Ends
<1>13. \A i \in Items : ItemInv(i, s.item[i], s.co[i], s.net[i], listing'.at, listing'.names[i],
                                taken'[i], copies'[i], asked', used', closed')
  BY <1>1, <1>7, RowFacts
<1>14. RestTyped' /\ closed' = FALSE
  BY <1>1, <1>3, <1>4 DEF RestTyped
<1>15. walk' # 0 => \A i \in Items : i >= walk' => s.item[i] = NoItemRecord
  BY <1>1, <1>7 DEF Inv, Untouched
<1>16. QED
  BY <1>6, <1>7, <1>10, <1>11, <1>12, <1>13, <1>14, <1>15, HandlerLeaves

----------------------------------------------------------------------------
(* A tab that does nothing *)

IdleTab == [op |-> NoOp, walking |-> FALSE, item |-> NoItems, co |-> AllIdle, net |-> AllIdle,
            ready |-> << >>]

LEMMA IdleTabSound ==
    Sound(IdleTab) /\ PoolOK(IdleTab) /\ Over(IdleTab)
<1> DEFINE s == IdleTab
<1>1. /\ s.op = NoOp /\ s.walking = FALSE /\ s.item = NoItems /\ s.co = AllIdle /\ s.net = AllIdle
      /\ s.ready = << >>
  BY DEF IdleTab
<1>2. NoOp \in OpRecord /\ NoOp.listed = FALSE
  BY DEF NoOp, OpRecord, OpPhase
<1>3. NoItems \in [Items -> ItemRecord] /\ \A i \in Items : NoItems[i].st = "none"
  <2>1. NoItemRecord \in ItemRecord /\ NoItemRecord.st = "none"
    BY DEF NoItemRecord, ItemRecord, ItemState
  <2>2. QED
    BY <2>1 DEF NoItems
<1>4. /\ AllIdle \in [Items -> Await] /\ AllIdle \in [Items -> Answer]
      /\ \A i \in Items : AllIdle[i] = "idle"
  BY DEF AllIdle, Await, Making, Answer
<1>5. << >> \in Seq(Items) /\ DOMAIN << >> = {}
  OBVIOUS
<1>6. s \in TabState
  BY <1>2, <1>3, <1>4, <1>5 DEF IdleTab, TabState
<1> HIDE DEF s
<1>7. Steps(s)
  <2> SUFFICES ASSUME NEW i \in Items
               PROVE  InStep(s.item[i], s.co[i], s.net[i], Kind[i])
    BY DEF Steps
  <2>1. s.item[i].st = "none" /\ s.co[i] = "idle" /\ s.net[i] = "idle"
    BY <1>1, <1>3, <1>4
  <2>2. QED
    BY <2>1 DEF InStep, Making
<1>8. ReadyOnce(s)
  BY <1>1, <1>5 DEF ReadyOnce
<1>9. Waiting(s)
  BY <1>1, <1>2 DEF Waiting
<1>10. PoolOK(s)
  <2>1. InPool(s) = {}
    BY <1>1, <1>4 DEF InPool, Pooled
  <2>2. Cardinality(InPool(s)) = 0
    BY <2>1, FS_EmptySet
  <2>3. QED
    BY <1>1, <2>2 DEF PoolOK
<1>11. Over(s)
  BY <1>1, <1>2 DEF Over
<1>12. QED
  BY <1>6, <1>7, <1>8, <1>9, <1>10, <1>11 DEF Sound, s

LEMMA NoRecordFacts ==
    /\ NoItemRecord.st = "none" /\ NoItemRecord.dec = "none" /\ NoItemRecord.conflict = "none"
    /\ NoItemRecord.again = FALSE
BY DEF NoItemRecord

LEMMA ClosePageKeeps ==
    ASSUME Inv, ClosePage
    PROVE  Inv'
<1>1. /\ closed' = TRUE /\ open' = open \ Sessions /\ adrift' = adrift \cup Hidden(Items)
      /\ op' = NoOp /\ walking' = FALSE /\ walk' = 0
      /\ item' = NoItems /\ listing' = NoListing
      /\ co' = AllIdle /\ net' = AllIdle /\ ready' = << >>
      /\ UNCHANGED <<taken, copies, asked, used>>
  BY DEF ClosePage
<1>2. RestTyped
  BY NowFacts
<1>3. NoListing.at = "unasked" /\ \A i \in Items : NoListing.names[i] = "none"
  BY DEF NoListing
<1>4. RestTyped'
  <2>1. NoListing \in [at : {"unasked", "asked", "known", "failed"}, names : [Items -> Taken]]
    BY DEF NoListing, Taken
  <2>2. Hidden(Items) \subseteq Sids
    BY <1>2 DEF Hidden, RestTyped
  <2>3. QED
    BY <1>1, <1>2, <2>1, <2>2 DEF RestTyped
<1>5. Now' = IdleTab
  BY <1>1 DEF Now, IdleTab
<1>6. (Sound(Now) /\ PoolOK(Now) /\ Over(Now))'
  BY <1>5, IdleTabSound
<1>7. Untouched'
  BY <1>1 DEF Untouched
<1>8. ItemsInv'
  <2> SUFFICES ASSUME NEW i \in Items
               PROVE  ItemInv(i, NoItemRecord, "idle", "idle", "unasked", "none", taken[i],
                              copies[i], asked, used, TRUE)
    BY <1>1, <1>3 DEF ItemsInv, NoItems, AllIdle
  <2>1. CopyingAt(item[i], co[i], net[i], Kind[i], taken[i], copies[i], used, closed)
    BY RowFacts DEF ItemInv
  <2> DEFINE r == NoItemRecord
  <2>2. r.st = "none" /\ r.dec = "none" /\ r.conflict = "none" /\ r.again = FALSE
    BY NoRecordFacts
  <2> HIDE DEF r
  <2>3. UnlistedAt(r, "idle", Kind[i], "unasked", "none", taken[i], TRUE)
    BY <2>2 DEF UnlistedAt
  <2>4. ReplacingAt(i, r, "idle", "idle", "none", taken[i], asked)
    BY <2>2 DEF ReplacingAt, Pooled
  <2>5. CopyingAt(r, "idle", "idle", Kind[i], taken[i], copies[i], used, TRUE)
    BY <2>1, <2>2 DEF CopyingAt
  <2>6. QED
    BY <2>3, <2>4, <2>5 DEF ItemInv, r
<1>9. QED
  BY <1>4, <1>6, <1>7, <1>8 DEF Inv

LEMMA InitInv ==
    ASSUME Init
    PROVE  Inv
<1>1. /\ op = NoOp /\ walking = FALSE /\ walk = 0 /\ item = NoItems /\ listing = NoListing
      /\ co = AllIdle /\ net = AllIdle /\ ready = << >> /\ closed = FALSE
      /\ taken \in [Items -> {"none", "file", "dir"}]
      /\ open = {} /\ copies = [i \in Items |-> 0]
      /\ asked = {} /\ adrift = {}
      /\ used = [retries |-> 0, faults |-> 0]
  BY DEF Init
<1>2. RestTyped
  <2>1. NoListing \in [at : {"unasked", "asked", "known", "failed"}, names : [Items -> Taken]]
    BY DEF NoListing, Taken
  <2>2. taken \in [Items -> Taken] /\ copies \in [Items -> Nat]
    BY <1>1 DEF Taken
  <2>3. 0 \in 0 .. MaxRetries /\ 0 \in 0 .. MaxFaults /\ 0 \in 0 .. NItems + 1
    OBVIOUS
  <2>4. [retries |-> 0, faults |-> 0] \in [retries : 0 .. MaxRetries, faults : 0 .. MaxFaults]
    BY <2>3
  <2>5. QED
    BY <1>1, <2>1, <2>2, <2>3, <2>4 DEF RestTyped
<1>3. Now = IdleTab
  BY <1>1 DEF Now, IdleTab
<1>4. Sound(Now) /\ PoolOK(Now) /\ Over(Now)
  BY <1>3, IdleTabSound
<1>5. Untouched
  BY <1>1 DEF Untouched
<1>6. NoListing.at = "unasked" /\ \A i \in Items : NoListing.names[i] = "none"
  BY DEF NoListing
<1>7. ItemsInv
  <2> SUFFICES ASSUME NEW i \in Items
               PROVE  ItemInv(i, NoItemRecord, "idle", "idle", "unasked", "none", taken[i],
                              copies[i], asked, used, closed)
    BY <1>1, <1>6 DEF ItemsInv, NoItems, AllIdle
  <2> DEFINE r == NoItemRecord
  <2>1. r.st = "none" /\ r.dec = "none" /\ r.conflict = "none" /\ r.again = FALSE
    BY NoRecordFacts
  <2> HIDE DEF r
  <2>2. copies[i] = 0 /\ taken[i] # "own" /\ used.retries = 0 /\ used.faults = 0
    BY <1>1
  <2>3. UnlistedAt(r, "idle", Kind[i], "unasked", "none", taken[i], closed)
    BY <2>1, <2>2 DEF UnlistedAt
  <2>4. ReplacingAt(i, r, "idle", "idle", "none", taken[i], asked)
    BY <2>1 DEF ReplacingAt, Pooled
  <2>5. CopyingAt(r, "idle", "idle", Kind[i], taken[i], copies[i], used, closed)
    BY <2>1, <2>2 DEF CopyingAt
  <2>6. QED
    BY <2>3, <2>4, <2>5 DEF ItemInv, r
<1>8. QED
  BY <1>2, <1>4, <1>5, <1>7 DEF Inv

----------------------------------------------------------------------------
(* Starting and the walk *)

\* The row, the await and the answer of an item that was just added.
NewRow(k) == [NoItemRecord EXCEPT !.shown = TRUE, !.st = IF k = "dir" THEN "running" ELSE "queued"]
NewCo(k) == IF k = "dir" THEN "mkdir" ELSE "names"
NewNet(k) == IF k = "dir" THEN "sent" ELSE "idle"

LEMMA NewRowFacts ==
    ASSUME NEW k \in {"small", "big", "dir"}
    PROVE  /\ NewRow(k) \in ItemRecord /\ NewRow(k).st = (IF k = "dir" THEN "running" ELSE "queued")
           /\ NewRow(k).dec = "none" /\ NewRow(k).conflict = "none" /\ NewRow(k).again = FALSE
           /\ NewCo(k) \in Await /\ NewNet(k) \in Answer
           /\ InStep(NewRow(k), NewCo(k), NewNet(k), k)
<1> DEFINE x == NewRow(k)
<1>1. NoItemRecord \in ItemRecord
  BY DEF NoItemRecord, ItemRecord, ItemState
<1>2. /\ x \in ItemRecord /\ x.st = (IF k = "dir" THEN "running" ELSE "queued")
      /\ x.dec = "none" /\ x.conflict = "none" /\ x.again = FALSE
  BY DEF NewRow, NoItemRecord, ItemRecord, ItemState, Active
<1>3. NewCo(k) \in Await /\ NewNet(k) \in Answer
  BY DEF NewCo, NewNet, Await, Making, Answer
<1> HIDE DEF x
<1>4. InStep(x, NewCo(k), NewNet(k), k)
  BY <1>2 DEF InStep, NewCo, NewNet, Making, Pooled
<1>5. QED
  BY <1>2, <1>3, <1>4 DEF x

LEMMA NewRowInv ==
    ASSUME NEW i \in Items, NEW at, NEW at2, NEW name, NEW t, NEW m, NEW who, NEW u,
           at2 = at \/ (at = "unasked" /\ at2 = "asked"),
           ItemInv(i, NoItemRecord, "idle", "idle", at, name, t, m, who, u, FALSE)
    PROVE  ItemInv(i, NewRow(Kind[i]), NewCo(Kind[i]), NewNet(Kind[i]), at2, name, t, m, who, u, FALSE)
<1> DEFINE r == NoItemRecord
           x == NewRow(Kind[i])
           k == Kind[i]
<1>1. k \in {"small", "big", "dir"}
  OBVIOUS
<1>2. /\ x.st = (IF k = "dir" THEN "running" ELSE "queued") /\ x.dec = "none"
      /\ x.conflict = "none" /\ x.again = FALSE
  BY <1>1, NewRowFacts
<1>3. r.st = "none" /\ r.dec = "none" /\ r.conflict = "none" /\ r.again = FALSE
  BY NoRecordFacts
<1>4. /\ UnlistedAt(r, "idle", k, at, name, t, FALSE)
      /\ ReplacingAt(i, r, "idle", "idle", name, t, who)
      /\ CopyingAt(r, "idle", "idle", k, t, m, u, FALSE)
  BY DEF ItemInv
<1> HIDE DEF r, x, k
<1>5. UnlistedAt(x, NewCo(k), k, at2, name, t, FALSE)
  BY <1>2, <1>4 DEF UnlistedAt, NewCo
<1>6. ReplacingAt(i, x, NewCo(k), NewNet(k), name, t, who)
  BY <1>1, <1>2, <1>4 DEF ReplacingAt, NewCo, NewNet, Pooled
<1>7. CopyingAt(x, NewCo(k), NewNet(k), k, t, m, u, FALSE)
  <2>1. FreshAt(r, "idle", "idle")
    BY <1>3 DEF FreshAt
  <2>2. QED
    BY <1>1, <1>2, <1>4, <2>1 DEF CopyingAt, NewCo, NewNet
<1>8. QED
  BY <1>5, <1>6, <1>7 DEF ItemInv, x, k

LEMMA AskNamesFacts ==
    ASSUME RestTyped, NEW T, AskNames(T)
    PROVE  /\ listing' \in [at : {"unasked", "asked", "known", "failed"}, names : [Items -> Taken]]
           /\ listing'.names = listing.names
           /\ listing'.at = listing.at \/ (listing.at = "unasked" /\ listing'.at = "asked")
BY DEF RestTyped, AskNames

LEMMA AddedEnds ==
    ASSUME Inv, closed = FALSE, NEW T \in SUBSET Items, \A i \in T : item[i] = NoItemRecord,
           NEW o \in OpRecord, o # NoOp,
           o = op \/ (op = NoOp /\ o.listed = TRUE /\ o.ended = FALSE),
           Becomes(Added([Now EXCEPT !.op = o], T)), AskNames(T),
           UNCHANGED <<closed, taken, open, copies, asked, adrift, used>>,
           walk' \in 0 .. NItems + 1,
           walk' # 0 => \A i \in Items : i >= walk' => i \notin T /\ item[i] = NoItemRecord
    PROVE  Inv'
<1> DEFINE it == [i \in Items |-> IF i \in T THEN NewRow(Kind[i]) ELSE item[i]]
           cs == [i \in Items |-> IF i \in T THEN NewCo(Kind[i]) ELSE co[i]]
           ns == [i \in Items |-> IF i \in T THEN NewNet(Kind[i]) ELSE net[i]]
           x == [op |-> o, walking |-> walking, item |-> it, co |-> cs, net |-> ns, ready |-> ready]
<1>1. Becomes(Settle(x))
  <2>1. cs = [i \in Items |-> IF i \notin T THEN co[i] ELSE IF Kind[i] = "dir" THEN "mkdir" ELSE "names"]
    BY DEF NewCo
  <2>2. ns = [i \in Items |-> IF i \notin T THEN net[i] ELSE IF Kind[i] = "dir" THEN "sent" ELSE "idle"]
    BY DEF NewNet
  <2>3. it = [i \in Items |-> IF i \in T
                   THEN [NoItemRecord EXCEPT !.shown = TRUE,
                                             !.st = IF Kind[i] = "dir" THEN "running" ELSE "queued"]
                   ELSE item[i]]
    BY DEF NewRow
  <2> DEFINE y == [Now EXCEPT !.op = o]
  <2>4. y = [op |-> o, walking |-> walking, item |-> item, co |-> co, net |-> net, ready |-> ready]
    BY DEF Now
  <2>5. y.item = item /\ y.co = co /\ y.net = net
    BY <2>4
  <2>6. Added(y, T) = Settle([y EXCEPT !.item = it, !.co = cs, !.net = ns])
    <3> HIDE DEF it, cs, ns, y
    <3>1. QED
      BY <2>1, <2>2, <2>3, <2>5, Zenon DEF Added
  <2>7. [y EXCEPT !.item = it, !.co = cs, !.net = ns] = x
    <3> HIDE DEF it, cs, ns, y
    <3> DEFINE z == [y EXCEPT !.item = it]
    <3>1. z = [op |-> o, walking |-> walking, item |-> it, co |-> co, net |-> net, ready |-> ready]
      BY <2>4
    <3> HIDE DEF z
    <3> DEFINE v == [z EXCEPT !.co = cs]
    <3>2. v = [op |-> o, walking |-> walking, item |-> it, co |-> cs, net |-> net, ready |-> ready]
      BY <3>1
    <3> HIDE DEF v
    <3>3. [v EXCEPT !.net = ns] = x
      BY <3>2
    <3>4. [y EXCEPT !.item = it, !.co = cs, !.net = ns] = [v EXCEPT !.net = ns]
      BY DEF v, z
    <3>5. QED
      BY <3>3, <3>4
  <2>8. QED
    BY <2>6, <2>7
<1>2. /\ Now \in TabState /\ Sound(Now) /\ PoolOK(Now) /\ RestTyped
      /\ walking \in BOOLEAN /\ item \in [Items -> ItemRecord]
      /\ co \in [Items -> Await] /\ net \in [Items -> Answer] /\ ready \in Seq(Items)
      /\ Now.op = op /\ Now.walking = walking /\ Now.item = item /\ Now.co = co
      /\ Now.net = net /\ Now.ready = ready
  BY NowFacts DEF Now
<1>3. \A i \in T : i \in Items /\ item[i].st = "none" /\ co[i] = "idle" /\ net[i] = "idle"
  <2> SUFFICES ASSUME NEW i \in T
               PROVE  item[i].st = "none" /\ co[i] = "idle" /\ net[i] = "idle"
    OBVIOUS
  <2>1. item[i].st = "none"
    BY NoRecordFacts
  <2>2. InStep(item[i], co[i], net[i], Kind[i])
    BY RowFacts
  <2>3. QED
    BY <2>1, <2>2 DEF InStep
<1>4. \A i \in Items : Kind[i] \in {"small", "big", "dir"}
  OBVIOUS
<1>5. it \in [Items -> ItemRecord] /\ cs \in [Items -> Await] /\ ns \in [Items -> Answer]
  BY <1>2, <1>4, NewRowFacts
<1>6. /\ \A i \in T : it[i] = NewRow(Kind[i]) /\ cs[i] = NewCo(Kind[i]) /\ ns[i] = NewNet(Kind[i])
      /\ \A i \in Items \ T : it[i] = item[i] /\ cs[i] = co[i] /\ ns[i] = net[i]
  OBVIOUS
<1> HIDE DEF it, cs, ns
<1>7. x \in TabState
  BY <1>2, <1>5 DEF TabState
<1>8. /\ x.op = o /\ x.walking = walking /\ x.item = it /\ x.co = cs /\ x.net = ns /\ x.ready = ready
  OBVIOUS
<1> HIDE DEF x
<1>9. Steps(x)
  <2> SUFFICES ASSUME NEW i \in Items
               PROVE  InStep(it[i], cs[i], ns[i], Kind[i])
    BY <1>8 DEF Steps
  <2>1. CASE i \in T
    BY <1>4, <1>6, <2>1, NewRowFacts
  <2>2. CASE i \notin T
    BY <1>6, <2>2, RowFacts
  <2>3. QED
    BY <2>1, <2>2
<1>10. ASSUME NEW i \in T
       PROVE  /\ it[i].st = (IF Kind[i] = "dir" THEN "running" ELSE "queued")
              /\ it[i].st = "queued" => cs[i] = "names"
              /\ cs[i] \notin Pooled /\ it[i].st # "needs-decision"
  <2>1. it[i] = NewRow(Kind[i]) /\ cs[i] = NewCo(Kind[i])
    BY <1>6
  <2>2. it[i].st = (IF Kind[i] = "dir" THEN "running" ELSE "queued")
    BY <1>4, <2>1, NewRowFacts
  <2>3. QED
    BY <2>1, <2>2 DEF NewCo, Pooled
<1>11. Sound(x)
  <2> DEFINE w == Now
  <2>1. x.op.listed = w.op.listed \/ \A i \in Items : w.item[i].st # "queued"
    <3>1. CASE o = op
      BY <1>2, <1>8, <3>1
    <3>2. CASE op = NoOp
      <4>1. item = NoItems
        BY <3>2 DEF Inv, Untouched
      <4>2. QED
        BY <1>2, <4>1, NoRecordFacts DEF NoItems
    <3>3. QED
      BY <3>1, <3>2
  <2>2. \A i \in Items :
            \/ x.item[i].st = w.item[i].st /\ x.co[i] = w.co[i]
            \/ x.item[i].st = "cancelled" /\ x.co[i] = w.co[i]
            \/ /\ w.item[i].st \notin {"queued", "cancelled"} \/ w.co[i] # "idle"
               /\ x.item[i].st = "queued" => x.co[i] = "names"
    <3> SUFFICES ASSUME NEW i \in Items
                 PROVE  \/ it[i].st = item[i].st /\ cs[i] = co[i]
                        \/ /\ item[i].st \notin {"queued", "cancelled"}
                           /\ it[i].st = "queued" => cs[i] = "names"
      BY <1>2, <1>8
    <3>1. CASE i \in T
      BY <1>3, <1>10, <3>1
    <3>2. CASE i \notin T
      BY <1>6, <3>2
    <3>3. QED
      BY <3>1, <3>2
  <2>3. Sound(w) /\ x.ready = w.ready
    BY <1>2, <1>8
  <2> HIDE DEF w
  <2>4. QED
    BY <1>7, <1>9, <2>1, <2>2, <2>3, ChangeSound
<1>12. PoolOK(x)
  <2>1. \A i \in Items : x.co[i] \in Pooled <=> Now.co[i] \in Pooled
    <3> SUFFICES ASSUME NEW i \in Items
                 PROVE  cs[i] \in Pooled <=> co[i] \in Pooled
      BY <1>2, <1>8
    <3>1. CASE i \in T
      BY <1>3, <1>10, <3>1 DEF Pooled
    <3>2. CASE i \notin T
      BY <1>6, <3>2
    <3>3. QED
      BY <3>1, <3>2
  <2>2. QED
    BY <1>2, <1>8, <2>1, PoolStays
<1>13. Over(Settle(x))
  <2> SUFFICES ASSUME o.listed = TRUE, o.ended = TRUE, NEW i \in Items, it[i].shown = TRUE
               PROVE  it[i].st # "needs-decision"
    BY <1>7, <1>8, SettleOver
  <2>1. CASE i \in T
    BY <1>10, <2>1
  <2>2. CASE i \notin T
    <3>1. o = op
      OBVIOUS
    <3>2. item[i].st # "needs-decision"
      BY <1>2, <1>6, <2>2, <3>1 DEF Inv, Over
    <3>3. QED
      BY <1>6, <2>2, <3>2
  <2>3. QED
    BY <2>1, <2>2
<1> DEFINE s == Settle(x)
<1>14. /\ s.item = it /\ s.co = cs /\ s.net = ns /\ s.ready = ready
       /\ s.op.listed = o.listed /\ (o.listed = FALSE => s.op = o)
  BY <1>7, <1>8, SettleFacts
<1>15. Sound(s)
  BY <1>11, SettleSound
<1>16. Ends(s)
  <2>1. PoolOK(s)
    BY <1>8, <1>12, <1>14 DEF PoolOK, InPool
  <2>2. QED
    BY <1>1, <2>1 DEF Ends
<1>17. Over(s)
  BY <1>13
<1> HIDE DEF s
<1>18. s.op # NoOp
  <2>1. CASE o.listed = TRUE
    BY <1>14, <2>1 DEF NoOp
  <2>2. CASE o.listed = FALSE
    BY <1>14, <2>2
  <2>3. QED
    BY <2>1, <2>2 DEF OpRecord
<1>19. walk' # 0 => \A i \in Items : i >= walk' => s.item[i] = NoItemRecord
  BY <1>6, <1>14
<1>20. /\ listing' \in [at : {"unasked", "asked", "known", "failed"}, names : [Items -> Taken]]
       /\ listing'.names = listing.names
       /\ listing'.at = listing.at \/ (listing.at = "unasked" /\ listing'.at = "asked")
  BY <1>2, AskNamesFacts
<1>21. RestTyped'
  BY <1>2, <1>20 DEF RestTyped
<1>22. \A i \in Items : ItemInv(i, s.item[i], s.co[i], s.net[i], listing'.at, listing'.names[i],
                                taken'[i], copies'[i], asked', used', closed')
  <2> SUFFICES ASSUME NEW i \in Items
               PROVE  ItemInv(i, it[i], cs[i], ns[i], listing'.at, listing.names[i],
                              taken[i], copies[i], asked, used, FALSE)
    BY <1>14, <1>20
  <2>1. ItemInv(i, item[i], co[i], net[i], listing.at, listing.names[i],
                taken[i], copies[i], asked, used, FALSE)
    BY RowFacts
  <2>2. CASE i \in T
    <3>1. item[i] = NoItemRecord /\ co[i] = "idle" /\ net[i] = "idle"
      BY <1>3, <2>2
    <3>2. it[i] = NewRow(Kind[i]) /\ cs[i] = NewCo(Kind[i]) /\ ns[i] = NewNet(Kind[i])
      BY <1>6, <2>2
    <3> DEFINE a == listing.at
               b == listing'.at
               d == listing.names[i]
    <3>3. /\ ItemInv(i, NoItemRecord, "idle", "idle", a, d, taken[i], copies[i], asked, used, FALSE)
          /\ b = a \/ (a = "unasked" /\ b = "asked")
      BY <1>20, <2>1, <3>1
    <3> HIDE DEF a, b, d
    <3>4. ItemInv(i, NewRow(Kind[i]), NewCo(Kind[i]), NewNet(Kind[i]), b, d, taken[i], copies[i],
                  asked, used, FALSE)
      BY <3>3, NewRowInv
    <3>5. QED
      BY <3>2, <3>4 DEF b, d
  <2>3. CASE i \notin T
    <3>1. it[i] = item[i] /\ cs[i] = co[i] /\ ns[i] = net[i]
      BY <1>6, <2>3
    <3>2. UnlistedAt(item[i], co[i], Kind[i], listing'.at, listing.names[i], taken[i], FALSE)
      BY <1>20, <2>1 DEF ItemInv, UnlistedAt
    <3>3. QED
      BY <2>1, <3>1, <3>2 DEF ItemInv
  <2>4. QED
    BY <2>2, <2>3
<1>23. QED
  BY <1>15, <1>16, <1>17, <1>18, <1>19, <1>21, <1>22, HandlerLeaves

LEMMA NewOpFacts ==
    /\ NewOp("preparing") \in OpRecord /\ NewOp("preparing").listed = TRUE
    /\ NewOp("preparing").ended = FALSE /\ NewOp("preparing") # NoOp
<1> DEFINE o == [NoOp EXCEPT !.listed = TRUE]
<1>1. NoOp \in OpRecord /\ NoOp.listed = FALSE /\ NoOp.ended = FALSE
  BY DEF OpRecord, NoOp, OpPhase
<1>2. o \in OpRecord /\ o.listed = TRUE /\ o.ended = FALSE
  BY <1>1 DEF OpRecord
<1>3. NewOp("preparing") = [o EXCEPT !.phase = "preparing"]
  BY DEF NewOp
<1> HIDE DEF o
<1>4. /\ NewOp("preparing") \in OpRecord /\ NewOp("preparing").listed = TRUE
      /\ NewOp("preparing").ended = FALSE
  BY <1>2, <1>3 DEF OpRecord, OpPhase
<1>5. QED
  BY <1>1, <1>4

LEMMA NotStartedFacts ==
    ASSUME Inv, NotStarted
    PROVE  /\ op = NoOp /\ closed = FALSE /\ walk = 0 /\ walking = FALSE /\ item = NoItems
           /\ co = AllIdle /\ net = AllIdle /\ ready = << >>
           /\ \A i \in Items : item[i] = NoItemRecord
<1>1. closed \in BOOLEAN /\ op = NoOp /\ ~closed
  BY DEF Inv, RestTyped, NotStarted
<1>2. closed = FALSE
  BY <1>1
<1>3. /\ item = NoItems /\ walk = 0 /\ walking = FALSE
      /\ co = AllIdle /\ net = AllIdle /\ ready = << >>
  BY <1>1 DEF Inv, Untouched
<1>4. QED
  BY <1>1, <1>2, <1>3 DEF NoItems

LEMMA StartFilesKeeps ==
    ASSUME Inv, StartFiles
    PROVE  Inv'
<1> DEFINE o == NewOp("preparing")
<1>1. /\ NotStarted /\ Becomes(Added([Now EXCEPT !.op = o], Items)) /\ AskNames(Items)
      /\ UNCHANGED <<walk, closed, taken, open, copies, asked, adrift, used>>
  BY DEF StartFiles, lunad
<1>2. op = NoOp /\ closed = FALSE /\ walk = 0 /\ \A i \in Items : item[i] = NoItemRecord
  BY <1>1, NotStartedFacts
<1>3. o \in OpRecord /\ o.listed = TRUE /\ o.ended = FALSE /\ o # NoOp
  BY NewOpFacts
<1> HIDE DEF o
<1>4. walk' = 0 /\ walk' \in 0 .. NItems + 1
  BY <1>1, <1>2
<1>5. QED
  BY <1>1, <1>2, <1>3, <1>4, AddedEnds

LEMMA WalkFacts ==
    ASSUME Inv, walk \in Items
    PROVE  /\ op # NoOp /\ closed = FALSE /\ op \in OpRecord
           /\ \A i \in Items : i >= walk => item[i] = NoItemRecord
           /\ walk + 1 \in 0 .. NItems + 1 /\ NItems + 1 \in 0 .. NItems + 1
<1>1. walk # 0 /\ walk + 1 \in 0 .. NItems + 1 /\ NItems + 1 \in 0 .. NItems + 1
  OBVIOUS
<1>2. op # NoOp
  BY <1>1 DEF Inv, Untouched
<1>3. closed = FALSE
  BY <1>2 DEF Inv, Untouched, RestTyped
<1>4. op \in OpRecord
  BY NowFacts
<1>5. QED
  BY <1>1, <1>2, <1>3, <1>4 DEF Inv, Untouched

LEMMA WalkFindsKeeps ==
    ASSUME Inv, WalkFinds
    PROVE  Inv'
<1>1. /\ walk \in Items /\ Becomes(Added(Now, {walk})) /\ AskNames({walk}) /\ walk' = walk + 1
      /\ UNCHANGED <<closed, taken, open, copies, asked, adrift, used>>
  BY DEF WalkFinds, lunad
<1>2. /\ op # NoOp /\ closed = FALSE /\ op \in OpRecord
      /\ \A i \in Items : i >= walk => item[i] = NoItemRecord
      /\ walk + 1 \in 0 .. NItems + 1
  BY <1>1, WalkFacts
<1>3. [Now EXCEPT !.op = op] = Now
  BY DEF Now
<1>4. Becomes(Added([Now EXCEPT !.op = op], {walk}))
  BY <1>1, <1>3
<1>5. {walk} \in SUBSET Items /\ \A i \in {walk} : item[i] = NoItemRecord
  <2>1. walk >= walk
    BY <1>1
  <2>2. QED
    BY <1>1, <1>2, <2>1
<1>6. \A i \in Items : i >= walk + 1 => i \notin {walk} /\ item[i] = NoItemRecord
  <2> SUFFICES ASSUME NEW i \in Items, i >= walk + 1
               PROVE  i # walk /\ item[i] = NoItemRecord
    OBVIOUS
  <2>1. i >= walk /\ i # walk
    BY <1>1
  <2>2. QED
    BY <1>2, <2>1
<1> DEFINE T == {walk}
<1>7. /\ T \in SUBSET Items /\ \A i \in T : item[i] = NoItemRecord
      /\ Becomes(Added([Now EXCEPT !.op = op], T)) /\ AskNames(T)
      /\ walk' \in 0 .. NItems + 1
      /\ \A i \in Items : i >= walk' => i \notin T /\ item[i] = NoItemRecord
  BY <1>1, <1>2, <1>4, <1>5, <1>6
<1> HIDE DEF T
<1>8. QED
  BY <1>1, <1>2, <1>7, AddedEnds

LEMMA StartDropKeeps ==
    ASSUME Inv, StartDrop
    PROVE  Inv'
<1> DEFINE o == NewOp("preparing")
           y == [Now EXCEPT !.op = o]
           s == [y EXCEPT !.walking = TRUE]
<1>1. /\ NotStarted /\ Becomes(s) /\ walk' = 1
      /\ UNCHANGED <<listing, closed, taken, open, copies, asked, adrift, used>>
  <2>1. Becomes([Now EXCEPT !.op = o, !.walking = TRUE])
    BY DEF StartDrop
  <2>2. QED
    BY <2>1 DEF StartDrop, lunad
<1>2. /\ op = NoOp /\ closed = FALSE /\ walking = FALSE /\ item = NoItems
      /\ co = AllIdle /\ net = AllIdle /\ ready = << >>
      /\ \A i \in Items : item[i] = NoItemRecord
  BY <1>1, NotStartedFacts
<1>3. o \in OpRecord /\ o.listed = TRUE /\ o.ended = FALSE /\ o # NoOp
  BY NewOpFacts
<1>4. /\ Now \in TabState /\ Sound(Now) /\ PoolOK(Now) /\ RestTyped
      /\ Now.item = item /\ Now.co = co /\ Now.net = net /\ Now.ready = ready /\ Now.op = op
  BY NowFacts DEF Now
<1> HIDE DEF o
<1>5. y \in TabState /\ y.op = o /\ y.item = item /\ y.co = co /\ y.net = net /\ y.ready = ready
  BY <1>3, <1>4 DEF TabState
<1> HIDE DEF y
<1>6. s \in TabState /\ s.op = o /\ s.item = item /\ s.co = co /\ s.net = net /\ s.ready = ready
  BY <1>5, WalkingSet
<1> HIDE DEF s
<1>7. Steps(s) /\ ReadyOnce(s)
  BY <1>4, <1>6 DEF Sound, Steps, ReadyOnce
<1>8. Waiting(s)
  BY <1>2, <1>6, NoRecordFacts DEF Waiting
<1>9. Sound(s)
  BY <1>6, <1>7, <1>8 DEF Sound
<1>10. Over(s)
  BY <1>3, <1>6 DEF Over
<1>11. Ends(s)
  <2>1. s.ready = Now.ready /\ \A i \in Items : s.co[i] \in Pooled <=> Now.co[i] \in Pooled
    BY <1>4, <1>6
  <2>2. PoolOK(s)
    BY <1>4, <2>1, PoolStays
  <2>3. QED
    BY <1>1, <2>2 DEF Ends
<1>12. \A i \in Items : ItemInv(i, s.item[i], s.co[i], s.net[i], listing'.at, listing'.names[i],
                                taken'[i], copies'[i], asked', used', closed')
  BY <1>1, <1>6, RowFacts
<1>13. RestTyped' /\ closed' = FALSE
  BY <1>1, <1>2, <1>4 DEF RestTyped
<1>14. \A i \in Items : i >= walk' => s.item[i] = NoItemRecord
  BY <1>2, <1>6
<1>15. QED
  BY <1>3, <1>6, <1>9, <1>10, <1>11, <1>12, <1>13, <1>14, HandlerLeaves

\* The row of an entry that could not be read.
UnreadRow == [NoItemRecord EXCEPT !.shown = TRUE, !.st = "failed"]

LEMMA WalkErrorKeeps ==
    ASSUME Inv, WalkError
    PROVE  Inv'
<1> DEFINE x == UnreadRow
           it == [item EXCEPT ![walk] = x]
           s == [Now EXCEPT !.item = it]
<1>1. /\ walk \in Items /\ Fault /\ walk' \in {walk + 1, NItems + 1}
      /\ UNCHANGED <<listing, closed, taken, open, copies, asked, adrift>>
  BY DEF WalkError, lunad
<1>2. Becomes(s)
  <2>1. Becomes([Now EXCEPT !.item[walk] = x])
    BY DEF WalkError, UnreadRow
  <2>2. Now.item = item
    BY DEF Now
  <2>3. QED
    BY <2>1, <2>2
<1>3. /\ op # NoOp /\ closed = FALSE
      /\ \A i \in Items : i >= walk => item[i] = NoItemRecord
      /\ walk + 1 \in 0 .. NItems + 1 /\ NItems + 1 \in 0 .. NItems + 1
  BY <1>1, WalkFacts
<1>4. /\ x \in ItemRecord /\ x.st = "failed" /\ x.dec = "none" /\ x.conflict = "none"
      /\ x.again = FALSE
  <2>1. NoItemRecord \in ItemRecord /\ "failed" \in ItemState
    BY DEF NoItemRecord, ItemRecord, ItemState
  <2>2. QED
    BY <2>1 DEF UnreadRow, NoItemRecord, ItemRecord
<1> HIDE DEF x
<1>5. /\ Now \in TabState /\ Sound(Now) /\ PoolOK(Now) /\ RestTyped /\ item \in [Items -> ItemRecord]
      /\ Now.item = item /\ Now.co = co /\ Now.net = net /\ Now.ready = ready /\ Now.op = op
      /\ Now.walking = walking
  BY NowFacts DEF Now
<1>6. /\ item[walk] = NoItemRecord /\ item[walk].st = "none" /\ co[walk] = "idle"
      /\ net[walk] = "idle"
  <2>1. item[walk] = NoItemRecord
    <3>1. walk >= walk
      BY <1>1
    <3>2. QED
      BY <1>1, <1>3, <3>1
  <2>2. item[walk].st = "none"
    BY <2>1, NoRecordFacts
  <2>3. InStep(item[walk], co[walk], net[walk], Kind[walk])
    BY <1>1, RowFacts
  <2>4. QED
    BY <2>1, <2>2, <2>3 DEF InStep
<1>7. it \in [Items -> ItemRecord] /\ it[walk] = x /\ \A j \in Items : j # walk => it[j] = item[j]
  BY <1>1, <1>4, <1>5
<1> HIDE DEF it
<1>8. /\ s \in TabState /\ s.op = op /\ s.item = it /\ s.co = co /\ s.net = net /\ s.ready = ready
      /\ s.walking = walking
  BY <1>5, <1>7 DEF TabState
<1> HIDE DEF s
<1>9. Steps(s)
  <2> SUFFICES ASSUME NEW i \in Items
               PROVE  InStep(it[i], co[i], net[i], Kind[i])
    BY <1>8 DEF Steps
  <2>1. CASE i = walk
    BY <1>4, <1>6, <1>7, <2>1 DEF InStep, Making
  <2>2. CASE i # walk
    BY <1>7, <2>2, RowFacts
  <2>3. QED
    BY <2>1, <2>2
<1>10. Sound(s)
  <2> DEFINE w == Now
  <2>1. Sound(w) /\ s.ready = w.ready /\ s.op.listed = w.op.listed
    BY <1>5, <1>8
  <2>2. \A i \in Items :
            \/ s.item[i].st = w.item[i].st /\ s.co[i] = w.co[i]
            \/ s.item[i].st = "cancelled" /\ s.co[i] = w.co[i]
            \/ /\ w.item[i].st \notin {"queued", "cancelled"} \/ w.co[i] # "idle"
               /\ s.item[i].st = "queued" => s.co[i] = "names"
    BY <1>4, <1>5, <1>6, <1>7, <1>8
  <2> HIDE DEF w
  <2>3. QED
    BY <1>8, <1>9, <2>1, <2>2, ChangeSound
<1>11. Over(s)
  <2> SUFFICES ASSUME op.listed = TRUE, op.ended = TRUE
               PROVE  /\ walking = FALSE
                      /\ \A i \in Items : it[i].shown = TRUE => it[i].st \notin Active \cup {"needs-decision"}
    BY <1>8 DEF Over
  <2>1. /\ walking = FALSE
        /\ \A i \in Items : item[i].shown = TRUE => item[i].st \notin Active \cup {"needs-decision"}
    BY <1>5 DEF Inv, Over
  <2>2. x.st \notin Active \cup {"needs-decision"}
    BY <1>4 DEF Active
  <2>3. QED
    BY <1>7, <2>1, <2>2
<1>12. Ends(s)
  <2>1. s.ready = Now.ready /\ \A i \in Items : s.co[i] \in Pooled <=> Now.co[i] \in Pooled
    BY <1>5, <1>8
  <2>2. PoolOK(s)
    BY <1>5, <2>1, PoolStays
  <2>3. QED
    BY <1>2, <2>2 DEF Ends
<1>13. /\ used' \in [retries : 0 .. MaxRetries, faults : 0 .. MaxFaults]
       /\ used.retries <= used'.retries /\ used.faults <= used'.faults
  BY <1>1, <1>5, FaultFacts
<1>14. RestTyped' /\ closed' = FALSE
  BY <1>1, <1>3, <1>5, <1>13 DEF RestTyped
<1>15. ASSUME NEW i \in Items
       PROVE  ItemInv(i, it[i], co[i], net[i], listing.at, listing.names[i],
                      taken[i], copies[i], asked, used, closed)
  <2>1. /\ UnlistedAt(item[i], co[i], Kind[i], listing.at, listing.names[i], taken[i], closed)
        /\ ReplacingAt(i, item[i], co[i], net[i], listing.names[i], taken[i], asked)
        /\ CopyingAt(item[i], co[i], net[i], Kind[i], taken[i], copies[i], used, closed)
    BY RowFacts DEF ItemInv
  <2>2. CASE i = walk
    <3>1. item[i].st = "none" /\ co[i] = "idle" /\ net[i] = "idle"
      BY <1>6, <2>2
    <3>2. UnlistedAt(x, "idle", Kind[i], listing.at, listing.names[i], taken[i], closed)
      BY <1>4, <2>1, <3>1 DEF UnlistedAt
    <3>3. ReplacingAt(i, x, "idle", "idle", listing.names[i], taken[i], asked)
      BY <1>4, <2>1, <3>1 DEF ReplacingAt, Pooled
    <3>4. CopyingAt(x, "idle", "idle", Kind[i], taken[i], copies[i], used, closed)
      BY <1>4, <2>1, <3>1 DEF CopyingAt, FreshAt
    <3>5. QED
      BY <1>7, <2>2, <3>1, <3>2, <3>3, <3>4 DEF ItemInv
  <2>3. CASE i # walk
    BY <1>7, <2>1, <2>3 DEF ItemInv
  <2>4. QED
    BY <2>2, <2>3
<1>16. ASSUME NEW i \in Items
       PROVE  ItemInv(i, it[i], co[i], net[i], listing.at, listing.names[i],
                      taken[i], copies[i], asked, used', closed)
  <2>1. used \in [retries : 0 .. MaxRetries, faults : 0 .. MaxFaults] /\ copies[i] \in Nat
    BY <1>5 DEF RestTyped
  <2>2. QED
    BY <1>13, <1>15, <2>1, ItemInvGrows
<1>17. \A i \in Items : ItemInv(i, s.item[i], s.co[i], s.net[i], listing'.at, listing'.names[i],
                                taken'[i], copies'[i], asked', used', closed')
  BY <1>1, <1>8, <1>16
<1>18. \A i \in Items : i >= walk' => s.item[i] = NoItemRecord
  <2> SUFFICES ASSUME NEW i \in Items, i >= walk'
               PROVE  it[i] = NoItemRecord
    BY <1>8
  <2>1. i >= walk /\ i # walk
    BY <1>1
  <2>2. QED
    BY <1>3, <1>7, <2>1
<1>19. QED
  BY <1>3, <1>8, <1>10, <1>11, <1>12, <1>14, <1>17, <1>18, HandlerLeaves

----------------------------------------------------------------------------
(* lunad and the network *)

\* Row i's answer, and what lunad keeps under its name, change.
LEMMA NetEnds ==
    ASSUME Inv, NEW i \in Items, co[i] \notin {"idle", "names"}, NEW n \in Answer,
           net' = [net EXCEPT ![i] = n],
           UNCHANGED <<op, walking, walk, item, listing, co, ready, closed, asked>>,
           RestTyped', used.retries <= used'.retries, used.faults <= used'.faults,
           \A j \in Items \ {i} : taken'[j] = taken[j] /\ copies'[j] = copies[j],
           ItemInv(i, item[i], co[i], n, listing.at, listing.names[i], taken'[i], copies'[i],
                   asked, used', closed)
    PROVE  Inv'
<1> DEFINE s == Row(i, item[i], co[i], n)
<1>1. /\ item[i] \in ItemRecord /\ co[i] \in Await /\ InStep(item[i], co[i], net[i], Kind[i])
  BY RowFacts
<1>2. InStep(item[i], co[i], n, Kind[i])
  BY <1>1 DEF InStep
<1>3. Free(i, item[i], co[i])
  BY DEF Free
<1>4. /\ Sound(s)
      /\ s.item[i] = item[i] /\ s.co[i] = co[i] /\ s.net[i] = n
      /\ \A j \in Items \ {i} : s.item[j] = item[j] /\ s.co[j] = co[j] /\ s.net[j] = net[j]
      /\ s.op = op /\ s.walking = walking /\ s.ready = ready
  BY <1>1, <1>2, <1>3, RowSound
<1>5. /\ Sound(Now) /\ PoolOK(Now) /\ RestTyped
      /\ item \in [Items -> ItemRecord] /\ co \in [Items -> Await]
      /\ Now.co = co /\ Now.ready = ready /\ Now.op = op /\ Now.item = item /\ Now.walking = walking
  BY NowFacts DEF Now
<1>6. Becomes(s)
  <2>1. [item EXCEPT ![i] = item[i]] = item /\ [co EXCEPT ![i] = co[i]] = co
    BY <1>5
  <2>2. s = [op |-> op, walking |-> walking, item |-> item, co |-> co,
             net |-> [net EXCEPT ![i] = n], ready |-> ready]
    BY <2>1 DEF Row
  <2> HIDE DEF s
  <2>3. QED
    BY <2>2 DEF Becomes
<1>7. op # NoOp /\ closed = FALSE
  BY AtWork
<1> HIDE DEF s
<1>8. Ends(s)
  <2>1. s.ready = Now.ready /\ \A j \in Items : s.co[j] \in Pooled <=> Now.co[j] \in Pooled
    BY <1>4, <1>5
  <2>2. PoolOK(s)
    BY <1>5, <2>1, PoolStays
  <2>3. QED
    BY <1>6, <2>2 DEF Ends
<1>9. \A j \in Items : s.item[j] = item[j]
  BY <1>4
<1>10. Over(s)
  <2>1. Over(Now)
    BY DEF Inv
  <2>2. QED
    BY <1>4, <1>5, <1>9, <2>1 DEF Over
<1>11. walk' # 0 => \A j \in Items : j >= walk' => s.item[j] = NoItemRecord
  BY <1>9 DEF Inv, Untouched
<1>12. \A j \in Items : ItemInv(j, s.item[j], s.co[j], s.net[j], listing'.at, listing'.names[j],
                                taken'[j], copies'[j], asked', used', closed')
  <2> SUFFICES ASSUME NEW j \in Items
               PROVE  ItemInv(j, s.item[j], s.co[j], s.net[j], listing.at, listing.names[j],
                              taken'[j], copies'[j], asked, used', closed)
    OBVIOUS
  <2>1. CASE j = i
    BY <1>4, <2>1
  <2>2. CASE j # i
    <3>1. ItemInv(j, item[j], co[j], net[j], listing.at, listing.names[j], taken[j],
                  copies[j], asked, used, closed)
      BY RowFacts
    <3>2. /\ used \in [retries : 0 .. MaxRetries, faults : 0 .. MaxFaults] /\ copies[j] \in Nat
          /\ used' \in [retries : 0 .. MaxRetries, faults : 0 .. MaxFaults]
      BY <1>5 DEF RestTyped
    <3>3. ItemInv(j, item[j], co[j], net[j], listing.at, listing.names[j], taken[j],
                  copies[j], asked, used', closed)
      BY <3>1, <3>2, ItemInvGrows
    <3>4. QED
      BY <1>4, <2>2, <3>3
  <2>3. QED
    BY <2>1, <2>2
<1>13. closed' = FALSE /\ s.op # NoOp
  BY <1>4, <1>7
<1>14. QED
  BY <1>4, <1>8, <1>10, <1>11, <1>12, <1>13, HandlerLeaves

\* An answer n that left lunad as it was.
LEMMA AnswerInv ==
    ASSUME Inv, NEW i \in Items, co[i] \notin {"idle", "names"}, NEW n \in Answer,
           co[i] \in Pooled /\ n = "file" => taken[i] # "dir",
           co[i] \in {"multipart", "complete", "recomplete"} =>
              n \in {"refused", "lost", "busy"} \/ (n \in {"file", "dir"} /\ net[i] = "sent"),
           NEW u \in [retries : 0 .. MaxRetries, faults : 0 .. MaxFaults],
           used.retries <= u.retries, used.faults <= u.faults, n \in {"lost", "busy"} => u.faults > 0
    PROVE  ItemInv(i, item[i], co[i], n, listing.at, listing.names[i], taken[i], copies[i],
                   asked, u, closed)
<1>1. /\ InStep(item[i], co[i], net[i], Kind[i])
      /\ ItemInv(i, item[i], co[i], net[i], listing.at, listing.names[i], taken[i],
                 copies[i], asked, used, closed)
  BY RowFacts
<1>2. /\ used \in [retries : 0 .. MaxRetries, faults : 0 .. MaxFaults] /\ copies[i] \in Nat
  BY DEF Inv, RestTyped
<1>3. ItemInv(i, item[i], co[i], net[i], listing.at, listing.names[i], taken[i],
              copies[i], asked, u, closed)
  BY <1>1, <1>2, ItemInvGrows
<1> DEFINE r == item[i]
           c == co[i]
           o == net[i]
<1>4. /\ UnlistedAt(r, c, Kind[i], listing.at, listing.names[i], taken[i], closed)
      /\ ReplacingAt(i, r, c, o, listing.names[i], taken[i], asked)
      /\ CopyingAt(r, c, o, Kind[i], taken[i], copies[i], u, closed)
      /\ InStep(r, c, o, Kind[i])
      /\ c \notin {"idle", "names"} /\ (c \in Pooled /\ n = "file" => taken[i] # "dir")
      /\ c \in {"multipart", "complete", "recomplete"} =>
              n \in {"refused", "lost", "busy"} \/ (n \in {"file", "dir"} /\ o = "sent")
  BY <1>1, <1>3 DEF ItemInv
<1> HIDE DEF r, c, o
<1>5. ReplacingAt(i, r, c, n, listing.names[i], taken[i], asked)
  BY <1>4 DEF ReplacingAt
<1>6. FreshAt(r, c, n) => FreshAt(r, c, o)
  BY <1>4 DEF FreshAt
<1>7. CopyingAt(r, c, n, Kind[i], taken[i], copies[i], u, closed)
  BY <1>4, <1>6 DEF CopyingAt
<1>8. QED
  BY <1>4, <1>5, <1>7 DEF ItemInv, r, c

\* The answer to the request that made the file.
LEMMA InstalledInv ==
    ASSUME Inv, NEW i \in Items, co[i] \in {"multipart", "complete", "recomplete", "mkdir2"},
           net[i] = "sent", MayInstall(i), co[i] = "mkdir2" => taken[i] = "none", Install(i)
    PROVE  /\ ItemInv(i, item[i], co[i], "ok", listing.at, listing.names[i], taken'[i], copies'[i],
                      asked, used, closed)
           /\ taken' \in [Items -> Taken] /\ copies' \in [Items -> Nat]
           /\ \A j \in Items \ {i} : taken'[j] = taken[j] /\ copies'[j] = copies[j]
<1> DEFINE r == item[i]
           c == co[i]
           k == Kind[i]
           t == taken[i]
           m == copies[i]
           over == t = "own" /\ r.conflict = "replace"
           t2 == IF t = "none" \/ r.conflict = "replace" THEN "own" ELSE t
           m2 == IF over THEN m ELSE m + 1
<1>1. /\ taken \in [Items -> Taken] /\ copies \in [Items -> Nat] /\ r \in ItemRecord
      /\ used.retries \in Nat /\ used.faults \in Nat
  BY RowFacts DEF Inv, RestTyped
<1>2. taken' = [taken EXCEPT ![i] = t2] /\ copies' = [copies EXCEPT ![i] = m2]
  BY DEF Install
<1>3. t \in Taken /\ m \in Nat /\ t2 \in Taken /\ m2 \in Nat
  BY <1>1 DEF Taken
<1>4. /\ taken'[i] = t2 /\ copies'[i] = m2
      /\ taken' \in [Items -> Taken] /\ copies' \in [Items -> Nat]
      /\ \A j \in Items \ {i} : taken'[j] = taken[j] /\ copies'[j] = copies[j]
  <2> HIDE DEF t2, m2
  <2>1. QED
    BY <1>1, <1>2, <1>3
<1>5. /\ InStep(r, c, "sent", k)
      /\ UnlistedAt(r, c, k, listing.at, listing.names[i], t, closed)
      /\ ReplacingAt(i, r, c, "sent", listing.names[i], t, asked)
      /\ CopyingAt(r, c, "sent", k, t, m, used, closed)
  BY RowFacts DEF ItemInv
<1>6. c \in Pooled => k # "dir" /\ listing.at \notin {"unasked", "asked"} /\ closed = FALSE
  BY PooledRow
<1>7. /\ c \in {"multipart", "complete", "recomplete", "mkdir2"}
      /\ c = "mkdir2" => t = "none" /\ k = "dir"
      /\ c # "mkdir2" => c \in Pooled
  BY <1>5 DEF Pooled, InStep, Making
<1> HIDE DEF r, c, k, t, m
<1>8. UnlistedAt(r, c, k, listing.at, listing.names[i], t2, closed)
  BY <1>5, <1>6, <1>7 DEF UnlistedAt
<1>9. ReplacingAt(i, r, c, "ok", listing.names[i], t2, asked)
  BY <1>5 DEF ReplacingAt
<1>10. t2 = "own" => m2 >= 1
  <2>1. t = "own" => m >= 1
    BY <1>5 DEF CopyingAt
  <2>2. QED
    BY <1>3, <2>1
<1>11. over => m >= 1
  BY <1>5 DEF CopyingAt
<1>12. m2 >= 1
  BY <1>3, <1>11
<1>13. CASE c = "mkdir2"
  <2>1. t = "none" /\ k = "dir" /\ t2 = "own" /\ m2 = m + 1
    BY <1>7, <1>13
  <2>2. m = 0
    BY <1>3, <1>5, <2>1 DEF CopyingAt
  <2>3. CopyingAt(r, c, "ok", k, t2, m2, used, closed)
    BY <2>1, <2>2 DEF CopyingAt
  <2>4. QED
    BY <1>4, <1>8, <1>9, <2>3 DEF ItemInv, r, c, k
<1>14. CASE c # "mkdir2"
  <2>1. /\ k # "dir" /\ closed = FALSE /\ c \in {"multipart", "complete", "recomplete"}
        /\ c \in Pooled
    BY <1>6, <1>7, <1>14
  <2>2. m <= used.retries /\ (m >= 1 => used.faults > 0)
    <3>1. FreshAt(r, c, "sent")
      BY <2>1 DEF FreshAt
    <3>2. QED
      BY <1>5, <2>1, <3>1 DEF CopyingAt
  <2>3. m2 <= used.retries + 1 /\ (m2 > 1 => used.faults > 0)
    BY <1>1, <1>3, <2>2
  <2>4. ~FreshAt(r, c, "ok")
    BY <1>5, <2>1 DEF FreshAt, InStep, Pooled
  <2> HIDE DEF m2, t2
  <2>5. CopyingAt(r, c, "ok", k, t2, m2, used, closed)
    BY <1>5, <1>10, <1>12, <2>1, <2>3, <2>4 DEF CopyingAt
  <2>6. QED
    BY <1>4, <1>8, <1>9, <2>5 DEF ItemInv, r, c, k
<1>15. QED
  BY <1>13, <1>14

LEMMA HeldByFacts ==
    ASSUME NEW t \in Taken
    PROVE  HeldBy(t) \in {"file", "dir"} /\ (HeldBy(t) = "file" => t # "dir") /\ HeldBy(t) \in Answer
BY DEF HeldBy, Answer

\* lunad answers and keeps the names as they are.
LEMMA AnswerEnds ==
    ASSUME Inv, NEW i \in Items, co[i] \notin {"idle", "names"}, NEW n \in Answer,
           net' = [net EXCEPT ![i] = n],
           UNCHANGED <<op, walking, walk, item, listing, co, ready, closed, taken, copies, asked>>,
           open' \subseteq Sids, adrift' \subseteq Sids,
           used' \in [retries : 0 .. MaxRetries, faults : 0 .. MaxFaults],
           used.retries <= used'.retries, used.faults <= used'.faults, n \in {"lost", "busy"} => used'.faults > 0,
           co[i] \in Pooled /\ n = "file" => taken[i] # "dir",
           co[i] \in {"multipart", "complete", "recomplete"} =>
              n \in {"refused", "lost", "busy"} \/ (n \in {"file", "dir"} /\ net[i] = "sent")
    PROVE  Inv'
<1> DEFINE u == used'
<1>1. ItemInv(i, item[i], co[i], n, listing.at, listing.names[i], taken[i], copies[i],
              asked, u, closed)
  <2>1. /\ u \in [retries : 0 .. MaxRetries, faults : 0 .. MaxFaults]
        /\ used.retries <= u.retries /\ used.faults <= u.faults /\ (n \in {"lost", "busy"} => u.faults > 0)
    OBVIOUS
  <2> HIDE DEF u
  <2>2. QED
    BY <2>1, AnswerInv
<1>2. RestTyped'
  BY DEF Inv, RestTyped
<1>3. QED
  BY <1>1, <1>2, NetEnds

\* lunad answers and the file is there.
LEMMA InstallEnds ==
    ASSUME Inv, NEW i \in Items, co[i] \in {"multipart", "complete", "recomplete", "mkdir2"},
           net[i] = "sent", MayInstall(i), co[i] = "mkdir2" => taken[i] = "none", Install(i),
           net' = [net EXCEPT ![i] = "ok"], open' \subseteq open,
           UNCHANGED <<op, walking, walk, item, listing, co, ready, closed, asked, adrift, used>>
    PROVE  Inv'
<1>1. /\ ItemInv(i, item[i], co[i], "ok", listing.at, listing.names[i], taken'[i], copies'[i],
                 asked, used, closed)
      /\ taken' \in [Items -> Taken] /\ copies' \in [Items -> Nat]
      /\ \A j \in Items \ {i} : taken'[j] = taken[j] /\ copies'[j] = copies[j]
  BY InstalledInv
<1>2. RestTyped'
  BY <1>1 DEF Inv, RestTyped
<1>3. "ok" \in Answer /\ co[i] \notin {"idle", "names"}
  BY DEF Answer
<1>4. used.retries <= used'.retries /\ used.faults <= used'.faults
  BY DEF Inv, RestTyped
<1>5. QED
  BY <1>1, <1>2, <1>3, <1>4, NetEnds

LEMMA ServeKeeps ==
    ASSUME Inv, NEW i \in Items, Serve(i)
    PROVE  Inv'
<1> DEFINE answers(n) == net' = [net EXCEPT ![i] = n] /\ UNCHANGED <<taken, open, copies>>
           creates == /\ net' = [net EXCEPT ![i] = "ok"]
                      /\ \E d \in Sids : FreshSid(i, d) /\ open' = open \cup {d}
                      /\ UNCHANGED <<taken, copies>>
           installs == net' = [net EXCEPT ![i] = "ok"] /\ Install(i) /\ open' \subseteq open
<1>1. /\ net[i] = "sent"
      /\ UNCHANGED <<op, walking, walk, item, listing, co, ready, closed, asked, adrift, used>>
  BY DEF Serve
<1>2. /\ InStep(item[i], co[i], net[i], Kind[i]) /\ co[i] \in Await
      /\ taken[i] \in Taken /\ open \subseteq Sids /\ adrift \subseteq Sids
      /\ used \in [retries : 0 .. MaxRetries, faults : 0 .. MaxFaults]
  BY RowFacts DEF Inv, RestTyped
<1>3. co[i] \notin {"idle", "names"}
  BY <1>1, <1>2 DEF InStep
<1>4. used.retries <= used'.retries /\ used.faults <= used'.faults
  BY <1>1, <1>2
<1>5. HeldBy(taken[i]) \in {"file", "dir"} /\ (HeldBy(taken[i]) = "file" => taken[i] # "dir")
      /\ HeldBy(taken[i]) \in Answer /\ {"ok", "refused", "file", "dir"} \subseteq Answer
  BY <1>2, HeldByFacts DEF Answer
<1>6. \/ answers(HeldBy(taken[i]))
      \/ answers("refused")
      \/ answers("ok") /\ co[i] \in {"chunk", "mkdir"}
      \/ (answers("file") \/ answers("dir")) /\ co[i] \in Making
      \/ creates /\ co[i] = "create"
      \/ /\ installs /\ MayInstall(i) /\ co[i] \in {"multipart", "complete", "recomplete", "mkdir2"}
         /\ co[i] = "mkdir2" => taken[i] = "none"
  <2>1. CASE co[i] \in {"multipart", "create"} /\ ~MayInstall(i)
    BY <2>1 DEF Serve, lunad
  <2>2. CASE co[i] = "multipart" /\ MayInstall(i)
    BY <2>2 DEF Serve, lunad
  <2>3. CASE co[i] = "create" /\ MayInstall(i)
    BY <2>3 DEF Serve, lunad
  <2>4. CASE co[i] = "chunk"
    <3>1. CASE item[i].sid \in open
      BY <2>4, <3>1 DEF Serve, lunad
    <3>2. CASE item[i].sid \notin open
      BY <2>4, <3>2 DEF Serve, lunad
    <3>3. QED
      BY <3>1, <3>2
  <2>5. CASE co[i] \in {"complete", "recomplete"}
    <3>1. CASE item[i].sid \notin open
      BY <2>5, <3>1 DEF Serve, lunad
    <3>2. CASE item[i].sid \in open /\ MayInstall(i)
      BY <2>5, <3>2 DEF Serve, lunad
    <3>3. CASE item[i].sid \in open /\ ~MayInstall(i)
      BY <2>5, <3>3 DEF Serve, lunad
    <3>4. QED
      BY <3>1, <3>2, <3>3
  <2>6. CASE co[i] \in {"mkdir", "stat1"}
    BY <2>6 DEF Serve, lunad, Making
  <2>7. CASE co[i] = "mkdir2"
    <3>1. CASE taken[i] = "none"
      BY <2>7, <3>1 DEF Serve, lunad, MayInstall
    <3>2. CASE taken[i] # "none"
      BY <2>7, <3>2 DEF Serve, lunad, Making
    <3>3. QED
      BY <3>1, <3>2
  <2>8. CASE co[i] = "stat"
    BY <2>8 DEF Serve, lunad, Making
  <2>9. QED
    BY <1>2, <1>3, <2>1, <2>2, <2>3, <2>4, <2>5, <2>6, <2>7, <2>8 DEF Await, Pooled, Making
<1>7. CASE answers(HeldBy(taken[i]))
  <2> DEFINE n == HeldBy(taken[i])
  <2>1. n \in {"file", "dir"} /\ (n = "file" => taken[i] # "dir") /\ n \in Answer /\ answers(n)
    BY <1>5, <1>7
  <2> HIDE DEF n
  <2>2. QED
    BY <1>1, <1>2, <1>3, <1>4, <2>1, AnswerEnds
<1>8. CASE answers("refused")
  BY <1>1, <1>2, <1>3, <1>4, <1>5, <1>8, AnswerEnds
<1>9. CASE answers("ok") /\ co[i] \in {"chunk", "mkdir"}
  BY <1>1, <1>2, <1>3, <1>4, <1>5, <1>9, AnswerEnds
<1>10. CASE (answers("file") \/ answers("dir")) /\ co[i] \in Making
  <2>1. co[i] \notin Pooled
    BY <1>10 DEF Pooled, Making
  <2>2. QED
    BY <1>1, <1>2, <1>3, <1>4, <1>5, <1>10, <2>1, AnswerEnds
<1>11. CASE creates /\ co[i] = "create"
  <2>1. open' \subseteq Sids
    BY <1>2, <1>11
  <2>2. QED
    BY <1>1, <1>2, <1>3, <1>4, <1>5, <1>11, <2>1, AnswerEnds
<1>12. CASE /\ installs /\ MayInstall(i) /\ co[i] \in {"multipart", "complete", "recomplete", "mkdir2"}
            /\ co[i] = "mkdir2" => taken[i] = "none"
  BY <1>1, <1>12, InstallEnds
<1>13. QED
  BY <1>6, <1>7, <1>8, <1>9, <1>10, <1>11, <1>12

LEMMA TroubleKeeps ==
    ASSUME Inv, NEW i \in Items, NEW a \in {"lost", "busy", "refused"}, Trouble(i, a)
    PROVE  Inv'
<1>1. /\ net[i] \in {"sent", "ok"} /\ Fault /\ net' = [net EXCEPT ![i] = a]
      /\ adrift' = adrift \cup Hidden({i})
      /\ UNCHANGED <<op, walking, walk, item, listing, co, ready, closed, taken, open, copies, asked>>
  BY DEF Trouble, lunad
<1>2. InStep(item[i], co[i], net[i], Kind[i]) /\ RestTyped /\ a \in Answer
  BY RowFacts DEF Inv, Answer
<1>3. co[i] \notin {"idle", "names"}
  BY <1>1, <1>2 DEF InStep
<1>4. open' \subseteq Sids /\ adrift' \subseteq Sids
  BY <1>1, <1>2 DEF RestTyped, Hidden
<1>5. /\ used' \in [retries : 0 .. MaxRetries, faults : 0 .. MaxFaults]
      /\ used.retries <= used'.retries /\ used.faults <= used'.faults /\ used'.faults > 0
  BY <1>1, <1>2, FaultFacts
<1>6. QED
  BY <1>1, <1>2, <1>3, <1>4, <1>5, AnswerEnds

LEMMA ChunkAgainKeeps ==
    ASSUME Inv, NEW i \in Items, ChunkAgain(i)
    PROVE  Inv'
<1>1. /\ co[i] = "chunk" /\ net' = [net EXCEPT ![i] = "sent"]
      /\ UNCHANGED <<op, walking, walk, item, listing, co, ready, closed, taken, open, copies, asked,
                     adrift, used>>
  BY DEF ChunkAgain, lunad
<1>2. /\ open' \subseteq Sids /\ adrift' \subseteq Sids /\ "sent" \in Answer
      /\ used' \in [retries : 0 .. MaxRetries, faults : 0 .. MaxFaults]
      /\ used.retries <= used'.retries /\ used.faults <= used'.faults
  BY <1>1 DEF Inv, RestTyped, Answer
<1>3. QED
  BY <1>1, <1>2, AnswerEnds

\* Steps the tab does not take part in.
LEMMA TabSame ==
    ASSUME Inv, UNCHANGED <<op, walking, walk, item, co, net, ready, closed>>, closed = FALSE,
           RestTyped', ItemsInv'
    PROVE  Inv'
<1>1. Now' = Now
  BY DEF Now
<1>2. Sound(Now') /\ PoolOK(Now') /\ Over(Now')
  BY <1>1 DEF Inv
<1>3. Untouched'
  BY DEF Inv, Untouched
<1>4. QED
  BY <1>2, <1>3 DEF Inv

LEMMA ListedKeeps ==
    ASSUME Inv, Listed
    PROVE  Inv'
<1>1. /\ listing.at = "asked"
      /\ \/ listing' = [at |-> "known", names |-> taken] /\ UNCHANGED used
         \/ listing' = [listing EXCEPT !.at = "failed"] /\ Fault
      /\ UNCHANGED <<op, walking, walk, item, co, net, ready, closed, taken, open, copies, asked, adrift>>
  BY DEF Listed, lunad
<1>2. RestTyped /\ closed = FALSE
  <2>1. NoListing.at = "unasked"
    BY DEF NoListing
  <2>2. closed # TRUE
    BY <1>1, <2>1 DEF Inv, Untouched
  <2>3. QED
    BY <2>2 DEF Inv, RestTyped
<1>3. /\ used \in [retries : 0 .. MaxRetries, faults : 0 .. MaxFaults]
      /\ used' \in [retries : 0 .. MaxRetries, faults : 0 .. MaxFaults]
      /\ used.retries <= used'.retries /\ used.faults <= used'.faults
  <2>1. used \in [retries : 0 .. MaxRetries, faults : 0 .. MaxFaults]
    BY <1>2 DEF RestTyped
  <2>2. CASE UNCHANGED used
    BY <2>1, <2>2
  <2>3. CASE Fault
    BY <1>2, <2>1, <2>3, FaultFacts
  <2>4. QED
    BY <1>1, <2>2, <2>3
<1>4. /\ listing' \in [at : {"unasked", "asked", "known", "failed"}, names : [Items -> Taken]]
      /\ listing'.at \in {"known", "failed"}
      /\ \A i \in Items : listing'.names[i] \in {listing.names[i], taken[i]}
  <2>1. /\ listing \in [at : {"unasked", "asked", "known", "failed"}, names : [Items -> Taken]]
        /\ taken \in [Items -> Taken]
    BY <1>2 DEF RestTyped
  <2>2. CASE listing' = [at |-> "known", names |-> taken]
    <3>1. listing'.at = "known" /\ listing'.names = taken
      BY <2>2
    <3>2. QED
      BY <2>1, <2>2, <3>1
  <2>3. CASE listing' = [listing EXCEPT !.at = "failed"]
    <3>1. listing'.at = "failed" /\ listing'.names = listing.names
      BY <2>1, <2>3
    <3>2. QED
      BY <2>1, <2>3, <3>1
  <2>4. QED
    BY <1>1, <2>2, <2>3
<1>5. RestTyped'
  BY <1>1, <1>2, <1>3, <1>4 DEF RestTyped
<1>6. ASSUME NEW i \in Items
      PROVE  ItemInv(i, item[i], co[i], net[i], listing'.at, listing'.names[i], taken[i],
                     copies[i], asked, used', closed)
  <2>1. ItemInv(i, item[i], co[i], net[i], listing.at, listing.names[i], taken[i],
                copies[i], asked, used', closed)
    <3>1. ItemInv(i, item[i], co[i], net[i], listing.at, listing.names[i], taken[i],
                  copies[i], asked, used, closed)
      BY RowFacts
    <3>2. copies[i] \in Nat
      BY <1>2 DEF RestTyped
    <3>3. QED
      BY <1>3, <3>1, <3>2, ItemInvGrows
  <2> DEFINE old == listing.names[i]
             new == listing'.names[i]
             t == taken[i]
  <2>2. /\ UnlistedAt(item[i], co[i], Kind[i], "asked", old, t, FALSE)
        /\ ReplacingAt(i, item[i], co[i], net[i], old, t, asked)
        /\ CopyingAt(item[i], co[i], net[i], Kind[i], t, copies[i], used', closed)
        /\ new \in {old, t} /\ listing'.at \in {"known", "failed"}
    BY <1>1, <1>2, <1>4, <2>1 DEF ItemInv
  <2> HIDE DEF old, new, t
  <2>3. UnlistedAt(item[i], co[i], Kind[i], listing'.at, new, t, closed)
    BY <2>2 DEF UnlistedAt
  <2>4. ReplacingAt(i, item[i], co[i], net[i], new, t, asked)
    BY <2>2 DEF ReplacingAt
  <2>5. QED
    BY <2>2, <2>3, <2>4 DEF ItemInv, new, t
<1>7. ItemsInv'
  BY <1>1, <1>6 DEF ItemsInv
<1>8. QED
  BY <1>1, <1>2, <1>5, <1>7, TabSame

LEMMA SomeoneSavesKeeps ==
    ASSUME Inv, NEW i \in Items, SomeoneSaves(i)
    PROVE  Inv'
<1>1. /\ ~closed /\ taken[i] = "none" /\ Fault /\ taken' = [taken EXCEPT ![i] = "file"]
      /\ UNCHANGED <<op, walking, walk, item, listing, co, net, ready, closed, open, copies, asked, adrift>>
  BY DEF SomeoneSaves
<1>2. RestTyped /\ closed = FALSE
  BY <1>1 DEF Inv, RestTyped
<1>3. /\ used \in [retries : 0 .. MaxRetries, faults : 0 .. MaxFaults]
      /\ used' \in [retries : 0 .. MaxRetries, faults : 0 .. MaxFaults]
      /\ used.retries <= used'.retries /\ used.faults <= used'.faults
  BY <1>1, <1>2, FaultFacts DEF RestTyped
<1>4. /\ taken' \in [Items -> Taken] /\ taken'[i] = "file"
      /\ \A j \in Items \ {i} : taken'[j] = taken[j]
  BY <1>1, <1>2 DEF RestTyped, Taken
<1>5. RestTyped'
  BY <1>1, <1>2, <1>3, <1>4 DEF RestTyped
<1>6. ASSUME NEW j \in Items
      PROVE  ItemInv(j, item[j], co[j], net[j], listing.at, listing.names[j], taken'[j],
                     copies[j], asked, used', closed)
  <2>1. copies[j] \in Nat
    BY <1>2 DEF RestTyped
  <2>2. ItemInv(j, item[j], co[j], net[j], listing.at, listing.names[j], taken[j],
                copies[j], asked, used', closed)
    <3>1. ItemInv(j, item[j], co[j], net[j], listing.at, listing.names[j], taken[j],
                  copies[j], asked, used, closed)
      BY RowFacts
    <3>2. QED
      BY <1>3, <2>1, <3>1, ItemInvGrows
  <2>3. CASE j # i
    BY <1>4, <2>2, <2>3
  <2>4. CASE j = i
    <3>1. /\ UnlistedAt(item[j], co[j], Kind[j], listing.at, listing.names[j], "none", closed)
          /\ ReplacingAt(j, item[j], co[j], net[j], listing.names[j], "none", asked)
          /\ CopyingAt(item[j], co[j], net[j], Kind[j], "none", copies[j], used', closed)
      BY <1>1, <2>2, <2>4 DEF ItemInv
    <3>2. UnlistedAt(item[j], co[j], Kind[j], listing.at, listing.names[j], "file", closed)
      BY <3>1 DEF UnlistedAt
    <3>3. ReplacingAt(j, item[j], co[j], net[j], listing.names[j], "file", asked)
      BY <3>1 DEF ReplacingAt
    <3>4. CopyingAt(item[j], co[j], net[j], Kind[j], "file", copies[j], used', closed)
      BY <3>1 DEF CopyingAt
    <3>5. QED
      BY <1>4, <2>4, <3>2, <3>3, <3>4 DEF ItemInv
  <2>5. QED
    BY <2>3, <2>4
<1>7. ItemsInv'
  BY <1>1, <1>6 DEF ItemsInv
<1>8. QED
  BY <1>1, <1>2, <1>5, <1>7, TabSame

----------------------------------------------------------------------------
(* The theorems *)

LEMMA RetriesKeep ==
    ASSUME Inv, Retry \/ RetryOffline
    PROVE  Inv'
<1>1. \E T \in SUBSET Items : RetryItems(T)
  <2>1. ASSUME NEW i \in Items, RetryItems({i})
        PROVE  \E T \in SUBSET Items : RetryItems(T)
    <3>1. {i} \in SUBSET Items
      OBVIOUS
    <3>2. QED
      BY <2>1, <3>1
  <2>2. /\ {i \in Items : Retryable(i)} \in SUBSET Items
        /\ {i \in Items : Retryable(i) /\ item[i].off} \in SUBSET Items
    OBVIOUS
  <2>3. QED
    BY <2>1, <2>2, Zenon DEF Retry, RetryOffline
<1>2. QED
  BY <1>1, RetryItemsKeeps

LEMMA StutterKeeps ==
    ASSUME Inv, UNCHANGED vars
    PROVE  Inv'
<1>1. UNCHANGED <<op, walking, walk, item, listing, co, net, ready, closed, taken, open, copies, asked,
                  adrift, used>>
  BY DEF vars, lunad
<1>2. Now' = Now
  BY <1>1 DEF Now
<1>3. Sound(Now') /\ PoolOK(Now') /\ Over(Now')
  BY <1>2 DEF Inv
<1>4. RestTyped' /\ Untouched' /\ ItemsInv'
  BY <1>1 DEF Inv, RestTyped, Untouched, ItemsInv
<1>5. QED
  BY <1>3, <1>4 DEF Inv

LEMMA NextInv ==
    ASSUME Inv, [Next]_vars
    PROVE  Inv'
<1>1. CASE Tab
  <2>1. CASE WalkFinds \/ WalkError \/ WalkEnds
    BY <2>1, WalkFindsKeeps, WalkErrorKeeps, WalkEndsKeeps
  <2>2. ASSUME NEW i \in Items,
               \/ Prepared(i) \/ Proceeds(i) \/ ChunkAgain(i) \/ Uploaded(i)
               \/ Clashed(i) \/ Failed(i) \/ FolderStep(i)
        PROVE  Inv'
    BY <2>2, PreparedKeeps, ProceedsKeeps, ChunkAgainKeeps, UploadedKeeps, ClashedKeeps, FailedKeeps,
       FolderStepKeeps
  <2>3. QED
    BY <1>1, <2>1, <2>2 DEF Tab
<1>2. CASE Person
  <2>1. CASE StartFiles \/ StartDrop \/ CancelOp \/ ClearFailed \/ Leave \/ ClosePage
    BY <2>1, StartFilesKeeps, StartDropKeeps, CancelOpKeeps, ClearFailedKeeps, LeaveKeeps,
       ClosePageKeeps
  <2>2. CASE Retry \/ RetryOffline
    BY <2>2, RetriesKeep
  <2>3. ASSUME NEW i \in Items, CancelItem(i) \/ RemoveItem(i)
        PROVE  Inv'
    BY <2>3, CancelItemKeeps, RemoveItemKeeps
  <2>4. ASSUME NEW i \in Items, NEW c \in {"replace", "keep_both", "skip"}, Decide(i, c)
        PROVE  Inv'
    BY <2>4, DecideKeeps
  <2>5. ASSUME NEW c \in {"replace", "keep_both", "skip"}, DecideAll(c)
        PROVE  Inv'
    BY <2>5, DecideAllKeeps
  <2>6. QED
    BY <1>2, <2>1, <2>2, <2>3, <2>4, <2>5 DEF Person
<1>3. CASE Outside
  <2>1. ASSUME NEW i \in Items, Serve(i) \/ SomeoneSaves(i)
        PROVE  Inv'
    BY <2>1, ServeKeeps, SomeoneSavesKeeps
  <2>2. ASSUME NEW i \in Items, NEW a \in {"lost", "busy", "refused"}, Trouble(i, a)
        PROVE  Inv'
    BY <2>2, TroubleKeeps
  <2>3. QED
    BY <1>3, <2>1, <2>2, ListedKeeps DEF Outside
<1>4. CASE UNCHANGED vars
  BY <1>4, StutterKeeps
<1>5. QED
  BY <1>1, <1>2, <1>3, <1>4 DEF Next

\* The inductive invariant holds always: what the row, the coroutine, the pool,
\* the listing and lunad say of an item agree after every step.
THEOREM Invariance == Spec => []Inv
<1>1. Init => Inv
  BY InitInv
<1>2. Inv /\ [Next]_vars => Inv'
  BY NextInv
<1>3. QED
  BY <1>1, <1>2, PTL DEF Spec

\* Every variable of uploadRunner's tab and of lunad's side keeps its type, and
\* lunad never makes more files out of one item than there were attempts.
THEOREM TypeCorrect == Spec => []TypeOK
<1>1. Inv => TypeOK
  <2> SUFFICES ASSUME Inv
               PROVE  TypeOK
    OBVIOUS
  <2>1. /\ op \in OpRecord /\ walking \in BOOLEAN /\ item \in [Items -> ItemRecord]
        /\ co \in [Items -> Await] /\ net \in [Items -> Answer] /\ ready \in Seq(Items) /\ RestTyped
    BY NowFacts
  <2>2. copies \in [Items -> 0 .. MaxRetries + 1]
    <3> SUFFICES ASSUME NEW i \in Items
                 PROVE  copies[i] \in 0 .. MaxRetries + 1
      BY <2>1 DEF RestTyped
    <3>1. copies[i] \in Nat /\ used.retries \in 0 .. MaxRetries
      BY <2>1 DEF RestTyped
    <3>2. CopyingAt(item[i], co[i], net[i], Kind[i], taken[i], copies[i], used, closed)
      BY RowFacts DEF ItemInv
    <3>3. copies[i] <= 1 \/ copies[i] <= used.retries + 1
      BY <3>2 DEF CopyingAt
    <3>4. QED
      BY <3>1, <3>3
  <2>3. QED
    BY <2>1, <2>2 DEF TypeOK, RestTyped
<1>2. QED
  BY <1>1, Invariance, PTL

\* pump never has more than UPLOAD_PARALLEL uploads going, never leaves a file
\* waiting while there is room, and never holds one ready whose last run goes on.
THEOREM PoolStaysExact == Spec => []PoolExact
<1>1. Inv => PoolExact
  <2> SUFFICES ASSUME Inv
               PROVE  PoolExact
    OBVIOUS
  <2>1. PoolOK(Now) /\ ReadyOnce(Now)
    BY DEF Inv, Sound
  <2>2. Now.ready = ready /\ Now.co = co
    BY DEF Now
  <2>3. Now.ready = << >> => Startable(Now) = {}
    <3> DEFINE w == Now
    <3>1. w.ready = << >> => DOMAIN w.ready = {}
      OBVIOUS
    <3>2. QED
      BY <3>1 DEF Startable
  <2>4. \A p \in Startable(Now) : co[ready[p]] = "idle"
    BY <2>1, <2>2 DEF ReadyOnce, Startable
  <2>5. QED
    BY <2>1, <2>3, <2>4 DEF PoolOK, PoolExact
<1>2. QED
  BY <1>1, Invariance, PTL

\* While its operation is shown, a row that says queued waits for the name check
\* or in `ready`, one that says it is sent is in the pool, and a folder that says
\* it is made has a request on its way: no row of the dock is forgotten.
THEOREM NoRowIsStranded == Spec => []NothingStranded
<1>1. Inv => NothingStranded
  <2> SUFFICES ASSUME Inv, NEW i \in Items, Here(i)
               PROVE  /\ item[i].st = "queued" => co[i] = "names" \/ \E p \in DOMAIN ready : ready[p] = i
                      /\ item[i].st \in {"uploading", "finishing"} => co[i] \in Pooled
                      /\ item[i].st = "running" => co[i] \in Making
    BY DEF NothingStranded
  <2>1. op.listed = TRUE
    BY HereFacts
  <2>2. /\ Waiting(Now) /\ Now.op = op /\ Now.item = item /\ Now.co = co /\ Now.ready = ready
    BY DEF Inv, Sound, Now
  <2>3. InStep(item[i], co[i], net[i], Kind[i])
    BY RowFacts
  <2>4. QED
    BY <2>1, <2>2, <2>3 DEF Waiting, InReady, InStep, Making
<1>2. QED
  BY <1>1, Invariance, PTL

\* A file's row says done only when lunad has made the file, and a second copy
\* of it takes both a lost answer and a Try again.
THEOREM DoneIsTrue == Spec => []DoneTruthful
<1>1. Inv => DoneTruthful
  <2> SUFFICES ASSUME Inv, NEW i \in Items
               PROVE  /\ item[i].st = "done" /\ Kind[i] # "dir" => copies[i] >= 1
                      /\ copies[i] > 1 => used.retries > 0 /\ used.faults > 0
    BY DEF DoneTruthful
  <2>1. copies[i] \in Nat /\ used.retries \in Nat
    BY DEF Inv, RestTyped
  <2>2. CopyingAt(item[i], co[i], net[i], Kind[i], taken[i], copies[i], used, closed)
    BY RowFacts DEF ItemInv
  <2>3. item[i].st = "done" /\ Kind[i] # "dir" => copies[i] >= 1
    BY <2>2 DEF CopyingAt
  <2>4. copies[i] > 1 => Kind[i] # "dir"
    BY <2>1, <2>2 DEF CopyingAt
  <2>5. Kind[i] # "dir" => copies[i] <= used.retries + 1 /\ (copies[i] > 1 => used.faults > 0)
    BY <2>2 DEF CopyingAt
  <2>6. QED
    BY <2>1, <2>3, <2>4, <2>5
<1>2. QED
  BY <1>1, Invariance, PTL

\* Once settle has given an operation its end, its walk is over and the only
\* coroutines still going are those of rows that were cancelled.
THEOREM EndIsTheEnd == Spec => []EndedIsOver
<1>1. Inv => EndedIsOver
  <2> SUFFICES ASSUME Inv, op.listed, op.ended
               PROVE  /\ ~walking
                      /\ \A i \in Items : item[i].shown /\ co[i] # "idle" => item[i].st = "cancelled"
    BY DEF EndedIsOver
  <2>1. op.listed = TRUE /\ op.ended = TRUE
    BY NowFacts DEF OpRecord
  <2>2. Over(Now) /\ Now.op = op /\ Now.item = item /\ Now.walking = walking
    BY DEF Inv, Now
  <2>3. /\ walking = FALSE
        /\ \A i \in Items : item[i].shown = TRUE => item[i].st \notin Active \cup {"needs-decision"}
    BY <2>1, <2>2 DEF Over
  <2>4. ASSUME NEW i \in Items, item[i].shown, co[i] # "idle"
        PROVE  item[i].st = "cancelled"
    <3>1. item[i].shown = TRUE /\ item[i].st \in ItemState
      BY <2>4, RowFacts DEF ItemRecord
    <3>2. InStep(item[i], co[i], net[i], Kind[i])
      BY RowFacts
    <3>3. item[i].st \notin {"none", "needs-decision", "failed", "done", "skipped"}
      BY <2>4, <3>2 DEF InStep
    <3>4. QED
      BY <2>3, <3>1, <3>3 DEF ItemState
  <2>5. QED
    BY <2>3, <2>4
<1>2. QED
  BY <1>1, Invariance, PTL

\* Only lunad's answers and other people change what holds a name.
LEMMA TakenChanges ==
    ASSUME [Next]_vars, NEW i \in Items, taken'[i] # taken[i]
    PROVE  \E j \in Items : Serve(j) \/ SomeoneSaves(j)
<1> SUFFICES ASSUME \A j \in Items : ~Serve(j) /\ ~SomeoneSaves(j)
             PROVE  taken' = taken
  OBVIOUS
<1>1. CASE Tab
  BY <1>1 DEF Tab, WalkFinds, WalkError, WalkEnds, Prepared, Proceeds, ChunkAgain, Uploaded, Clashed,
              Failed, FolderStep, lunad
<1>2. CASE Person
  <2>1. CASE Retry \/ RetryOffline
    BY <2>1 DEF Retry, RetryOffline, RetryItems, lunad
  <2>2. CASE \/ CancelOp \/ ClearFailed \/ Leave \/ ClosePage \/ StartFiles \/ StartDrop
             \/ \E j \in Items : CancelItem(j) \/ RemoveItem(j)
    BY <2>2 DEF CancelOp, CancelItem, RemoveItem, Cancel, ClearFailed, Leave, ClosePage, StartFiles,
                StartDrop, lunad
  <2>3. CASE \/ \E j \in Items, c \in {"replace", "keep_both", "skip"} : Decide(j, c)
             \/ \E c \in {"replace", "keep_both", "skip"} : DecideAll(c)
    BY <2>3 DEF Decide, DecideAll
  <2>4. QED
    BY <1>2, <2>1, <2>2, <2>3 DEF Person
<1>3. CASE Outside
  BY <1>3 DEF Outside, Listed, Trouble, lunad
<1>4. CASE UNCHANGED vars
  BY <1>4 DEF vars, lunad
<1>5. QED
  BY <1>1, <1>2, <1>3, <1>4 DEF Next

\* lunad puts an uploaded file in the place of somebody's file only when the
\* person, or the policy the person set, said Replace for that item, and never
\* in the place of a folder.
THEOREM ReplacesOnlyIfAsked == Spec => ReplacedOnlyIfAsked
<1> DEFINE A == \A i \in Items : (taken[i] \in {"file", "dir"} /\ taken'[i] # taken[i]) =>
                    taken[i] = "file" /\ i \in asked
<1>1. Inv /\ [Next]_vars => A
  <2> SUFFICES ASSUME Inv, [Next]_vars, NEW i \in Items, taken[i] \in {"file", "dir"},
                      taken'[i] # taken[i]
               PROVE  taken[i] = "file" /\ i \in asked
    OBVIOUS
  <2>1. PICK j \in Items : Serve(j) \/ SomeoneSaves(j)
    BY TakenChanges
  <2>2. taken \in [Items -> Taken]
    BY DEF Inv, RestTyped
  <2>3. ~SomeoneSaves(j)
    BY <2>2 DEF SomeoneSaves
  <2>4. Install(j)
    <3>1. Serve(j) /\ taken' # taken
      BY <2>1, <2>3
    <3>2. co[j] \in Await /\ co[j] \notin {"idle", "names"}
      <4>1. InStep(item[j], co[j], net[j], Kind[j]) /\ co[j] \in Await /\ net[j] = "sent"
        BY <3>1, RowFacts DEF Serve
      <4>2. QED
        BY <4>1 DEF InStep
    <3>3. CASE co[j] = "multipart" /\ MayInstall(j)
      BY <3>1, <3>3 DEF Serve
    <3>4. CASE co[j] \in {"complete", "recomplete"}
      BY <3>1, <3>4 DEF Serve, lunad
    <3>5. CASE co[j] = "mkdir2"
      BY <3>1, <3>5 DEF Serve, lunad
    <3>6. CASE \/ co[j] \in {"multipart", "create"} /\ ~MayInstall(j)
               \/ co[j] = "create" /\ MayInstall(j)
               \/ co[j] \in {"chunk", "mkdir", "stat1", "stat"}
      <4>1. CASE co[j] \in {"multipart", "create"} /\ ~MayInstall(j)
        BY <3>1, <4>1 DEF Serve, lunad
      <4>2. CASE co[j] = "create" /\ MayInstall(j)
        BY <3>1, <4>2 DEF Serve, lunad
      <4>3. CASE co[j] = "chunk"
        BY <3>1, <4>3 DEF Serve, lunad
      <4>4. CASE co[j] \in {"mkdir", "stat1"}
        BY <3>1, <4>4 DEF Serve, lunad
      <4>5. CASE co[j] = "stat"
        BY <3>1, <4>5 DEF Serve, lunad
      <4>6. QED
        BY <3>6, <4>1, <4>2, <4>3, <4>4, <4>5
    <3>7. QED
      BY <3>2, <3>3, <3>4, <3>5, <3>6 DEF Await, Pooled, Making
  <2>5. i = j /\ item[i].conflict = "replace"
    BY <2>2, <2>4 DEF Install
  <2>6. ReplacingAt(i, item[i], co[i], net[i], listing.names[i], taken[i], asked)
    BY RowFacts DEF ItemInv
  <2>7. QED
    BY <2>5, <2>6 DEF ReplacingAt
<1>2. Inv /\ [Next]_vars => [A]_vars
  BY <1>1
<1>3. QED
  BY <1>2, Invariance, PTL DEF Spec, ReplacedOnlyIfAsked
=============================================================================
