------------------------- MODULE FileOpsJobsProofs --------------------------
(***************************************************************************)
(* Proofs about FileOpsJobs, for every number of items, operations, slots,   *)
(* polls at once, retries and faults.                                        *)
(***************************************************************************)
EXTENDS FileOpsJobs, FileOpsStoreProofs

USE ConstantsAssumption DEF Items

----------------------------------------------------------------------------
(* The inductive invariant *)

TabState == [item : [Items -> ItemRecord], op : [Ops -> OpRecord], queue : Seq(Items),
             acc : SUBSET Jobs, post : [Jobs -> Post], blocked : BOOLEAN, timer : BOOLEAN]

\* What the number of a POST stands for: lunad's row w, the POST x, whether its
\* job is followed (a) and for which item (n).
NumberAt(w, x, a, n) ==
    /\ x.at # "free" => x.item \in Items
    /\ x.at \notin {"free", "sent"} => x.live = TRUE
    /\ x.at \notin {"free", "accepted", "lost"} => w = "none"
    /\ x.at = "accepted" => w # "none"
    /\ a => w # "none" /\ x.at = "free" /\ n \in Items

Numbered(s, ow) == \A j \in Jobs : NumberAt(row[j], s.post[j], j \in s.acc, ow[j])

\* Where an item is: in the queue, on its way, or among the followed jobs.
In(q, i) == \E p \in DOMAIN q : q[p] = i
Once(q, i) == \A p, r \in DOMAIN q : q[p] = i /\ q[r] = i => p = r
Flying(ps, i) == \E j \in InFlight(ps) : ps[j].item = i
OneFlight(ps, i) == \A j, k \in InFlight(ps) : ps[j].item = i /\ ps[k].item = i => j = k
Followed(s, ow, i) == {j \in s.acc : ow[j] = i}

\* Only one of a queue entry (q), a POST (f), a removal (t) and a job (of A)
\* works for an item; its row r says which, while its operation is listed (l).
PlacedAt(r, l, q, f, t, A) ==
    /\ q => ~f /\ ~t
    /\ f => ~t
    /\ q \/ f \/ t => r.st \in {"queued", "submitting", "cancelled"} /\ r.job = NoJob
    /\ r.st = "queued" => ~f /\ ~t
    /\ r.st \in {"queued", "submitting"} => r.shown = TRUE
    /\ \A j \in A : r.st = "running" /\ r.job = j /\ r.shown = TRUE /\ l
    /\ l /\ r.shown = TRUE =>
          /\ r.st = "queued" => q
          /\ r.st = "submitting" => q \/ f \/ t
          /\ r.st = "running" => r.job \in A

\* The same of every item no late answer has hit.
Placed(s, ow, tr, rc) ==
    \A i \in Items \ rc :
        /\ Once(s.queue, i) /\ OneFlight(s.post, i)
        /\ PlacedAt(s.item[i], s.op[OpOf[i]].listed = TRUE, In(s.queue, i), Flying(s.post, i), i \in tr,
                    Followed(s, ow, i))

\* A row that has a job tells what became of it.
ToldAt(r, rw) ==
    r.job # NoJob =>
        /\ r.st \in {"running", "done", "failed", "cancelled"}
        /\ r.st = "done" => rw[r.job] = "done"
        /\ r.st = "cancelled" => rw[r.job] = "cancelled"
        /\ r.st = "failed" => rw[r.job] \in Lunad!EndState

Told(s, rc) == \A i \in Items \ rc : ToldAt(s.item[i], row)

\* An operation that is not over says so, ...
Phased(s) == \A o \in Ops : s.op[o].listed = TRUE /\ s.op[o].ended = FALSE =>
                               s.op[o].phase \in {"preparing", "running", "waiting"}

\* ... and one that is over has no row at work and none that asks.
OverAt(o, r) ==
    o.listed = TRUE /\ o.ended = TRUE /\ r.shown = TRUE => r.st \notin Active \cup {"needs-decision"}

Over(s, rc) == \A i \in Items \ rc : OverAt(s.op[OpOf[i]], s.item[i])

\* What every handler keeps, of the record it passes on.
Sound(s, ow, tr, rc) ==
    /\ s \in TabState /\ Numbered(s, ow) /\ Placed(s, ow, tr, rc) /\ Told(s, rc) /\ Phased(s)

Good(s, ow, tr, rc) == Sound(s, ow, tr, rc) /\ Over(s, rc) /\ SlotsUsed(s) <= Parallel

\* Nothing waits while there is room, unless the queue is held back.
Busy(s) ==
    \/ s.blocked = TRUE /\ s.timer = TRUE
    \/ s.blocked = FALSE /\ (s.queue = << >> \/ SlotsUsed(s) >= Parallel)

\* What a poll has read is still so.
Polls ==
    \A p \in Slots :
        /\ \A j \in poll[p].gets : owner[j] \in Items
        /\ \A j \in Jobs : poll[p].list[j] \in Lunad!EndState => row[j] = poll[p].list[j]

Trimmed == \A j \in trimmed : row[j] \in Lunad!EndState

Polled == accepted # {} => armed \/ \E p \in Slots : poll[p].at # "idle"

\* The variables that are not in the record.
RestTyped ==
    /\ row \in [Jobs -> Lunad!RowState] /\ trimmed \subseteq Jobs /\ deleted \subseteq Jobs
    /\ owner \in [Jobs -> Items \cup {NoItem}] /\ stored \subseteq Jobs
    /\ armed \in BOOLEAN /\ poll \in [Slots -> Poll] /\ trashing \subseteq Items
    /\ used \in [retries : 0 .. MaxRetries, faults : 0 .. MaxFaults]
    /\ raced \subseteq Items /\ adrift \subseteq Jobs

Inv ==
    /\ RestTyped /\ Good(Now, owner, trashing, raced) /\ (raced = {} => Busy(Now))
    /\ stored = accepted /\ Polls /\ Trimmed /\ Polled /\ NoUnseenJob

----------------------------------------------------------------------------
(* Sequences *)

\* What is behind a queue joins it.
LEMMA JoinFacts ==
    ASSUME NEW S, NEW u \in Seq(S), NEW q \in Seq(S), NEW i
    PROVE  /\ u \o q \in Seq(S)
           /\ In(u \o q, i) <=> In(u, i) \/ In(q, i)
           /\ Once(u, i) /\ ~In(q, i) => Once(u \o q, i)
           /\ ~In(u, i) /\ Once(q, i) => Once(u \o q, i)
<1> DEFINE L == Len(u)
           M == Len(q)
           v == u \o q
<1>1. L \in Nat /\ M \in Nat /\ DOMAIN u = 1 .. L /\ DOMAIN q = 1 .. M /\ DOMAIN v = 1 .. L + M
      /\ v \in Seq(S)
  OBVIOUS
<1>2. /\ \A p \in 1 .. L : p \in 1 .. L + M /\ v[p] = u[p]
      /\ \A p \in 1 .. M : L + p \in 1 .. L + M /\ v[L + p] = q[p]
  BY <1>1
<1>3. \A p \in 1 .. L + M : p \in 1 .. L \/ \E r \in 1 .. M : p = L + r
  <2> SUFFICES ASSUME NEW p \in 1 .. L + M, p \notin 1 .. L
               PROVE  \E r \in 1 .. M : p = L + r
    OBVIOUS
  <2>1. p - L \in 1 .. M /\ p = L + (p - L)
    BY <1>1
  <2>2. QED
    BY <2>1
<1> HIDE DEF L, M, v
<1>4. In(v, i) <=> In(u, i) \/ In(q, i)
  <2>1. ASSUME NEW p \in 1 .. L + M, v[p] = i
        PROVE  In(u, i) \/ In(q, i)
    <3>1. CASE p \in 1 .. L
      BY <3>1, <2>1, <1>1, <1>2 DEF In
    <3>2. CASE \E r \in 1 .. M : p = L + r
      BY <3>2, <2>1, <1>1, <1>2 DEF In
    <3>3. QED
      BY <3>1, <3>2, <1>3
  <2>2. In(u, i) => In(v, i)
    BY <1>1, <1>2 DEF In
  <2>3. In(q, i) => In(v, i)
    BY <1>1, <1>2 DEF In
  <2>4. In(v, i) => In(u, i) \/ In(q, i)
    BY <1>1, <2>1 DEF In
  <2>5. QED
    BY <2>2, <2>3, <2>4
<1>5. ASSUME Once(u, i), ~In(q, i)
      PROVE  Once(v, i)
  <2>1. \A p \in 1 .. L + M : v[p] = i => p \in 1 .. L /\ u[p] = i
    BY <1>1, <1>2, <1>3, <1>5 DEF In
  <2>2. QED
    BY <1>1, <1>5, <2>1 DEF Once
<1>6. ASSUME ~In(u, i), Once(q, i)
      PROVE  Once(v, i)
  <2>1. \A p \in 1 .. L + M : v[p] = i => \E r \in 1 .. M : p = L + r /\ q[r] = i
    BY <1>1, <1>2, <1>3, <1>6 DEF In
  <2>2. ASSUME NEW p \in 1 .. L + M, NEW r \in 1 .. L + M, v[p] = i, v[r] = i
        PROVE  p = r
    <3>1. PICK a \in 1 .. M : p = L + a /\ q[a] = i
      BY <2>1, <2>2
    <3>2. PICK c \in 1 .. M : r = L + c /\ q[c] = i
      BY <2>1, <2>2
    <3>3. a = c
      BY <3>1, <3>2, <1>1, <1>6 DEF Once
    <3>4. QED
      BY <3>1, <3>2, <3>3
  <2>3. QED
    BY <1>1, <2>2 DEF Once
<1>7. QED
  BY <1>1, <1>4, <1>5, <1>6 DEF v

\* One entry, and a list of items.
LEMMA SingleFacts ==
    ASSUME NEW S, NEW i \in S
    PROVE  /\ <<i>> \in Seq(S) /\ \A k : In(<<i>>, k) <=> k = i
           /\ \A k : Once(<<i>>, k)
<1> DEFINE q == <<i>>
<1>1. q \in Seq(S) /\ DOMAIN q = {1} /\ q[1] = i
  OBVIOUS
<1> HIDE DEF q
<1>2. (\A k : In(q, k) <=> k = i) /\ \A k : Once(q, k)
  BY <1>1 DEF In, Once
<1>3. QED
  BY <1>1, <1>2 DEF q

LEMMA OrderFacts ==
    ASSUME NEW T \in SUBSET Items, NEW q \in InOrder(T)
    PROVE  /\ q \in Seq(Items) /\ \A k : In(q, k) <=> k \in T
           /\ \A k : Once(q, k)
<1>1. /\ q \in Seq(1 .. NItems)
      /\ \A p \in DOMAIN q : q[p] \in T
      /\ \A i \in T : \E p \in DOMAIN q : q[p] = i
      /\ \A p, r \in DOMAIN q : q[p] = q[r] => p = r
  BY InOrderFacts
<1>2. ASSUME NEW k
      PROVE  In(q, k) <=> k \in T
  <2>1. k \in T => In(q, k)
    BY <1>1, Zenon DEF In
  <2>2. ASSUME In(q, k)
        PROVE  k \in T
    <3>1. PICK p \in DOMAIN q : q[p] = k
      BY <2>2 DEF In
    <3>2. q[p] \in T
      BY <1>1, <3>1
    <3>3. QED
      BY <3>1, <3>2
  <2>3. QED
    BY <2>1, <2>2
<1>3. ASSUME NEW k
      PROVE  Once(q, k)
  <2>1. \A p, r \in DOMAIN q : q[p] = k /\ q[r] = k => q[p] = q[r]
    OBVIOUS
  <2>2. QED
    BY <1>1, <2>1, Zenon DEF Once
<1>4. q \in Seq(Items)
  BY <1>1
<1>5. QED
  BY <1>2, <1>3, <1>4

\* What is left behind the first k entries.
LEMMA RestFacts ==
    ASSUME NEW S, NEW u \in Seq(S), NEW k \in 0 .. Len(u), NEW i
    PROVE  LET v == SubSeq(u, k + 1, Len(u))
           IN  /\ v \in Seq(S)
               /\ In(v, i) <=> \E p \in DOMAIN u : p > k /\ u[p] = i
               /\ Once(u, i) => Once(v, i)
               /\ k = Len(u) => v = << >>
<1> DEFINE L == Len(u)
           v == SubSeq(u, k + 1, L)
<1>1. L \in Nat /\ DOMAIN u = 1 .. L /\ k \in Nat /\ k <= L
  OBVIOUS
<1>2. v \in Seq(S) /\ DOMAIN v = 1 .. L - k /\ \A p \in 1 .. L - k : p + k \in 1 .. L /\ v[p] = u[p + k]
  BY <1>1
<1>3. \A p \in 1 .. L : p > k => p - k \in 1 .. L - k /\ v[p - k] = u[p]
  <2> SUFFICES ASSUME NEW p \in 1 .. L, p > k
               PROVE  p - k \in 1 .. L - k /\ v[p - k] = u[p]
    OBVIOUS
  <2>1. p - k \in 1 .. L - k /\ (p - k) + k = p
    BY <1>1
  <2> HIDE DEF v
  <2>2. QED
    BY <2>1, <1>2
<1>4. k = L => v = << >>
  BY <1>1
<1> HIDE DEF v, L
<1>5. In(v, i) <=> \E p \in DOMAIN u : p > k /\ u[p] = i
  <2>1. ASSUME In(v, i)
        PROVE  \E p \in DOMAIN u : p > k /\ u[p] = i
    <3>1. PICK p \in 1 .. L - k : v[p] = i
      BY <2>1, <1>2 DEF In
    <3>2. p + k \in 1 .. L /\ p + k > k /\ u[p + k] = i
      BY <3>1, <1>1, <1>2
    <3>3. QED
      BY <3>2, <1>1
  <2>2. ASSUME NEW p \in DOMAIN u, p > k, u[p] = i
        PROVE  In(v, i)
    BY <2>2, <1>1, <1>2, <1>3 DEF In
  <2>3. QED
    BY <2>1, <2>2
<1>6. ASSUME Once(u, i)
      PROVE  Once(v, i)
  <2> SUFFICES ASSUME NEW p \in 1 .. L - k, NEW r \in 1 .. L - k, v[p] = i, v[r] = i
               PROVE  p = r
    BY <1>2 DEF Once
  <2>1. p + k \in DOMAIN u /\ r + k \in DOMAIN u /\ u[p + k] = i /\ u[r + k] = i
    BY <1>1, <1>2
  <2>2. p + k = r + k
    BY <2>1, <1>6 DEF Once
  <2>3. QED
    BY <2>2, <1>1
<1>7. QED
  BY <1>2, <1>4, <1>5, <1>6 DEF v, L

----------------------------------------------------------------------------
(* settle *)

\* settle re-derives the operations it is called for, and changes nothing else.
LEMMA SettleFacts ==
    ASSUME NEW s \in TabState, NEW os
    PROVE  LET n == Settle(s, os)
           IN  /\ n \in TabState
               /\ n.item = s.item /\ n.queue = s.queue /\ n.acc = s.acc /\ n.post = s.post
               /\ n.blocked = s.blocked /\ n.timer = s.timer
               /\ \A o \in Ops : n.op[o].listed = s.op[o].listed
               /\ \A o \in Ops \ os : n.op[o] = s.op[o]
<1> DEFINE states(o) == {s.item[i].st : i \in {k \in ItemsOf(o) : s.item[k].shown}}
           new(o) == Settled(s.op[o], states(o), "done" \in states(o), FALSE, FALSE)
           ops == [o \in Ops |-> IF o \in os THEN new(o) ELSE s.op[o]]
           n == Settle(s, os)
<1>1. n = [s EXCEPT !.op = ops]
  BY DEF Settle
<1>2. \A o \in Ops : s.op[o] \in OpRecord
  BY DEF TabState
<1>3. ASSUME NEW o \in Ops
      PROVE  new(o) \in OpRecord /\ new(o).listed = s.op[o].listed
  <2> DEFINE x == s.op[o]
             y == states(o)
             d == "done" \in y
  <2>1. x \in OpRecord
    BY <1>2
  <2> HIDE DEF x, y, d
  <2>2. /\ Settled(x, y, d, FALSE, FALSE) \in OpRecord
        /\ Settled(x, y, d, FALSE, FALSE).listed = x.listed
    BY <2>1, SettledFacts
  <2>3. QED
    BY <2>2 DEF x, y, d
<1> HIDE DEF new
<1>4. ops \in [Ops -> OpRecord] /\ \A o \in Ops : ops[o].listed = s.op[o].listed
  BY <1>2, <1>3
<1>5. \A o \in Ops \ os : ops[o] = s.op[o]
  OBVIOUS
<1> HIDE DEF ops, n
<1>6. /\ n \in TabState /\ n.op = ops
      /\ n.item = s.item /\ n.queue = s.queue /\ n.acc = s.acc /\ n.post = s.post
      /\ n.blocked = s.blocked /\ n.timer = s.timer
  BY <1>1, <1>4 DEF TabState
<1>7. QED
  BY <1>4, <1>5, <1>6 DEF n

\* The record changes in nothing an item's place depends on.
LEMMA SamePlaces ==
    ASSUME NEW s, NEW n, NEW ow, NEW tr, NEW rc, Placed(s, ow, tr, rc),
           n.item = s.item, n.queue = s.queue, n.acc = s.acc, n.post = s.post,
           \A i \in Items : n.op[OpOf[i]].listed = s.op[OpOf[i]].listed
    PROVE  Placed(n, ow, tr, rc)
<1> SUFFICES ASSUME NEW i \in Items \ rc
             PROVE  /\ Once(n.queue, i) /\ OneFlight(n.post, i)
                    /\ PlacedAt(n.item[i], n.op[OpOf[i]].listed = TRUE, In(n.queue, i), Flying(n.post, i),
                                i \in tr, Followed(n, ow, i))
  BY DEF Placed
<1>1. /\ Once(s.queue, i) /\ OneFlight(s.post, i)
      /\ PlacedAt(s.item[i], s.op[OpOf[i]].listed = TRUE, In(s.queue, i), Flying(s.post, i),
                  i \in tr, Followed(s, ow, i))
  BY DEF Placed
<1>2. Followed(n, ow, i) = Followed(s, ow, i)
  BY DEF Followed
<1>3. (n.op[OpOf[i]].listed = TRUE) = (s.op[OpOf[i]].listed = TRUE)
  OBVIOUS
<1>4. QED
  BY <1>1, <1>2, <1>3

LEMMA OpOfItem ==
    ASSUME NEW i \in Items
    PROVE  OpOf[i] \in Ops
OBVIOUS

LEMMA SettleSound ==
    ASSUME NEW s, NEW ow, NEW tr, NEW rc, Sound(s, ow, tr, rc), NEW os
    PROVE  Sound(Settle(s, os), ow, tr, rc)
<1> DEFINE n == Settle(s, os)
<1>1. s \in TabState
  BY DEF Sound
<1>2. /\ n \in TabState
      /\ n.item = s.item /\ n.queue = s.queue /\ n.acc = s.acc /\ n.post = s.post
      /\ \A o \in Ops : n.op[o].listed = s.op[o].listed
      /\ \A o \in Ops \ os : n.op[o] = s.op[o]
  BY <1>1, SettleFacts
<1>3. Phased(n)
  <2> SUFFICES ASSUME NEW o \in Ops, n.op[o].listed = TRUE, n.op[o].ended = FALSE
               PROVE  n.op[o].phase \in {"preparing", "running", "waiting"}
    BY DEF Phased
  <2>1. CASE o \notin os
    <3>1. n.op[o] = s.op[o]
      BY <2>1, <1>2
    <3>2. QED
      BY <3>1 DEF Sound, Phased
  <2>2. CASE o \in os
    <3> DEFINE y == {s.item[i].st : i \in {k \in ItemsOf(o) : s.item[k].shown}}
               d == "done" \in y
               x == s.op[o]
    <3>1. n.op[o] = Settled(x, y, d, FALSE, FALSE)
      BY <2>2, <1>1 DEF Settle, TabState
    <3>2. x \in OpRecord /\ x.listed = TRUE
      BY <1>1, <1>2 DEF TabState
    <3> HIDE DEF x, y, d, n
    <3>3. ~Settled(x, y, d, FALSE, FALSE).ended
      BY <3>1
    <3>4. QED
      BY <3>1, <3>2, <3>3, SettledPhase
  <2>3. QED
    BY <2>1, <2>2
<1> HIDE DEF n
<1>4. Placed(n, ow, tr, rc)
  <2>1. \A i \in Items : n.op[OpOf[i]].listed = s.op[OpOf[i]].listed
    BY <1>2, OpOfItem
  <2>2. Placed(s, ow, tr, rc)
    BY DEF Sound
  <2>3. QED
    BY <1>2, <2>1, <2>2, SamePlaces
<1>5. Numbered(n, ow)
  BY <1>2 DEF Sound, Numbered
<1>6. Told(n, rc)
  BY <1>2 DEF Sound, Told
<1>7. Sound(n, ow, tr, rc)
  BY <1>2, <1>3, <1>4, <1>5, <1>6 DEF Sound
<1>8. QED
  BY <1>7 DEF n

\* A handler that settles every operation whose rows it touched leaves none
\* shown as over that is not, unless it was over and now asks something.
LEMMA SettleOver ==
    ASSUME NEW s \in TabState, NEW os, NEW rc,
           \A i \in Items \ rc :
              /\ s.op[OpOf[i]].listed = TRUE /\ s.op[OpOf[i]].ended = TRUE /\ s.item[i].shown = TRUE =>
                    s.item[i].st # "needs-decision"
              /\ OpOf[i] \notin os => OverAt(s.op[OpOf[i]], s.item[i])
    PROVE  Over(Settle(s, os), rc)
<1> DEFINE n == Settle(s, os)
<1>1. /\ n.item = s.item /\ \A o \in Ops : n.op[o].listed = s.op[o].listed
      /\ \A o \in Ops \ os : n.op[o] = s.op[o]
  BY SettleFacts
<1> SUFFICES ASSUME NEW i \in Items \ rc
             PROVE  OverAt(n.op[OpOf[i]], n.item[i])
  BY DEF Over
<1> DEFINE o == OpOf[i]
<1>2. o \in Ops
  BY OpOfItem
<1>3. CASE o \notin os
  <2>1. n.op[o] = s.op[o] /\ n.item[i] = s.item[i]
    BY <1>1, <1>2, <1>3
  <2>2. QED
    BY <1>3, <2>1
<1>4. CASE o \in os
  <2> SUFFICES ASSUME n.op[o].listed = TRUE, n.op[o].ended = TRUE, n.item[i].shown = TRUE
               PROVE  n.item[i].st \notin Active \cup {"needs-decision"}
    BY DEF OverAt
  <2> DEFINE y == {s.item[k].st : k \in {m \in ItemsOf(o) : s.item[m].shown}}
             d == "done" \in y
             x == s.op[o]
  <2>1. n.op[o] = Settled(x, y, d, FALSE, FALSE)
    BY <1>2, <1>4 DEF Settle, TabState
  <2>2. x \in OpRecord /\ x.listed = TRUE
    BY <1>1, <1>2 DEF TabState
  <2>3. s.item[i].st \in y
    BY <1>1 DEF ItemsOf
  <2>4. /\ y \cap Active = {}
        /\ "needs-decision" \in y => x.ended
    <3> HIDE DEF x, y, d, n, o
    <3>1. Settled(x, y, d, FALSE, FALSE).ended
      BY <2>1
    <3>2. QED
      BY <2>2, <3>1, SettledEnded
  <2>5. n.item[i].st = s.item[i].st
    BY <1>1
  <2>6. s.item[i].st = "needs-decision" => x.ended = TRUE
    BY <2>2, <2>3, <2>4 DEF OpRecord
  <2>7. QED
    BY <1>1, <2>2, <2>3, <2>4, <2>5, <2>6
<1>5. QED
  BY <1>3, <1>4

\* What a handler that ends with settle has to show of the record before.
Unsettled(s, os, ow, tr, rc) ==
    /\ Sound(s, ow, tr, rc) /\ SlotsUsed(s) <= Parallel
    /\ \A i \in Items \ rc :
          /\ s.op[OpOf[i]].listed = TRUE /\ s.op[OpOf[i]].ended = TRUE /\ s.item[i].shown = TRUE =>
                s.item[i].st # "needs-decision"
          /\ OpOf[i] \notin os => OverAt(s.op[OpOf[i]], s.item[i])

LEMMA SettleGood ==
    ASSUME NEW s, NEW os, NEW ow, NEW tr, NEW rc, Unsettled(s, os, ow, tr, rc)
    PROVE  Good(Settle(s, os), ow, tr, rc)
<1> DEFINE n == Settle(s, os)
<1>1. s \in TabState
  BY DEF Unsettled, Sound
<1>2. Sound(n, ow, tr, rc)
  BY SettleSound DEF Unsettled
<1>3. Over(n, rc)
  BY <1>1, SettleOver DEF Unsettled
<1>4. n.acc = s.acc /\ n.post = s.post
  BY <1>1, SettleFacts
<1> HIDE DEF n
<1>5. SlotsUsed(n) <= Parallel
  BY <1>4 DEF Unsettled, SlotsUsed
<1>6. Good(n, ow, tr, rc)
  BY <1>2, <1>3, <1>5 DEF Good
<1>7. QED
  BY <1>6 DEF n

----------------------------------------------------------------------------
(* pump *)

Goes(s, k, i) == \E p \in Sends(s, k) : s.queue[p] = i

LEMMA SendsFacts ==
    ASSUME NEW s \in TabState, NEW k, NEW p \in Sends(s, k)
    PROVE  /\ p \in DOMAIN s.queue /\ p <= k /\ s.queue[p] \in Items
           /\ s.item[s.queue[p]].st \in {"queued", "submitting"}
           /\ s.op[OpOf[s.queue[p]]].listed = TRUE
<1>1. p \in DOMAIN s.queue /\ p <= k /\ s.item[s.queue[p]].st \in {"queued", "submitting"}
      /\ s.op[OpOf[s.queue[p]]].listed
  BY DEF Sends, Sendable
<1>2. s.queue \in Seq(Items)
  BY DEF TabState
<1>3. s.queue[p] \in Items
  BY <1>1, <1>2
<1>4. s.op[OpOf[s.queue[p]]] \in OpRecord
  BY <1>3, OpOfItem DEF TabState
<1>5. QED
  BY <1>1, <1>3, <1>4 DEF OpRecord

\* Every POST has a number of its own.
LEMMA NumbersFacts ==
    ASSUME NEW s \in TabState, NEW k, NEW f \in Numbers(s, k)
    PROVE  /\ f \in [Sends(s, k) -> Unused(s)]
           /\ \A p, r \in Sends(s, k) : f[p] = f[r] => p = r
<1>1. f \in [Sends(s, k) -> Unused(s)] /\ \A p, r \in Sends(s, k) : p < r => f[p] < f[r]
  BY DEF Numbers
<1>2. \A p \in Sends(s, k) : p \in Int
  <2>1. DOMAIN s.queue = 1 .. Len(s.queue)
    BY DEF TabState
  <2>2. QED
    BY <2>1 DEF Sends, Sendable
<1>3. \A p \in Sends(s, k) : f[p] \in Int
  <2>1. \A j \in Unused(s) : j \in Int
    BY DEF Unused, Jobs
  <2>2. QED
    BY <1>1, <2>1
<1>4. ASSUME NEW p \in Sends(s, k), NEW r \in Sends(s, k), f[p] = f[r]
      PROVE  p = r
  BY <1>1, <1>2, <1>3, <1>4
<1>5. QED
  BY <1>1, <1>4

LEMMA SentFacts ==
    ASSUME NEW s \in TabState, NEW k \in 0 .. Len(s.queue), NEW f \in Numbers(s, k)
    PROVE  LET n == Sent(s, k, f)
           IN  /\ n \in TabState /\ n.op = s.op /\ n.acc = s.acc
               /\ n.blocked = s.blocked /\ n.timer = s.timer
               /\ n.queue = SubSeq(s.queue, k + 1, Len(s.queue))
               /\ \A i \in Items : n.item[i] = IF Goes(s, k, i) THEN [s.item[i] EXCEPT !.st = "submitting"]
                                               ELSE s.item[i]
               /\ \A p \in Sends(s, k) : n.post[f[p]] = [item |-> s.queue[p], live |-> TRUE, at |-> "sent"]
               /\ \A j \in Jobs : (\A p \in Sends(s, k) : f[p] # j) => n.post[j] = s.post[j]
<1> DEFINE n == Sent(s, k, f)
           S == Sends(s, k)
           who(j) == {p \in S : f[p] = j}
           it == [i \in Items |-> IF Goes(s, k, i) THEN [s.item[i] EXCEPT !.st = "submitting"] ELSE s.item[i]]
           ps == [j \in Jobs |-> IF who(j) = {} THEN s.post[j]
                                 ELSE [item |-> s.queue[CHOOSE p \in who(j) : TRUE], live |-> TRUE, at |-> "sent"]]
           rs == SubSeq(s.queue, k + 1, Len(s.queue))
<1>1. n = [s EXCEPT !.queue = rs, !.item = it, !.post = ps]
  BY DEF Sent, TabState, Goes
<1>2. rs \in Seq(Items)
  <2>1. s.queue \in Seq(Items)
    BY DEF TabState
  <2>2. QED
    BY <2>1
<1>3. it \in [Items -> ItemRecord]
  <2>1. \A i \in Items : s.item[i] \in ItemRecord
    BY DEF TabState
  <2>2. \A i \in Items : [s.item[i] EXCEPT !.st = "submitting"] \in ItemRecord
    BY <2>1 DEF ItemRecord, ItemState, Active
  <2>3. QED
    BY <2>1, <2>2
<1>4. ASSUME NEW j \in Jobs
      PROVE  /\ ps[j] \in Post
             /\ \A p \in S : f[p] = j => ps[j] = [item |-> s.queue[p], live |-> TRUE, at |-> "sent"]
             /\ (\A p \in S : f[p] # j) => ps[j] = s.post[j]
  <2>1. CASE who(j) = {}
    <3>1. ps[j] = s.post[j]
      BY <2>1
    <3>2. s.post[j] \in Post
      BY DEF TabState
    <3>3. \A p \in S : f[p] # j
      BY <2>1
    <3>4. QED
      BY <3>1, <3>2, <3>3
  <2>2. CASE who(j) # {}
    <3> DEFINE c == CHOOSE p \in who(j) : TRUE
    <3>1. c \in who(j)
      BY <2>2
    <3>2. ps[j] = [item |-> s.queue[c], live |-> TRUE, at |-> "sent"]
      BY <2>2
    <3> HIDE DEF c, ps
    <3>3. c \in S /\ f[c] = j
      BY <3>1
    <3>4. s.queue[c] \in Items
      BY <3>3, SendsFacts
    <3>5. \A p \in S : f[p] = j => p = c
      BY <3>3, NumbersFacts
    <3>6. ps[j] \in Post
      BY <3>2, <3>4 DEF Post
    <3>7. QED
      BY <3>2, <3>3, <3>5, <3>6
  <2>3. QED
    BY <2>1, <2>2
<1>5. ps \in [Jobs -> Post]
  <2>1. \A j \in Jobs : ps[j] \in Post
    BY <1>4
  <2> HIDE DEF who
  <2>2. QED
    BY <2>1
<1>6. \A p \in S : f[p] \in Jobs
  BY NumbersFacts DEF Unused
<1>7. \A i \in Items : it[i] = IF Goes(s, k, i) THEN [s.item[i] EXCEPT !.st = "submitting"] ELSE s.item[i]
  OBVIOUS
<1> HIDE DEF rs, it, ps
<1>8. /\ n \in TabState /\ n.op = s.op /\ n.acc = s.acc /\ n.blocked = s.blocked /\ n.timer = s.timer
      /\ n.queue = rs /\ n.item = it /\ n.post = ps
  BY <1>1, <1>2, <1>3, <1>5 DEF TabState
<1> HIDE DEF n
<1>9. \A p \in S : n.post[f[p]] = [item |-> s.queue[p], live |-> TRUE, at |-> "sent"]
  BY <1>4, <1>6, <1>8
<1>10. \A j \in Jobs : (\A p \in S : f[p] # j) => n.post[j] = s.post[j]
  BY <1>4, <1>8
<1>11. QED
  BY <1>7, <1>8, <1>9, <1>10 DEF n, rs

\* The POSTs on their way after pump: those before, and one for each entry sent.
LEMMA SentFlights ==
    ASSUME NEW s \in TabState, NEW k \in 0 .. Len(s.queue), NEW f \in Numbers(s, k)
    PROVE  LET im == {f[p] : p \in Sends(s, k)}
           IN  /\ InFlight(Sent(s, k, f).post) = InFlight(s.post) \cup im
               /\ InFlight(s.post) \cap im = {}
<1> DEFINE n == Sent(s, k, f)
           im == {f[p] : p \in Sends(s, k)}
<1>1. /\ \A p \in Sends(s, k) : n.post[f[p]] = [item |-> s.queue[p], live |-> TRUE, at |-> "sent"]
      /\ \A j \in Jobs : (\A p \in Sends(s, k) : f[p] # j) => n.post[j] = s.post[j]
  BY SentFacts
<1>2. \A p \in Sends(s, k) : f[p] \in Jobs /\ s.post[f[p]].at = "free"
  BY NumbersFacts DEF Unused
<1> HIDE DEF n
<1>3. ASSUME NEW j \in im
      PROVE  j \in Jobs /\ n.post[j].at = "sent" /\ n.post[j].live = TRUE /\ s.post[j].at = "free"
  <2>1. PICK p \in Sends(s, k) : j = f[p]
    OBVIOUS
  <2>2. n.post[j] = [item |-> s.queue[p], live |-> TRUE, at |-> "sent"]
    BY <1>1, <2>1
  <2>3. QED
    BY <1>2, <2>1, <2>2
<1>4. \A j \in Jobs \ im : n.post[j] = s.post[j]
  BY <1>1
<1> HIDE DEF im
<1>5. InFlight(n.post) = InFlight(s.post) \cup im /\ InFlight(s.post) \cap im = {}
  BY <1>3, <1>4 DEF InFlight
<1>6. QED
  BY <1>5 DEF im, n

\* pump keeps what a handler keeps, after however many turns.
LEMMA SentSound ==
    ASSUME NEW s, NEW ow, NEW tr, NEW rc, Sound(s, ow, tr, rc), Over(s, rc),
           NEW k \in 0 .. Len(s.queue), NEW f \in Numbers(s, k)
    PROVE  Sound(Sent(s, k, f), ow, tr, rc) /\ Over(Sent(s, k, f), rc)
<1> DEFINE n == Sent(s, k, f)
           S == Sends(s, k)
<1>1. s \in TabState
  BY DEF Sound
<1>2. /\ n \in TabState /\ n.op = s.op /\ n.acc = s.acc
      /\ n.queue = SubSeq(s.queue, k + 1, Len(s.queue))
      /\ \A i \in Items : n.item[i] = IF Goes(s, k, i) THEN [s.item[i] EXCEPT !.st = "submitting"]
                                      ELSE s.item[i]
      /\ \A p \in S : n.post[f[p]] = [item |-> s.queue[p], live |-> TRUE, at |-> "sent"]
      /\ \A j \in Jobs : (\A p \in S : f[p] # j) => n.post[j] = s.post[j]
  BY <1>1, SentFacts
<1>3. \A p \in S : f[p] \in Jobs /\ s.post[f[p]].at = "free" /\ row[f[p]] = "none"
  BY <1>1, NumbersFacts DEF Unused
<1>4. \A p \in S : /\ p \in DOMAIN s.queue /\ p <= k /\ s.queue[p] \in Items
                   /\ s.item[s.queue[p]].st \in {"queued", "submitting"}
                   /\ s.op[OpOf[s.queue[p]]].listed = TRUE
  BY <1>1, SendsFacts
<1>5. InFlight(n.post) = InFlight(s.post) \cup {f[p] : p \in S}
  BY <1>1, SentFlights
<1>6. \A i \in Items : s.item[i] \in ItemRecord
  BY <1>1 DEF TabState
<1>7. s.queue \in Seq(Items)
  BY <1>1 DEF TabState
<1>8. \A j \in InFlight(s.post) : \A p \in S : f[p] # j
  BY <1>3 DEF InFlight
<1> HIDE DEF n
<1>9. Numbered(n, ow)
  <2> SUFFICES ASSUME NEW j \in Jobs
               PROVE  NumberAt(row[j], n.post[j], j \in n.acc, ow[j])
    BY DEF Numbered
  <2>1. NumberAt(row[j], s.post[j], j \in s.acc, ow[j])
    BY DEF Sound, Numbered
  <2>2. CASE \A p \in S : f[p] # j
    BY <2>1, <2>2, <1>2
  <2>3. CASE \E p \in S : f[p] = j
    <3>1. PICK p \in S : f[p] = j
      BY <2>3
    <3>2. n.post[j] = [item |-> s.queue[p], live |-> TRUE, at |-> "sent"] /\ row[j] = "none"
          /\ s.queue[p] \in Items
      BY <3>1, <1>2, <1>3, <1>4
    <3>3. j \notin n.acc
      BY <2>1, <3>2, <1>2 DEF NumberAt
    <3>4. QED
      BY <3>2, <3>3 DEF NumberAt
  <2>4. QED
    BY <2>2, <2>3
<1>10. ASSUME NEW i \in Items \ rc
       PROVE  /\ Once(n.queue, i) /\ OneFlight(n.post, i)
              /\ PlacedAt(n.item[i], n.op[OpOf[i]].listed = TRUE, In(n.queue, i), Flying(n.post, i),
                          i \in tr, Followed(n, ow, i))
              /\ ToldAt(n.item[i], row) /\ OverAt(n.op[OpOf[i]], n.item[i])
  <2> DEFINE A == Followed(s, ow, i)
             l == s.op[OpOf[i]].listed = TRUE
             r == s.item[i]
  <2>1. /\ Once(s.queue, i) /\ OneFlight(s.post, i)
        /\ PlacedAt(r, l, In(s.queue, i), Flying(s.post, i), i \in tr, A)
        /\ ToldAt(r, row) /\ OverAt(s.op[OpOf[i]], r)
    BY DEF Sound, Placed, Told, Over
  <2>2. Followed(n, ow, i) = A
    BY <1>2 DEF Followed
  <2>3. Once(n.queue, i) /\ (In(n.queue, i) <=> \E p \in DOMAIN s.queue : p > k /\ s.queue[p] = i)
    BY <1>2, <1>7, <2>1, RestFacts
  <2>4. CASE Goes(s, k, i)
    <3>1. PICK p \in S : s.queue[p] = i
      BY <2>4 DEF Goes
    <3>2. p \in DOMAIN s.queue /\ p <= k /\ r.st \in {"queued", "submitting"} /\ l
      BY <3>1, <1>4
    <3>3. In(s.queue, i)
      BY <3>1, <3>2 DEF In
    <3>4. ~Flying(s.post, i) /\ i \notin tr /\ r.job = NoJob /\ A = {}
      BY <3>2, <3>3, <2>1 DEF PlacedAt
    <3>5. ~In(n.queue, i)
      <4> SUFFICES ASSUME NEW m \in DOMAIN s.queue, m > k, s.queue[m] = i
                   PROVE  FALSE
        BY <2>3
      <4>1. m = p
        BY <3>1, <3>2, <2>1 DEF Once
      <4>2. QED
        BY <4>1, <3>2, <1>7
    <3>6. n.item[i] = [r EXCEPT !.st = "submitting"] /\ r \in ItemRecord
      BY <2>4, <1>2, <1>6
    <3>7. n.item[i].st = "submitting" /\ n.item[i].job = NoJob /\ n.item[i].shown = r.shown
      BY <3>4, <3>6 DEF ItemRecord
    <3>8. Flying(n.post, i)
      <4>1. f[p] \in InFlight(n.post)
        BY <1>5
      <4>2. n.post[f[p]] = [item |-> s.queue[p], live |-> TRUE, at |-> "sent"]
        BY <1>2
      <4>3. n.post[f[p]].item = i
        BY <4>2, <3>1
      <4>4. QED
        BY <4>1, <4>3 DEF Flying
    <3>9. \A j \in InFlight(n.post) : n.post[j].item = i => j = f[p]
      <4> SUFFICES ASSUME NEW j \in InFlight(n.post), n.post[j].item = i
                   PROVE  j = f[p]
        OBVIOUS
      <4>1. CASE j \in InFlight(s.post)
        <5>1. n.post[j] = s.post[j]
          BY <4>1, <1>2, <1>8 DEF InFlight
        <5>2. QED
          BY <5>1, <4>1, <3>4 DEF Flying
      <4>2. CASE \E m \in S : j = f[m]
        <5>1. PICK m \in S : j = f[m]
          BY <4>2
        <5>2. n.post[j] = [item |-> s.queue[m], live |-> TRUE, at |-> "sent"]
          BY <5>1, <1>2
        <5>3. s.queue[m] = i /\ m \in DOMAIN s.queue
          BY <5>1, <5>2, <1>4
        <5>4. m = p
          BY <5>3, <3>1, <3>2, <2>1 DEF Once
        <5>5. QED
          BY <5>1, <5>4
      <4>3. QED
        BY <4>1, <4>2, <1>5
    <3>10. OneFlight(n.post, i)
      BY <3>9 DEF OneFlight
    <3>11. PlacedAt(n.item[i], l, In(n.queue, i), Flying(n.post, i), i \in tr, A)
      BY <2>1, <3>2, <3>4, <3>5, <3>7, <3>8 DEF PlacedAt
    <3>12. ToldAt(n.item[i], row)
      BY <3>7 DEF ToldAt
    <3>13. OverAt(n.op[OpOf[i]], n.item[i])
      BY <3>2, <3>7, <2>1, <1>2 DEF OverAt, Active
    <3>14. QED
      BY <2>2, <2>3, <3>10, <3>11, <3>12, <3>13, <1>2
  <2>5. CASE ~Goes(s, k, i)
    <3>1. n.item[i] = r
      BY <2>5, <1>2
    <3>2. \A p \in S : s.queue[p] # i
      BY <2>5 DEF Goes
    <3>3. \A j \in InFlight(n.post) : n.post[j].item = i => j \in InFlight(s.post)
      <4> SUFFICES ASSUME NEW j \in InFlight(n.post), n.post[j].item = i, NEW m \in S, j = f[m]
                   PROVE  FALSE
        BY <1>5
      <4>0. n.post[j] = [item |-> s.queue[m], live |-> TRUE, at |-> "sent"]
        BY <1>2
      <4>1. n.post[j].item = s.queue[m]
        BY <4>0
      <4>2. QED
        BY <4>1, <3>2
    <3>4. \A j \in InFlight(s.post) : j \in InFlight(n.post) /\ n.post[j] = s.post[j]
      BY <1>2, <1>5, <1>8 DEF InFlight
    <3>5. (Flying(n.post, i) <=> Flying(s.post, i)) /\ OneFlight(n.post, i)
      BY <3>3, <3>4, <2>1 DEF Flying, OneFlight
    <3>6. In(n.queue, i) => In(s.queue, i)
      BY <2>3 DEF In
    <3>7. In(s.queue, i) /\ ~In(n.queue, i) => r.st \notin {"queued", "submitting"} \/ ~l
      <4> SUFFICES ASSUME NEW p \in DOMAIN s.queue, s.queue[p] = i, ~In(n.queue, i),
                          r.st \in {"queued", "submitting"}, l
                   PROVE  FALSE
        BY DEF In
      <4>1. p <= k
        BY <2>3, <1>7
      <4>2. p \in S
        BY <4>1 DEF Sends, Sendable
      <4>3. QED
        BY <4>2, <3>2
    <3>8. PlacedAt(r, l, In(n.queue, i), Flying(n.post, i), i \in tr, A)
      BY <3>5, <3>6, <3>7, <2>1 DEF PlacedAt
    <3>9. QED
      BY <2>1, <2>2, <2>3, <3>1, <3>5, <3>8, <1>2
  <2>6. QED
    BY <2>4, <2>5
<1>11. Placed(n, ow, tr, rc) /\ Told(n, rc) /\ Over(n, rc)
  BY <1>10 DEF Placed, Told, Over
<1>12. Phased(n)
  BY <1>2 DEF Sound, Phased
<1>13. QED
  BY <1>2, <1>9, <1>11, <1>12 DEF Sound, n

LEMMA JobsFinite ==
    ASSUME NEW S \in SUBSET Jobs
    PROVE  IsFiniteSet(S) /\ Cardinality(S) \in Nat
<1>1. IsFiniteSet(Jobs)
  <2>1. 1 \in Int /\ NItems + MaxRetries \in Int
    OBVIOUS
  <2>2. QED
    BY <2>1, FS_Interval DEF Jobs
<1>2. IsFiniteSet(S)
  BY <1>1, FS_Subset
<1>3. QED
  BY <1>2, FS_CardinalityType

LEMMA SlotsNat ==
    ASSUME NEW s \in TabState
    PROVE  /\ Cardinality(s.acc) \in Nat /\ Cardinality(InFlight(s.post)) \in Nat
           /\ SlotsUsed(s) \in Nat
<1>1. s.acc \in SUBSET Jobs /\ InFlight(s.post) \in SUBSET Jobs
  BY DEF TabState, InFlight
<1>2. QED
  BY <1>1, JobsFinite DEF SlotsUsed

\* The entries k turns send: finitely many, and at most one more per turn.
LEMMA SendsCount ==
    ASSUME NEW s, s.queue \in Seq(Items), NEW k \in 0 .. Len(s.queue)
    PROVE  /\ IsFiniteSet(Sends(s, k)) /\ Cardinality(Sends(s, k)) \in Nat
           /\ k = 0 => Cardinality(Sends(s, k)) = 0
           /\ k > 0 => Cardinality(Sends(s, k)) <= Cardinality(Sends(s, k - 1)) + 1
<1>1. Sends(s, k) \in SUBSET (1 .. Len(s.queue)) /\ Sends(s, k - 1) \in SUBSET (1 .. Len(s.queue))
  BY DEF Sends, Sendable
<1>2. IsFiniteSet(1 .. Len(s.queue))
  <2>1. 1 \in Int /\ Len(s.queue) \in Int
    OBVIOUS
  <2>2. QED
    BY <2>1, FS_Interval
<1>3. IsFiniteSet(Sends(s, k)) /\ IsFiniteSet(Sends(s, k - 1))
  BY <1>1, <1>2, FS_Subset
<1>4. Cardinality(Sends(s, k)) \in Nat /\ Cardinality(Sends(s, k - 1)) \in Nat
  BY <1>3, FS_CardinalityType
<1>5. k = 0 => Sends(s, k) = {}
  BY <1>1 DEF Sends
<1>6. k = 0 => Cardinality(Sends(s, k)) = 0
  BY <1>5, FS_EmptySet
<1>7. Sends(s, k) \in SUBSET (Sends(s, k - 1) \cup {k})
  BY <1>1 DEF Sends
<1>8. /\ IsFiniteSet(Sends(s, k - 1) \cup {k})
      /\ Cardinality(Sends(s, k - 1) \cup {k}) <= Cardinality(Sends(s, k - 1)) + 1
  <2> DEFINE T == Sends(s, k - 1)
  <2> HIDE DEF T
  <2>1. IsFiniteSet(T) /\ Cardinality(T) \in Nat
    BY <1>3, <1>4 DEF T
  <2>2. /\ IsFiniteSet(T \cup {k})
        /\ Cardinality(T \cup {k}) = IF k \in T THEN Cardinality(T) ELSE Cardinality(T) + 1
    BY <2>1, FS_AddElement
  <2>3. QED
    BY <2>1, <2>2 DEF T
<1>9. Cardinality(Sends(s, k)) <= Cardinality(Sends(s, k - 1) \cup {k})
  BY <1>7, <1>8, FS_Subset
<1>10. Cardinality(Sends(s, k - 1) \cup {k}) \in Nat
  BY <1>8, FS_CardinalityType
<1>11. QED
  BY <1>3, <1>4, <1>6, <1>8, <1>9, <1>10

\* pump uses up the slots or the queue, and no more slots than there are.
LEMMA PumpFills ==
    ASSUME NEW s \in TabState, SlotsUsed(s) <= Parallel,
           NEW k \in 0 .. Len(s.queue), Shifts(s, k), NEW f \in Numbers(s, k)
    PROVE  LET n == Sent(s, k, f)
           IN  SlotsUsed(n) <= Parallel /\ (n.queue = << >> \/ SlotsUsed(n) >= Parallel)
<1> DEFINE n == Sent(s, k, f)
           S == Sends(s, k)
           im == {f[p] : p \in S}
           F == InFlight(s.post)
           c == Cardinality(S)
           room == Parallel - SlotsUsed(s)
<1>1. n.acc = s.acc /\ n.queue = SubSeq(s.queue, k + 1, Len(s.queue))
  BY SentFacts
<1>2. InFlight(n.post) = F \cup im /\ F \cap im = {}
  BY SentFlights
<1>3. s.queue \in Seq(Items) /\ Len(s.queue) \in Nat
  BY DEF TabState
<1>4. /\ IsFiniteSet(S) /\ c \in Nat /\ (k = 0 => c = 0)
      /\ k > 0 => c <= Cardinality(Sends(s, k - 1)) + 1
  BY <1>3, SendsCount
<1>5. IsFiniteSet(im) /\ Cardinality(im) = c
  <2> DEFINE g == [p \in S |-> f[p]]
  <2>1. \A p, r \in S : f[p] = f[r] => p = r
    BY NumbersFacts
  <2>2. g \in Surjection(S, im)
    BY DEF Surjection
  <2>3. g \in Injection(S, im)
    BY <2>1, <2>2 DEF Surjection, Injection, IsInjective
  <2>4. QED
    BY <1>4, <2>2, <2>3, FS_Surjection
<1>6. IsFiniteSet(F) /\ Cardinality(F) \in Nat /\ Cardinality(s.acc) \in Nat /\ SlotsUsed(s) \in Nat
  <2>1. F \in SUBSET Jobs
    BY DEF InFlight
  <2>2. QED
    BY <2>1, JobsFinite, SlotsNat
<1>7. Cardinality(F \cup im) = Cardinality(F) + c
  <2> HIDE DEF F, im, c
  <2>1. Cardinality(F \cap im) = 0
    BY <1>2, FS_EmptySet
  <2>2. Cardinality(F \cup im) = Cardinality(F) + Cardinality(im) - Cardinality(F \cap im)
    BY <1>5, <1>6, FS_Union
  <2>3. QED
    BY <2>1, <2>2, <1>4, <1>5, <1>6
<1>8. SlotsUsed(n) = SlotsUsed(s) + c
  <2> HIDE DEF c, n, im
  <2>1. QED
    BY <1>1, <1>2, <1>4, <1>6, <1>7 DEF SlotsUsed
<1>9. c <= room
  <2>1. CASE k = 0
    BY <2>1, <1>4, <1>6
  <2>2. CASE k > 0
    <3>1. k - 1 \in 0 .. k - 1 /\ k - 1 \in 0 .. Len(s.queue)
      BY <2>2, <1>3
    <3>2. Cardinality(Sends(s, k - 1)) < room
      BY <3>1 DEF Shifts
    <3>3. Cardinality(Sends(s, k - 1)) \in Nat
      BY <3>1, <1>3, SendsCount
    <3>4. QED
      BY <2>2, <3>2, <3>3, <1>4, <1>6
  <2>3. QED
    BY <2>1, <2>2, <1>3
<1>10. k = Len(s.queue) \/ c >= room
  BY DEF Shifts
<1>11. k = Len(s.queue) => n.queue = << >>
  <2> HIDE DEF n
  <2>1. QED
    BY <1>1, <1>3
<1>12. QED
  <2> HIDE DEF n, c
  <2>1. SlotsUsed(n) <= Parallel
    BY <1>4, <1>6, <1>8, <1>9
  <2>2. c >= room => SlotsUsed(n) >= Parallel
    BY <1>4, <1>6, <1>8
  <2>3. QED
    BY <2>1, <2>2, <1>10, <1>11 DEF n

----------------------------------------------------------------------------
(* How a handler ends *)

LEMMA KeepIs ==
    ASSUME NEW s \in TabState, Keep(s)
    PROVE  Now' = s
<1>1. /\ op' = s.op /\ accepted' = s.acc /\ blocked' = s.blocked /\ timer' = s.timer
      /\ item' = s.item /\ queue' = s.queue /\ post' = s.post
  BY DEF Keep
<1>2. s = [item |-> s.item, op |-> s.op, queue |-> s.queue, acc |-> s.acc, post |-> s.post,
           blocked |-> s.blocked, timer |-> s.timer]
  BY DEF TabState
<1>3. QED
  BY <1>1, <1>2 DEF Now

LEMMA GoodNow ==
    ASSUME NEW s, Good(s, owner', trashing', raced'), Now' = s, row' = row
    PROVE  Good(Now, owner, trashing, raced)'
BY DEF Good, Sound, Numbered, Told

\* What both ends of a handler give, for the record s it ends with.
Lands(s) ==
    /\ Good(Now, owner, trashing, raced)' /\ (raced' = {} => Busy(Now)')
    /\ accepted' = s.acc
    /\ \A j \in Jobs : s.post[j].at # "free" => post'[j] = s.post[j]

LEMMA KeepLands ==
    ASSUME NEW s, Good(s, owner', trashing', raced'), Keep(s), row' = row, raced' = {} => Busy(s)
    PROVE  Lands(s)
<1>1. s \in TabState
  BY DEF Good, Sound
<1>2. Now' = s
  BY <1>1, KeepIs
<1>3. Good(Now, owner, trashing, raced)'
  BY <1>2, GoodNow
<1>4. Busy(s) => Busy(Now)'
  BY <1>2 DEF Busy
<1>5. accepted' = s.acc /\ post' = s.post
  BY DEF Keep
<1>6. QED
  BY <1>3, <1>4, <1>5 DEF Lands

LEMMA PumpLands ==
    ASSUME NEW s, Good(s, owner', trashing', raced'), Pump(s), row' = row
    PROVE  Lands(s)
<1>1. s \in TabState /\ s.blocked \in BOOLEAN
  BY DEF Good, Sound, TabState
<1>2. CASE s.blocked
  <2> DEFINE n == [s EXCEPT !.timer = TRUE]
  <2>1. Keep(n)
    BY <1>2 DEF Pump
  <2>2. /\ n \in TabState /\ n.item = s.item /\ n.op = s.op /\ n.queue = s.queue /\ n.acc = s.acc
        /\ n.post = s.post /\ n.blocked = s.blocked /\ n.timer = TRUE
    BY <1>1 DEF TabState
  <2> HIDE DEF n
  <2>3. Sound(n, owner', trashing', raced')
    <3>1. Placed(n, owner', trashing', raced')
      BY <2>2, SamePlaces DEF Good, Sound
    <3>2. Numbered(n, owner') /\ Told(n, raced') /\ Phased(n)
      BY <2>2 DEF Good, Sound, Numbered, Told, Phased
    <3>3. QED
      BY <2>2, <3>1, <3>2 DEF Sound
  <2>4. Over(n, raced') /\ SlotsUsed(n) <= Parallel
    BY <2>2 DEF Good, Over, SlotsUsed
  <2>5. Busy(n)
    BY <1>1, <1>2, <2>2 DEF Busy
  <2>6. Lands(n)
    BY <2>1, <2>3, <2>4, <2>5, KeepLands DEF Good
  <2>7. QED
    BY <2>2, <2>6 DEF Lands
<1>3. CASE ~s.blocked
  <2>1. PICK k \in 0 .. Len(s.queue) : Shifts(s, k) /\ \E f \in Numbers(s, k) : Keep(Sent(s, k, f))
    BY <1>3 DEF Pump
  <2>2. PICK f \in Numbers(s, k) : Keep(Sent(s, k, f))
    BY <2>1
  <2> DEFINE n == Sent(s, k, f)
  <2>3. /\ n \in TabState /\ n.acc = s.acc /\ n.blocked = s.blocked
        /\ \A j \in Jobs : (\A p \in Sends(s, k) : f[p] # j) => n.post[j] = s.post[j]
    BY <1>1, SentFacts
  <2>4. Sound(n, owner', trashing', raced') /\ Over(n, raced')
    BY SentSound DEF Good
  <2>5. SlotsUsed(n) <= Parallel /\ (n.queue = << >> \/ SlotsUsed(n) >= Parallel)
    BY <1>1, <2>1, PumpFills DEF Good
  <2>6. \A p \in Sends(s, k) : s.post[f[p]].at = "free"
    BY <1>1, NumbersFacts DEF Unused
  <2> HIDE DEF n
  <2>7. Busy(n)
    BY <1>1, <1>3, <2>3, <2>5 DEF Busy
  <2>8. Lands(n)
    BY <2>2, <2>4, <2>5, <2>7, KeepLands DEF Good, n
  <2>9. \A j \in Jobs : s.post[j].at # "free" => n.post[j] = s.post[j]
    BY <2>3, <2>6
  <2>10. QED
    BY <2>3, <2>8, <2>9 DEF Lands
<1>4. QED
  BY <1>2, <1>3

\* An item that a handler leaves where it was.
Stays(s, n, ow, ow2, tr, tr2, i) ==
    /\ n.item[i] = s.item[i] /\ (n.op[OpOf[i]].listed = TRUE <=> s.op[OpOf[i]].listed = TRUE)
    /\ Once(s.queue, i) => Once(n.queue, i)
    /\ In(n.queue, i) <=> In(s.queue, i)
    /\ OneFlight(s.post, i) => OneFlight(n.post, i)
    /\ Flying(n.post, i) <=> Flying(s.post, i)
    /\ i \in tr2 <=> i \in tr
    /\ Followed(n, ow2, i) = Followed(s, ow, i)

\* An item whose new place is right.
Fits(n, ow, tr, i) ==
    /\ Once(n.queue, i) /\ OneFlight(n.post, i)
    /\ PlacedAt(n.item[i], n.op[OpOf[i]].listed = TRUE, In(n.queue, i), Flying(n.post, i), i \in tr,
                Followed(n, ow, i))
    /\ ToldAt(n.item[i], row)

LEMMA SoundFits ==
    ASSUME NEW s, NEW ow, NEW tr, NEW rc, Sound(s, ow, tr, rc), NEW i \in Items \ rc
    PROVE  Fits(s, ow, tr, i)
BY DEF Sound, Placed, Told, Fits

LEMMA StaysFits ==
    ASSUME NEW s, NEW n, NEW ow, NEW ow2, NEW tr, NEW tr2, NEW i, Fits(s, ow, tr, i),
           Stays(s, n, ow, ow2, tr, tr2, i)
    PROVE  Fits(n, ow2, tr2, i)
<1>1. /\ Once(s.queue, i) /\ OneFlight(s.post, i) /\ ToldAt(s.item[i], row)
      /\ PlacedAt(s.item[i], s.op[OpOf[i]].listed = TRUE, In(s.queue, i), Flying(s.post, i), i \in tr,
                  Followed(s, ow, i))
  BY DEF Fits
<1>2. /\ n.item[i] = s.item[i] /\ (n.op[OpOf[i]].listed = TRUE <=> s.op[OpOf[i]].listed = TRUE)
      /\ Once(s.queue, i) => Once(n.queue, i)
      /\ In(n.queue, i) <=> In(s.queue, i)
      /\ OneFlight(s.post, i) => OneFlight(n.post, i)
      /\ Flying(n.post, i) <=> Flying(s.post, i)
      /\ i \in tr2 <=> i \in tr
      /\ Followed(n, ow2, i) = Followed(s, ow, i)
  BY DEF Stays
<1>3. PlacedAt(n.item[i], n.op[OpOf[i]].listed = TRUE, In(n.queue, i), Flying(n.post, i), i \in tr2,
               Followed(n, ow2, i))
  BY <1>1, <1>2 DEF PlacedAt
<1>4. QED
  BY <1>1, <1>2, <1>3 DEF Fits

\* What a handler has to show of the record it passes on.
LEMMA HandlerSound ==
    ASSUME NEW s, NEW ow, NEW tr, NEW rc, Sound(s, ow, tr, rc),
           NEW n \in TabState, NEW ow2, NEW tr2, NEW rc2, rc \subseteq rc2,
           Numbered(n, ow2), Phased(n),
           \A i \in Items \ rc2 : Stays(s, n, ow, ow2, tr, tr2, i) \/ Fits(n, ow2, tr2, i)
    PROVE  Sound(n, ow2, tr2, rc2)
<1>1. ASSUME NEW i \in Items \ rc2
      PROVE  Fits(n, ow2, tr2, i)
  <2>1. Fits(s, ow, tr, i)
    BY SoundFits
  <2>2. QED
    BY <2>1, StaysFits
<1>2. Placed(n, ow2, tr2, rc2) /\ Told(n, rc2)
  BY <1>1 DEF Placed, Told, Fits
<1>3. QED
  BY <1>2 DEF Sound

\* Only the tab's record changes, and the jobs it follows do not.
LEMMA QuietInv ==
    ASSUME Inv, NEW s, Lands(s), s.acc = accepted,
           \A j \in Jobs : post[j].at = "accepted" => s.post[j].at = "accepted",
           UNCHANGED <<lunad, owner, stored, armed, poll, adrift>>,
           trashing' \subseteq Items, raced \subseteq raced', raced' \subseteq Items,
           used' \in [retries : 0 .. MaxRetries, faults : 0 .. MaxFaults]
    PROVE  Inv'
<1>1. RestTyped'
  BY DEF Inv, RestTyped, lunad
<1>2. Good(Now, owner, trashing, raced)' /\ (raced' = {} => Busy(Now)')
  BY DEF Lands
<1>3. (stored = accepted)' /\ Polls' /\ Trimmed' /\ Polled'
  BY DEF Inv, Lands, lunad, Polls, Trimmed, Polled
<1>4. NoUnseenJob'
  <2> SUFFICES ASSUME NEW j \in Jobs, row'[j] = "running", j \notin adrift', owner'[j] \notin raced'
               PROVE  j \in accepted' \cup deleted' \/ post'[j].at = "accepted"
    BY DEF NoUnseenJob
  <2>1. j \in accepted \cup deleted \/ post[j].at = "accepted"
    BY DEF Inv, NoUnseenJob, lunad
  <2>2. post[j].at = "accepted" => post'[j].at = "accepted"
    BY DEF Lands
  <2>3. QED
    BY <2>1, <2>2 DEF Lands, lunad
<1>5. QED
  BY <1>1, <1>2, <1>3, <1>4 DEF Inv

----------------------------------------------------------------------------
(* The actions that end with Keep or Pump *)

LEMMA NowFacts ==
    ASSUME Inv
    PROVE  /\ Now \in TabState /\ Good(Now, owner, trashing, raced)
           /\ Now.item = item /\ Now.op = op /\ Now.queue = queue /\ Now.acc = accepted
           /\ Now.post = post /\ Now.blocked = blocked /\ Now.timer = timer
           /\ item \in [Items -> ItemRecord] /\ op \in [Ops -> OpRecord] /\ queue \in Seq(Items)
           /\ accepted \in SUBSET Jobs /\ post \in [Jobs -> Post]
           /\ blocked \in BOOLEAN /\ timer \in BOOLEAN
           /\ RestTyped
<1>1. Now \in TabState /\ Good(Now, owner, trashing, raced) /\ RestTyped
  BY DEF Inv, Good, Sound
<1>2. /\ Now.item = item /\ Now.op = op /\ Now.queue = queue /\ Now.acc = accepted
      /\ Now.post = post /\ Now.blocked = blocked /\ Now.timer = timer
  BY DEF Now
<1>3. QED
  BY <1>1, <1>2 DEF TabState

\* A change of nothing that matters.
LEMMA SameGood ==
    ASSUME NEW s, NEW n \in TabState, NEW ow, NEW tr, NEW rc, Good(s, ow, tr, rc),
           n.item = s.item, n.queue = s.queue, n.acc = s.acc, n.post = s.post,
           \A o \in Ops : /\ n.op[o].listed = s.op[o].listed /\ n.op[o].ended = s.op[o].ended
                          /\ n.op[o].phase = s.op[o].phase
    PROVE  Good(n, ow, tr, rc)
<1>1. Placed(n, ow, tr, rc)
  <2>1. \A i \in Items : n.op[OpOf[i]].listed = s.op[OpOf[i]].listed
    BY OpOfItem
  <2>2. QED
    BY <2>1, SamePlaces DEF Good, Sound
<1>2. Numbered(n, ow) /\ Told(n, rc) /\ Phased(n)
  BY DEF Good, Sound, Numbered, Told, Phased
<1>3. Over(n, rc)
  <2>1. ASSUME NEW i \in Items \ rc
        PROVE  OverAt(n.op[OpOf[i]], n.item[i])
    BY OpOfItem DEF Good, Over, OverAt
  <2>2. QED
    BY <2>1 DEF Over
<1>4. SlotsUsed(n) <= Parallel
  BY DEF Good, SlotsUsed
<1>5. QED
  BY <1>1, <1>2, <1>3, <1>4 DEF Good, Sound

LEMMA HandlerGood ==
    ASSUME NEW s, NEW ow, NEW tr, NEW rc, Good(s, ow, tr, rc),
           NEW n \in TabState, NEW ow2, NEW tr2, NEW rc2, rc \subseteq rc2,
           Numbered(n, ow2), Phased(n), SlotsUsed(n) <= Parallel,
           \A i \in Items \ rc2 : /\ Stays(s, n, ow, ow2, tr, tr2, i) \/ Fits(n, ow2, tr2, i)
                                  /\ OverAt(n.op[OpOf[i]], n.item[i])
    PROVE  Good(n, ow2, tr2, rc2)
<1>1. Sound(n, ow2, tr2, rc2)
  BY HandlerSound DEF Good
<1>2. Over(n, rc2)
  BY DEF Over
<1>3. QED
  BY <1>1, <1>2 DEF Good

LEMMA HandlerUnsettled ==
    ASSUME NEW s, NEW ow, NEW tr, NEW rc, Good(s, ow, tr, rc),
           NEW n \in TabState, NEW ow2, NEW tr2, NEW rc2, rc \subseteq rc2, NEW os,
           Numbered(n, ow2), Phased(n), SlotsUsed(n) <= Parallel,
           \A i \in Items \ rc2 :
              /\ Stays(s, n, ow, ow2, tr, tr2, i) \/ Fits(n, ow2, tr2, i)
              /\ n.op[OpOf[i]].listed = TRUE /\ n.op[OpOf[i]].ended = TRUE /\ n.item[i].shown = TRUE =>
                    n.item[i].st # "needs-decision"
              /\ OpOf[i] \notin os => OverAt(n.op[OpOf[i]], n.item[i])
    PROVE  Unsettled(n, os, ow2, tr2, rc2)
<1>1. Sound(n, ow2, tr2, rc2)
  BY HandlerSound DEF Good
<1>2. QED
  BY <1>1 DEF Unsettled

LEMMA RetryTimerInv ==
    ASSUME Inv, RetryTimer
    PROVE  Inv'
<1> DEFINE s == [Now EXCEPT !.timer = FALSE, !.blocked = FALSE]
<1>1. /\ s \in TabState /\ s.item = Now.item /\ s.queue = Now.queue /\ s.acc = Now.acc
      /\ s.post = Now.post /\ s.op = Now.op
  BY NowFacts DEF TabState
<1>2. /\ Pump(s) /\ UNCHANGED <<lunad, owner, stored, armed, poll, trashing, used, raced, adrift>>
  BY DEF RetryTimer
<1> HIDE DEF s
<1>3. Good(s, owner, trashing, raced)
  BY <1>1, NowFacts, SameGood
<1>4. Lands(s)
  BY <1>2, <1>3, PumpLands DEF lunad
<1>5. QED
  BY <1>1, <1>2, <1>4, NowFacts, QuietInv DEF RestTyped

LEMMA StartJobsInv ==
    ASSUME Inv, NEW o \in Ops, StartJobs(o)
    PROVE  Inv'
<1>1. PICK q \in InOrder(ItemsOf(o)) :
          Pump([Now EXCEPT
                  !.item = [i \in Items |->
                              IF OpOf[i] = o
                              THEN [NoItemRecord EXCEPT !.st = "queued", !.shown = TRUE]
                              ELSE @[i]],
                  !.op[o] = NewOp("running"),
                  !.queue = @ \o q])
  BY DEF StartJobs
<1> DEFINE it == [i \in Items |-> IF OpOf[i] = o THEN [NoItemRecord EXCEPT !.st = "queued", !.shown = TRUE]
                                  ELSE item[i]]
           u == queue \o q
           ops == [op EXCEPT ![o] = NewOp("running")]
           s == [Now EXCEPT !.item = it, !.op = ops, !.queue = u]
<1>2. Pump(s)
  BY <1>1, NowFacts
<1>3. ItemsOf(o) \in SUBSET Items /\ \A i \in Items : i \in ItemsOf(o) <=> OpOf[i] = o
  BY DEF ItemsOf
<1>4. q \in Seq(Items) /\ (\A k : In(q, k) <=> k \in ItemsOf(o)) /\ \A k : Once(q, k)
  BY <1>3, OrderFacts
<1>5. u \in Seq(Items)
  BY <1>4, NowFacts, JoinFacts
<1>6. it \in [Items -> ItemRecord]
  <2>1. [NoItemRecord EXCEPT !.st = "queued", !.shown = TRUE] \in ItemRecord
    BY DEF NoItemRecord, ItemRecord, ItemState, Active, NoJob
  <2>2. \A i \in Items : item[i] \in ItemRecord
    BY NowFacts
  <2>3. QED
    BY <2>1, <2>2
<1>7. /\ ops \in [Ops -> OpRecord] /\ ops[o].listed = TRUE /\ ops[o].ended = FALSE
      /\ ops[o].phase = "running" /\ \A x \in Ops \ {o} : ops[x] = op[x]
  <2>1. NewOp("running") \in OpRecord /\ NewOp("running").listed = TRUE
        /\ NewOp("running").ended = FALSE /\ NewOp("running").phase = "running"
    BY DEF NewOp, NoOp, OpRecord, OpPhase
  <2>2. QED
    BY <2>1, NowFacts
<1>8. \A i \in Items : OpOf[i] = o => item[i].st = "none"
  BY <1>3 DEF StartJobs
<1>9. \A i \in Items : /\ OpOf[i] # o => it[i] = item[i]
                       /\ OpOf[i] = o => it[i].st = "queued" /\ it[i].shown = TRUE /\ it[i].job = NoJob
  BY DEF NoItemRecord
<1> HIDE DEF it, u, ops
<1>10. /\ s \in TabState /\ s.item = it /\ s.op = ops /\ s.queue = u /\ s.acc = accepted /\ s.post = post
  BY <1>5, <1>6, <1>7, NowFacts DEF TabState
<1> HIDE DEF s
<1>11. Numbered(s, owner) /\ SlotsUsed(s) <= Parallel
  BY <1>10, NowFacts DEF Good, Sound, Numbered, SlotsUsed
<1>12. Phased(s)
  <2>1. Phased(Now) /\ Now.op = op
    BY NowFacts DEF Good, Sound
  <2>2. ASSUME NEW x \in Ops, s.op[x].listed = TRUE, s.op[x].ended = FALSE
        PROVE  s.op[x].phase \in {"preparing", "running", "waiting"}
    BY <1>7, <1>10, <2>1, <2>2 DEF Phased
  <2>3. QED
    BY <2>2 DEF Phased
<1>13. ASSUME NEW i \in Items \ raced
       PROVE  /\ Stays(Now, s, owner, owner, trashing, trashing, i) \/ Fits(s, owner, trashing, i)
              /\ OverAt(s.op[OpOf[i]], s.item[i])
  <2>1. Followed(s, owner, i) = Followed(Now, owner, i)
    BY <1>10, NowFacts DEF Followed
  <2>2. /\ In(u, i) <=> In(queue, i) \/ In(q, i)
        /\ Once(queue, i) /\ ~In(q, i) => Once(u, i)
        /\ ~In(queue, i) /\ Once(q, i) => Once(u, i)
    BY <1>4, NowFacts, JoinFacts DEF u
  <2>3. CASE OpOf[i] # o
    <3>1. ~In(q, i)
      BY <2>3, <1>3, <1>4
    <3>2. s.item[i] = Now.item[i] /\ s.op[OpOf[i]] = Now.op[OpOf[i]]
      BY <2>3, <1>7, <1>9, <1>10, NowFacts, OpOfItem
    <3>3. Stays(Now, s, owner, owner, trashing, trashing, i)
      BY <2>1, <2>2, <3>1, <3>2, <1>10, NowFacts DEF Stays
    <3>4. OverAt(s.op[OpOf[i]], s.item[i])
      BY <3>2, NowFacts DEF Good, Over
    <3>5. QED
      BY <3>3, <3>4
  <2>4. CASE OpOf[i] = o
    <3>1. Fits(Now, owner, trashing, i)
      BY NowFacts, SoundFits DEF Good
    <3>2. item[i].st = "none"
      BY <2>4, <1>8
    <3>3. /\ ~In(queue, i) /\ ~Flying(post, i) /\ i \notin trashing /\ Followed(Now, owner, i) = {}
          /\ OneFlight(post, i)
      BY <3>1, <3>2, NowFacts DEF Fits, PlacedAt
    <3>4. In(u, i) /\ Once(u, i)
      BY <2>2, <2>4, <3>3, <1>3, <1>4
    <3>5. it[i].st = "queued" /\ it[i].shown = TRUE /\ it[i].job = NoJob
      BY <2>4, <1>9
    <3>6. PlacedAt(it[i], s.op[OpOf[i]].listed = TRUE, In(u, i), Flying(post, i), i \in trashing,
                   Followed(s, owner, i))
      BY <3>3, <3>4, <3>5, <2>1 DEF PlacedAt
    <3>7. Fits(s, owner, trashing, i)
      BY <3>3, <3>4, <3>5, <3>6, <1>10 DEF Fits, ToldAt
    <3>8. OverAt(s.op[OpOf[i]], s.item[i])
      BY <2>4, <1>7, <1>10 DEF OverAt
    <3>9. QED
      BY <3>7, <3>8
  <2>5. QED
    BY <2>3, <2>4
<1>14. Good(s, owner, trashing, raced)
  BY <1>10, <1>11, <1>12, <1>13, NowFacts, HandlerGood
<1>15. UNCHANGED <<lunad, owner, stored, armed, poll, trashing, used, raced, adrift>>
  BY DEF StartJobs
<1>16. Lands(s)
  BY <1>2, <1>14, <1>15, PumpLands DEF lunad
<1>17. QED
  BY <1>10, <1>15, <1>16, NowFacts, QuietInv DEF RestTyped

\* A handler that ends with settle, and the one that ends with settle and pump.
LEMMA SettleKeepLands ==
    ASSUME NEW s, NEW os, Unsettled(s, os, owner', trashing', raced'), Keep(Settle(s, os)),
           row' = row, raced' = {} => Busy(s)
    PROVE  Lands(s)
<1> DEFINE n == Settle(s, os)
<1>1. s \in TabState
  BY DEF Unsettled, Sound
<1>2. /\ n.queue = s.queue /\ n.acc = s.acc /\ n.post = s.post
      /\ n.blocked = s.blocked /\ n.timer = s.timer
  BY <1>1, SettleFacts
<1>3. Good(n, owner', trashing', raced')
  BY SettleGood
<1> HIDE DEF n
<1>4. Busy(s) => Busy(n)
  BY <1>2 DEF Busy, SlotsUsed
<1>5. Lands(n)
  BY <1>3, <1>4, KeepLands DEF n
<1>6. QED
  BY <1>2, <1>5 DEF Lands

LEMMA SettlePumpLands ==
    ASSUME NEW s, NEW os, Unsettled(s, os, owner', trashing', raced'), Pump(Settle(s, os)), row' = row
    PROVE  Lands(s)
<1> DEFINE n == Settle(s, os)
<1>1. s \in TabState
  BY DEF Unsettled, Sound
<1>2. n.acc = s.acc /\ n.post = s.post
  BY <1>1, SettleFacts
<1>3. Good(n, owner', trashing', raced')
  BY SettleGood
<1> HIDE DEF n
<1>4. Lands(n)
  BY <1>3, PumpLands DEF n
<1>5. QED
  BY <1>2, <1>4 DEF Lands

LEMMA TrashAnswersInv ==
    ASSUME Inv, NEW i \in Items, NEW ok \in BOOLEAN, TrashAnswers(i, ok)
    PROVE  Inv'
<1> DEFINE tr == trashing \ {i}
<1>1. i \in trashing /\ trashing' = tr /\ UNCHANGED <<lunad, owner, stored, armed, poll, used, adrift>>
  BY DEF TrashAnswers
<1>2. trashing \subseteq Items /\ raced \subseteq Items
  BY NowFacts DEF RestTyped
<1>3. item[i] \in ItemRecord /\ \A k \in Items : item[k] \in ItemRecord
  BY NowFacts
<1>4. i \notin raced => /\ ~In(queue, i) /\ ~Flying(post, i) /\ OneFlight(post, i) /\ Once(queue, i)
                        /\ item[i].st \in {"submitting", "cancelled"} /\ item[i].job = NoJob
                        /\ item[i].st = "submitting" => item[i].shown = TRUE
                        /\ Followed(Now, owner, i) = {}
                        /\ OverAt(op[OpOf[i]], item[i])
  <2> SUFFICES ASSUME i \notin raced
               PROVE  /\ ~In(queue, i) /\ ~Flying(post, i) /\ OneFlight(post, i) /\ Once(queue, i)
                      /\ item[i].st \in {"submitting", "cancelled"} /\ item[i].job = NoJob
                      /\ item[i].st = "submitting" => item[i].shown = TRUE
                      /\ Followed(Now, owner, i) = {}
                      /\ OverAt(op[OpOf[i]], item[i])
    OBVIOUS
  <2>1. Fits(Now, owner, trashing, i) /\ OverAt(op[OpOf[i]], item[i])
    BY NowFacts, SoundFits DEF Good, Over
  <2>2. QED
    BY <2>1, <1>1, NowFacts DEF Fits, PlacedAt
<1>5. CASE ok = TRUE
  <2> DEFINE it == [item EXCEPT ![i] = [@ EXCEPT !.st = "queued", !.keep = FALSE]]
             u == queue \o <<i>>
             s == [Now EXCEPT !.item = it, !.queue = u]
  <2>1. Pump(s)
    <3>1. Append(queue, i) = u
      BY NowFacts, AppendIsConcat
    <3>2. [Now EXCEPT !.item[i].st = "queued", !.item[i].keep = FALSE, !.queue = Append(@, i)] = s
      BY <3>1, NowFacts
    <3>3. QED
      BY <1>5, <3>2 DEF TrashAnswers
  <2>2. raced' = IF item[i].st = "cancelled" THEN raced \cup {i} ELSE raced
    BY <1>5 DEF TrashAnswers
  <2>3. <<i>> \in Seq(Items) /\ \A k : In(<<i>>, k) <=> k = i
    BY SingleFacts
  <2>4. /\ it \in [Items -> ItemRecord] /\ \A k \in Items \ {i} : it[k] = item[k]
        /\ it[i].st = "queued" /\ it[i].job = item[i].job /\ it[i].shown = item[i].shown
    <3>1. [item[i] EXCEPT !.st = "queued", !.keep = FALSE] \in ItemRecord
      BY <1>3 DEF ItemRecord, ItemState, Active
    <3>2. QED
      BY <1>3, <3>1, NowFacts DEF ItemRecord
  <2>5. /\ u \in Seq(Items)
        /\ \A k : /\ In(u, k) <=> In(queue, k) \/ k = i
                  /\ Once(queue, k) /\ k # i => Once(u, k)
                  /\ ~In(queue, k) => Once(u, k)
    <3>1. \A k : Once(<<i>>, k)
      BY SingleFacts
    <3>2. QED
      BY <2>3, <3>1, NowFacts, JoinFacts
  <2> HIDE DEF it, u
  <2>6. /\ s \in TabState /\ s.item = it /\ s.op = op /\ s.queue = u /\ s.acc = accepted /\ s.post = post
    BY <2>4, <2>5, NowFacts DEF TabState
  <2> HIDE DEF s
  <2>7. Numbered(s, owner) /\ SlotsUsed(s) <= Parallel /\ Phased(s)
    BY <2>6, NowFacts DEF Good, Sound, Numbered, SlotsUsed, Phased
  <2>8. ASSUME NEW k \in Items \ raced'
        PROVE  /\ Stays(Now, s, owner, owner, trashing, tr, k) \/ Fits(s, owner, tr, k)
               /\ OverAt(s.op[OpOf[k]], s.item[k])
    <3>1. Followed(s, owner, k) = Followed(Now, owner, k) /\ k \notin raced
      BY <2>2, <2>6, NowFacts DEF Followed
    <3>2. CASE k # i
      <4>1. s.item[k] = item[k] /\ (In(u, k) <=> In(queue, k)) /\ (Once(queue, k) => Once(u, k))
        BY <3>2, <2>4, <2>5, <2>6
      <4>2. Stays(Now, s, owner, owner, trashing, tr, k)
        BY <3>1, <3>2, <4>1, <2>6, NowFacts DEF Stays
      <4>3. OverAt(s.op[OpOf[k]], s.item[k])
        BY <3>1, <4>1, <2>6, NowFacts DEF Good, Over
      <4>4. QED
        BY <4>2, <4>3
    <3>3. CASE k = i
      <4>1. item[i].st = "submitting"
        BY <3>1, <3>3, <2>2, <1>4
      <4>2. PlacedAt(it[i], s.op[OpOf[i]].listed = TRUE, In(u, i), Flying(post, i), i \in tr,
                     Followed(s, owner, i))
        BY <3>1, <3>3, <4>1, <2>4, <2>5, <1>4 DEF PlacedAt
      <4>3. Fits(s, owner, tr, i)
        BY <3>1, <3>3, <4>2, <2>4, <2>5, <2>6, <1>4 DEF Fits, ToldAt
      <4>4. OverAt(s.op[OpOf[i]], s.item[i])
        BY <3>1, <3>3, <4>1, <2>4, <2>6, <1>4 DEF OverAt, Active
      <4>5. QED
        BY <3>3, <4>3, <4>4
    <3>4. QED
      BY <3>2, <3>3
  <2>9. Good(s, owner, tr, raced')
    <3>1. raced \subseteq raced'
      BY <2>2
    <3>2. QED
      BY <2>6, <2>7, <2>8, <3>1, NowFacts, HandlerGood
  <2>10. Lands(s)
    BY <2>1, <2>9, <1>1, PumpLands DEF lunad
  <2>11. QED
    BY <2>2, <2>6, <2>10, <1>1, <1>2, NowFacts, QuietInv DEF RestTyped
<1>6. CASE ok = FALSE
  <2> DEFINE it == [item EXCEPT ![i] = [@ EXCEPT !.st = "failed", !.again = FALSE]]
             s == [Now EXCEPT !.item = it]
             os == {OpOf[i]}
  <2>1. Keep(Settle(s, os)) /\ raced' = raced
    <3>1. [Now EXCEPT !.item[i].st = "failed", !.item[i].again = FALSE] = s
      BY NowFacts
    <3>2. QED
      BY <1>6, <3>1 DEF TrashAnswers
  <2>2. /\ it \in [Items -> ItemRecord] /\ \A k \in Items \ {i} : it[k] = item[k]
        /\ it[i].st = "failed" /\ it[i].job = item[i].job
    <3>1. [item[i] EXCEPT !.st = "failed", !.again = FALSE] \in ItemRecord
      BY <1>3 DEF ItemRecord, ItemState
    <3>2. QED
      BY <1>3, <3>1, NowFacts DEF ItemRecord
  <2> HIDE DEF it
  <2>3. /\ s \in TabState /\ s.item = it /\ s.op = op /\ s.queue = queue /\ s.acc = accepted
        /\ s.post = post /\ s.blocked = blocked /\ s.timer = timer
    BY <2>2, NowFacts DEF TabState
  <2> HIDE DEF s
  <2>4. Numbered(s, owner) /\ SlotsUsed(s) <= Parallel /\ Phased(s)
    BY <2>3, NowFacts DEF Good, Sound, Numbered, SlotsUsed, Phased
  <2>5. ASSUME NEW k \in Items \ raced
        PROVE  /\ Stays(Now, s, owner, owner, trashing, tr, k) \/ Fits(s, owner, tr, k)
               /\ s.op[OpOf[k]].listed = TRUE /\ s.op[OpOf[k]].ended = TRUE /\ s.item[k].shown = TRUE =>
                     s.item[k].st # "needs-decision"
               /\ OpOf[k] \notin os => OverAt(s.op[OpOf[k]], s.item[k])
    <3>1. Followed(s, owner, k) = Followed(Now, owner, k)
      BY <2>3, NowFacts DEF Followed
    <3>2. CASE k # i
      <4>1. s.item[k] = item[k]
        BY <3>2, <2>2, <2>3
      <4>2. Stays(Now, s, owner, owner, trashing, tr, k)
        BY <3>1, <3>2, <4>1, <2>3, NowFacts DEF Stays
      <4>3. OverAt(s.op[OpOf[k]], s.item[k])
        BY <3>1, <4>1, <2>3, NowFacts DEF Good, Over
      <4>4. QED
        BY <4>2, <4>3 DEF OverAt
    <3>3. CASE k = i
      <4>1. PlacedAt(it[i], s.op[OpOf[i]].listed = TRUE, In(queue, i), Flying(post, i), i \in tr,
                     Followed(s, owner, i))
        BY <3>1, <3>3, <2>2, <1>4 DEF PlacedAt
      <4>2. Fits(s, owner, tr, i)
        BY <3>3, <4>1, <2>2, <2>3, <1>4 DEF Fits, ToldAt
      <4>3. QED
        BY <3>3, <4>2, <2>2, <2>3
    <3>4. QED
      BY <3>2, <3>3
  <2>6. Unsettled(s, os, owner, tr, raced)
    BY <2>3, <2>4, <2>5, NowFacts, HandlerUnsettled
  <2>7. raced = {} => Busy(s)
    BY <2>3, NowFacts DEF Inv, Busy, SlotsUsed
  <2>8. Lands(s)
    BY <2>1, <2>6, <2>7, <1>1, SettleKeepLands DEF lunad
  <2>9. QED
    BY <2>1, <2>3, <2>8, <1>1, <1>2, NowFacts, QuietInv DEF RestTyped
<1>7. QED
  BY <1>5, <1>6

\* An item at rest is nowhere.
LEMMA RestingFacts ==
    ASSUME Inv, NEW i \in Items \ raced,
           item[i].st \notin {"queued", "submitting", "running", "cancelled"}
    PROVE  /\ ~In(queue, i) /\ Once(queue, i) /\ ~Flying(post, i) /\ OneFlight(post, i)
           /\ i \notin trashing /\ Followed(Now, owner, i) = {}
<1>1. Fits(Now, owner, trashing, i)
  BY NowFacts, SoundFits DEF Good
<1>2. QED
  BY <1>1, NowFacts DEF Fits, PlacedAt

LEMMA FaultFacts ==
    ASSUME RestTyped, Fault
    PROVE  used' \in [retries : 0 .. MaxRetries, faults : 0 .. MaxFaults]
BY DEF RestTyped, Fault

LEMMA RetryItemsInv ==
    ASSUME Inv, NEW T \in SUBSET Items, RetryItems(T)
    PROVE  Inv'
<1>1. PICK q \in InOrder(T) :
          Pump(Settle([Now EXCEPT
                 !.item = [i \in Items |->
                             IF i \in T THEN [@[i] EXCEPT !.st = "queued", !.off = FALSE, !.job = NoJob]
                             ELSE @[i]],
                 !.queue = @ \o q], {OpOf[i] : i \in T}))
  BY DEF RetryItems
<1> DEFINE it == [i \in Items |-> IF i \in T THEN [item[i] EXCEPT !.st = "queued", !.off = FALSE, !.job = NoJob]
                                  ELSE item[i]]
           u == queue \o q
           os == {OpOf[i] : i \in T}
           s == [Now EXCEPT !.item = it, !.queue = u]
<1>2. Pump(Settle(s, os))
  BY <1>1, NowFacts
<1>3. \A i \in T : item[i].st = "failed" /\ item[i].shown = TRUE
  <2>1. \A i \in T : item[i].st = "failed" /\ item[i].shown
    BY DEF RetryItems, Retryable, Here
  <2>2. \A i \in T : item[i].shown \in BOOLEAN
    BY NowFacts DEF ItemRecord
  <2>3. QED
    BY <2>1, <2>2
<1>4. q \in Seq(Items) /\ (\A k : In(q, k) <=> k \in T) /\ \A k : Once(q, k)
  BY OrderFacts
<1>5. u \in Seq(Items)
  BY <1>4, NowFacts, JoinFacts
<1>6. /\ it \in [Items -> ItemRecord] /\ \A i \in Items \ T : it[i] = item[i]
      /\ \A i \in T : it[i].st = "queued" /\ it[i].job = NoJob /\ it[i].shown = item[i].shown
  <2>1. \A i \in Items : item[i] \in ItemRecord
    BY NowFacts
  <2>2. ASSUME NEW r \in ItemRecord
        PROVE  /\ [r EXCEPT !.st = "queued", !.off = FALSE, !.job = NoJob] \in ItemRecord
               /\ [r EXCEPT !.st = "queued", !.off = FALSE, !.job = NoJob].st = "queued"
               /\ [r EXCEPT !.st = "queued", !.off = FALSE, !.job = NoJob].job = NoJob
               /\ [r EXCEPT !.st = "queued", !.off = FALSE, !.job = NoJob].shown = r.shown
    BY DEF ItemRecord, ItemState, Active
  <2>3. QED
    BY <2>1, <2>2
<1> HIDE DEF it, u
<1>7. /\ s \in TabState /\ s.item = it /\ s.op = op /\ s.queue = u /\ s.acc = accepted /\ s.post = post
  BY <1>5, <1>6, NowFacts DEF TabState
<1> HIDE DEF s
<1>8. Numbered(s, owner) /\ SlotsUsed(s) <= Parallel /\ Phased(s)
  BY <1>7, NowFacts DEF Good, Sound, Numbered, SlotsUsed, Phased
<1>9. ASSUME NEW k \in Items \ raced
      PROVE  /\ Stays(Now, s, owner, owner, trashing, trashing, k) \/ Fits(s, owner, trashing, k)
             /\ s.op[OpOf[k]].listed = TRUE /\ s.op[OpOf[k]].ended = TRUE /\ s.item[k].shown = TRUE =>
                   s.item[k].st # "needs-decision"
             /\ OpOf[k] \notin os => OverAt(s.op[OpOf[k]], s.item[k])
  <2>1. Followed(s, owner, k) = Followed(Now, owner, k)
    BY <1>7, NowFacts DEF Followed
  <2>2. /\ In(u, k) <=> In(queue, k) \/ k \in T
        /\ Once(queue, k) /\ k \notin T => Once(u, k)
        /\ ~In(queue, k) => Once(u, k)
    BY <1>4, NowFacts, JoinFacts DEF u
  <2>3. CASE k \notin T
    <3>1. s.item[k] = item[k]
      BY <2>3, <1>6, <1>7
    <3>2. Stays(Now, s, owner, owner, trashing, trashing, k)
      BY <2>1, <2>2, <2>3, <3>1, <1>7, NowFacts DEF Stays
    <3>3. OverAt(s.op[OpOf[k]], s.item[k])
      BY <3>1, <1>7, NowFacts DEF Good, Over
    <3>4. QED
      BY <3>2, <3>3 DEF OverAt
  <2>4. CASE k \in T
    <3>1. /\ ~In(queue, k) /\ ~Flying(post, k) /\ OneFlight(post, k) /\ k \notin trashing
          /\ Followed(Now, owner, k) = {}
      BY <2>4, <1>3, RestingFacts
    <3>2. PlacedAt(it[k], s.op[OpOf[k]].listed = TRUE, In(u, k), Flying(post, k), k \in trashing,
                   Followed(s, owner, k))
      BY <2>1, <2>2, <2>4, <3>1, <1>3, <1>6 DEF PlacedAt
    <3>3. Fits(s, owner, trashing, k)
      BY <2>2, <2>4, <3>1, <3>2, <1>6, <1>7 DEF Fits, ToldAt
    <3>4. QED
      BY <2>4, <3>3, <1>6, <1>7
  <2>5. QED
    BY <2>3, <2>4
<1>10. Unsettled(s, os, owner, trashing, raced)
  <2> HIDE DEF os
  <2>1. QED
    BY <1>7, <1>8, <1>9, NowFacts, HandlerUnsettled
<1>11. UNCHANGED <<lunad, owner, stored, armed, poll, trashing, raced, adrift>>
  BY DEF RetryItems
<1>12. Lands(s)
  BY <1>2, <1>10, <1>11, SettlePumpLands DEF lunad
<1>13. used' \in [retries : 0 .. MaxRetries, faults : 0 .. MaxFaults]
  <2>1. IsFiniteSet(T)
    <3>1. 1 \in Int /\ NItems \in Int
      OBVIOUS
    <3>2. IsFiniteSet(Items)
      BY <3>1, FS_Interval
    <3>3. QED
      BY <3>2, FS_Subset
  <2>2. Cardinality(T) \in Nat
    BY <2>1, FS_CardinalityType
  <2>3. /\ used \in [retries : 0 .. MaxRetries, faults : 0 .. MaxFaults]
        /\ used.retries + Cardinality(T) <= MaxRetries
        /\ used' = [used EXCEPT !.retries = @ + Cardinality(T)]
    BY NowFacts DEF RestTyped, RetryItems
  <2>4. used.retries + Cardinality(T) \in 0 .. MaxRetries
    BY <2>2, <2>3
  <2>5. QED
    BY <2>3, <2>4
<1>14. QED
  BY <1>7, <1>11, <1>12, <1>13, NowFacts, QuietInv DEF RestTyped

LEMMA RemoveFailedInv ==
    ASSUME Inv, NEW T \in SUBSET Items, RemoveFailed(T)
    PROVE  Inv'
<1> DEFINE it == [i \in Items |-> IF i \in T THEN [item[i] EXCEPT !.shown = FALSE] ELSE item[i]]
           os == {OpOf[i] : i \in T}
           s == [Now EXCEPT !.item = it]
<1>1. Keep(Settle(s, os))
  BY NowFacts DEF RemoveFailed
<1>2. \A i \in T : item[i].st = "failed"
  BY DEF RemoveFailed
<1>3. /\ it \in [Items -> ItemRecord] /\ \A i \in Items \ T : it[i] = item[i]
      /\ \A i \in T : it[i].st = item[i].st /\ it[i].job = item[i].job
  <2>1. \A i \in Items : item[i] \in ItemRecord
    BY NowFacts
  <2>2. \A i \in Items : [item[i] EXCEPT !.shown = FALSE] \in ItemRecord
    BY <2>1 DEF ItemRecord
  <2>3. QED
    BY <2>1, <2>2 DEF ItemRecord
<1> HIDE DEF it
<1>4. /\ s \in TabState /\ s.item = it /\ s.op = op /\ s.queue = queue /\ s.acc = accepted
      /\ s.post = post /\ s.blocked = blocked /\ s.timer = timer
  BY <1>3, NowFacts DEF TabState
<1> HIDE DEF s
<1>5. Numbered(s, owner) /\ SlotsUsed(s) <= Parallel /\ Phased(s)
  BY <1>4, NowFacts DEF Good, Sound, Numbered, SlotsUsed, Phased
<1>6. ASSUME NEW k \in Items \ raced
      PROVE  /\ Stays(Now, s, owner, owner, trashing, trashing, k) \/ Fits(s, owner, trashing, k)
             /\ s.op[OpOf[k]].listed = TRUE /\ s.op[OpOf[k]].ended = TRUE /\ s.item[k].shown = TRUE =>
                   s.item[k].st # "needs-decision"
             /\ OpOf[k] \notin os => OverAt(s.op[OpOf[k]], s.item[k])
  <2>1. Followed(s, owner, k) = Followed(Now, owner, k)
    BY <1>4, NowFacts DEF Followed
  <2>2. CASE k \notin T
    <3>1. s.item[k] = item[k]
      BY <2>2, <1>3, <1>4
    <3>2. Stays(Now, s, owner, owner, trashing, trashing, k)
      BY <2>1, <3>1, <1>4, NowFacts DEF Stays
    <3>3. OverAt(s.op[OpOf[k]], s.item[k])
      BY <3>1, <1>4, NowFacts DEF Good, Over
    <3>4. QED
      BY <3>2, <3>3 DEF OverAt
  <2>3. CASE k \in T
    <3>1. /\ ~In(queue, k) /\ Once(queue, k) /\ ~Flying(post, k) /\ OneFlight(post, k)
          /\ k \notin trashing /\ Followed(Now, owner, k) = {}
      BY <2>3, <1>2, RestingFacts
    <3>2. it[k].st = "failed" /\ it[k].job = item[k].job
      BY <2>3, <1>2, <1>3
    <3>3. PlacedAt(it[k], s.op[OpOf[k]].listed = TRUE, In(queue, k), Flying(post, k), k \in trashing,
                   Followed(s, owner, k))
      BY <2>1, <3>1, <3>2 DEF PlacedAt
    <3>4. ToldAt(item[k], row)
      BY NowFacts DEF Good, Sound, Told
    <3>5. ToldAt(it[k], row)
      BY <2>3, <3>2, <3>4, <1>2 DEF ToldAt
    <3>6. Fits(s, owner, trashing, k)
      BY <3>1, <3>3, <3>5, <1>4 DEF Fits
    <3>7. QED
      BY <2>3, <3>2, <3>6, <1>4
  <2>4. QED
    BY <2>2, <2>3
<1>7. Unsettled(s, os, owner, trashing, raced)
  <2> HIDE DEF os
  <2>1. QED
    BY <1>4, <1>5, <1>6, NowFacts, HandlerUnsettled
<1>8. UNCHANGED <<lunad, owner, stored, armed, poll, trashing, used, raced, adrift>>
  BY DEF RemoveFailed
<1>9. raced = {} => Busy(s)
  BY <1>4, NowFacts DEF Inv, Busy, SlotsUsed
<1>10. Lands(s)
  BY <1>1, <1>7, <1>8, <1>9, SettleKeepLands DEF lunad
<1>11. QED
  BY <1>4, <1>8, <1>10, NowFacts, QuietInv DEF RestTyped

\* What a handler that also changes the rest of the tab has to show.
LEMMA EndInv ==
    ASSUME Inv, NEW s, Lands(s), UNCHANGED <<row, trimmed>>,
           deleted \subseteq deleted', deleted' \subseteq Jobs,
           adrift \subseteq adrift', adrift' \subseteq Jobs,
           owner' \in [Jobs -> Items \cup {NoItem}], stored' = s.acc, s.acc \subseteq Jobs,
           armed' \in BOOLEAN, poll' \in [Slots -> Poll], trashing' \subseteq Items,
           raced \subseteq raced', raced' \subseteq Items,
           used' \in [retries : 0 .. MaxRetries, faults : 0 .. MaxFaults],
           Polls', s.acc # {} => armed' \/ \E p \in Slots : poll'[p].at # "idle",
           \A j \in Jobs : post[j].at # "accepted" => owner'[j] = owner[j],
           \A j \in Jobs : /\ row[j] = "running" /\ j \notin adrift' /\ owner'[j] \notin raced'
                           /\ j \in accepted \/ post[j].at = "accepted"
                           => j \in s.acc \cup deleted' \/ s.post[j].at = "accepted"
    PROVE  Inv'
<1>1. RestTyped'
  BY DEF Inv, RestTyped
<1>2. Good(Now, owner, trashing, raced)' /\ (raced' = {} => Busy(Now)')
  BY DEF Lands
<1>3. (stored = accepted)' /\ Trimmed' /\ Polled'
  BY DEF Inv, Lands, Trimmed, Polled
<1>4. NoUnseenJob'
  <2> SUFFICES ASSUME NEW j \in Jobs, row'[j] = "running", j \notin adrift', owner'[j] \notin raced'
               PROVE  j \in accepted' \cup deleted' \/ post'[j].at = "accepted"
    BY DEF NoUnseenJob
  <2>1. j \in accepted \/ post[j].at = "accepted" => j \in s.acc \cup deleted' \/ s.post[j].at = "accepted"
    OBVIOUS
  <2>2. post[j].at # "accepted" => j \in accepted \/ j \in deleted
    BY DEF Inv, NoUnseenJob
  <2>3. s.post[j].at = "accepted" => post'[j].at = "accepted"
    BY DEF Lands
  <2>4. QED
    BY <2>1, <2>2, <2>3 DEF Lands
<1>5. QED
  BY <1>1, <1>2, <1>3, <1>4 DEF Inv

LEMMA SendDeleteFacts ==
    ASSUME RestTyped, NEW js \in SUBSET Jobs, SendDelete(js)
    PROVE  /\ deleted \subseteq deleted' /\ deleted' \subseteq Jobs
           /\ adrift \subseteq adrift' /\ adrift' \subseteq Jobs
           /\ js \subseteq deleted' \cup adrift'
           /\ used' \in [retries : 0 .. MaxRetries, faults : 0 .. MaxFaults]
<1>1. deleted \subseteq Jobs /\ adrift \subseteq Jobs
      /\ used \in [retries : 0 .. MaxRetries, faults : 0 .. MaxFaults]
  BY DEF RestTyped
<1>2. CASE deleted' = deleted \cup js /\ UNCHANGED <<used, adrift>>
  BY <1>1, <1>2
<1>3. CASE Fault /\ adrift' = adrift \cup js /\ UNCHANGED deleted
  BY <1>1, <1>3, FaultFacts
<1>4. QED
  BY <1>2, <1>3 DEF SendDelete

LEMMA CancelOpInv ==
    ASSUME Inv, NEW o \in Ops, CancelOp(o)
    PROVE  Inv'
<1> DEFINE stops(i) == /\ OpOf[i] = o /\ item[i].shown
                       /\ item[i].st \in {"queued", "submitting", "needs-decision"}
           it == [i \in Items |-> IF stops(i) THEN [item[i] EXCEPT !.st = "cancelled", !.dec = "none"]
                                  ELSE item[i]]
           ops == [op EXCEPT ![o] = [@ EXCEPT !.cancelled = TRUE]]
           s == [Now EXCEPT !.op = ops, !.item = it]
           os == {o}
           js == {item[i].job : i \in {k \in ItemsOf(o) : item[k].shown /\ item[k].st = "running"}} \ {NoJob}
<1>1. /\ Keep(Settle(s, os)) /\ SendDelete(js)
      /\ UNCHANGED <<row, trimmed, owner, stored, armed, poll, trashing, raced>>
  BY NowFacts DEF CancelOp
<1>2. \A i \in Items : item[i] \in ItemRecord
  BY NowFacts
<1>3. js \in SUBSET Jobs
  BY <1>2 DEF ItemsOf, ItemRecord
<1>4. /\ it \in [Items -> ItemRecord]
      /\ \A i \in Items : stops(i) => it[i].st = "cancelled" /\ it[i].job = item[i].job
      /\ \A i \in Items : ~stops(i) => it[i] = item[i]
  <2>1. ASSUME NEW r \in ItemRecord
        PROVE  /\ [r EXCEPT !.st = "cancelled", !.dec = "none"] \in ItemRecord
               /\ [r EXCEPT !.st = "cancelled", !.dec = "none"].st = "cancelled"
               /\ [r EXCEPT !.st = "cancelled", !.dec = "none"].job = r.job
    BY DEF ItemRecord, ItemState
  <2> HIDE DEF stops
  <2>2. QED
    BY <1>2, <2>1
<1>5. /\ ops \in [Ops -> OpRecord]
      /\ \A x \in Ops : /\ ops[x].listed = op[x].listed /\ ops[x].ended = op[x].ended
                        /\ ops[x].phase = op[x].phase
  <2>1. op \in [Ops -> OpRecord]
    BY NowFacts
  <2>2. [op[o] EXCEPT !.cancelled = TRUE] \in OpRecord
    BY <2>1 DEF OpRecord
  <2>3. QED
    BY <2>1, <2>2 DEF OpRecord
<1> HIDE DEF it, ops
<1>6. /\ s \in TabState /\ s.item = it /\ s.op = ops /\ s.queue = queue /\ s.acc = accepted
      /\ s.post = post /\ s.blocked = blocked /\ s.timer = timer
  BY <1>4, <1>5, NowFacts DEF TabState
<1> HIDE DEF s
<1>7. Numbered(s, owner) /\ SlotsUsed(s) <= Parallel
  BY <1>6, NowFacts DEF Good, Sound, Numbered, SlotsUsed
<1>8. Phased(s)
  BY <1>5, <1>6, NowFacts DEF Good, Sound, Phased
<1>9. ASSUME NEW k \in Items \ raced
      PROVE  /\ Stays(Now, s, owner, owner, trashing, trashing, k) \/ Fits(s, owner, trashing, k)
             /\ s.op[OpOf[k]].listed = TRUE /\ s.op[OpOf[k]].ended = TRUE /\ s.item[k].shown = TRUE =>
                   s.item[k].st # "needs-decision"
             /\ OpOf[k] \notin os => OverAt(s.op[OpOf[k]], s.item[k])
  <2>1. /\ Followed(s, owner, k) = Followed(Now, owner, k)
        /\ s.op[OpOf[k]].listed = op[OpOf[k]].listed /\ s.op[OpOf[k]].ended = op[OpOf[k]].ended
    BY <1>5, <1>6, NowFacts, OpOfItem DEF Followed
  <2>2. CASE ~stops(k)
    <3>1. s.item[k] = item[k]
      BY <2>2, <1>4, <1>6
    <3>2. Stays(Now, s, owner, owner, trashing, trashing, k)
      BY <2>1, <3>1, <1>6, NowFacts DEF Stays
    <3>3. OverAt(s.op[OpOf[k]], s.item[k])
      BY <2>1, <3>1, <1>6, NowFacts DEF Good, Over, OverAt
    <3>4. QED
      BY <3>2, <3>3 DEF OverAt
  <2>3. CASE stops(k)
    <3>1. Fits(Now, owner, trashing, k)
      BY NowFacts, SoundFits DEF Good
    <3>2. item[k].st \in {"queued", "submitting", "needs-decision"} /\ OpOf[k] = o
      BY <2>3
    <3>3. item[k].job = NoJob /\ Followed(Now, owner, k) = {} /\ Once(queue, k) /\ OneFlight(post, k)
          /\ PlacedAt(item[k], op[OpOf[k]].listed = TRUE, In(queue, k), Flying(post, k), k \in trashing,
                      Followed(Now, owner, k))
      BY <3>1, <3>2, NowFacts DEF Fits, ToldAt, PlacedAt
    <3>4. it[k].st = "cancelled" /\ it[k].job = NoJob
      BY <2>3, <3>3, <1>4
    <3>5. PlacedAt(it[k], s.op[OpOf[k]].listed = TRUE, In(queue, k), Flying(post, k), k \in trashing,
                   Followed(s, owner, k))
      BY <2>1, <3>3, <3>4 DEF PlacedAt
    <3>6. Fits(s, owner, trashing, k)
      BY <3>3, <3>4, <3>5, <1>6 DEF Fits, ToldAt
    <3>7. QED
      BY <3>2, <3>4, <3>6, <1>6
  <2>4. QED
    BY <2>2, <2>3
<1>10. Unsettled(s, os, owner, trashing, raced)
  BY <1>6, <1>7, <1>8, <1>9, NowFacts, HandlerUnsettled
<1>11. raced = {} => Busy(s)
  BY <1>6, NowFacts DEF Inv, Busy, SlotsUsed
<1>12. Lands(s)
  BY <1>1, <1>10, <1>11, SettleKeepLands
<1>13. /\ deleted \subseteq deleted' /\ deleted' \subseteq Jobs
       /\ adrift \subseteq adrift' /\ adrift' \subseteq Jobs
       /\ used' \in [retries : 0 .. MaxRetries, faults : 0 .. MaxFaults]
  BY <1>1, <1>3, NowFacts, SendDeleteFacts
<1>14. Polls' /\ stored' = s.acc /\ (s.acc # {} => armed' \/ \E p \in Slots : poll'[p].at # "idle")
  BY <1>1, <1>6 DEF Inv, Polls, Polled
<1>15. QED
  <2> HIDE DEF js
  <2>1. QED
    BY <1>1, <1>6, <1>12, <1>13, <1>14, NowFacts, EndInv DEF RestTyped

\* An operation that is over follows no job, but for an item a late answer hit.
LEMMA OverFollows ==
    ASSUME Inv, NEW i \in Items \ raced, op[OpOf[i]].listed = TRUE, op[OpOf[i]].ended = TRUE
    PROVE  Followed(Now, owner, i) = {}
<1>1. Fits(Now, owner, trashing, i) /\ OverAt(op[OpOf[i]], item[i])
  BY NowFacts, SoundFits DEF Good, Over
<1>2. QED
  BY <1>1, NowFacts DEF Fits, PlacedAt, OverAt, Active

LEMMA ForgetInv ==
    ASSUME Inv, NEW o \in Ops, op[o].listed = TRUE, op[o].ended = TRUE, Forget(o)
    PROVE  Inv'
<1> DEFINE mine == {j \in Jobs : owner[j] # NoItem /\ OpOf[owner[j]] = o}
           ops == [op EXCEPT ![o] = [@ EXCEPT !.listed = FALSE, !.clear = FALSE]]
           acc == accepted \ mine
           s == [Now EXCEPT !.op = ops, !.acc = acc]
<1>1. /\ Keep(s) /\ stored' = stored \ mine
      /\ UNCHANGED <<lunad, owner, armed, poll, trashing, used, raced, adrift>>
  <2>1. [Now EXCEPT !.op[o].listed = FALSE, !.op[o].clear = FALSE, !.acc = @ \ mine] = s
    BY NowFacts
  <2>2. QED
    BY <2>1 DEF Forget
<1>2. /\ ops \in [Ops -> OpRecord] /\ ops[o].listed = FALSE
      /\ \A x \in Ops \ {o} : ops[x] = op[x]
  <2>1. op \in [Ops -> OpRecord]
    BY NowFacts
  <2>2. [op[o] EXCEPT !.listed = FALSE, !.clear = FALSE] \in OpRecord
    BY <2>1 DEF OpRecord
  <2>3. QED
    BY <2>1, <2>2 DEF OpRecord
<1>3. acc \subseteq accepted /\ accepted \subseteq Jobs
  BY NowFacts
<1>4. \A j \in accepted : owner[j] \in Items
  BY NowFacts DEF Good, Sound, Numbered, NumberAt
<1>5. \A i \in Items \ raced : OpOf[i] = o => Followed(Now, owner, i) = {}
  BY OverFollows
<1>6. \A j \in accepted \cap mine : owner[j] \in raced
  BY <1>4, <1>5, NowFacts DEF Followed
<1>7. \A i \in Items \ raced : {j \in acc : owner[j] = i} = Followed(Now, owner, i)
  <2> SUFFICES ASSUME NEW i \in Items \ raced
               PROVE  {j \in acc : owner[j] = i} = Followed(Now, owner, i)
    OBVIOUS
  <2>1. \A j \in accepted : owner[j] = i => j \notin mine
    BY <1>6
  <2> HIDE DEF mine
  <2>2. QED
    BY <2>1, NowFacts DEF Followed
<1> HIDE DEF ops, mine, acc
<1>8. /\ s \in TabState /\ s.item = item /\ s.op = ops /\ s.queue = queue /\ s.acc = acc
      /\ s.post = post /\ s.blocked = blocked /\ s.timer = timer
  BY <1>2, <1>3, NowFacts DEF TabState
<1> HIDE DEF s
<1>9. Numbered(s, owner)
  <2> SUFFICES ASSUME NEW j \in Jobs
               PROVE  NumberAt(row[j], s.post[j], j \in s.acc, owner[j])
    BY DEF Numbered
  <2>1. NumberAt(row[j], post[j], j \in accepted, owner[j])
    BY NowFacts DEF Good, Sound, Numbered
  <2>2. j \in acc => j \in accepted
    BY <1>3
  <2>3. QED
    BY <2>1, <2>2, <1>8 DEF NumberAt
<1>10. Phased(s)
  <2>1. Phased(Now)
    BY NowFacts DEF Good, Sound
  <2>2. \A x \in Ops : s.op[x] = op[x] \/ s.op[x].listed = FALSE
    BY <1>2, <1>8
  <2>3. QED
    BY <2>1, <2>2, NowFacts DEF Phased
<1>11. SlotsUsed(s) <= Parallel
  <2>1. Cardinality(acc) <= Cardinality(accepted) /\ Cardinality(acc) \in Nat
    BY <1>3, JobsFinite, FS_Subset
  <2>2. Cardinality(accepted) \in Nat /\ Cardinality(InFlight(post)) \in Nat
    BY NowFacts, SlotsNat
  <2>3. Cardinality(accepted) + Cardinality(InFlight(post)) <= Parallel
    BY NowFacts DEF Good, SlotsUsed
  <2>4. QED
    BY <2>1, <2>2, <2>3, <1>8 DEF SlotsUsed
<1>12. ASSUME NEW k \in Items \ raced
       PROVE  /\ Stays(Now, s, owner, owner, trashing, trashing, k) \/ Fits(s, owner, trashing, k)
              /\ OverAt(s.op[OpOf[k]], s.item[k])
  <2>1. Followed(s, owner, k) = Followed(Now, owner, k)
    BY <1>7, <1>8 DEF Followed
  <2>2. CASE OpOf[k] # o
    <3>1. s.op[OpOf[k]] = op[OpOf[k]]
      BY <2>2, <1>2, <1>8, OpOfItem
    <3>2. Stays(Now, s, owner, owner, trashing, trashing, k)
      BY <2>1, <3>1, <1>8, NowFacts DEF Stays
    <3>3. OverAt(s.op[OpOf[k]], s.item[k])
      BY <3>1, <1>8, NowFacts DEF Good, Over
    <3>4. QED
      BY <3>2, <3>3
  <2>3. CASE OpOf[k] = o
    <3>1. Fits(Now, owner, trashing, k)
      BY NowFacts, SoundFits DEF Good
    <3>2. Followed(s, owner, k) = {} /\ Followed(Now, owner, k) = {}
      BY <2>1, <2>3, <1>5
    <3>3. s.op[OpOf[k]].listed = FALSE
      BY <2>3, <1>2, <1>8
    <3>4. Once(queue, k) /\ OneFlight(post, k) /\ ToldAt(item[k], row)
          /\ PlacedAt(item[k], op[OpOf[k]].listed = TRUE, In(queue, k), Flying(post, k), k \in trashing, {})
      BY <3>1, <3>2, NowFacts DEF Fits
    <3>5. PlacedAt(item[k], s.op[OpOf[k]].listed = TRUE, In(queue, k), Flying(post, k), k \in trashing, {})
      BY <3>3, <3>4 DEF PlacedAt
    <3>6. Fits(s, owner, trashing, k)
      BY <3>2, <3>4, <3>5, <1>8 DEF Fits
    <3>7. QED
      BY <3>3, <3>6 DEF OverAt
  <2>4. QED
    BY <2>2, <2>3
<1>13. Good(s, owner, trashing, raced)
  BY <1>8, <1>9, <1>10, <1>11, <1>12, NowFacts, HandlerGood
<1>14. raced = {} => Busy(s)
  <2>1. raced = {} => acc = accepted
    BY <1>6 DEF acc
  <2>2. QED
    BY <2>1, <1>8, NowFacts DEF Inv, Busy, SlotsUsed
<1>15. Lands(s)
  BY <1>1, <1>13, <1>14, KeepLands DEF lunad
<1>16. stored' = s.acc /\ s.acc \subseteq Jobs
  BY <1>1, <1>3, <1>8 DEF Inv, acc
<1>17. Polls' /\ (s.acc # {} => armed' \/ \E p \in Slots : poll'[p].at # "idle")
  BY <1>1, <1>3, <1>8 DEF Inv, Polls, Polled, lunad
<1>18. \A j \in Jobs : /\ row[j] = "running" /\ j \notin adrift' /\ owner'[j] \notin raced'
                       /\ j \in accepted \/ post[j].at = "accepted"
                       => j \in s.acc \cup deleted' \/ s.post[j].at = "accepted"
  BY <1>1, <1>6, <1>8 DEF acc
<1>19. QED
  BY <1>1, <1>15, <1>16, <1>17, <1>18, NowFacts, EndInv DEF RestTyped, lunad

LEMMA DismissInv ==
    ASSUME Inv, NEW o \in Ops, Dismiss(o)
    PROVE  Inv'
<1>1. op[o] \in OpRecord /\ op[o].listed /\ op[o].phase \notin {"preparing", "running", "waiting"}
  BY NowFacts DEF Dismiss
<1>2. op[o].listed = TRUE /\ op[o].ended \in BOOLEAN
  BY <1>1 DEF OpRecord
<1>3. op[o].ended = TRUE
  BY <1>1, <1>2, NowFacts DEF Good, Sound, Phased
<1>4. QED
  BY <1>2, <1>3, ForgetInv DEF Dismiss

LEMMA AutoClearInv ==
    ASSUME Inv, NEW o \in Ops, AutoClear(o)
    PROVE  Inv'
<1>1. op[o] \in OpRecord /\ op[o].listed
  BY NowFacts DEF AutoClear
<1>2. op[o].listed = TRUE /\ (op[o].ended => op[o].ended = TRUE)
  BY <1>1 DEF OpRecord
<1>3. CASE op[o].ended /\ ~HasProblem(o)
  BY <1>2, <1>3, ForgetInv DEF AutoClear
<1>4. CASE ~(op[o].ended /\ ~HasProblem(o))
  <2> DEFINE ops == [op EXCEPT ![o] = [@ EXCEPT !.clear = FALSE]]
             s == [Now EXCEPT !.op = ops]
  <2>1. Keep(s) /\ UNCHANGED <<lunad, owner, stored, armed, poll, trashing, used, raced, adrift>>
    <3>1. [Now EXCEPT !.op[o].clear = FALSE] = s
      BY NowFacts
    <3>2. QED
      BY <1>4, <3>1 DEF AutoClear
  <2>2. /\ ops \in [Ops -> OpRecord]
        /\ \A x \in Ops : /\ ops[x].listed = op[x].listed /\ ops[x].ended = op[x].ended
                          /\ ops[x].phase = op[x].phase
    <3>1. op \in [Ops -> OpRecord]
      BY NowFacts
    <3>2. [op[o] EXCEPT !.clear = FALSE] \in OpRecord
      BY <3>1 DEF OpRecord
    <3>3. QED
      BY <3>1, <3>2 DEF OpRecord
  <2> HIDE DEF ops
  <2>3. /\ s \in TabState /\ s.item = item /\ s.op = ops /\ s.queue = queue /\ s.acc = accepted
        /\ s.post = post /\ s.blocked = blocked /\ s.timer = timer
    BY <2>2, NowFacts DEF TabState
  <2> HIDE DEF s
  <2>4. Good(s, owner, trashing, raced)
    <3>1. /\ s.item = Now.item /\ s.queue = Now.queue /\ s.acc = Now.acc /\ s.post = Now.post
          /\ \A x \in Ops : /\ s.op[x].listed = Now.op[x].listed /\ s.op[x].ended = Now.op[x].ended
                            /\ s.op[x].phase = Now.op[x].phase
      BY <2>2, <2>3, NowFacts
    <3>2. Good(Now, owner, trashing, raced)
      BY NowFacts
    <3>3. QED
      BY <2>3, <3>1, <3>2, SameGood
  <2>5. raced = {} => Busy(s)
    BY <2>3, NowFacts DEF Inv, Busy, SlotsUsed
  <2>6. Lands(s)
    BY <2>1, <2>4, <2>5, KeepLands DEF lunad
  <2>7. QED
    BY <2>1, <2>3, <2>6, NowFacts, QuietInv DEF RestTyped
<1>5. QED
  BY <1>3, <1>4

----------------------------------------------------------------------------
(* Decisions and answers to POSTs *)

LEMMA FitsGood ==
    ASSUME NEW n \in TabState, NEW ow, NEW tr, NEW rc,
           Numbered(n, ow), Phased(n), SlotsUsed(n) <= Parallel,
           \A i \in Items \ rc : Fits(n, ow, tr, i) /\ OverAt(n.op[OpOf[i]], n.item[i])
    PROVE  Good(n, ow, tr, rc)
BY DEF Good, Sound, Placed, Told, Over, Fits

LEMMA GoodUnsettled ==
    ASSUME NEW n, NEW os, NEW ow, NEW tr, NEW rc, Good(n, ow, tr, rc)
    PROVE  Unsettled(n, os, ow, tr, rc)
BY DEF Good, Unsettled, Over, OverAt

\* A handler has an item in hand: nothing works for it, and its operation is
\* not over.
InHand(s, ow, tr, i) ==
    /\ ~In(s.queue, i) /\ Once(s.queue, i) /\ ~Flying(s.post, i) /\ OneFlight(s.post, i)
    /\ i \notin tr /\ Followed(s, ow, i) = {} /\ s.item[i].job = NoJob /\ s.item[i].shown = TRUE
    /\ s.op[OpOf[i]].listed = TRUE => s.op[OpOf[i]].ended = FALSE

Handles(s, T, ow, tr, rc) ==
    /\ s \in TabState /\ Numbered(s, ow) /\ Phased(s) /\ SlotsUsed(s) <= Parallel
    /\ \A i \in (Items \ rc) \ T : Fits(s, ow, tr, i) /\ OverAt(s.op[OpOf[i]], s.item[i])
    /\ \A i \in T \ rc : InHand(s, ow, tr, i)

\* q names the items of T, each once.
Lists(q, T) == q \in Seq(Items) /\ (\A k : In(q, k) <=> k \in T) /\ \A k : Once(q, k)

\* The removals going on after an answer for the items of T.
TrashAfter(tr, T, c) == IF c = "replace" THEN tr \cup T ELSE tr

LEMMA AnsweredFacts ==
    ASSUME NEW r \in ItemRecord, NEW c \in {"replace", "keep_both", "skip", "confirm"}
    PROVE  /\ Answered(r, c) \in ItemRecord /\ Answered(r, c).job = r.job
           /\ Answered(r, c).shown = r.shown
           /\ c = "skip" => Answered(r, c).st = "skipped"
           /\ c = "replace" => Answered(r, c).st = "submitting"
           /\ Requeues(c) => Answered(r, c).st = "queued"
BY DEF Answered, ItemRecord, ItemState, Active, Requeues

\* An answer puts each item where its row says it is.
LEMMA DecidedGood ==
    ASSUME NEW s, NEW T \in SUBSET Items, NEW ow, NEW tr, NEW rc, Handles(s, T, ow, tr, rc),
           NEW q, Lists(q, T), NEW c \in {"replace", "keep_both", "skip", "confirm"}
    PROVE  LET n == Decided(s, T, q, c)
           IN  /\ Good(n, ow, TrashAfter(tr, T, c), rc) /\ n.acc = s.acc /\ n.post = s.post
               /\ ~Requeues(c) => n.queue = s.queue /\ n.blocked = s.blocked /\ n.timer = s.timer
<1> DEFINE it == [i \in Items |-> IF i \in T THEN Answered(s.item[i], c) ELSE s.item[i]]
           u == IF Requeues(c) THEN s.queue \o q ELSE s.queue
           n == [s EXCEPT !.item = it, !.queue = u]
           os == {OpOf[i] : i \in T}
           tr2 == TrashAfter(tr, T, c)
<1>0. q \in Seq(Items) /\ (\A k : In(q, k) <=> k \in T) /\ \A k : Once(q, k)
  BY DEF Lists
<1>1. s \in TabState
  BY DEF Handles
<1>2. /\ s.item \in [Items -> ItemRecord] /\ s.queue \in Seq(Items)
      /\ \A i \in Items : s.item[i] \in ItemRecord
  BY <1>1 DEF TabState
<1>3. Decided(s, T, q, c) = IF c = "skip" THEN Settle(n, os) ELSE n
  BY <1>1 DEF Decided, TabState
<1>4. /\ it \in [Items -> ItemRecord]
      /\ \A i \in T : it[i] = Answered(s.item[i], c)
      /\ \A i \in Items \ T : it[i] = s.item[i]
  BY <1>2, AnsweredFacts
<1>5. u \in Seq(Items)
  BY <1>0, <1>2, JoinFacts
<1>6. \A k : /\ Requeues(c) => (In(u, k) <=> In(s.queue, k) \/ k \in T)
             /\ ~Requeues(c) => u = s.queue
             /\ Once(s.queue, k) /\ k \notin T => Once(u, k)
             /\ ~In(s.queue, k) /\ Once(s.queue, k) => Once(u, k)
  BY <1>0, <1>2, JoinFacts
<1> HIDE DEF it, u
<1>7. /\ n \in TabState /\ n.item = it /\ n.queue = u /\ n.op = s.op /\ n.acc = s.acc /\ n.post = s.post
      /\ n.blocked = s.blocked /\ n.timer = s.timer
  BY <1>1, <1>4, <1>5 DEF TabState
<1> HIDE DEF n
<1>8. Numbered(n, ow) /\ Phased(n) /\ SlotsUsed(n) <= Parallel
  BY <1>7 DEF Handles, Numbered, Phased, SlotsUsed
<1>9. ASSUME NEW k \in Items \ rc
      PROVE  Fits(n, ow, tr2, k) /\ OverAt(n.op[OpOf[k]], n.item[k])
  <2>1. Followed(n, ow, k) = Followed(s, ow, k)
    BY <1>7 DEF Followed
  <2>2. CASE k \notin T
    <3>1. Fits(s, ow, tr, k) /\ OverAt(s.op[OpOf[k]], s.item[k])
      BY <2>2 DEF Handles
    <3>2. n.item[k] = s.item[k] /\ (In(u, k) <=> In(s.queue, k)) /\ (Once(s.queue, k) => Once(u, k))
      BY <2>2, <1>4, <1>6, <1>7
    <3>3. Stays(s, n, ow, ow, tr, tr2, k)
      BY <2>1, <2>2, <3>2, <1>7 DEF Stays, TrashAfter
    <3>4. QED
      BY <3>1, <3>2, <3>3, <1>7, StaysFits
  <2>3. CASE k \in T
    <3> DEFINE r == Answered(s.item[k], c)
               l == s.op[OpOf[k]].listed = TRUE
    <3>1. /\ ~In(s.queue, k) /\ Once(s.queue, k) /\ ~Flying(s.post, k) /\ OneFlight(s.post, k)
          /\ k \notin tr /\ Followed(s, ow, k) = {} /\ s.item[k].job = NoJob
          /\ s.item[k].shown = TRUE /\ (l => s.op[OpOf[k]].ended = FALSE)
      BY <2>3 DEF Handles, InHand
    <3>2. n.item[k] = r /\ s.item[k] \in ItemRecord
      BY <2>3, <1>2, <1>4, <1>7
    <3>3. /\ r.job = s.item[k].job /\ r.shown = s.item[k].shown
          /\ c = "skip" => r.st = "skipped"
          /\ c = "replace" => r.st = "submitting"
          /\ Requeues(c) => r.st = "queued"
      BY <3>2, AnsweredFacts
    <3> HIDE DEF r
    <3>4. Once(u, k) /\ (In(u, k) <=> Requeues(c)) /\ (k \in tr2 <=> c = "replace")
      BY <2>3, <3>1, <1>6 DEF TrashAfter
    <3>5. (c = "replace" => ~Requeues(c)) /\ (c = "skip" \/ c = "replace" \/ Requeues(c))
      BY DEF Requeues
    <3>6. PlacedAt(r, l, In(u, k), Flying(s.post, k), k \in tr2, {})
      BY <3>1, <3>3, <3>4, <3>5 DEF PlacedAt
    <3>7. Fits(n, ow, tr2, k)
      BY <2>1, <3>1, <3>2, <3>3, <3>4, <3>6, <1>7 DEF Fits, ToldAt
    <3>8. OverAt(n.op[OpOf[k]], n.item[k])
      BY <3>1, <3>2, <3>3, <1>7 DEF OverAt
    <3>9. QED
      BY <3>7, <3>8
  <2>4. QED
    BY <2>2, <2>3
<1> HIDE DEF tr2
<1>10. Good(n, ow, tr2, rc)
  BY <1>7, <1>8, <1>9, FitsGood
<1>11. CASE c = "skip"
  <2> HIDE DEF os
  <2> DEFINE m == Settle(n, os)
  <2>1. Good(m, ow, tr2, rc)
    BY <1>10, GoodUnsettled, SettleGood
  <2>2. /\ m.acc = n.acc /\ m.post = n.post /\ m.queue = n.queue /\ m.blocked = n.blocked
        /\ m.timer = n.timer
    BY <1>7, SettleFacts
  <2>3. Decided(s, T, q, c) = m /\ ~Requeues(c)
    BY <1>3, <1>11 DEF Requeues, os
  <2> HIDE DEF m
  <2>4. QED
    BY <2>1, <2>2, <2>3, <1>6, <1>7 DEF tr2
<1>12. CASE c # "skip"
  <2>1. Decided(s, T, q, c) = n
    BY <1>3, <1>12
  <2>2. QED
    BY <2>1, <1>6, <1>7, <1>10 DEF tr2
<1>13. QED
  BY <1>11, <1>12

\* An answer for one item.
LEMMA DecidedAlone ==
    ASSUME NEW s, NEW i \in Items, NEW ow, NEW tr, NEW rc, Handles(s, {i}, ow, tr, rc),
           NEW c \in {"replace", "keep_both", "skip", "confirm"}
    PROVE  LET n == Decided(s, {i}, <<i>>, c)
           IN  Good(n, ow, TrashAfter(tr, {i}, c), rc) /\ n.acc = s.acc /\ n.post = s.post
<1> DEFINE T == {i}
           q == <<i>>
           n == Decided(s, T, q, c)
<1>1. T \in SUBSET Items /\ Handles(s, T, ow, tr, rc)
  OBVIOUS
<1>2. Lists(q, T)
  BY SingleFacts DEF Lists
<1> HIDE DEF T, q, n
<1>3. /\ Good(Decided(s, T, q, c), ow, TrashAfter(tr, T, c), rc)
      /\ Decided(s, T, q, c).acc = s.acc /\ Decided(s, T, q, c).post = s.post
  BY <1>1, <1>2, DecidedGood
<1>4. QED
  BY <1>3 DEF T, q

\* An item that asks is in the person's hands.
LEMMA AsksInHand ==
    ASSUME Inv, NEW i \in Items \ raced, item[i].st = "needs-decision", item[i].shown = TRUE
    PROVE  InHand(Now, owner, trashing, i)
<1>1. /\ ~In(queue, i) /\ Once(queue, i) /\ ~Flying(post, i) /\ OneFlight(post, i)
      /\ i \notin trashing /\ Followed(Now, owner, i) = {}
  BY RestingFacts
<1>2. item[i].job = NoJob
  BY NowFacts DEF Good, Sound, Told, ToldAt
<1>3. OverAt(op[OpOf[i]], item[i]) /\ op[OpOf[i]] \in OpRecord
  BY NowFacts, OpOfItem DEF Good, Over
<1>4. QED
  BY <1>1, <1>2, <1>3, NowFacts DEF InHand, OverAt, OpRecord

\* What decide and decideAll both end with.
LEMMA DecisionInv ==
    ASSUME Inv, NEW T \in SUBSET Items,
           \A i \in T : item[i].st = "needs-decision" /\ item[i].shown = TRUE,
           NEW ops \in [Ops -> OpRecord],
           \A x \in Ops : /\ ops[x].listed = op[x].listed /\ ops[x].ended = op[x].ended
                          /\ ops[x].phase = op[x].phase,
           NEW q, Lists(q, T), NEW c \in {"replace", "keep_both", "skip", "confirm"},
           IF Requeues(c) THEN Pump(Decided([Now EXCEPT !.op = ops], T, q, c))
           ELSE Keep(Decided([Now EXCEPT !.op = ops], T, q, c)),
           trashing' = TrashAfter(trashing, T, c),
           UNCHANGED <<lunad, owner, stored, armed, poll, used, raced, adrift>>
    PROVE  Inv'
<1> DEFINE s == [Now EXCEPT !.op = ops]
           n == Decided(s, T, q, c)
<1>1. /\ s \in TabState /\ s.item = item /\ s.op = ops /\ s.queue = queue /\ s.acc = accepted
      /\ s.post = post /\ s.blocked = blocked /\ s.timer = timer
  BY NowFacts DEF TabState
<1> HIDE DEF s
<1>2. Good(s, owner, trashing, raced)
  <2>1. /\ s.item = Now.item /\ s.queue = Now.queue /\ s.acc = Now.acc /\ s.post = Now.post
        /\ \A x \in Ops : /\ s.op[x].listed = Now.op[x].listed /\ s.op[x].ended = Now.op[x].ended
                          /\ s.op[x].phase = Now.op[x].phase
    BY <1>1, NowFacts
  <2>2. Good(Now, owner, trashing, raced)
    BY NowFacts
  <2>3. QED
    BY ONLY <1>1, <2>1, <2>2, SameGood
<1>a. \A i \in Items : s.op[OpOf[i]].listed = op[OpOf[i]].listed /\ s.op[OpOf[i]].ended = op[OpOf[i]].ended
  BY <1>1, OpOfItem
<1>3. ASSUME NEW i \in T \ raced
      PROVE  InHand(s, owner, trashing, i)
  <2>1. InHand(Now, owner, trashing, i)
    BY AsksInHand
  <2>2. Followed(s, owner, i) = Followed(Now, owner, i)
    BY <1>1, NowFacts DEF Followed
  <2>3. i \in Items
    OBVIOUS
  <2>4. QED
    BY <2>1, <2>2, <2>3, <1>1, <1>a, NowFacts DEF InHand
<1>4. ASSUME NEW i \in Items \ raced
      PROVE  Fits(s, owner, trashing, i) /\ OverAt(s.op[OpOf[i]], s.item[i])
  BY <1>2, SoundFits DEF Good, Over
<1>5. Handles(s, T, owner, trashing, raced)
  BY <1>1, <1>2, <1>3, <1>4 DEF Handles, Good, Sound
<1>6. /\ Good(n, owner, trashing', raced) /\ n.acc = s.acc /\ n.post = s.post
      /\ ~Requeues(c) => n.queue = s.queue /\ n.blocked = s.blocked /\ n.timer = s.timer
  <2>1. Lists(q, T) /\ trashing' = TrashAfter(trashing, T, c)
    OBVIOUS
  <2>2. QED
    BY ONLY <1>5, <2>1, DecidedGood
<1>7. IF Requeues(c) THEN Pump(n) ELSE Keep(n)
  BY DEF s
<1> HIDE DEF n
<1>8. ~Requeues(c) /\ raced = {} => Busy(n)
  BY <1>1, <1>6, NowFacts DEF Inv, Busy, SlotsUsed
<1>9. Lands(n)
  <2>1. CASE Requeues(c)
    BY <2>1, <1>6, <1>7, PumpLands DEF lunad
  <2>2. CASE ~Requeues(c)
    BY <2>2, <1>6, <1>7, <1>8, KeepLands DEF lunad
  <2>3. QED
    BY <2>1, <2>2
<1>10. trashing' \subseteq Items
  BY NowFacts DEF RestTyped, TrashAfter
<1>11. QED
  BY <1>1, <1>6, <1>9, <1>10, NowFacts, QuietInv DEF RestTyped

LEMMA DecideInv ==
    ASSUME Inv, NEW i \in Items, NEW c \in {"replace", "keep_both", "skip", "confirm"}, Decide(i, c)
    PROVE  Inv'
<1>1. [Now EXCEPT !.op = op] = Now
  BY NowFacts DEF TabState
<1>2. /\ item[i].st = "needs-decision"
      /\ IF Requeues(c) THEN Pump(Decided(Now, {i}, <<i>>, c)) ELSE Keep(Decided(Now, {i}, <<i>>, c))
      /\ trashing' = IF c = "replace" THEN trashing \cup {i} ELSE trashing
      /\ UNCHANGED <<lunad, owner, stored, armed, poll, used, raced, adrift>>
  BY DEF Decide
<1>3. <<i>> \in Seq(Items) /\ (\A k : In(<<i>>, k) <=> k \in {i}) /\ \A k : Once(<<i>>, k)
  BY SingleFacts
<1> DEFINE T == {i}
           q == <<i>>
<1>4. op \in [Ops -> OpRecord]
  BY NowFacts
<1>5. T \in SUBSET Items /\ \A k \in T : item[k].st = "needs-decision" /\ item[k].shown = TRUE
  BY <1>2, NowFacts DEF ItemRecord, Decide, Here
<1> HIDE DEF T, q
<1>6. /\ Lists(q, T) /\ trashing' = TrashAfter(trashing, T, c)
      /\ IF Requeues(c) THEN Pump(Decided([Now EXCEPT !.op = op], T, q, c))
         ELSE Keep(Decided([Now EXCEPT !.op = op], T, q, c))
  BY <1>1, <1>2, <1>3 DEF T, q, Lists, TrashAfter
<1>7. QED
  BY <1>2, <1>4, <1>5, <1>6, DecisionInv

LEMMA DecideAllInv ==
    ASSUME Inv, NEW o \in Ops, NEW c \in {"replace", "keep_both", "skip"}, DecideAll(o, c)
    PROVE  Inv'
<1> DEFINE T == {i \in ItemsOf(o) : /\ Here(i) /\ item[i].st = "needs-decision"
                                    /\ AllowedForAll(item[i].dec, c)}
           ops == [op EXCEPT ![o] = [@ EXCEPT !.policy = c]]
           s == [Now EXCEPT !.op = ops]
<1>1. [Now EXCEPT !.op[o].policy = c] = s
  BY NowFacts
<1>2. PICK q \in InOrder(T) : IF Requeues(c) THEN Pump(Decided(s, T, q, c))
                              ELSE Keep(Decided(s, T, q, c))
  BY <1>1 DEF DecideAll
<1>3. T \in SUBSET Items /\ \A k \in T : item[k].st = "needs-decision" /\ item[k].shown = TRUE
  BY NowFacts DEF ItemsOf, Here, ItemRecord
<1>4. trashing' = TrashAfter(trashing, T, c)
  BY DEF DecideAll, TrashAfter
<1>5. UNCHANGED <<lunad, owner, stored, armed, poll, used, raced, adrift>>
  BY DEF DecideAll
<1> HIDE DEF T
<1>6. Lists(q, T)
  BY <1>3, OrderFacts DEF Lists
<1>7. /\ ops \in [Ops -> OpRecord]
      /\ \A x \in Ops : /\ ops[x].listed = op[x].listed /\ ops[x].ended = op[x].ended
                        /\ ops[x].phase = op[x].phase
  <2>1. op \in [Ops -> OpRecord]
    BY NowFacts
  <2>2. [op[o] EXCEPT !.policy = c] \in OpRecord
    BY <2>1 DEF OpRecord
  <2>3. QED
    BY <2>1, <2>2 DEF OpRecord
<1> HIDE DEF ops
<1>8. QED
  BY <1>2, <1>3, <1>4, <1>5, <1>6, <1>7, DecisionInv

\* The answer to a POST is here: its slot is free again.
LEMMA BackFacts ==
    ASSUME Inv, NEW j \in Jobs, post[j].at \notin {"free", "sent"}
    PROVE  LET i  == post[j].item
               ps == [post EXCEPT ![j] = NoPost]
           IN  /\ i \in Items /\ j \notin accepted
               /\ ps \in [Jobs -> Post] /\ ps[j] = NoPost /\ \A k \in Jobs \ {j} : ps[k] = post[k]
               /\ Cardinality(accepted) + Cardinality(InFlight(ps)) + 1 <= Parallel
               /\ Cardinality(InFlight(ps)) \in Nat
               /\ \A k \in Items \ {i} : /\ Flying(ps, k) <=> Flying(post, k)
                                         /\ OneFlight(post, k) => OneFlight(ps, k)
               /\ i \notin raced =>
                     /\ ~Flying(ps, i) /\ OneFlight(ps, i) /\ ~In(queue, i) /\ Once(queue, i)
                     /\ i \notin trashing /\ Followed(Now, owner, i) = {}
                     /\ item[i].job = NoJob /\ item[i].st \in {"submitting", "cancelled"}
                     /\ item[i].st = "submitting" => item[i].shown = TRUE
                     /\ item[i].st = "submitting" /\ op[OpOf[i]].listed = TRUE =>
                           op[OpOf[i]].ended = FALSE
<1> DEFINE i == post[j].item
           ps == [post EXCEPT ![j] = NoPost]
           F == InFlight(post)
           G == InFlight(ps)
<1>1. NumberAt(row[j], post[j], j \in accepted, owner[j])
  BY NowFacts DEF Good, Sound, Numbered
<1>2. i \in Items /\ j \notin accepted /\ post[j].live = TRUE /\ post[j].at # "free"
  BY <1>1 DEF NumberAt
<1>3. ps \in [Jobs -> Post] /\ ps[j] = NoPost /\ \A k \in Jobs \ {j} : ps[k] = post[k]
  <2>1. NoPost \in Post
    BY DEF NoPost, Post, NoItem
  <2>2. QED
    BY <2>1, NowFacts
<1> HIDE DEF ps
<1>4. NoPost.at = "free"
  BY DEF NoPost
<1>5. F \in SUBSET Jobs /\ G = F \ {j} /\ j \in F
  BY <1>2, <1>3, <1>4 DEF InFlight
<1>6. Cardinality(G) = Cardinality(F) - 1 /\ Cardinality(F) \in Nat /\ Cardinality(G) \in Nat
  <2> HIDE DEF F, G
  <2>1. IsFiniteSet(F) /\ Cardinality(F) \in Nat
    BY <1>5, JobsFinite
  <2>2. Cardinality(F \ {j}) = Cardinality(F) - 1
    BY <1>5, <2>1, FS_RemoveElement
  <2>3. Cardinality(G) \in Nat
    BY <1>5, JobsFinite
  <2>4. QED
    BY <1>5, <2>1, <2>2, <2>3
<1>7. Cardinality(accepted) \in Nat /\ Cardinality(accepted) + Cardinality(F) <= Parallel
  BY NowFacts, SlotsNat DEF Good, SlotsUsed
<1>8. Cardinality(accepted) + Cardinality(G) + 1 <= Parallel
  BY <1>6, <1>7
<1>9. \A k \in Items \ {i} : /\ Flying(ps, k) <=> Flying(post, k)
                             /\ OneFlight(post, k) => OneFlight(ps, k)
  BY <1>3, <1>5 DEF Flying, OneFlight
<1>10. ASSUME i \notin raced
       PROVE  /\ ~Flying(ps, i) /\ OneFlight(ps, i) /\ ~In(queue, i) /\ Once(queue, i)
              /\ i \notin trashing /\ Followed(Now, owner, i) = {}
              /\ item[i].job = NoJob /\ item[i].st \in {"submitting", "cancelled"}
              /\ item[i].st = "submitting" => item[i].shown = TRUE
              /\ item[i].st = "submitting" /\ op[OpOf[i]].listed = TRUE => op[OpOf[i]].ended = FALSE
  <2>1. Fits(Now, owner, trashing, i) /\ OverAt(op[OpOf[i]], item[i]) /\ op[OpOf[i]].ended \in BOOLEAN
    <3>1. op[OpOf[i]] \in OpRecord
      BY <1>2, NowFacts, OpOfItem
    <3>2. QED
      BY <1>2, <1>10, <3>1, NowFacts, SoundFits DEF Good, Over, OpRecord
  <2>2. /\ Once(queue, i) /\ OneFlight(post, i)
        /\ PlacedAt(item[i], op[OpOf[i]].listed = TRUE, In(queue, i), Flying(post, i), i \in trashing,
                    Followed(Now, owner, i))
    BY <2>1, NowFacts DEF Fits
  <2>3. Flying(post, i)
    BY <1>5 DEF Flying
  <2>4. ~Flying(ps, i) /\ OneFlight(ps, i)
    BY <2>2, <1>3, <1>5 DEF Flying, OneFlight
  <2> HIDE DEF i
  <2>5. QED
    BY <2>1, <2>2, <2>3, <2>4 DEF PlacedAt, OverAt, Active
<1>11. QED
  BY <1>2, <1>3, <1>6, <1>8, <1>9, <1>10 DEF ps

LEMMA BackHandles ==
    ASSUME Inv, NEW j \in Jobs, post[j].at \notin {"free", "sent"}
    PROVE  LET i == post[j].item
               s == [Now EXCEPT !.post = [post EXCEPT ![j] = NoPost]]
           IN  /\ s \in TabState /\ s.item = item /\ s.op = op /\ s.queue = queue /\ s.acc = accepted
               /\ s.blocked = blocked /\ s.timer = timer /\ s.post = [post EXCEPT ![j] = NoPost]
               /\ item[i].st # "cancelled" => Handles(s, {i}, owner, trashing, raced)
               /\ item[i].st = "cancelled" \/ op[OpOf[i]].listed = FALSE =>
                     Good(s, owner, trashing, raced)
<1> DEFINE i == post[j].item
           ps == [post EXCEPT ![j] = NoPost]
           s == [Now EXCEPT !.post = ps]
<1>1. /\ i \in Items /\ j \notin accepted
      /\ ps \in [Jobs -> Post] /\ ps[j] = NoPost /\ \A k \in Jobs \ {j} : ps[k] = post[k]
      /\ Cardinality(accepted) + Cardinality(InFlight(ps)) + 1 <= Parallel
      /\ Cardinality(InFlight(ps)) \in Nat
      /\ \A k \in Items \ {i} : /\ Flying(ps, k) <=> Flying(post, k)
                                /\ OneFlight(post, k) => OneFlight(ps, k)
      /\ i \notin raced =>
            /\ ~Flying(ps, i) /\ OneFlight(ps, i) /\ ~In(queue, i) /\ Once(queue, i)
            /\ i \notin trashing /\ Followed(Now, owner, i) = {}
            /\ item[i].job = NoJob /\ item[i].st \in {"submitting", "cancelled"}
            /\ item[i].st = "submitting" => item[i].shown = TRUE
            /\ item[i].st = "submitting" /\ op[OpOf[i]].listed = TRUE => op[OpOf[i]].ended = FALSE
  BY BackFacts
<1> HIDE DEF i, ps
<1>2. /\ s \in TabState /\ s.item = item /\ s.op = op /\ s.queue = queue /\ s.acc = accepted
      /\ s.blocked = blocked /\ s.timer = timer /\ s.post = ps
  BY <1>1, NowFacts DEF TabState
<1> HIDE DEF s
<1>3. Numbered(s, owner)
  <2> SUFFICES ASSUME NEW k \in Jobs
               PROVE  NumberAt(row[k], ps[k], k \in accepted, owner[k])
    BY <1>2 DEF Numbered
  <2>1. NumberAt(row[k], post[k], k \in accepted, owner[k])
    BY NowFacts DEF Good, Sound, Numbered
  <2>2. CASE k = j
    BY <2>2, <1>1 DEF NumberAt, NoPost
  <2>3. CASE k # j
    BY <2>1, <2>3, <1>1
  <2>4. QED
    BY <2>2, <2>3
<1>4. Phased(s) /\ SlotsUsed(s) <= Parallel
  <2>1. Cardinality(accepted) \in Nat
    BY NowFacts, SlotsNat
  <2>2. SlotsUsed(s) <= Parallel
    BY <2>1, <1>1, <1>2 DEF SlotsUsed
  <2>3. QED
    BY <2>2, <1>2, NowFacts DEF Good, Sound, Phased
<1>5. ASSUME NEW k \in (Items \ raced) \ {i}
      PROVE  Fits(s, owner, trashing, k) /\ OverAt(s.op[OpOf[k]], s.item[k])
  <2>1. Followed(s, owner, k) = Followed(Now, owner, k)
    BY <1>2, NowFacts DEF Followed
  <2>2. Stays(Now, s, owner, owner, trashing, trashing, k)
    BY <2>1, <1>1, <1>2, NowFacts DEF Stays
  <2>3. Fits(Now, owner, trashing, k)
    BY NowFacts, SoundFits DEF Good
  <2>4. OverAt(s.op[OpOf[k]], s.item[k])
    BY <1>2, NowFacts DEF Good, Over
  <2>5. QED
    BY <2>2, <2>3, <2>4, StaysFits
<1>6. Followed(s, owner, i) = Followed(Now, owner, i)
  BY <1>2, NowFacts DEF Followed
<1>7. ASSUME item[i].st # "cancelled"
      PROVE  Handles(s, {i}, owner, trashing, raced)
  <2>1. i \notin raced => InHand(s, owner, trashing, i)
    BY <1>1, <1>2, <1>6, <1>7 DEF InHand
  <2>2. QED
    BY <2>1, <1>2, <1>3, <1>4, <1>5 DEF Handles
<1>8. ASSUME item[i].st = "cancelled" \/ op[OpOf[i]].listed = FALSE
      PROVE  Good(s, owner, trashing, raced)
  <2>1. ASSUME i \notin raced
        PROVE  Fits(s, owner, trashing, i) /\ OverAt(s.op[OpOf[i]], s.item[i])
    <3>1. PlacedAt(item[i], op[OpOf[i]].listed = TRUE, In(queue, i), Flying(ps, i), i \in trashing, {})
      BY <2>1, <1>1, <1>8 DEF PlacedAt
    <3>2. Fits(s, owner, trashing, i)
      BY <2>1, <3>1, <1>1, <1>2, <1>6 DEF Fits, ToldAt
    <3>3. OverAt(s.op[OpOf[i]], s.item[i])
      BY <2>1, <1>1, <1>2, NowFacts DEF Good, Over
    <3>4. QED
      BY <3>2, <3>3
  <2>2. QED
    BY <2>1, <1>2, <1>3, <1>4, <1>5, FitsGood
<1>9. QED
  BY <1>2, <1>7, <1>8 DEF s, i, ps

\* The item in hand asks, fails, or goes back to the head of the queue.
LEMMA PutGood ==
    ASSUME NEW s, NEW i \in Items, NEW ow, NEW tr, NEW rc, Handles(s, {i}, ow, tr, rc),
           NEW n \in TabState, \A k \in Items \ {i} : n.item[k] = s.item[k],
           n.item[i].job = s.item[i].job, n.item[i].shown = s.item[i].shown,
           n.op = s.op, n.acc = s.acc, n.post = s.post,
           \/ n.item[i].st \in {"needs-decision", "failed"} /\ n.queue = s.queue
           \/ n.item[i].st = "submitting" /\ n.queue = <<i>> \o s.queue
    PROVE  Good(n, ow, tr, rc)
<1> DEFINE r == n.item[i]
           u == n.queue
<1>1. s \in TabState
  BY DEF Handles
<1>2. s.item \in [Items -> ItemRecord] /\ s.queue \in Seq(Items)
  BY <1>1 DEF TabState
<1>3. n.item[i] = r /\ \A k \in Items \ {i} : n.item[k] = s.item[k]
  OBVIOUS
<1>4. /\ r.st \in {"needs-decision", "failed"} /\ u = s.queue =>
            \A k : (In(u, k) <=> In(s.queue, k)) /\ (Once(s.queue, k) => Once(u, k))
      /\ r.st = "submitting" /\ u = <<i>> \o s.queue =>
            \A k : /\ In(u, k) <=> In(s.queue, k) \/ k = i
                   /\ Once(s.queue, k) /\ (k # i \/ ~In(s.queue, k)) => Once(u, k)
  <2>1. <<i>> \in Seq(Items) /\ (\A k : In(<<i>>, k) <=> k = i) /\ \A k : Once(<<i>>, k)
    BY SingleFacts
  <2> DEFINE q == <<i>>
  <2> HIDE DEF q
  <2>2. ASSUME NEW k
        PROVE  /\ In(q \o s.queue, k) <=> In(s.queue, k) \/ k = i
               /\ Once(s.queue, k) /\ (k # i \/ ~In(s.queue, k)) => Once(q \o s.queue, k)
    BY <2>1, <1>2, JoinFacts DEF q
  <2>3. QED
    BY <2>2 DEF q
<1>5. Numbered(n, ow) /\ Phased(n) /\ SlotsUsed(n) <= Parallel
  BY DEF Handles, Numbered, Phased, SlotsUsed
<1>6. ASSUME NEW k \in Items \ rc
      PROVE  Fits(n, ow, tr, k) /\ OverAt(n.op[OpOf[k]], n.item[k])
  <2>1. Followed(n, ow, k) = Followed(s, ow, k)
    BY DEF Followed
  <2>2. CASE k # i
    <3>1. Fits(s, ow, tr, k) /\ OverAt(s.op[OpOf[k]], s.item[k])
      BY <2>2 DEF Handles
    <3>2. n.item[k] = s.item[k] /\ (In(u, k) <=> In(s.queue, k)) /\ (Once(s.queue, k) => Once(u, k))
      BY <2>2, <1>3, <1>4
    <3>3. Stays(s, n, ow, ow, tr, tr, k)
      BY <2>1, <2>2, <3>2 DEF Stays
    <3>4. QED
      BY <3>1, <3>2, <3>3, StaysFits
  <2>3. CASE k = i
    <3> DEFINE l == s.op[OpOf[i]].listed = TRUE
    <3>1. /\ ~In(s.queue, i) /\ Once(s.queue, i) /\ ~Flying(s.post, i) /\ OneFlight(s.post, i)
          /\ i \notin tr /\ Followed(s, ow, i) = {} /\ s.item[i].job = NoJob
          /\ s.item[i].shown = TRUE /\ (l => s.op[OpOf[i]].ended = FALSE)
      BY <2>3 DEF Handles, InHand
    <3>2. /\ Once(u, i) /\ r.job = NoJob /\ r.shown = TRUE
          /\ In(u, i) <=> r.st = "submitting"
          /\ r.st \in {"submitting", "needs-decision", "failed"}
      BY <3>1, <1>4
    <3>3. PlacedAt(r, l, In(u, i), Flying(s.post, i), i \in tr, {})
      BY <3>1, <3>2 DEF PlacedAt
    <3>4. Fits(n, ow, tr, i)
      BY <2>1, <2>3, <3>1, <3>2, <3>3, <1>3 DEF Fits, ToldAt
    <3>5. OverAt(n.op[OpOf[i]], n.item[i])
      BY <3>1 DEF OverAt
    <3>6. QED
      BY <2>3, <3>4, <3>5
  <2>4. QED
    BY <2>2, <2>3
<1>7. QED
  BY <1>5, <1>6, FitsGood

LEMMA PostFailedInv ==
    ASSUME Inv, NEW j \in Jobs, PostFailed(j)
    PROVE  Inv'
<1> DEFINE i == post[j].item
           a == post[j].at
           ps == [post EXCEPT ![j] = NoPost]
           s == [Now EXCEPT !.post = ps]
           n == IF item[i].st = "cancelled" THEN s ELSE SubmitError(s, i, a)
           os == {OpOf[i]}
           tr2 == IF /\ item[i].st # "cancelled"
                     /\ PolicyAnswers(OpOf[i], a) /\ op[OpOf[i]].policy = "replace"
                  THEN trashing \cup {i} ELSE trashing
<1>1. /\ a \notin {"free", "sent", "accepted"} /\ Pump(Settle(n, os)) /\ trashing' = tr2
      /\ UNCHANGED <<lunad, owner, stored, armed, poll, used, raced, adrift>>
  <2>1. [Now EXCEPT !.post[j] = NoPost] = s
    BY NowFacts
  <2>2. QED
    BY <2>1 DEF PostFailed
<1>2. a \in {"lost", "full", "file", "dir", "broadens", "busy", "denied"}
  BY <1>1, NowFacts DEF Post
<1>3. i \in Items /\ ps \in [Jobs -> Post] /\ \A k \in Jobs \ {j} : ps[k] = post[k]
  BY <1>1, BackFacts
<1>4. /\ s \in TabState /\ s.item = item /\ s.op = op /\ s.queue = queue /\ s.acc = accepted
      /\ s.blocked = blocked /\ s.timer = timer /\ s.post = ps
      /\ item[i].st # "cancelled" => Handles(s, {i}, owner, trashing, raced)
      /\ item[i].st = "cancelled" => Good(s, owner, trashing, raced)
  BY <1>1, BackHandles
<1>5. item[i] \in ItemRecord /\ op[OpOf[i]] \in OpRecord
  BY <1>3, NowFacts, OpOfItem
<1> HIDE DEF i, a, ps, s, os
<1>6. Good(n, owner, tr2, raced) /\ n.acc = accepted /\ n.post = ps
  <2>1. CASE item[i].st = "cancelled"
    <3>1. n = s /\ tr2 = trashing
      BY <2>1
    <3>2. QED
      BY <2>1, <3>1, <1>4
  <2>2. CASE item[i].st # "cancelled"
    <3>1. n = SubmitError(s, i, a) /\ Handles(s, {i}, owner, trashing, raced)
      BY <2>2, <1>4
    <3>2. CASE a = "full"
      <4> DEFINE r == [item[i] EXCEPT !.st = "submitting"]
                 u == <<i>> \o queue
                 m == [s EXCEPT !.item = [item EXCEPT ![i] = r], !.queue = u, !.blocked = TRUE,
                                !.timer = TRUE]
      <4>1. n = m
        <5>1. SubmitError(s, i, a) = [s EXCEPT !.item[i].st = "submitting", !.queue = <<i>> \o @,
                                               !.blocked = TRUE, !.timer = TRUE]
          BY <3>2 DEF SubmitError
        <5>2. QED
          BY <3>1, <5>1, <1>3, <1>4, NowFacts
      <4>2. r \in ItemRecord /\ r.job = item[i].job /\ r.shown = item[i].shown /\ r.st = "submitting"
        BY <1>5 DEF ItemRecord, ItemState, Active
      <4>3. u \in Seq(Items)
        BY <1>3, NowFacts, SingleFacts, JoinFacts
      <4>4. [item EXCEPT ![i] = r] \in [Items -> ItemRecord]
        BY <4>2, NowFacts
      <4> HIDE DEF r, u
      <4>5. /\ m \in TabState /\ m.item = [s.item EXCEPT ![i] = r] /\ m.queue = u
            /\ m.op = s.op /\ m.acc = s.acc /\ m.post = s.post
        BY <4>3, <4>4, <1>4 DEF TabState
      <4> HIDE DEF m
      <4>6. u = <<i>> \o s.queue
        BY <1>4 DEF u
      <4>7. Good(m, owner, trashing, raced)
        <5>1. m.item[i] = r /\ \A k \in Items \ {i} : m.item[k] = s.item[k]
          BY <4>5, <1>3, <1>4, NowFacts
        <5>2. m.item[i].job = s.item[i].job /\ m.item[i].shown = s.item[i].shown
              /\ m.item[i].st = "submitting" /\ m.queue = <<i>> \o s.queue
          BY <5>1, <4>2, <4>5, <4>6, <1>4
        <5>3. QED
          BY ONLY <3>1, <4>5, <5>1, <5>2, <1>3, PutGood
      <4>8. tr2 = trashing
        BY <3>2 DEF PolicyAnswers
      <4>9. QED
        BY <4>1, <4>5, <4>7, <4>8, <1>4
    <3>3. CASE a \in {"file", "dir", "broadens"} /\ PolicyAnswers(OpOf[i], a)
      <4> DEFINE c == op[OpOf[i]].policy
                 d == Decided(s, {i}, <<i>>, c)
      <4>1. n = d
        BY <3>1, <3>3 DEF SubmitError
      <4>2. c \in {"replace", "keep_both", "skip", "confirm"}
        BY <3>3 DEF PolicyAnswers, Options
      <4>3. tr2 = TrashAfter(trashing, {i}, c)
        BY <2>2, <3>3 DEF TrashAfter
      <4> HIDE DEF c, n, tr2
      <4>4. Good(d, owner, TrashAfter(trashing, {i}, c), raced) /\ d.acc = s.acc /\ d.post = s.post
        BY ONLY <3>1, <4>2, <1>3, DecidedAlone
      <4> HIDE DEF d
      <4>5. QED
        BY <4>1, <4>3, <4>4, <1>4
    <3>4. CASE ~(a = "full" \/ (a \in {"file", "dir", "broadens"} /\ PolicyAnswers(OpOf[i], a)))
      <4> DEFINE r == IF a \in {"file", "dir", "broadens"}
                      THEN [item[i] EXCEPT !.st = "needs-decision", !.dec = a]
                      ELSE [item[i] EXCEPT !.st = "failed", !.again = (a # "denied"),
                                           !.off = (a = "lost")]
                 m == [s EXCEPT !.item = [item EXCEPT ![i] = r]]
      <4>1. n = m
        <5>1. CASE a \in {"file", "dir", "broadens"}
          <6>1. SubmitError(s, i, a) = [s EXCEPT !.item[i].st = "needs-decision", !.item[i].dec = a]
            BY <3>4, <5>1 DEF SubmitError
          <6>2. r = [item[i] EXCEPT !.st = "needs-decision", !.dec = a]
            BY <5>1
          <6> HIDE DEF r
          <6>3. QED
            BY <3>1, <6>1, <6>2, <1>3, <1>4, NowFacts
        <5>2. CASE a \in {"lost", "busy", "denied"}
          <6>1. SubmitError(s, i, a) =
                   [s EXCEPT !.item[i] = [@ EXCEPT !.st = "failed", !.again = (a # "denied"),
                                                   !.off = (a = "lost")]]
            BY <5>2 DEF SubmitError
          <6>2. QED
            BY <3>1, <5>2, <6>1, <1>3, <1>4, NowFacts
        <5>3. QED
          BY <3>4, <5>1, <5>2, <1>2
      <4>2. r \in ItemRecord /\ r.job = item[i].job /\ r.shown = item[i].shown
            /\ r.st \in {"needs-decision", "failed"}
        BY <1>5 DEF ItemRecord, ItemState
      <4>3. [item EXCEPT ![i] = r] \in [Items -> ItemRecord]
        BY <4>2, NowFacts
      <4> HIDE DEF r
      <4>4. /\ m \in TabState /\ m.item = [s.item EXCEPT ![i] = r] /\ m.queue = s.queue
            /\ m.op = s.op /\ m.acc = s.acc /\ m.post = s.post
        BY <4>3, <1>4 DEF TabState
      <4> HIDE DEF m
      <4>5. Good(m, owner, trashing, raced)
        <5>1. m.item[i] = r /\ \A k \in Items \ {i} : m.item[k] = s.item[k]
          BY <4>4, <1>3, <1>4, NowFacts
        <5>2. m.item[i].job = s.item[i].job /\ m.item[i].shown = s.item[i].shown
              /\ m.item[i].st \in {"needs-decision", "failed"}
          BY <5>1, <4>2, <1>4
        <5>3. QED
          BY ONLY <3>1, <4>4, <5>1, <5>2, <1>3, PutGood
      <4>6. tr2 = trashing
        BY <3>4, <1>2 DEF PolicyAnswers
      <4>7. QED
        BY <4>1, <4>4, <4>5, <4>6, <1>4
    <3>5. QED
      BY <3>2, <3>3, <3>4
  <2>3. QED
    BY <2>1, <2>2
<1>7. tr2 \subseteq Items
  BY <1>3, NowFacts DEF RestTyped
<1> HIDE DEF n, tr2
<1>8. Unsettled(n, os, owner, tr2, raced)
  BY <1>6, GoodUnsettled
<1>9. Lands(n)
  BY <1>1, <1>8, SettlePumpLands DEF lunad
<1>10. \A k \in Jobs : post[k].at = "accepted" => n.post[k].at = "accepted"
  BY <1>1, <1>3, <1>6 DEF a
<1>11. QED
  BY <1>1, <1>6, <1>7, <1>9, <1>10, NowFacts, QuietInv DEF RestTyped

LEMMA PostAcceptedInv ==
    ASSUME Inv, NEW j \in Jobs, PostAccepted(j)
    PROVE  Inv'
<1> DEFINE i == post[j].item
           ps == [post EXCEPT ![j] = NoPost]
           s == [Now EXCEPT !.post = ps]
           os == {OpOf[i]}
<1>1. post[j].at = "accepted" /\ UNCHANGED <<row, trimmed, poll, trashing, raced>>
  BY DEF PostAccepted
<1>2. /\ i \in Items /\ j \notin accepted
      /\ ps \in [Jobs -> Post] /\ ps[j] = NoPost /\ \A k \in Jobs \ {j} : ps[k] = post[k]
      /\ Cardinality(accepted) + Cardinality(InFlight(ps)) + 1 <= Parallel
      /\ Cardinality(InFlight(ps)) \in Nat
  BY <1>1, BackFacts
<1>3. /\ s \in TabState /\ s.item = item /\ s.op = op /\ s.queue = queue /\ s.acc = accepted
      /\ s.blocked = blocked /\ s.timer = timer /\ s.post = ps
      /\ item[i].st # "cancelled" => Handles(s, {i}, owner, trashing, raced)
      /\ item[i].st = "cancelled" \/ op[OpOf[i]].listed = FALSE => Good(s, owner, trashing, raced)
  BY <1>1, BackHandles
<1>4. [Now EXCEPT !.post[j] = NoPost] = s
  BY NowFacts
<1>5. op[OpOf[i]].listed \in BOOLEAN /\ item[i] \in ItemRecord
  BY <1>2, NowFacts, OpOfItem DEF OpRecord
<1>6. row[j] # "none"
  BY <1>1, NowFacts DEF Good, Sound, Numbered, NumberAt
<1>7. CASE ~op[OpOf[i]].listed \/ item[i].st = "cancelled"
  <2>1. SendDelete({j}) /\ Pump(Settle(s, os)) /\ UNCHANGED <<owner, stored, armed>>
    BY <1>4, <1>7 DEF PostAccepted
  <2>2. Good(s, owner, trashing, raced)
    BY <1>3, <1>5, <1>7
  <2> HIDE DEF s, ps, i, os
  <2>3. Unsettled(s, os, owner, trashing, raced)
    BY <2>2, GoodUnsettled
  <2>4. Lands(s)
    BY <2>1, <2>3, <1>1, SettlePumpLands
  <2>5. /\ deleted \subseteq deleted' /\ deleted' \subseteq Jobs
        /\ adrift \subseteq adrift' /\ adrift' \subseteq Jobs
        /\ {j} \subseteq deleted' \cup adrift'
        /\ used' \in [retries : 0 .. MaxRetries, faults : 0 .. MaxFaults]
    BY <2>1, NowFacts, SendDeleteFacts
  <2>6. Polls' /\ stored' = s.acc /\ (s.acc # {} => armed' \/ \E p \in Slots : poll'[p].at # "idle")
    BY <2>1, <1>1, <1>3 DEF Inv, Polls, Polled
  <2>7. \A k \in Jobs : /\ row[k] = "running" /\ k \notin adrift' /\ owner'[k] \notin raced'
                        /\ k \in accepted \/ post[k].at = "accepted"
                        => k \in s.acc \cup deleted' \/ s.post[k].at = "accepted"
    BY <2>5, <1>2, <1>3
  <2>8. QED
    BY <2>1, <2>4, <2>5, <2>6, <2>7, <1>1, <1>3, NowFacts, EndInv DEF RestTyped
<1>8. CASE ~(~op[OpOf[i]].listed \/ item[i].st = "cancelled")
  <2> DEFINE r == [item[i] EXCEPT !.st = "running", !.job = j, !.dec = "none"]
             it == [item EXCEPT ![i] = r]
             acc == accepted \cup {j}
             n == [s EXCEPT !.item = it, !.acc = acc]
             ow == [owner EXCEPT ![j] = i]
  <2>1. /\ Pump(Settle(n, os)) /\ owner' = ow /\ stored' = stored \cup {j} /\ armed' = TRUE
        /\ UNCHANGED <<deleted, used, adrift>>
    <3>1. [s EXCEPT !.item[i] = [@ EXCEPT !.st = "running", !.job = j, !.dec = "none"],
                    !.acc = @ \cup {j}] = n
      BY <1>3
    <3>2. QED
      BY <3>1, <1>4, <1>8 DEF PostAccepted
  <2>2. r \in ItemRecord /\ r.st = "running" /\ r.job = j /\ r.shown = item[i].shown
    BY <1>5 DEF ItemRecord, ItemState, Active
  <2>3. it \in [Items -> ItemRecord] /\ it[i] = r /\ \A k \in Items \ {i} : it[k] = item[k]
    BY <2>2, <1>2, NowFacts
  <2>4. acc \in SUBSET Jobs
    BY NowFacts
  <2>5. /\ ow \in [Jobs -> Items \cup {NoItem}] /\ ow[j] = i /\ \A k \in Jobs \ {j} : ow[k] = owner[k]
    BY <1>2, NowFacts DEF RestTyped
  <2>6. Handles(s, {i}, owner, trashing, raced) /\ op[OpOf[i]].listed = TRUE
    BY <1>3, <1>5, <1>8
  <2> HIDE DEF r, it, ow, s, ps, i, os
  <2>7. /\ n \in TabState /\ n.item = it /\ n.op = op /\ n.queue = queue /\ n.acc = acc /\ n.post = ps
    BY <2>3, <2>4, <1>3 DEF TabState
  <2> HIDE DEF n
  <2>8. Numbered(n, ow)
    <3> SUFFICES ASSUME NEW k \in Jobs
                 PROVE  NumberAt(row[k], ps[k], k \in acc, ow[k])
      BY <2>7 DEF Numbered
    <3>1. NumberAt(row[k], ps[k], k \in accepted, owner[k])
      BY <2>6, <1>3 DEF Handles, Numbered
    <3>2. CASE k = j
      BY <3>2, <2>5, <1>2, <1>6 DEF NumberAt, NoPost
    <3>3. CASE k # j
      <4>1. (k \in acc) = (k \in accepted) /\ ow[k] = owner[k]
        BY <3>3, <2>5
      <4>2. QED
        BY <3>1, <4>1
    <3>4. QED
      BY <3>2, <3>3
  <2>9. Phased(n)
    BY <2>7, NowFacts DEF Good, Sound, Phased
  <2>10. SlotsUsed(n) <= Parallel
    <3>1. IsFiniteSet(accepted) /\ Cardinality(accepted) \in Nat
      BY NowFacts, JobsFinite
    <3>2. Cardinality(acc) = Cardinality(accepted) + 1
      BY <3>1, <1>2, FS_AddElement
    <3>3. QED
      BY <3>1, <3>2, <2>7, <1>2 DEF SlotsUsed
  <2>11. \A k \in Items \ {i} : Followed(n, ow, k) = Followed(s, owner, k)
    BY <2>5, <2>7, <1>2, <1>3, NowFacts DEF Followed
  <2>12. ASSUME NEW k \in Items \ raced
         PROVE  /\ Fits(n, ow, trashing, k)
                /\ OverAt(n.op[OpOf[k]], n.item[k])
    <3>1. CASE k # i
      <4>1. Fits(s, owner, trashing, k) /\ OverAt(s.op[OpOf[k]], s.item[k])
        BY <3>1, <2>6 DEF Handles
      <4>2. Stays(s, n, owner, ow, trashing, trashing, k)
        BY <3>1, <2>3, <2>7, <2>11, <1>3 DEF Stays
      <4>3. QED
        BY <3>1, <4>1, <4>2, <2>3, <2>7, <1>3, StaysFits
    <3>2. CASE k = i
      <4>1. /\ ~In(queue, i) /\ Once(queue, i) /\ ~Flying(ps, i) /\ OneFlight(ps, i)
            /\ i \notin trashing /\ Followed(s, owner, i) = {} /\ item[i].shown = TRUE
            /\ op[OpOf[i]].ended = FALSE
        BY <3>2, <2>6, <1>3 DEF Handles, InHand
      <4>2. Followed(n, ow, i) = {j}
        <5>1. \A m \in accepted : owner[m] # i
          BY <4>1, <1>3 DEF Followed
        <5>2. QED
          BY <5>1, <2>5, <2>7, <1>2, NowFacts DEF Followed
      <4>3. PlacedAt(r, op[OpOf[i]].listed = TRUE, In(queue, i), Flying(ps, i), i \in trashing, {j})
        BY <4>1, <2>2, <2>6 DEF PlacedAt
      <4>4. ToldAt(r, row)
        BY <2>2 DEF ToldAt
      <4>5. Fits(n, ow, trashing, i)
        BY <4>1, <4>2, <4>3, <4>4, <2>3, <2>7 DEF Fits
      <4>6. OverAt(n.op[OpOf[i]], n.item[i])
        BY <4>1, <2>7 DEF OverAt
      <4>7. QED
        BY <3>2, <4>5, <4>6
    <3>3. QED
      BY <3>1, <3>2
  <2>13. Good(n, ow, trashing, raced)
    BY <2>7, <2>8, <2>9, <2>10, <2>12, FitsGood
  <2>14. Unsettled(n, os, ow, trashing, raced)
    BY <2>13, GoodUnsettled
  <2>15. Lands(n)
    BY <2>1, <2>14, <1>1, SettlePumpLands
  <2>16. Polls'
    <3> SUFFICES ASSUME NEW p \in Slots
                 PROVE  /\ \A k \in poll[p].gets : ow[k] \in Items
                        /\ \A k \in Jobs : poll[p].list[k] \in Lunad!EndState => row[k] = poll[p].list[k]
      BY <2>1, <1>1 DEF Polls
    <3>1. poll[p] \in Poll
      BY NowFacts DEF RestTyped
    <3>2. /\ \A k \in poll[p].gets : owner[k] \in Items
          /\ \A k \in Jobs : poll[p].list[k] \in Lunad!EndState => row[k] = poll[p].list[k]
      BY DEF Inv, Polls
    <3>3. \A k \in poll[p].gets : k \in Jobs
      BY <3>1 DEF Poll
    <3>4. QED
      BY <3>2, <3>3, <2>5, <1>2
  <2>17. stored' = n.acc /\ n.acc \subseteq Jobs
    BY <2>1, <2>4, <2>7 DEF Inv
  <2>18. \A k \in Jobs : /\ row[k] = "running" /\ k \notin adrift' /\ owner'[k] \notin raced'
                         /\ k \in accepted \/ post[k].at = "accepted"
                         => k \in n.acc \cup deleted' \/ n.post[k].at = "accepted"
    BY <2>7, <1>2
  <2>19. \A k \in Jobs : post[k].at # "accepted" => owner'[k] = owner[k]
    BY <2>1, <2>5, <1>1
  <2>20. QED
    BY <2>1, <2>5, <2>15, <2>16, <2>17, <2>18, <2>19, <1>1, NowFacts, EndInv DEF RestTyped
<1>9. QED
  BY <1>7, <1>8

----------------------------------------------------------------------------
(* lunad and the network *)

\* lunad's steps, and the messages, move nothing of the tab: they may change a
\* row that has not settled and the answer a POST carries.
LEMMA LunadStep ==
    ASSUME Inv, UNCHANGED <<tab, deleted, raced>>,
           row' \in [Jobs -> Lunad!RowState],
           \A j \in Jobs : row[j] \in Lunad!EndState => row'[j] = row[j],
           post' \in [Jobs -> Post], InFlight(post') = InFlight(post),
           \A j \in InFlight(post) : post'[j].item = post[j].item,
           \A j \in Jobs : NumberAt(row'[j], post'[j], j \in accepted, owner[j]),
           trimmed' \subseteq Jobs, Trimmed', adrift' \subseteq Jobs,
           used' \in [retries : 0 .. MaxRetries, faults : 0 .. MaxFaults],
           NoUnseenJob'
    PROVE  Inv'
<1>1. UNCHANGED <<item, op, queue, blocked, timer, accepted, owner, stored, armed, poll, trashing>>
  BY DEF tab
<1> DEFINE s == Now
           n == Now'
<1>2. /\ s.item = item /\ s.op = op /\ s.queue = queue /\ s.acc = accepted
      /\ s.post = post /\ s.blocked = blocked /\ s.timer = timer
      /\ Good(s, owner, trashing, raced) /\ s \in TabState
  BY NowFacts
<1>3. /\ n.item = item /\ n.op = op /\ n.queue = queue /\ n.acc = accepted
      /\ n.post = post' /\ n.blocked = blocked /\ n.timer = timer
  BY <1>1 DEF Now
<1>4. n \in TabState
  BY <1>1, NowFacts DEF Now, TabState
<1> HIDE DEF s, n
<1>5. \A i \in Items : /\ Flying(n.post, i) <=> Flying(s.post, i)
                       /\ OneFlight(s.post, i) => OneFlight(n.post, i)
  BY <1>2, <1>3 DEF Flying, OneFlight
<1>6. Numbered(Now, owner)'
  BY <1>1, <1>3 DEF Numbered, n
<1>7. Placed(n, owner, trashing, raced)
  <2> SUFFICES ASSUME NEW i \in Items \ raced
               PROVE  /\ Once(n.queue, i) /\ OneFlight(n.post, i)
                      /\ PlacedAt(n.item[i], n.op[OpOf[i]].listed = TRUE, In(n.queue, i),
                                  Flying(n.post, i), i \in trashing, Followed(n, owner, i))
    BY DEF Placed
  <2>1. Fits(s, owner, trashing, i)
    BY <1>2, SoundFits DEF Good
  <2>2. Followed(n, owner, i) = Followed(s, owner, i)
    BY <1>2, <1>3 DEF Followed
  <2>3. Stays(s, n, owner, owner, trashing, trashing, i)
    BY <2>2, <1>2, <1>3, <1>5 DEF Stays
  <2>4. Fits(n, owner, trashing, i)
    BY <2>1, <2>3, StaysFits
  <2>5. QED
    BY <2>4 DEF Fits
<1>8. Told(Now, raced)'
  <2> SUFFICES ASSUME NEW i \in Items \ raced
               PROVE  ToldAt(item[i], row')
    BY <1>1, <1>3 DEF Told, n
  <2>1. ToldAt(item[i], row) /\ item[i] \in ItemRecord
    BY <1>2, NowFacts DEF Good, Sound, Told
  <2>2. item[i].job \in Jobs \cup {NoJob}
    BY <2>1 DEF ItemRecord
  <2>3. QED
    BY <2>1, <2>2 DEF ToldAt, Lunad!EndState
<1>9. Phased(n) /\ Over(n, raced) /\ SlotsUsed(n) <= Parallel
  BY <1>2, <1>3 DEF Good, Sound, Phased, Over, SlotsUsed
<1>10. Good(Now, owner, trashing, raced)'
  BY <1>1, <1>4, <1>6, <1>7, <1>8, <1>9 DEF Good, Sound, n
<1>11. raced' = {} => Busy(Now)'
  <2>1. raced = {} => Busy(s)
    BY DEF Inv, s
  <2>2. Busy(s) => Busy(n)
    BY <1>2, <1>3 DEF Busy, SlotsUsed
  <2>3. QED
    BY <2>1, <2>2 DEF n
<1>12. RestTyped'
  BY <1>1, NowFacts DEF RestTyped
<1>13. (stored = accepted)' /\ Polled'
  BY <1>1 DEF Inv, Polled
<1>14. Polls'
  <2> SUFFICES ASSUME NEW p \in Slots
               PROVE  /\ \A j \in poll[p].gets : owner[j] \in Items
                      /\ \A j \in Jobs : poll[p].list[j] \in Lunad!EndState => row'[j] = poll[p].list[j]
    BY <1>1 DEF Polls
  <2>1. /\ \A j \in poll[p].gets : owner[j] \in Items
        /\ \A j \in Jobs : poll[p].list[j] \in Lunad!EndState => row[j] = poll[p].list[j]
    BY DEF Inv, Polls
  <2>2. QED
    BY <2>1
<1>15. QED
  BY <1>10, <1>11, <1>12, <1>13, <1>14 DEF Inv

LEMMA LunadAcceptsInv ==
    ASSUME Inv, NEW j \in Jobs, LunadAccepts(j)
    PROVE  Inv'
<1>1. /\ post[j].at = "sent" /\ row[j] = "none" /\ row' = [row EXCEPT ![j] = "running"]
      /\ post' = [post EXCEPT ![j] = IF @.live THEN [@ EXCEPT !.at = "accepted"] ELSE NoPost]
      /\ adrift' = IF post[j].live THEN adrift ELSE adrift \cup {j}
      /\ UNCHANGED <<trimmed, deleted, tab, used, raced>>
  BY DEF LunadAccepts, Lunad!Accept
<1>2. RestTyped /\ post \in [Jobs -> Post] /\ post[j] \in Post
  BY NowFacts
<1>3. row \in [Jobs -> Lunad!RowState] /\ adrift \subseteq Jobs /\ trimmed \subseteq Jobs
  BY <1>2 DEF RestTyped
<1>4. /\ row' \in [Jobs -> Lunad!RowState] /\ row'[j] = "running"
      /\ \A k \in Jobs \ {j} : row'[k] = row[k]
  BY <1>1, <1>3 DEF Lunad!RowState
<1> DEFINE x == IF post[j].live THEN [post[j] EXCEPT !.at = "accepted"] ELSE NoPost
<1>5. /\ x \in Post
      /\ post[j].live = TRUE => x.at = "accepted" /\ x.item = post[j].item /\ x.live = TRUE
      /\ post[j].live = FALSE => x.at = "free"
      /\ post[j].live \in BOOLEAN
  BY <1>2 DEF Post, NoPost, NoItem
<1>6. post'[j] = x /\ (\A k \in Jobs \ {j} : post'[k] = post[k]) /\ post' \in [Jobs -> Post]
  BY <1>1, <1>2, <1>5
<1> HIDE DEF x
<1>7. InFlight(post') = InFlight(post) /\ \A k \in InFlight(post) : post'[k].item = post[k].item
  BY <1>1, <1>5, <1>6 DEF InFlight
<1>8. \A k \in Jobs : NumberAt(row[k], post[k], k \in accepted, owner[k])
  BY NowFacts DEF Good, Sound, Numbered
<1>9. ASSUME NEW k \in Jobs
      PROVE  NumberAt(row'[k], post'[k], k \in accepted, owner[k])
  <2>1. CASE k = j
    BY <2>1, <1>1, <1>4, <1>5, <1>6, <1>8 DEF NumberAt
  <2>2. CASE k # j
    BY <2>2, <1>4, <1>6, <1>8
  <2>3. QED
    BY <2>1, <2>2
<1>10. \A k \in Jobs : row[k] \in Lunad!EndState => row'[k] = row[k]
  BY <1>1, <1>4 DEF Lunad!EndState
<1>11. Trimmed' /\ trimmed' \subseteq Jobs
  BY <1>1, <1>3, <1>10 DEF Inv, Trimmed
<1>12. NoUnseenJob'
  <2> SUFFICES ASSUME NEW k \in Jobs, row'[k] = "running", k \notin adrift', owner[k] \notin raced
               PROVE  k \in accepted \cup deleted \/ post'[k].at = "accepted"
    BY <1>1 DEF NoUnseenJob, tab
  <2>1. CASE k = j
    BY <2>1, <1>1, <1>5, <1>6
  <2>2. CASE k # j
    BY <2>2, <1>1, <1>4, <1>6 DEF Inv, NoUnseenJob
  <2>3. QED
    BY <2>1, <2>2
<1>13. adrift' \subseteq Jobs /\ used' \in [retries : 0 .. MaxRetries, faults : 0 .. MaxFaults]
  BY <1>1, <1>2, <1>3 DEF RestTyped
<1>14. QED
  BY <1>1, <1>4, <1>6, <1>7, <1>9, <1>10, <1>11, <1>12, <1>13, LunadStep

\* A POST on its way is refused, or it or its answer is lost.
LEMMA AnswerInv ==
    ASSUME Inv, NEW j \in Jobs, NEW x \in Post,
           post[j].at \in {"sent", "accepted"}, post' = [post EXCEPT ![j] = x],
           IF post[j].live = TRUE
           THEN /\ x.item = post[j].item /\ x.live = TRUE /\ x.at \notin {"free", "sent", "accepted"}
                /\ post[j].at = "accepted" => x.at = "lost"
           ELSE x.at = "free",
           adrift' = IF post[j].at = "accepted" THEN adrift \cup {j} ELSE adrift,
           used' \in [retries : 0 .. MaxRetries, faults : 0 .. MaxFaults],
           UNCHANGED <<lunad, tab, raced>>
    PROVE  Inv'
<1>1. post \in [Jobs -> Post] /\ RestTyped
  BY NowFacts
<1>2. row \in [Jobs -> Lunad!RowState] /\ adrift \subseteq Jobs /\ trimmed \subseteq Jobs
  BY <1>1 DEF RestTyped
<1>3. post'[j] = x /\ (\A k \in Jobs \ {j} : post'[k] = post[k]) /\ post' \in [Jobs -> Post]
  BY <1>1
<1>4. row' = row /\ trimmed' = trimmed /\ deleted' = deleted
  BY DEF lunad
<1>5. \A k \in Jobs : NumberAt(row[k], post[k], k \in accepted, owner[k])
  BY NowFacts DEF Good, Sound, Numbered
<1>6. post[j].live \in BOOLEAN
  BY <1>1 DEF Post
<1>7. InFlight(post') = InFlight(post) /\ \A k \in InFlight(post) : post'[k].item = post[k].item
  BY <1>3, <1>6 DEF InFlight
<1>8. ASSUME NEW k \in Jobs
      PROVE  NumberAt(row'[k], post'[k], k \in accepted, owner[k])
  <2>1. CASE k = j
    BY <2>1, <1>3, <1>4, <1>5 DEF NumberAt
  <2>2. CASE k # j
    BY <2>2, <1>3, <1>4, <1>5
  <2>3. QED
    BY <2>1, <2>2
<1>9. Trimmed' /\ trimmed' \subseteq Jobs /\ adrift' \subseteq Jobs
  BY <1>2, <1>4 DEF Inv, Trimmed
<1>10. NoUnseenJob'
  <2> SUFFICES ASSUME NEW k \in Jobs, row[k] = "running", k \notin adrift', owner[k] \notin raced
               PROVE  k \in accepted \cup deleted \/ post'[k].at = "accepted"
    BY <1>4 DEF NoUnseenJob, tab
  <2>1. k \in accepted \cup deleted \/ post[k].at = "accepted"
    BY DEF Inv, NoUnseenJob
  <2>2. QED
    BY <2>1, <1>3
<1>11. QED
  BY <1>2, <1>3, <1>4, <1>7, <1>8, <1>9, <1>10, LunadStep

LEMMA LunadRefusesInv ==
    ASSUME Inv, NEW j \in Jobs, NEW a \in Refusals, LunadRefuses(j, a)
    PROVE  Inv'
<1> DEFINE x == IF post[j].live THEN [post[j] EXCEPT !.at = a] ELSE NoPost
<1>1. /\ post[j].at = "sent" /\ post' = [post EXCEPT ![j] = x] /\ UNCHANGED <<lunad, tab, raced, adrift>>
      /\ IF a = "full" THEN Fault ELSE UNCHANGED used
  BY NowFacts DEF LunadRefuses
<1>2. post[j] \in Post /\ a \in {"full", "file", "dir", "broadens", "busy", "denied"} /\ RestTyped
  BY NowFacts
<1>3. /\ x \in Post /\ post[j].live \in BOOLEAN
      /\ post[j].live = TRUE => x.item = post[j].item /\ x.live = TRUE /\ x.at = a
      /\ post[j].live = FALSE => x.at = "free"
  BY <1>2 DEF Post, NoPost, NoItem
<1> HIDE DEF x
<1>4. used' \in [retries : 0 .. MaxRetries, faults : 0 .. MaxFaults]
  BY <1>1, <1>2, FaultFacts DEF RestTyped
<1>5. QED
  BY <1>1, <1>2, <1>3, <1>4, AnswerInv

LEMMA LoseInv ==
    ASSUME Inv, NEW j \in Jobs, Lose(j)
    PROVE  Inv'
<1> DEFINE x == [post[j] EXCEPT !.at = "lost"]
<1>1. /\ post[j].at \in {"sent", "accepted"} /\ post[j].live /\ Fault
      /\ post' = [post EXCEPT ![j] = x]
      /\ adrift' = IF post[j].at = "accepted" THEN adrift \cup {j} ELSE adrift
      /\ UNCHANGED <<lunad, tab, raced>>
  BY NowFacts DEF Lose
<1>2. post[j] \in Post /\ RestTyped
  BY NowFacts
<1>3. /\ x \in Post /\ post[j].live = TRUE /\ x.item = post[j].item /\ x.live = TRUE /\ x.at = "lost"
  BY <1>1, <1>2 DEF Post
<1> HIDE DEF x
<1>4. used' \in [retries : 0 .. MaxRetries, faults : 0 .. MaxFaults]
  BY <1>1, <1>2, FaultFacts
<1>5. QED
  BY <1>1, <1>3, <1>4, AnswerInv

\* Rows settle.
LEMMA RowsInv ==
    ASSUME Inv, row' \in [Jobs -> Lunad!RowState],
           \A j \in Jobs : row'[j] = row[j] \/ (row[j] = "running" /\ row'[j] \in Lunad!EndState),
           trimmed' \subseteq Jobs, Trimmed',
           used' \in [retries : 0 .. MaxRetries, faults : 0 .. MaxFaults],
           UNCHANGED <<deleted, tab, post, raced, adrift>>
    PROVE  Inv'
<1>1. \A k \in Jobs : NumberAt(row[k], post[k], k \in accepted, owner[k])
  BY NowFacts DEF Good, Sound, Numbered
<1>2. ASSUME NEW k \in Jobs
      PROVE  NumberAt(row'[k], post'[k], k \in accepted, owner[k])
  BY <1>1 DEF NumberAt, Lunad!EndState
<1>3. \A j \in Jobs : row[j] \in Lunad!EndState => row'[j] = row[j]
  BY DEF Lunad!EndState
<1>4. NoUnseenJob'
  <2> SUFFICES ASSUME NEW k \in Jobs, row'[k] = "running", k \notin adrift, owner[k] \notin raced
               PROVE  k \in accepted \cup deleted \/ post[k].at = "accepted"
    BY DEF NoUnseenJob, tab
  <2>1. row[k] = "running"
    BY DEF Lunad!EndState
  <2>2. QED
    BY <2>1 DEF Inv, NoUnseenJob
<1>5. post \in [Jobs -> Post] /\ adrift \subseteq Jobs
  BY NowFacts DEF RestTyped
<1>6. QED
  BY <1>2, <1>3, <1>4, <1>5, LunadStep

LEMMA LunadSettlesInv ==
    ASSUME Inv, NEW j \in Jobs, NEW e \in Lunad!EndState, LunadSettles(j, e)
    PROVE  Inv'
<1>1. /\ row[j] = "running" /\ row' = [row EXCEPT ![j] = e]
      /\ UNCHANGED <<trimmed, deleted, tab, post, used, raced, adrift>>
  BY DEF LunadSettles, Lunad!Settle
<1>2. row \in [Jobs -> Lunad!RowState] /\ trimmed \subseteq Jobs
      /\ used \in [retries : 0 .. MaxRetries, faults : 0 .. MaxFaults]
  BY NowFacts DEF RestTyped
<1>3. row' \in [Jobs -> Lunad!RowState]
      /\ \A k \in Jobs : row'[k] = row[k] \/ (row[k] = "running" /\ row'[k] \in Lunad!EndState)
  <2>1. e \in Lunad!RowState
    BY DEF Lunad!RowState
  <2>2. QED
    BY <2>1, <1>1, <1>2
<1>4. Trimmed'
  <2>1. \A k \in trimmed : row[k] \in Lunad!EndState
    BY DEF Inv, Trimmed
  <2>2. \A k \in trimmed : row'[k] \in Lunad!EndState
    BY <2>1, <1>2, <1>3
  <2>3. QED
    BY <2>2, <1>1 DEF Trimmed
<1>5. QED
  BY <1>1, <1>2, <1>3, <1>4, RowsInv

LEMMA LunadRestartsInv ==
    ASSUME Inv, NEW T \in SUBSET Jobs, LunadRestarts(T)
    PROVE  Inv'
<1>1. /\ Fault /\ T \subseteq {j \in Jobs : row[j] \in Lunad!EndState} /\ trimmed' = trimmed \cup T
      /\ row' = [j \in Jobs |-> IF row[j] = "running" THEN "interrupted" ELSE row[j]]
      /\ UNCHANGED <<deleted, tab, post, raced, adrift>>
  BY DEF LunadRestarts, Lunad!Interrupt
<1>2. row \in [Jobs -> Lunad!RowState] /\ trimmed \subseteq Jobs /\ RestTyped
  BY NowFacts DEF RestTyped
<1>3. row' \in [Jobs -> Lunad!RowState]
      /\ \A k \in Jobs : row'[k] = row[k] \/ (row[k] = "running" /\ row'[k] \in Lunad!EndState)
  <2>1. "interrupted" \in Lunad!RowState /\ "interrupted" \in Lunad!EndState
    BY DEF Lunad!RowState, Lunad!EndState
  <2>2. QED
    BY <2>1, <1>1, <1>2
<1>4. trimmed' \subseteq Jobs /\ Trimmed'
  <2>1. \A k \in trimmed : row[k] \in Lunad!EndState
    BY DEF Inv, Trimmed
  <2>2. \A k \in trimmed \cup T : k \in Jobs /\ row'[k] \in Lunad!EndState
    BY <2>1, <1>1, <1>2, <1>3
  <2>3. QED
    BY <2>2, <1>1 DEF Trimmed
<1>5. used' \in [retries : 0 .. MaxRetries, faults : 0 .. MaxFaults]
  BY <1>1, <1>2, FaultFacts
<1>6. QED
  BY <1>1, <1>3, <1>4, <1>5, RowsInv

----------------------------------------------------------------------------
(* Polling *)

LEMMA NoPollFacts ==
    /\ NoPoll \in Poll /\ NoPoll.at = "idle" /\ NoPoll.gets = {}
    /\ \A j \in Jobs : NoPoll.list[j] \notin Lunad!EndState
BY DEF NoPoll, Poll, Lunad!RowState, Lunad!EndState

\* Only the polls change.
LEMMA PollStep ==
    ASSUME Inv, poll' \in [Slots -> Poll], armed' \in BOOLEAN, Polls', Polled',
           used' \in [retries : 0 .. MaxRetries, faults : 0 .. MaxFaults],
           UNCHANGED <<lunad, item, op, queue, blocked, timer, accepted, owner, stored, trashing,
                       post, raced, adrift>>
    PROVE  Inv'
<1>1. Now' = Now /\ row' = row
  BY DEF Now, lunad
<1>2. Good(Now, owner, trashing, raced)' /\ (raced' = {} => Busy(Now)')
  BY <1>1, NowFacts DEF Inv, Busy, Good, Sound, Numbered, Told
<1>3. RestTyped'
  BY NowFacts DEF RestTyped, lunad
<1>4. (stored = accepted)' /\ Trimmed' /\ NoUnseenJob'
  BY DEF Inv, Trimmed, NoUnseenJob, lunad
<1>5. QED
  BY <1>2, <1>3, <1>4 DEF Inv

LEMMA PollTimerInv ==
    ASSUME Inv, NEW p \in Slots, PollTimer(p)
    PROVE  Inv'
<1> DEFINE x == [poll[p] EXCEPT !.at = "asked"]
<1>1. /\ armed' = FALSE /\ poll' = IF accepted = {} THEN poll ELSE [poll EXCEPT ![p] = x]
      /\ UNCHANGED <<lunad, item, op, queue, blocked, timer, accepted, owner, stored, trashing,
                     post, used, raced, adrift>>
  BY DEF PollTimer
<1>2. poll \in [Slots -> Poll] /\ used \in [retries : 0 .. MaxRetries, faults : 0 .. MaxFaults]
  BY NowFacts DEF RestTyped
<1>3. x \in Poll /\ x.at = "asked" /\ x.gets = poll[p].gets /\ x.list = poll[p].list
  BY <1>2 DEF Poll
<1> HIDE DEF x
<1>4. poll' \in [Slots -> Poll]
      /\ \A r \in Slots : poll'[r].gets = poll[r].gets /\ poll'[r].list = poll[r].list
  BY <1>1, <1>2, <1>3
<1>5. Polls'
  BY <1>1, <1>4 DEF Inv, Polls, lunad
<1>6. Polled'
  BY <1>1, <1>2, <1>3 DEF Polled
<1>7. QED
  BY <1>1, <1>2, <1>4, <1>5, <1>6, PollStep

\* A poll is replaced by one that is not idle, or by none with the timer armed.
LEMMA PollMoves ==
    ASSUME Inv, NEW p \in Slots, NEW x \in Poll, poll' = [poll EXCEPT ![p] = x],
           \A j \in x.gets : owner[j] \in Items,
           \A j \in Jobs : x.list[j] \in Lunad!EndState => row[j] = x.list[j],
           UNCHANGED <<row, owner>>
    PROVE  /\ poll' \in [Slots -> Poll] /\ Polls' /\ poll'[p] = x
           /\ \A r \in Slots \ {p} : poll'[r] = poll[r]
<1>1. poll \in [Slots -> Poll]
  BY NowFacts DEF RestTyped
<1>2. poll' \in [Slots -> Poll] /\ poll'[p] = x /\ \A r \in Slots \ {p} : poll'[r] = poll[r]
  BY <1>1
<1>3. Polls'
  <2> SUFFICES ASSUME NEW r \in Slots
               PROVE  /\ \A j \in poll'[r].gets : owner[j] \in Items
                      /\ \A j \in Jobs : poll'[r].list[j] \in Lunad!EndState => row[j] = poll'[r].list[j]
    BY DEF Polls
  <2>1. CASE r = p
    BY <2>1, <1>2
  <2>2. CASE r # p
    BY <2>2, <1>2 DEF Inv, Polls
  <2>3. QED
    BY <2>1, <2>2
<1>4. QED
  BY <1>2, <1>3

LEMMA LunadListsInv ==
    ASSUME Inv, NEW p \in Slots, LunadLists(p)
    PROVE  Inv'
<1> DEFINE out == [j \in Jobs |-> IF j \in accepted \/ post[j].at = "accepted"
                                  THEN IF j \in trimmed THEN "none" ELSE row[j]
                                  ELSE "none"]
           x == [poll[p] EXCEPT !.at = "listed", !.list = out]
<1>1. /\ poll[p].at = "asked" /\ poll' = [poll EXCEPT ![p] = x]
      /\ UNCHANGED <<lunad, item, op, queue, blocked, timer, accepted, owner, stored, armed, trashing,
                     post, used, raced, adrift>>
  BY DEF LunadLists
<1>2. poll[p] \in Poll /\ row \in [Jobs -> Lunad!RowState] /\ armed \in BOOLEAN
      /\ used \in [retries : 0 .. MaxRetries, faults : 0 .. MaxFaults]
  BY NowFacts DEF RestTyped
<1>3. out \in [Jobs -> Lunad!RowState] /\ \A j \in Jobs : out[j] \in Lunad!EndState => row[j] = out[j]
  BY <1>2 DEF Lunad!RowState, Lunad!EndState
<1> HIDE DEF out
<1>4. x \in Poll /\ x.at = "listed" /\ x.gets = poll[p].gets /\ x.list = out
  BY <1>2, <1>3 DEF Poll
<1> HIDE DEF x
<1>5. \A j \in x.gets : owner[j] \in Items
  BY <1>4 DEF Inv, Polls
<1>6. row' = row /\ owner' = owner
  BY <1>1 DEF lunad
<1>7. poll' \in [Slots -> Poll] /\ Polls' /\ poll'[p] = x
  BY <1>1, <1>3, <1>4, <1>5, <1>6, PollMoves
<1>8. Polled'
  BY <1>4, <1>7 DEF Polled
<1>9. QED
  BY <1>1, <1>2, <1>7, <1>8, PollStep

LEMMA PollFailsInv ==
    ASSUME Inv, NEW p \in Slots, PollFails(p)
    PROVE  Inv'
<1>1. /\ Fault /\ poll' = [poll EXCEPT ![p] = NoPoll] /\ armed' = (armed \/ accepted # {})
      /\ UNCHANGED <<lunad, item, op, queue, blocked, timer, accepted, owner, stored, trashing,
                     post, raced, adrift>>
  BY DEF PollFails
<1>2. used' \in [retries : 0 .. MaxRetries, faults : 0 .. MaxFaults] /\ armed' \in BOOLEAN
  BY <1>1, NowFacts, FaultFacts DEF RestTyped
<1>3. poll' \in [Slots -> Poll] /\ Polls'
  BY <1>1, NoPollFacts, PollMoves DEF lunad
<1>4. Polled'
  BY <1>1 DEF Polled
<1>5. QED
  BY <1>1, <1>2, <1>3, <1>4, PollStep

\* The end of the jobs js is reported: every item of theirs that no late answer
\* hits was running, its row now tells the end, and the slots are used again.
LEMMA ReportLands ==
    ASSUME Inv, NEW js \in SUBSET Jobs, NEW out, Report(js, out),
           \A j \in js : /\ owner[j] \in Items /\ row[j] \in Lunad!EndState
                         /\ out[j] \in {row[j], "gone"},
           UNCHANGED <<row, owner, trashing>>
    PROVE  /\ Lands([Now EXCEPT !.acc = accepted \ js])
           /\ raced' = raced \cup {owner[j] : j \in js \ accepted}
           /\ stored' = accepted \ js
<1>1. stored' = accepted \ js /\ raced' = raced \cup {owner[j] : j \in js \ accepted}
  BY DEF Report, Inv
<1> DEFINE acc == accepted \ js
           z == [Now EXCEPT !.acc = acc]
<1>2. z.acc = acc /\ z.post = post
  BY NowFacts DEF TabState
<1>3. CASE js = {}
  <2>1. Keep(Now) /\ raced' = raced /\ acc = accepted
    BY <1>1, <1>3 DEF Report
  <2>2. Lands(Now)
    BY <2>1, NowFacts, KeepLands DEF Inv
  <2> HIDE DEF z, acc
  <2>3. Lands(z)
    BY <2>1, <2>2, <1>2, NowFacts DEF Lands
  <2>4. QED
    BY <2>3, <1>1 DEF z, acc
<1>4. CASE js # {}
  <2> DEFINE last(i) == {j \in js : owner[j] = i}
             top(i) == CHOOSE k \in last(i) : \A m \in last(i) : m <= k
             end(r, a) == CASE a = "done"      -> [r EXCEPT !.st = "done"]
                            [] a = "cancelled" -> [r EXCEPT !.st = "cancelled"]
                            [] a = "gone"      -> [r EXCEPT !.st = "failed", !.again = FALSE]
                            [] OTHER           -> [r EXCEPT !.st = "failed", !.again = TRUE]
             it == [i \in Items |-> IF last(i) = {} THEN item[i] ELSE end(item[i], out[top(i)])]
             n == [Now EXCEPT !.item = it, !.acc = acc, !.blocked = FALSE]
             os == {OpOf[owner[j]] : j \in js}
  <2>1. Pump(Settle(n, os))
    <3>1. Ended(js, out) = Settle(n, os)
      BY <1>4, NowFacts DEF Ended
    <3>2. QED
      BY <1>4, <3>1 DEF Report
  <2>2. ASSUME NEW r \in ItemRecord, NEW a
        PROVE  /\ end(r, a) \in ItemRecord /\ end(r, a).job = r.job
               /\ a = "done" => end(r, a).st = "done"
               /\ a = "cancelled" => end(r, a).st = "cancelled"
               /\ a \notin {"done", "cancelled"} => end(r, a).st = "failed"
    <3>1. CASE a = "done"
      BY <3>1 DEF ItemRecord, ItemState
    <3>2. CASE a = "cancelled"
      BY <3>2 DEF ItemRecord, ItemState
    <3>3. CASE a = "gone"
      BY <3>3 DEF ItemRecord, ItemState
    <3>4. CASE a \notin {"done", "cancelled", "gone"}
      BY <3>4 DEF ItemRecord, ItemState
    <3>5. QED
      BY <3>1, <3>2, <3>3, <3>4
  <2> HIDE DEF end
  <2>3. \A i \in Items : item[i] \in ItemRecord
    BY NowFacts
  <2>4. /\ it \in [Items -> ItemRecord]
        /\ \A i \in Items : last(i) = {} => it[i] = item[i]
        /\ \A i \in Items : last(i) # {} => it[i] = end(item[i], out[top(i)])
    <3> HIDE DEF last, top
    <3>1. QED
      BY <2>2, <2>3
  <2> HIDE DEF it, top
  <2>5. acc \in SUBSET Jobs /\ acc \subseteq accepted /\ accepted \in SUBSET Jobs
    BY NowFacts
  <2>6. /\ n \in TabState /\ n.item = it /\ n.op = op /\ n.queue = queue /\ n.acc = acc /\ n.post = post
    BY <2>4, <2>5, NowFacts DEF TabState
  <2> HIDE DEF n
  <2>7. Numbered(n, owner)
    <3> SUFFICES ASSUME NEW j \in Jobs
                 PROVE  NumberAt(row[j], post[j], j \in acc, owner[j])
      BY <2>6 DEF Numbered
    <3>1. NumberAt(row[j], post[j], j \in accepted, owner[j])
      BY NowFacts DEF Good, Sound, Numbered
    <3>2. QED
      BY <3>1, <2>5 DEF NumberAt
  <2>8. Phased(n)
    BY <2>6, NowFacts DEF Good, Sound, Phased
  <2>9. SlotsUsed(n) <= Parallel
    <3>1. Cardinality(acc) <= Cardinality(accepted) /\ Cardinality(acc) \in Nat
      BY <2>5, JobsFinite, FS_Subset
    <3>2. Cardinality(accepted) \in Nat /\ Cardinality(InFlight(post)) \in Nat
      BY NowFacts, SlotsNat
    <3>3. Cardinality(accepted) + Cardinality(InFlight(post)) <= Parallel
      BY NowFacts DEF Good, SlotsUsed
    <3>4. QED
      BY <3>1, <3>2, <3>3, <2>6 DEF SlotsUsed
  <2>10. ASSUME NEW k \in Items \ raced'
         PROVE  /\ Stays(Now, n, owner, owner, trashing, trashing, k) \/ Fits(n, owner, trashing, k)
                /\ n.op[OpOf[k]].listed = TRUE /\ n.op[OpOf[k]].ended = TRUE /\ n.item[k].shown = TRUE =>
                      n.item[k].st # "needs-decision"
                /\ OpOf[k] \notin os => OverAt(n.op[OpOf[k]], n.item[k])
    <3>1. k \in Items \ raced /\ Fits(Now, owner, trashing, k) /\ OverAt(op[OpOf[k]], item[k])
      BY <1>1, NowFacts, SoundFits DEF Good, Over
    <3>2. CASE last(k) = {}
      <4>1. n.item[k] = item[k]
        BY <3>2, <2>4, <2>6
      <4>2. Followed(n, owner, k) = Followed(Now, owner, k)
        BY <3>2, <2>6, NowFacts DEF Followed
      <4>3. Stays(Now, n, owner, owner, trashing, trashing, k)
        BY <4>1, <4>2, <2>6, NowFacts DEF Stays
      <4>4. QED
        BY <3>1, <4>1, <4>3, <2>6 DEF OverAt
    <3>3. CASE last(k) # {}
      <4>1. PICK j \in js : owner[j] = k
        BY <3>3
      <4>2. \A m \in js : owner[m] = k => m \in Followed(Now, owner, k)
        BY <1>1, <3>1, NowFacts DEF Followed
      <4>3. /\ Once(queue, k) /\ OneFlight(post, k)
            /\ PlacedAt(item[k], op[OpOf[k]].listed = TRUE, In(queue, k), Flying(post, k),
                        k \in trashing, Followed(Now, owner, k))
        BY <3>1, NowFacts DEF Fits
      <4>4. item[k].st = "running" /\ item[k].job = j /\ \A m \in Followed(Now, owner, k) : m = j
        BY <4>1, <4>2, <4>3 DEF PlacedAt
      <4>5. ~In(queue, k) /\ ~Flying(post, k) /\ k \notin trashing
        BY <4>3, <4>4 DEF PlacedAt
      <4>6. last(k) = {j} /\ Followed(n, owner, k) = {}
        <5>1. last(k) = {j}
          BY <4>1, <4>2, <4>4
        <5>2. \A m \in acc : owner[m] # k
          BY <4>1, <4>4, NowFacts DEF Followed
        <5>3. QED
          BY <5>1, <5>2, <2>6 DEF Followed
      <4>7. top(k) = j
        <5>1. j \in Int
          BY DEF Jobs
        <5>2. \E m \in last(k) : \A y \in last(k) : y <= m
          BY <4>6, <5>1
        <5>3. top(k) \in last(k)
          BY <5>2 DEF top
        <5>4. QED
          BY <5>3, <4>6
      <4>8. n.item[k] = end(item[k], out[j])
        BY <3>3, <4>7, <2>4, <2>6
      <4> DEFINE r == end(item[k], out[j])
      <4>9. /\ r.job = j /\ r.st \in {"done", "cancelled", "failed"}
            /\ out[j] = "done" <=> r.st = "done"
            /\ out[j] = "cancelled" <=> r.st = "cancelled"
        BY <2>2, <2>3, <4>4
      <4>10. row[j] \in Lunad!EndState /\ out[j] \in {row[j], "gone"}
        BY <4>1
      <4> HIDE DEF r
      <4>11. PlacedAt(r, op[OpOf[k]].listed = TRUE, In(queue, k), Flying(post, k), k \in trashing, {})
        BY <4>5, <4>9 DEF PlacedAt
      <4>12. ToldAt(r, row)
        BY <4>9, <4>10 DEF ToldAt
      <4>13. Fits(n, owner, trashing, k)
        BY <4>3, <4>6, <4>8, <4>11, <4>12, <2>6 DEF Fits, r
      <4>14. OpOf[k] \in os
        BY <4>1
      <4>15. QED
        BY <4>8, <4>9, <4>13, <4>14 DEF r
    <3>4. QED
      BY <3>2, <3>3
  <2>11. raced \subseteq raced'
    BY <1>1
  <2> HIDE DEF os, last, acc, z
  <2>12. Unsettled(n, os, owner, trashing, raced')
    BY <2>6, <2>7, <2>8, <2>9, <2>10, <2>11, NowFacts, HandlerUnsettled
  <2>13. Lands(n)
    BY <2>1, <2>12, SettlePumpLands
  <2>14. Lands(z)
    BY <2>6, <2>13, <1>2 DEF Lands
  <2>15. QED
    BY <2>14, <1>1 DEF z, acc
<1>5. QED
  BY <1>3, <1>4

\* A report ends a poll: it asks on, or the timer is armed while jobs are left.
LEMMA ReportInv ==
    ASSUME Inv, NEW p \in Slots, NEW js \in SUBSET Jobs, NEW out, Report(js, out),
           \A j \in js : /\ owner[j] \in Items /\ row[j] \in Lunad!EndState
                         /\ out[j] \in {row[j], "gone"},
           NEW x \in Poll, poll' = [poll EXCEPT ![p] = x],
           \A j \in x.gets : owner[j] \in Items,
           \A j \in Jobs : x.list[j] \in Lunad!EndState => row[j] = x.list[j],
           NEW last \in BOOLEAN, last = FALSE => x.at # "idle",
           armed' = (armed \/ (last /\ accepted' # {})),
           used' \in [retries : 0 .. MaxRetries, faults : 0 .. MaxFaults],
           UNCHANGED <<lunad, owner, trashing, adrift>>
    PROVE  Inv'
<1> DEFINE s == [Now EXCEPT !.acc = accepted \ js]
<1>1. row' = row /\ trimmed' = trimmed /\ deleted' = deleted
  BY DEF lunad
<1>2. /\ Lands(s) /\ raced' = raced \cup {owner[j] : j \in js \ accepted} /\ stored' = accepted \ js
  BY <1>1, ReportLands
<1>3. s.acc = accepted \ js /\ s.post = post
  BY NowFacts DEF TabState
<1> HIDE DEF s
<1>4. /\ poll' \in [Slots -> Poll] /\ Polls' /\ poll'[p] = x
  BY <1>1, PollMoves
<1>5. s.acc # {} => armed' \/ \E r \in Slots : poll'[r].at # "idle"
  BY <1>2, <1>4 DEF Lands
<1>6. RestTyped /\ armed' \in BOOLEAN
  BY NowFacts DEF RestTyped
<1>7. deleted \subseteq Jobs /\ adrift \subseteq Jobs /\ owner \in [Jobs -> Items \cup {NoItem}]
      /\ trashing \subseteq Items /\ raced \subseteq Items /\ accepted \subseteq Jobs
  BY <1>6, NowFacts DEF RestTyped
<1>8. raced \subseteq raced' /\ raced' \subseteq Items
  <2>1. {owner[j] : j \in js \ accepted} \subseteq Items
    OBVIOUS
  <2>2. QED
    BY ONLY <2>1, <1>2, <1>7
<1>9. \A j \in Jobs : /\ row[j] = "running" /\ j \notin adrift' /\ owner'[j] \notin raced'
                      /\ j \in accepted \/ post[j].at = "accepted"
                      => j \in s.acc \cup deleted' \/ s.post[j].at = "accepted"
  <2> SUFFICES ASSUME NEW j \in Jobs, row[j] = "running", j \in accepted \/ post[j].at = "accepted"
               PROVE  j \in s.acc \/ s.post[j].at = "accepted"
    OBVIOUS
  <2>1. row[j] \notin Lunad!EndState
    BY DEF Lunad!EndState
  <2>2. j \notin js
    BY <2>1
  <2>3. QED
    BY <2>2, <1>3
<1>10. stored' = s.acc /\ s.acc \subseteq Jobs
  BY <1>2, <1>3, <1>7
<1>11. QED
  BY <1>1, <1>2, <1>4, <1>5, <1>6, <1>7, <1>8, <1>9, <1>10, EndInv

LEMMA PollListedInv ==
    ASSUME Inv, NEW p \in Slots, PollListed(p)
    PROVE  Inv'
<1> DEFINE out == poll[p].list
           js == {j \in accepted : out[j] \in Lunad!EndState}
           miss == {j \in accepted : out[j] = "none"}
           x == IF miss = {} THEN NoPoll ELSE [NoPoll EXCEPT !.at = "getting", !.gets = miss]
           last == (miss = {})
<1>1. /\ Report(js, out) /\ poll' = [poll EXCEPT ![p] = x]
      /\ armed' = (armed \/ (last /\ accepted' # {}))
      /\ UNCHANGED <<lunad, owner, trashing, used, adrift>>
  BY DEF PollListed
<1>2. accepted \in SUBSET Jobs /\ \A j \in accepted : owner[j] \in Items
  BY NowFacts DEF Good, Sound, Numbered, NumberAt
<1>3. js \in SUBSET Jobs /\ miss \in SUBSET Jobs /\ miss \subseteq accepted
  BY <1>2
<1>4. \A j \in js : /\ owner[j] \in Items /\ row[j] \in Lunad!EndState /\ out[j] \in {row[j], "gone"}
  BY <1>2 DEF Inv, Polls
<1> HIDE DEF js, miss, out
<1>5. /\ x \in Poll /\ x.gets \subseteq accepted /\ (last = FALSE => x.at # "idle")
      /\ \A j \in Jobs : x.list[j] \notin Lunad!EndState
  <2>1. CASE miss = {}
    BY <2>1, NoPollFacts
  <2>2. CASE miss # {}
    <3>1. /\ x \in Poll /\ x.at = "getting" /\ x.gets = miss /\ x.list = NoPoll.list
      BY <2>2, <1>3, NoPollFacts DEF Poll
    <3> HIDE DEF x
    <3>2. QED
      BY <3>1, <1>3, NoPollFacts
  <2>3. QED
    BY <2>1, <2>2
<1>6. last \in BOOLEAN
  OBVIOUS
<1>7. used' \in [retries : 0 .. MaxRetries, faults : 0 .. MaxFaults]
  BY <1>1, NowFacts DEF RestTyped
<1> HIDE DEF x, last
<1>8. \A j \in x.gets : owner[j] \in Items
  BY <1>2, <1>5
<1>9. QED
  BY <1>1, <1>3, <1>4, <1>5, <1>6, <1>7, <1>8, ReportInv

LEMMA PollGotInv ==
    ASSUME Inv, NEW p \in Slots, NEW j \in Jobs, NEW ans, PollGot(p, j, ans)
    PROVE  Inv'
<1> DEFINE out == [k \in {j} |-> ans]
           js == IF ans \in Lunad!EndState \cup {"gone"} THEN {j} ELSE {}
           mine == poll[p].gets \ {j}
           x == IF mine = {} THEN NoPoll ELSE [poll[p] EXCEPT !.gets = mine]
           last == (mine = {})
<1>1. /\ poll[p].at = "getting" /\ j \in poll[p].gets
      /\ Report(js, out) /\ poll' = [poll EXCEPT ![p] = x]
      /\ armed' = (armed \/ (last /\ accepted' # {}))
      /\ UNCHANGED <<lunad, owner, trashing, adrift>>
  BY DEF PollGot
<1>2. IF ans = "lost" THEN Fault
      ELSE ans = (IF j \in trimmed THEN "gone" ELSE row[j]) /\ UNCHANGED used
  BY DEF PollGot
<1>3. RestTyped /\ poll[p] \in Poll
  BY NowFacts DEF RestTyped
<1>4. used' \in [retries : 0 .. MaxRetries, faults : 0 .. MaxFaults]
  BY <1>2, <1>3, FaultFacts DEF RestTyped
<1>5. /\ \A k \in poll[p].gets : owner[k] \in Items
      /\ \A k \in Jobs : poll[p].list[k] \in Lunad!EndState => row[k] = poll[p].list[k]
  BY DEF Inv, Polls
<1>6. \A k \in js : /\ owner[k] \in Items /\ row[k] \in Lunad!EndState /\ out[k] \in {row[k], "gone"}
  <2> SUFFICES ASSUME ans \in Lunad!EndState \cup {"gone"}
               PROVE  owner[j] \in Items /\ row[j] \in Lunad!EndState /\ ans \in {row[j], "gone"}
    OBVIOUS
  <2>1. ans # "lost"
    BY DEF Lunad!EndState
  <2>2. j \in trimmed => row[j] \in Lunad!EndState
    BY DEF Inv, Trimmed
  <2>3. row[j] # "gone"
    BY <1>3 DEF RestTyped, Lunad!RowState, Lunad!EndState
  <2>4. QED
    BY <2>1, <2>2, <2>3, <1>1, <1>2, <1>5
<1>7. js \in SUBSET Jobs
  OBVIOUS
<1>8. /\ x \in Poll /\ x.gets \subseteq poll[p].gets /\ (last = FALSE => x.at # "idle")
      /\ \A k \in Jobs : x.list[k] \in Lunad!EndState => row[k] = x.list[k]
  <2>1. CASE mine = {}
    BY <2>1, NoPollFacts
  <2>2. CASE mine # {}
    <3>1. /\ x \in Poll /\ x.at = "getting" /\ x.gets = mine /\ x.list = poll[p].list
      BY <2>2, <1>1, <1>3 DEF Poll
    <3> HIDE DEF x
    <3>2. QED
      BY <3>1, <1>5
  <2>3. QED
    BY <2>1, <2>2
<1>9. last \in BOOLEAN
  OBVIOUS
<1> HIDE DEF x, last, js, out
<1>10. \A k \in x.gets : owner[k] \in Items
  BY <1>5, <1>8
<1>11. QED
  BY <1>1, <1>4, <1>6, <1>7, <1>8, <1>9, <1>10, ReportInv

----------------------------------------------------------------------------
(* The tab is reloaded *)

\* What a reload makes of an item: A holds the jobs sessionStorage has for it.
Restored(r, A) ==
    IF A # {} THEN [NoItemRecord EXCEPT !.st = "running", !.shown = TRUE, !.job = CHOOSE j \in A : TRUE]
    ELSE IF r.st = "none" THEN r
    ELSE [NoItemRecord EXCEPT !.st = "cancelled"]

LEMMA RestoredFacts ==
    ASSUME NEW r \in ItemRecord, NEW A \in SUBSET Jobs
    PROVE  /\ Restored(r, A) \in ItemRecord
           /\ A # {} => /\ Restored(r, A).st = "running" /\ Restored(r, A).shown = TRUE
                        /\ Restored(r, A).job \in A
           /\ A = {} /\ r.st = "none" => Restored(r, A) = r
           /\ A = {} /\ r.st # "none" => Restored(r, A).st = "cancelled" /\ Restored(r, A).job = NoJob
<1>1. NoItemRecord \in ItemRecord
  BY DEF NoItemRecord, ItemRecord, ItemState, Active
<1>2. CASE A # {}
  <2> DEFINE c == CHOOSE j \in A : TRUE
  <2>1. c \in A /\ c \in Jobs
    BY <1>2
  <2> HIDE DEF c
  <2>2. [NoItemRecord EXCEPT !.st = "running", !.shown = TRUE, !.job = c] \in ItemRecord
    BY <2>1 DEF NoItemRecord, ItemRecord, ItemState, Active
  <2>3. Restored(r, A) = [NoItemRecord EXCEPT !.st = "running", !.shown = TRUE, !.job = c]
    BY <1>2 DEF Restored, c
  <2>4. QED
    BY <1>2, <2>1, <2>2, <2>3 DEF NoItemRecord
<1>3. CASE A = {}
  BY <1>3, <1>1 DEF Restored, NoItemRecord, ItemRecord, ItemState, Active
<1>4. QED
  BY <1>2, <1>3

LEMMA ReloadInv ==
    ASSUME Inv, Reload
    PROVE  Inv'
<1> DEFINE job(i) == {j \in stored : owner[j] = i}
           n == Now'
<1>1. /\ Fault
      /\ item' = [i \in Items |-> Restored(item[i], job(i))]
      /\ op' = [o \in Ops |-> IF \E i \in ItemsOf(o) : job(i) # {} THEN NewOp("running") ELSE NoOp]
      /\ post' = [j \in Jobs |-> IF post[j].at = "sent" THEN [post[j] EXCEPT !.live = FALSE]
                                 ELSE NoPost]
      /\ adrift' = adrift \cup {j \in Jobs : post[j].at = "accepted"}
      /\ queue' = << >> /\ blocked' = FALSE /\ timer' = FALSE
      /\ accepted' = stored /\ armed' = (stored # {})
      /\ poll' = [p \in Slots |-> NoPoll]
      /\ trashing' = {}
      /\ UNCHANGED <<lunad, owner, stored, raced>>
  BY DEF Reload, Restored
<1>2. row' = row /\ trimmed' = trimmed /\ deleted' = deleted /\ owner' = owner /\ stored' = stored
      /\ raced' = raced
  BY <1>1 DEF lunad
<1>3. stored = accepted /\ RestTyped /\ accepted \in SUBSET Jobs
  BY NowFacts DEF Inv
<1>4. \A i : job(i) \in SUBSET Jobs
  BY <1>3
<1>5. \A o \in Ops : /\ op'[o] \in OpRecord /\ op'[o].ended = FALSE
                     /\ op'[o].listed = TRUE => op'[o].phase = "running"
                     /\ (\E i \in ItemsOf(o) : job(i) # {}) => op'[o].listed = TRUE
  BY <1>1 DEF NewOp, NoOp, OpRecord, OpPhase
<1>6. op' \in [Ops -> OpRecord]
  BY <1>1 DEF NewOp, NoOp, OpRecord, OpPhase
<1>7. \A j \in Jobs : /\ post'[j] \in Post
                      /\ IF post[j].at = "sent"
                         THEN post'[j].at = "sent" /\ post'[j].item = post[j].item /\ post'[j].live = FALSE
                         ELSE post'[j].at = "free"
  <2> SUFFICES ASSUME NEW j \in Jobs
               PROVE  /\ post'[j] \in Post
                      /\ IF post[j].at = "sent"
                         THEN post'[j].at = "sent" /\ post'[j].item = post[j].item /\ post'[j].live = FALSE
                         ELSE post'[j].at = "free"
    OBVIOUS
  <2>1. post[j] \in Post
    BY NowFacts
  <2>2. QED
    BY <2>1, <1>1 DEF Post, NoPost
<1>8. post' \in [Jobs -> Post]
  BY <1>1, <1>7
<1>9. InFlight(post') = {}
  BY <1>7 DEF InFlight
<1>10. ASSUME NEW i \in Items
       PROVE  /\ item'[i] = Restored(item[i], job(i)) /\ item'[i] \in ItemRecord
              /\ job(i) # {} => item'[i].st = "running" /\ item'[i].shown = TRUE /\ item'[i].job \in job(i)
              /\ job(i) = {} /\ item[i].st = "none" => item'[i] = item[i]
              /\ job(i) = {} /\ item[i].st # "none" => item'[i].st = "cancelled" /\ item'[i].job = NoJob
  <2> DEFINE r == item[i]
             A == job(i)
  <2>1. r \in ItemRecord /\ A \in SUBSET Jobs /\ item'[i] = Restored(r, A)
    BY <1>1, <1>4, NowFacts
  <2> HIDE DEF r, A
  <2>2. /\ Restored(r, A) \in ItemRecord
        /\ A # {} => /\ Restored(r, A).st = "running" /\ Restored(r, A).shown = TRUE
                     /\ Restored(r, A).job \in A
        /\ A = {} /\ r.st = "none" => Restored(r, A) = r
        /\ A = {} /\ r.st # "none" => Restored(r, A).st = "cancelled" /\ Restored(r, A).job = NoJob
    BY ONLY <2>1, RestoredFacts, Zenon
  <2>3. QED
    BY ONLY <2>1, <2>2 DEF r, A
<1>11. item' \in [Items -> ItemRecord]
  BY <1>1, <1>10
<1>12. /\ n.item = item' /\ n.op = op' /\ n.queue = << >> /\ n.acc = accepted
       /\ n.post = post' /\ n.blocked = FALSE /\ n.timer = FALSE
  BY <1>1, <1>3 DEF Now
<1>13. n \in TabState
  <2>1. << >> \in Seq(Items)
    OBVIOUS
  <2>2. QED
    BY <2>1, <1>1, <1>3, <1>6, <1>8, <1>11 DEF Now, TabState
<1> HIDE DEF n
<1>14. Numbered(n, owner)
  <2> SUFFICES ASSUME NEW j \in Jobs
               PROVE  NumberAt(row[j], n.post[j], j \in n.acc, owner[j])
    BY DEF Numbered
  <2>1. NumberAt(row[j], post[j], j \in accepted, owner[j])
    BY NowFacts DEF Good, Sound, Numbered
  <2>2. QED
    BY <2>1, <1>7, <1>12 DEF NumberAt
<1>15. Phased(n)
  BY <1>5, <1>12 DEF Phased
<1>16. SlotsUsed(n) <= Parallel
  <2>1. SlotsUsed(Now) <= Parallel /\ Now \in TabState
    BY NowFacts DEF Good
  <2>2. /\ SlotsUsed(n) = Cardinality(accepted) + Cardinality({})
        /\ SlotsUsed(Now) = Cardinality(accepted) + Cardinality(InFlight(post))
    BY <1>9, <1>12, NowFacts DEF SlotsUsed
  <2>3. Cardinality({}) = 0
    BY FS_EmptySet
  <2>4. Cardinality(accepted) \in Nat /\ Cardinality(InFlight(post)) \in Nat
    BY <1>3, JobsFinite, FS_Subset, FS_CardinalityType DEF InFlight
  <2>5. QED
    BY <2>1, <2>2, <2>3, <2>4
<1>17. ASSUME NEW i \in Items \ raced
       PROVE  Fits(n, owner, {}, i) /\ OverAt(n.op[OpOf[i]], n.item[i])
  <2> DEFINE r == item'[i]
             A == job(i)
  <2>1. /\ PlacedAt(item[i], op[OpOf[i]].listed = TRUE, In(queue, i), Flying(post, i), i \in trashing, A)
        /\ ToldAt(item[i], row)
    BY <1>3, NowFacts DEF Good, Sound, Placed, Told, Followed
  <2>2. /\ Once(n.queue, i) /\ ~In(n.queue, i) /\ OneFlight(n.post, i) /\ ~Flying(n.post, i)
    BY <1>9, <1>12 DEF Once, In, OneFlight, Flying
  <2>3. Followed(n, owner, i) = A
    BY <1>3, <1>12 DEF Followed
  <2>4. A # {} => n.op[OpOf[i]].listed = TRUE
    BY <1>5, <1>12, OpOfItem DEF ItemsOf
  <2>5. /\ A # {} => r.st = "running" /\ r.shown = TRUE /\ r.job \in A
        /\ A = {} /\ item[i].st = "none" => r = item[i]
        /\ A = {} /\ item[i].st # "none" => r.st = "cancelled" /\ r.job = NoJob
    BY <1>10
  <2> HIDE DEF A, r
  <2>6. PlacedAt(r, n.op[OpOf[i]].listed = TRUE, FALSE, FALSE, FALSE, A) /\ ToldAt(r, row)
    <3>1. CASE A # {}
      <4>1. \A j \in A : r.job = j
        BY <2>1, <2>5, <3>1 DEF PlacedAt
      <4>2. QED
        BY <4>1, <2>4, <2>5, <3>1 DEF PlacedAt, ToldAt
    <3>2. CASE A = {} /\ item[i].st = "none"
      BY <2>1, <2>5, <3>2 DEF PlacedAt, ToldAt
    <3>3. CASE A = {} /\ item[i].st # "none"
      BY <2>5, <3>3 DEF PlacedAt, ToldAt
    <3>4. QED
      BY <3>1, <3>2, <3>3
  <2>7. Fits(n, owner, {}, i)
    <3>1. n.item[i] = r
      BY <1>12 DEF r
    <3>2. QED
      BY ONLY <3>1, <2>2, <2>3, <2>6 DEF Fits, PlacedAt
  <2>8. QED
    BY <2>7, <1>5, <1>12, OpOfItem DEF OverAt
<1>18. Good(n, owner, {}, raced)
  BY <1>13, <1>14, <1>15, <1>16, <1>17, NowFacts, HandlerGood
<1>19. Good(Now, owner, trashing, raced)'
  BY <1>1, <1>2, <1>18, GoodNow DEF n
<1>20. Busy(Now)'
  BY <1>1 DEF Busy, Now
<1>21. RestTyped'
  BY <1>1, <1>2, <1>3, NoPollFacts, FaultFacts DEF RestTyped
<1>22. Polls' /\ Trimmed' /\ Polled' /\ (stored = accepted)'
  BY <1>1, <1>2, <1>3, NoPollFacts DEF Polls, Trimmed, Polled, Inv
<1>23. NoUnseenJob'
  BY <1>1, <1>2, <1>3 DEF Inv, NoUnseenJob
<1>24. QED
  BY <1>19, <1>20, <1>21, <1>22, <1>23 DEF Inv

----------------------------------------------------------------------------
(* The invariant, from the start and through every step *)

LEMMA InitInv ==
    ASSUME Init
    PROVE  Inv
<1>1. /\ row = [j \in Jobs |-> "none"] /\ trimmed = {} /\ deleted = {}
      /\ item = [i \in Items |-> NoItemRecord] /\ op = [o \in Ops |-> NoOp]
      /\ queue = << >> /\ blocked = FALSE /\ timer = FALSE
      /\ post = [j \in Jobs |-> NoPost]
      /\ accepted = {} /\ owner = [j \in Jobs |-> NoItem] /\ stored = {}
      /\ armed = FALSE /\ poll = [p \in Slots |-> NoPoll]
      /\ trashing = {} /\ used = [retries |-> 0, faults |-> 0] /\ raced = {} /\ adrift = {}
  BY DEF Init, Lunad!Init
<1>2. NoItemRecord \in ItemRecord /\ NoOp \in OpRecord /\ NoPost \in Post
  BY DEF NoItemRecord, ItemRecord, ItemState, Active, NoOp, OpRecord, OpPhase, NoPost, Post
<1>3. RestTyped
  <2>1. row \in [Jobs -> Lunad!RowState] /\ owner \in [Jobs -> Items \cup {NoItem}]
    BY <1>1 DEF Lunad!RowState
  <2>2. poll \in [Slots -> Poll]
    BY <1>1, NoPollFacts
  <2>3. used \in [retries : 0 .. MaxRetries, faults : 0 .. MaxFaults]
    BY <1>1
  <2>4. QED
    BY <1>1, <2>1, <2>2, <2>3 DEF RestTyped
<1>4. /\ Now.item = item /\ Now.op = op /\ Now.queue = << >> /\ Now.acc = {} /\ Now.post = post
      /\ Now.blocked = FALSE /\ Now.timer = FALSE
  BY <1>1 DEF Now
<1>5. Now \in TabState
  <2>1. << >> \in Seq(Items)
    OBVIOUS
  <2>2. QED
    BY <2>1, <1>1, <1>2 DEF Now, TabState
<1>6. InFlight(post) = {}
  BY <1>1 DEF InFlight, NoPost
<1>7. Numbered(Now, owner)
  BY <1>1, <1>4 DEF Numbered, NumberAt, NoPost
<1>8. Phased(Now)
  BY <1>1, <1>4 DEF Phased, NoOp
<1>9. ASSUME NEW i \in Items
      PROVE  Fits(Now, owner, {}, i) /\ OverAt(Now.op[OpOf[i]], Now.item[i])
  <2>1. /\ Once(Now.queue, i) /\ ~In(Now.queue, i) /\ OneFlight(Now.post, i) /\ ~Flying(Now.post, i)
    BY <1>4, <1>6 DEF Once, In, OneFlight, Flying
  <2>2. Followed(Now, owner, i) = {}
    BY <1>4 DEF Followed
  <2>3. Now.item[i].st = "none" /\ Now.item[i].job = NoJob /\ Now.item[i].shown = FALSE
    BY <1>1, <1>4 DEF NoItemRecord
  <2>4. QED
    BY <2>1, <2>2, <2>3 DEF Fits, PlacedAt, ToldAt, OverAt
<1>10. SlotsUsed(Now) <= Parallel
  BY <1>4, <1>6, FS_EmptySet DEF SlotsUsed
<1>11. Good(Now, owner, trashing, raced)
  BY <1>1, <1>5, <1>7, <1>8, <1>9, <1>10 DEF Good, Sound, Placed, Told, Over, Fits
<1>12. Busy(Now)
  BY <1>4 DEF Busy
<1>13. Polls /\ Trimmed /\ Polled /\ NoUnseenJob
  BY <1>1, NoPollFacts DEF Polls, Trimmed, Polled, NoUnseenJob
<1>14. QED
  BY <1>1, <1>3, <1>11, <1>12, <1>13 DEF Inv

LEMMA StutterInv ==
    ASSUME Inv, UNCHANGED vars
    PROVE  Inv'
<1>1. UNCHANGED <<lunad, item, op, queue, blocked, timer, accepted, owner, stored, armed, poll,
                  trashing, post, used, raced, adrift>>
  BY DEF vars, tab
<1>2. Polls' /\ Polled'
  BY <1>1 DEF Inv, Polls, Polled, lunad
<1>3. poll' \in [Slots -> Poll] /\ armed' \in BOOLEAN
      /\ used' \in [retries : 0 .. MaxRetries, faults : 0 .. MaxFaults]
  BY <1>1, NowFacts DEF RestTyped
<1>4. QED
  BY <1>1, <1>2, <1>3, PollStep

LEMMA TabInv ==
    ASSUME Inv, Tab
    PROVE  Inv'
<1>1. CASE RetryTimer
  BY <1>1, RetryTimerInv
<1>2. ASSUME NEW o \in Ops, AutoClear(o)
      PROVE  Inv'
  BY <1>2, AutoClearInv
<1>3. ASSUME NEW j \in Jobs, PostAccepted(j)
      PROVE  Inv'
  BY <1>3, PostAcceptedInv
<1>4. ASSUME NEW j \in Jobs, PostFailed(j)
      PROVE  Inv'
  BY <1>4, PostFailedInv
<1>5. ASSUME NEW p \in Slots, PollTimer(p)
      PROVE  Inv'
  BY <1>5, PollTimerInv
<1>6. ASSUME NEW p \in Slots, PollListed(p)
      PROVE  Inv'
  BY <1>6, PollListedInv
<1>7. QED
  BY <1>1, <1>2, <1>3, <1>4, <1>5, <1>6 DEF Tab

LEMMA PersonInv ==
    ASSUME Inv, Person
    PROVE  Inv'
<1>1. ASSUME NEW o \in Ops, StartJobs(o)
      PROVE  Inv'
  BY <1>1, StartJobsInv
<1>2. ASSUME NEW o \in Ops, CancelOp(o)
      PROVE  Inv'
  BY <1>2, CancelOpInv
<1>3. ASSUME NEW o \in Ops, ClearFailed(o)
      PROVE  Inv'
  <2> DEFINE T == {i \in ItemsOf(o) : Here(i) /\ item[i].st = "failed"}
  <2>1. RemoveFailed(T) /\ T \in SUBSET Items
    BY <1>3 DEF ClearFailed, ItemsOf
  <2> HIDE DEF T
  <2>2. QED
    BY <2>1, RemoveFailedInv
<1>4. ASSUME NEW o \in Ops, Dismiss(o)
      PROVE  Inv'
  BY <1>4, DismissInv
<1>5. ASSUME NEW o \in Ops, NEW c \in {"replace", "keep_both", "skip"}, DecideAll(o, c)
      PROVE  Inv'
  BY <1>5, DecideAllInv
<1>6. ASSUME NEW i \in Items, NEW c \in {"replace", "keep_both", "skip", "confirm"}, Decide(i, c)
      PROVE  Inv'
  BY <1>6, DecideInv
<1>7. ASSUME NEW i \in Items, RemoveItem(i)
      PROVE  Inv'
  BY <1>7, RemoveFailedInv DEF RemoveItem
<1>8. CASE Retry
  <2>1. ASSUME NEW i \in Items, RetryItems({i})
        PROVE  Inv'
    BY <2>1, RetryItemsInv
  <2>2. ASSUME NEW o \in Ops, RetryItems({i \in ItemsOf(o) : Retryable(i)})
        PROVE  Inv'
    <3> DEFINE T == {i \in ItemsOf(o) : Retryable(i)}
    <3>1. RetryItems(T) /\ T \in SUBSET Items
      BY <2>2 DEF ItemsOf
    <3> HIDE DEF T
    <3>2. QED
      BY <3>1, RetryItemsInv
  <2>3. QED
    BY <1>8, <2>1, <2>2 DEF Retry
<1>9. CASE RetryOffline
  <2> DEFINE T == {i \in Items : Retryable(i) /\ item[i].off}
  <2>1. RetryItems(T) /\ T \in SUBSET Items
    BY <1>9 DEF RetryOffline
  <2> HIDE DEF T
  <2>2. QED
    BY <2>1, RetryItemsInv
<1>10. CASE Reload
  BY <1>10, ReloadInv
<1>11. QED
  BY <1>1, <1>2, <1>3, <1>4, <1>5, <1>6, <1>7, <1>8, <1>9, <1>10 DEF Person

LEMMA OutsideInv ==
    ASSUME Inv, Outside
    PROVE  Inv'
<1>1. ASSUME NEW j \in Jobs, LunadAccepts(j)
      PROVE  Inv'
  BY <1>1, LunadAcceptsInv
<1>2. ASSUME NEW j \in Jobs, Lose(j)
      PROVE  Inv'
  BY <1>2, LoseInv
<1>3. ASSUME NEW j \in Jobs, NEW a \in Refusals, LunadRefuses(j, a)
      PROVE  Inv'
  BY <1>3, LunadRefusesInv
<1>4. ASSUME NEW j \in Jobs, NEW s \in Lunad!EndState, LunadSettles(j, s)
      PROVE  Inv'
  BY <1>4, LunadSettlesInv
<1>5. ASSUME NEW T \in SUBSET Jobs, LunadRestarts(T)
      PROVE  Inv'
  BY <1>5, LunadRestartsInv
<1>6. ASSUME NEW i \in Items, NEW ok \in BOOLEAN, TrashAnswers(i, ok)
      PROVE  Inv'
  BY <1>6, TrashAnswersInv
<1>7. ASSUME NEW p \in Slots, LunadLists(p)
      PROVE  Inv'
  BY <1>7, LunadListsInv
<1>8. ASSUME NEW p \in Slots, PollFails(p)
      PROVE  Inv'
  BY <1>8, PollFailsInv
<1>9. ASSUME NEW p \in Slots, NEW j \in Jobs, NEW ans \in Lunad!RowState \cup {"gone", "lost"},
             PollGot(p, j, ans)
      PROVE  Inv'
  BY <1>9, PollGotInv
<1>10. QED
  BY <1>1, <1>2, <1>3, <1>4, <1>5, <1>6, <1>7, <1>8, <1>9 DEF Outside

\* The invariant holds in every behaviour: whatever order the answers, clicks,
\* timers, restarts and reloads come in.
THEOREM InductiveInv == Spec => []Inv
<1>1. Init => Inv
  BY InitInv
<1>2. Inv /\ [Next]_vars => Inv'
  BY StutterInv, TabInv, PersonInv, OutsideInv DEF Next
<1>3. QED
  BY <1>1, <1>2, PTL DEF Spec

----------------------------------------------------------------------------
(* What it gives *)

\* Every variable of the tab and of lunad keeps its type, and the numbers of
\* POSTs, retries and faults stay within their bounds.
THEOREM TypeCorrect == Spec => []TypeOK
<1>1. Inv => TypeOK
  BY NowFacts DEF RestTyped, TypeOK
<1>2. QED
  BY <1>1, InductiveInv, PTL

\* pump, submit, poll and restore never have more than JOB_PARALLEL jobs and POSTs
\* going.
THEOREM SlotsAreKept == Spec => []SlotsKept
<1>1. Inv => SlotsKept
  BY NowFacts DEF Inv, Good, SlotsUsed, SlotsKept
<1>2. QED
  BY <1>1, InductiveInv, PTL

\* sessionStorage names exactly the jobs the tab follows.
THEOREM StorageIsExact == Spec => []StorageExact
<1>1. Inv => StorageExact
  BY DEF Inv, StorageExact
<1>2. QED
  BY <1>1, InductiveInv, PTL

\* No job runs on unseen: one this page was told about is followed, has ended or
\* was called off, however late the answer to its POST or to a poll comes.
THEOREM NoJobUnseen == Spec => []NoUnseenJob
<1>1. Inv => NoUnseenJob
  BY DEF Inv
<1>2. QED
  BY <1>1, InductiveInv, PTL

\* No item is forgotten: one shown as queued, submitting or running has a queue
\* entry, a POST, a removal or a followed job that will move it on.
THEOREM NothingIsStranded == Spec => []NothingStranded
<1>1. ASSUME Inv
      PROVE  NothingStranded
  <2> SUFFICES ASSUME NEW i \in Items, Here(i), i \notin raced
               PROVE  /\ item[i].st = "queued" => \E p \in DOMAIN queue : queue[p] = i
                      /\ item[i].st = "submitting" =>
                            \/ \E p \in DOMAIN queue : queue[p] = i
                            \/ \E j \in InFlight(post) : post[j].item = i
                            \/ i \in trashing
                      /\ item[i].st = "running" => item[i].job \in accepted
    BY DEF NothingStranded
  <2>1. /\ item[i].shown \in BOOLEAN /\ op[OpOf[i]].listed \in BOOLEAN
    BY <1>1, NowFacts, OpOfItem DEF ItemRecord, OpRecord
  <2>2. item[i].shown = TRUE /\ op[OpOf[i]].listed = TRUE
    BY <2>1 DEF Here
  <2>3. PlacedAt(item[i], op[OpOf[i]].listed = TRUE, In(queue, i), Flying(post, i), i \in trashing,
                 Followed(Now, owner, i))
    BY <1>1, NowFacts DEF Good, Sound, Placed
  <2>4. Followed(Now, owner, i) \subseteq accepted
    BY <1>1, NowFacts DEF Followed
  <2>5. QED
    BY <2>2, <2>3, <2>4 DEF PlacedAt, In, Flying
<1>2. QED
  BY <1>1, InductiveInv, PTL

\* A row that says done, failed or cancelled tells the truth about the job the
\* item last followed, unless a late answer has hit the item.
THEOREM RowsAreTruthful == Spec => []RowsTruthful
<1>1. ASSUME Inv
      PROVE  RowsTruthful
  <2> SUFFICES ASSUME NEW i \in Items, i \notin raced, item[i].job # NoJob
               PROVE  /\ item[i].st = "done" => row[item[i].job] = "done"
                      /\ item[i].st = "cancelled" => row[item[i].job] \in {"cancelled", "interrupted"}
                      /\ item[i].st = "failed" => row[item[i].job] # "running"
    BY DEF RowsTruthful
  <2>1. ToldAt(item[i], row)
    BY <1>1, NowFacts DEF Good, Sound, Told
  <2>2. QED
    BY <2>1 DEF ToldAt, Lunad!EndState
<1>2. QED
  BY <1>1, InductiveInv, PTL

\* Until a late answer hits an item, an operation settle has ended follows no job,
\* and only cancelled items of it are queued, sent or waiting for a removal.
THEOREM EndedIsOverHolds == Spec => []EndedIsOverUnlessRaced
<1>1. ASSUME Inv, raced = {}
      PROVE  EndedIsOver
  <2> SUFFICES ASSUME NEW o \in Ops, op[o].listed, op[o].ended, NEW i \in ItemsOf(o)
               PROVE  /\ \A j \in accepted : owner[j] # i
                      /\ item[i].st # "cancelled" =>
                            /\ \A p \in DOMAIN queue : queue[p] # i
                            /\ \A j \in InFlight(post) : post[j].item # i
                            /\ i \notin trashing
    BY DEF EndedIsOver
  <2>1. i \in Items /\ OpOf[i] = o /\ op[o].listed = TRUE /\ op[o].ended = TRUE
    BY <1>1, NowFacts DEF ItemsOf, OpRecord
  <2>2. /\ PlacedAt(item[i], op[o].listed = TRUE, In(queue, i), Flying(post, i), i \in trashing,
                    Followed(Now, owner, i))
        /\ OverAt(op[o], item[i])
    BY <1>1, <2>1, NowFacts DEF Good, Sound, Placed, Over
  <2>3. ASSUME NEW j \in accepted, owner[j] = i
        PROVE  FALSE
    <3>1. j \in Followed(Now, owner, i)
      BY <1>1, <2>3, NowFacts DEF Followed
    <3>2. item[i].st = "running" /\ item[i].shown = TRUE
      BY <2>2, <3>1 DEF PlacedAt
    <3>3. QED
      BY <2>1, <2>2, <3>2 DEF OverAt, Active
  <2>4. In(queue, i) \/ Flying(post, i) \/ i \in trashing => item[i].st = "cancelled"
    <3>1. In(queue, i) \/ Flying(post, i) \/ i \in trashing =>
             /\ item[i].st \in {"queued", "submitting", "cancelled"}
             /\ item[i].st \in {"queued", "submitting"} => item[i].shown = TRUE
      BY <2>2 DEF PlacedAt
    <3>2. QED
      BY <2>1, <2>2, <3>1 DEF OverAt, Active
  <2>5. QED
    BY <2>3, <2>4 DEF In, Flying
<1>2. Inv => EndedIsOverUnlessRaced
  BY <1>1 DEF EndedIsOverUnlessRaced
<1>3. QED
  BY <1>2, InductiveInv, PTL

\* Followed jobs are always polled; and until a late answer hits an item, no slot
\* stays free while an item could be sent, unless a timer will pump.  (After one,
\* forget may drop a followed job of an ended operation and free its slot without
\* a pump.)
THEOREM NothingIsStalled == Spec => []NothingStalls
<1>1. ASSUME Inv
      PROVE  NothingStalls
  <2>1. Polled
    BY <1>1 DEF Inv
  <2>2. ASSUME raced = {}
        PROVE  \/ blocked /\ timer
               \/ ~blocked /\ \/ Sendable(Now) = {}
                              \/ Cardinality(accepted) + Cardinality(InFlight(post)) >= Parallel
    <3>1. /\ Now.blocked = blocked /\ Now.timer = timer /\ Now.queue = queue
          /\ SlotsUsed(Now) = Cardinality(accepted) + Cardinality(InFlight(post))
      BY <1>1, NowFacts DEF SlotsUsed
    <3>2. Busy(Now)
      BY <1>1, <2>2 DEF Inv
    <3>3. queue = << >> => Sendable(Now) = {}
      BY <3>1 DEF Sendable
    <3>4. QED
      BY <3>1, <3>2, <3>3 DEF Busy
  <2>3. QED
    BY <2>1, <2>2 DEF Polled, NothingStalls
<1>2. QED
  BY <1>1, InductiveInv, PTL
=============================================================================
