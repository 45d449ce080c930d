------------------------ MODULE CollabConvergenceProofs ------------------------
(***************************************************************************)
(* Editors of one file converge, for every number of tabs, insertions and    *)
(* broken connections, unless the hub refuses an op or nobody asks a         *)
(* newcomer for what it has.                                                 *)
(***************************************************************************)
EXTENDS CollabTextProofs, SequenceTheorems

----------------------------------------------------------------------------
(* What one tab d has, and what the frames q on their way to it bring        *)

\* A thing is an insertion, or the deletion of one.
Things == {"got", "dead"} \X (Tabs \X Nat)

Has(d, x) == IF x[1] = "got" THEN x[2] \in d.got ELSE x[2] \in d.dead

Brings(m, x) ==
    IF x[1] = "got"
    THEN \/ m.k = "op" /\ m.s = x[2]
         \/ m.k = "s2" /\ x[2] \in m.new
         \/ m.k = "welcome" /\ x[2] \in m.ops
    ELSE m.k = "s2" /\ x[2] \in m.dead

\* The answer to m brings x, if the tab that takes m has it.
Asks(m, x) == m.k = "s1" /\ (x[1] = "got" => x[2] \notin m.sv)

\* When frame i is taken, the tab has x.
By(d, q, x, i) == Has(d, x) \/ \E j \in 1 .. (i - 1) : Brings(q[j], x)
Gets(d, q, x) == By(d, q, x, Len(q) + 1)

\* One of the first n frames makes the tab send x to everybody.
Answers(d, q, x, n) == \E i \in 1 .. n : Asks(q[i], x) /\ By(d, q, x, i)

Greeting(q) == q # << >> /\ q[1].k = "welcome"

\* The tab will ask everybody for what it lacks.
WillAsk(q) == Greeting(q) /\ q[1].peers # {q[1].me}

\* The peers the tab knows of, or will when it is welcomed.
Base(d, q) == IF Greeting(q) THEN q[1].peers ELSE d.peers

JoinOf(p) == [k |-> "join", p |-> p]
LeaveOf(p) == [k |-> "leave", p |-> p]

\* When frame i is taken, the tab knows of no lower peer.
LowAt(d, q, i) ==
    \A r \in Base(d, q) : r < d.link => \E j \in 1 .. (i - 1) : q[j] = LeaveOf(r)

----------------------------------------------------------------------------
(* The room: tabs tb, streams dn, the hub's peers ps and next id nx, and its *)
(* backlog bl                                                                *)

On(tb) == {t \in Tabs : tb[t].link # 0 /\ tb[t].cut = FALSE}
Line(tb, dn, t) == dn[tb[t].link]

\* The stream of a connected tab and what it knows of the room.
LineOK(d, q, ps, nx) ==
    /\ d.link \in ps
    /\ \A i \in 2 .. Len(q) : q[i].k # "welcome"
    /\ IF Greeting(q) THEN q[1].me = d.link ELSE d.me = d.link
    /\ d.link \in Base(d, q)
    /\ \A i \in 1 .. Len(q) : q[i].k = "join" => q[i].p \in Nat /\ d.link < q[i].p
    /\ \A i \in 1 .. Len(q) : q[i].k = "leave" => q[i].p \notin ps /\ q[i].p \in 1 .. (nx - 1)
    /\ \A r \in 1 .. (d.link - 1) :
          IF r \in ps THEN r \in Base(d, q)
          ELSE r \notin Base(d, q) \/ \E i \in 1 .. Len(q) : q[i] = LeaveOf(r)

RoomOK(tb, dn, ps, nx) ==
    /\ ps \subseteq 1 .. (nx - 1)
    /\ \A t \in On(tb) : LineOK(tb[t], Line(tb, dn, t), ps, nx)
    /\ \A t, u \in On(tb) : tb[t].link = tb[u].link => t = u
    /\ \A t \in Tabs : tb[t].link = 0 => tb[t].cut = FALSE

\* The lowest peer l will ask newcomer t at its frame i.
AsksAt(tb, dn, l, t, i) ==
    /\ i \in 1 .. Len(Line(tb, dn, l))
    /\ Line(tb, dn, l)[i] = JoinOf(tb[t].link)
    /\ LowAt(tb[l], Line(tb, dn, l), i)

\* Somebody will ask t.
Awaited(tb, dn, t) == \E l \in On(tb) \ {t} : \E i \in Nat : AsksAt(tb, dn, l, t, i)

\* Somebody will ask t for x, or has it and sends it before.
Due(tb, dn, t, x) ==
    \E l \in On(tb) \ {t} : \E i \in Nat :
       /\ AsksAt(tb, dn, l, t, i)
       /\ \/ x[1] = "dead"
          \/ ~By(tb[l], Line(tb, dn, l), x, i)
          \/ Answers(tb[l], Line(tb, dn, l), x, i - 1)

\* What t has comes to u.
Reaches(tb, dn, t, u, x) ==
    \/ Gets(tb[u], Line(tb, dn, u), x)
    \/ WillAsk(Line(tb, dn, u))
    \/ Answers(tb[t], Line(tb, dn, t), x, Len(Line(tb, dn, t)))
    \/ Due(tb, dn, t, x)

Spread(tb, dn) ==
    \A t \in On(tb) : \A u \in On(tb) \ {t} : \A x \in Things :
       Gets(tb[t], Line(tb, dn, t), x) => Reaches(tb, dn, t, u, x)

\* A tab that may still drop its seed will be asked for its deletions.
Greeted(tb, dn) ==
    \A t \in On(tb) : \A u \in On(tb) \ {t} :
       WillAsk(Line(tb, dn, t)) =>
          \/ WillAsk(Line(tb, dn, u))
          \/ \E i \in 1 .. Len(Line(tb, dn, t)) : Line(tb, dn, t)[i].k = "s1"
          \/ Awaited(tb, dn, t)

Kept(tb, dn, bl) ==
    \A i \in 1 .. Len(bl) : \A t \in On(tb) : Gets(tb[t], Line(tb, dn, t), <<"got", bl[i]>>)

Conv(tb, dn, ps, nx, bl) ==
    RoomOK(tb, dn, ps, nx) /\ Spread(tb, dn) /\ Greeted(tb, dn) /\ Kept(tb, dn, bl)

Refused(b) == "op refused" \in b
Heard == ~Refused(blame) /\ unasked = {}
ConvInv == Heard => Conv(tab, down, peers, next, backlog)

----------------------------------------------------------------------------
(* One stream, when a frame is put behind it and when its first is taken     *)

LEMMA AppendedFrames ==
  ASSUME NEW F, NEW q \in Seq(F), NEW m \in F
  PROVE  /\ Append(q, m) \in Seq(F) /\ Len(q) \in Nat /\ Len(Append(q, m)) = Len(q) + 1
         /\ \A i \in 1 .. Len(q) : Append(q, m)[i] = q[i]
         /\ Append(q, m)[Len(q) + 1] = m
  OBVIOUS

LEMMA TailFrames ==
  ASSUME NEW F, NEW q \in Seq(F), q # << >>
  PROVE  /\ Tail(q) \in Seq(F) /\ Len(q) \in Nat /\ Len(q) >= 1 /\ Len(Tail(q)) = Len(q) - 1
         /\ \A i \in 1 .. Len(Tail(q)) : Tail(q)[i] = q[i + 1]
         /\ Head(q) = q[1] /\ Head(q) \in F
  OBVIOUS

LEMMA ByAppend ==
  ASSUME NEW F, NEW q \in Seq(F), NEW m \in F, NEW d, NEW x
  PROVE  /\ \A i \in 1 .. Len(q) + 1 : By(d, Append(q, m), x, i) <=> By(d, q, x, i)
         /\ Gets(d, Append(q, m), x) <=> Gets(d, q, x) \/ Brings(m, x)
<1> DEFINE p == Append(q, m)
<1>1. /\ Len(q) \in Nat /\ Len(p) = Len(q) + 1 /\ p[Len(q) + 1] = m
      /\ \A i \in 1 .. Len(q) : p[i] = q[i]
  BY AppendedFrames
<1> HIDE DEF p
<1>2. ASSUME NEW i \in 1 .. Len(q) + 1
      PROVE  By(d, p, x, i) <=> By(d, q, x, i)
  <2>1. \A j \in 1 .. (i - 1) : p[j] = q[j]
    BY <1>1
  <2> QED
    BY <2>1 DEF By
<1>3. Gets(d, p, x) <=> Gets(d, q, x) \/ Brings(m, x)
  <2>1. 1 .. ((Len(p) + 1) - 1) = (1 .. ((Len(q) + 1) - 1)) \cup {Len(q) + 1}
    BY <1>1
  <2>2. \A j \in 1 .. ((Len(q) + 1) - 1) : p[j] = q[j]
    BY <1>1
  <2> QED
    BY <1>1, <2>1, <2>2 DEF Gets, By
<1> QED
  BY <1>2, <1>3 DEF p

LEMMA AnswersAppend ==
  ASSUME NEW F, NEW q \in Seq(F), NEW m \in F, NEW d, NEW x
  PROVE  /\ \A n \in 0 .. Len(q) : Answers(d, Append(q, m), x, n) <=> Answers(d, q, x, n)
         /\ Answers(d, q, x, Len(q)) => Answers(d, Append(q, m), x, Len(Append(q, m)))
         /\ Asks(m, x) /\ Gets(d, q, x) => Answers(d, Append(q, m), x, Len(Append(q, m)))
<1> DEFINE p == Append(q, m)
<1>1. /\ Len(q) \in Nat /\ Len(p) = Len(q) + 1 /\ p[Len(q) + 1] = m
      /\ \A i \in 1 .. Len(q) : p[i] = q[i]
  BY AppendedFrames
<1>2. \A i \in 1 .. Len(q) + 1 : By(d, p, x, i) <=> By(d, q, x, i)
  BY ByAppend
<1> HIDE DEF p
<1>3. \A i \in 1 .. Len(q) : Asks(p[i], x) /\ By(d, p, x, i) <=> Asks(q[i], x) /\ By(d, q, x, i)
  BY <1>1, <1>2
<1>4. \A n \in 0 .. Len(q) : Answers(d, p, x, n) <=> Answers(d, q, x, n)
  <2> TAKE n \in 0 .. Len(q)
  <2>1. 1 .. n \subseteq 1 .. Len(q)
    BY <1>1
  <2> QED
    BY <1>3, <2>1 DEF Answers
<1>5. Answers(d, q, x, Len(q)) => Answers(d, p, x, Len(p))
  <2>1. 1 .. Len(q) \subseteq 1 .. Len(p)
    BY <1>1
  <2> QED
    BY <1>3, <2>1 DEF Answers
<1>6. Asks(m, x) /\ Gets(d, q, x) => Answers(d, p, x, Len(p))
  <2>1. Len(q) + 1 \in 1 .. Len(p) /\ Len(q) + 1 \in 1 .. Len(q) + 1
    BY <1>1
  <2> QED
    BY <1>1, <1>2, <2>1 DEF Answers, Gets
<1> QED
  BY <1>4, <1>5, <1>6 DEF p

LEMMA BaseAppend ==
  ASSUME NEW F, NEW q \in Seq(F), NEW m \in F, NEW d, m.k # "welcome"
  PROVE  /\ Greeting(Append(q, m)) <=> Greeting(q)
         /\ WillAsk(Append(q, m)) <=> WillAsk(q)
         /\ Base(d, Append(q, m)) = Base(d, q)
         /\ \A i \in 1 .. Len(q) + 1 : LowAt(d, Append(q, m), i) <=> LowAt(d, q, i)
<1> DEFINE p == Append(q, m)
<1>1. /\ Len(q) \in Nat /\ Len(p) = Len(q) + 1 /\ p[Len(q) + 1] = m /\ p \in Seq(F)
      /\ \A i \in 1 .. Len(q) : p[i] = q[i]
  BY AppendedFrames
<1> HIDE DEF p
<1>2. /\ p # << >> /\ (q # << >> => p[1] = q[1]) /\ (q = << >> => p[1] = m)
  <2>1. CASE q = << >>
    BY <1>1, <2>1
  <2>2. CASE q # << >>
    <3>1. Len(q) >= 1
      BY <2>2
    <3> QED
      BY <1>1, <2>2, <3>1
  <2> QED
    BY <2>1, <2>2
<1>3. (Greeting(p) <=> Greeting(q)) /\ (Greeting(q) => p[1] = q[1])
  BY <1>2 DEF Greeting
<1>4. (WillAsk(p) <=> WillAsk(q)) /\ Base(d, p) = Base(d, q)
  BY <1>3 DEF WillAsk, Base
<1>5. ASSUME NEW i \in 1 .. Len(q) + 1
      PROVE  LowAt(d, p, i) <=> LowAt(d, q, i)
  <2>1. \A j \in 1 .. (i - 1) : p[j] = q[j]
    BY <1>1
  <2> QED
    BY <1>4, <2>1 DEF LowAt
<1> QED
  BY <1>3, <1>4, <1>5 DEF p

LEMMA ByTail ==
  ASSUME NEW F, NEW q \in Seq(F), q # << >>, NEW d, NEW e, NEW x,
         Has(d, x) \/ Brings(q[1], x) => Has(e, x)
  PROVE  /\ \A i \in 1 .. Len(q) : By(d, q, x, i + 1) => By(e, Tail(q), x, i)
         /\ Gets(d, q, x) => Gets(e, Tail(q), x)
         /\ (Has(e, x) => Has(d, x) \/ Brings(q[1], x)) =>
               /\ \A i \in 1 .. Len(q) : By(e, Tail(q), x, i) => By(d, q, x, i + 1)
               /\ Gets(e, Tail(q), x) => Gets(d, q, x)
<1> DEFINE p == Tail(q)
<1>1. /\ Len(q) \in Nat /\ Len(q) >= 1 /\ Len(p) = Len(q) - 1
      /\ \A i \in 1 .. Len(p) : p[i] = q[i + 1]
  BY TailFrames
<1> HIDE DEF p
<1>2. ASSUME NEW i \in 1 .. Len(q)
      PROVE  /\ By(d, q, x, i + 1) => By(e, p, x, i)
             /\ (Has(e, x) => Has(d, x) \/ Brings(q[1], x)) =>
                   (By(e, p, x, i) => By(d, q, x, i + 1))
  <2>1. i \in Nat /\ i - 1 <= Len(p)
    BY <1>1
  <2>2. ASSUME By(d, q, x, i + 1)
        PROVE  By(e, p, x, i)
    <3>1. CASE Has(d, x)
      BY <3>1 DEF By
    <3>2. ASSUME NEW j \in 1 .. ((i + 1) - 1), Brings(q[j], x)
          PROVE  By(e, p, x, i)
      <4>1. CASE j = 1
        BY <3>2, <4>1 DEF By
      <4>2. CASE j # 1
        <5>1. j - 1 \in 1 .. (i - 1) /\ j - 1 \in 1 .. Len(p) /\ (j - 1) + 1 = j
          BY <1>1, <2>1, <3>2, <4>2
        <5>2. p[j - 1] = q[j]
          BY <1>1, <5>1
        <5> QED
          BY <3>2, <5>1, <5>2 DEF By
      <4> QED
        BY <4>1, <4>2
    <3> QED
      BY <2>2, <3>1, <3>2 DEF By
  <2>3. ASSUME Has(e, x) => Has(d, x) \/ Brings(q[1], x), By(e, p, x, i)
        PROVE  By(d, q, x, i + 1)
    <3>0. 1 \in 1 .. ((i + 1) - 1)
      BY <2>1
    <3>1. CASE Has(e, x)
      BY <2>3, <3>0, <3>1 DEF By
    <3>2. ASSUME NEW j \in 1 .. (i - 1), Brings(p[j], x)
          PROVE  By(d, q, x, i + 1)
      <4>1. j \in 1 .. Len(p) /\ j + 1 \in 1 .. ((i + 1) - 1)
        BY <1>1, <2>1, <3>2
      <4>2. p[j] = q[j + 1]
        BY <1>1, <4>1
      <4> QED
        BY <3>2, <4>1, <4>2 DEF By
    <3> QED
      BY <2>3, <3>1, <3>2 DEF By
  <2> QED
    BY <2>2, <2>3
<1>3. Len(q) \in 1 .. Len(q) /\ Len(p) + 1 = Len(q)
  BY <1>1
<1>4. /\ Gets(d, q, x) => Gets(e, p, x)
      /\ (Has(e, x) => Has(d, x) \/ Brings(q[1], x)) => (Gets(e, p, x) => Gets(d, q, x))
  BY <1>2, <1>3 DEF Gets
<1> QED
  BY <1>2, <1>4 DEF p

LEMMA AnswersTail ==
  ASSUME NEW F, NEW q \in Seq(F), q # << >>, NEW d, NEW e, NEW x,
         Has(d, x) \/ Brings(q[1], x) => Has(e, x),
         NEW n \in 0 .. (Len(q) - 1), Answers(d, q, x, n + 1)
  PROVE  Answers(e, Tail(q), x, n) \/ (Asks(q[1], x) /\ Has(d, x))
<1>1. /\ Len(q) \in Nat /\ Len(q) >= 1 /\ Len(Tail(q)) = Len(q) - 1
      /\ \A i \in 1 .. Len(Tail(q)) : Tail(q)[i] = q[i + 1]
  BY TailFrames
<1>2. PICK i \in 1 .. (n + 1) : Asks(q[i], x) /\ By(d, q, x, i)
  BY DEF Answers
<1>3. CASE i = 1
  BY <1>2, <1>3 DEF By
<1>4. CASE i # 1
  <2>1. i - 1 \in 1 .. n /\ i - 1 \in 1 .. Len(Tail(q)) /\ (i - 1) + 1 = i /\ i - 1 \in 1 .. Len(q)
    BY <1>1, <1>2, <1>4
  <2>2. Tail(q)[i - 1] = q[i]
    BY <1>1, <2>1
  <2>3. By(e, Tail(q), x, i - 1)
    BY <1>2, <2>1, ByTail
  <2> QED
    BY <1>2, <2>1, <2>2, <2>3 DEF Answers
<1> QED
  BY <1>3, <1>4

\* A frame is asked later by one less.
LEMMA AsksTail ==
  ASSUME NEW F, NEW q \in Seq(F), q # << >>, NEW e, NEW x, Has(e, x),
         NEW i \in 2 .. Len(q), Asks(q[i], x)
  PROVE  Answers(e, Tail(q), x, Len(Tail(q)))
<1>1. /\ Len(q) \in Nat /\ Len(Tail(q)) = Len(q) - 1
      /\ \A j \in 1 .. Len(Tail(q)) : Tail(q)[j] = q[j + 1]
  BY TailFrames
<1>2. i - 1 \in 1 .. Len(Tail(q)) /\ (i - 1) + 1 = i
  BY <1>1
<1>3. Tail(q)[i - 1] = q[i]
  BY <1>1, <1>2
<1> QED
  BY <1>2, <1>3 DEF Answers, By

LEMMA LowTail ==
  ASSUME NEW F, NEW q \in Seq(F), q # << >>, NEW d, NEW e, e.link = d.link,
         \A r \in Base(e, Tail(q)) : r < d.link => r \in Base(d, q) /\ q[1] # LeaveOf(r),
         NEW i \in 1 .. Len(q), LowAt(d, q, i + 1)
  PROVE  LowAt(e, Tail(q), i)
<1>1. /\ Len(q) \in Nat /\ Len(Tail(q)) = Len(q) - 1
      /\ \A j \in 1 .. Len(Tail(q)) : Tail(q)[j] = q[j + 1]
  BY TailFrames
<1> SUFFICES ASSUME NEW r \in Base(e, Tail(q)), r < d.link
             PROVE  \E j \in 1 .. (i - 1) : Tail(q)[j] = LeaveOf(r)
  BY DEF LowAt
<1>2. PICK j \in 1 .. ((i + 1) - 1) : q[j] = LeaveOf(r)
  BY DEF LowAt
<1>3. j # 1
  BY <1>2
<1>4. j - 1 \in 1 .. (i - 1) /\ j - 1 \in 1 .. Len(Tail(q)) /\ (j - 1) + 1 = j
  BY <1>1, <1>2, <1>3
<1>5. Tail(q)[j - 1] = q[j]
  BY <1>1, <1>4
<1> QED
  BY <1>2, <1>4, <1>5

----------------------------------------------------------------------------
(* A connected tab sends a frame, and may have inserted what it brings       *)

Wired(tb, dn, F) ==
    dn \in [Ids -> Seq(F)] /\ \A t \in Tabs : tb[t].link \in Ids \cup {0}

\* Nothing changed that other tabs see of this one.
SameLine(d, e) == e.link = d.link /\ e.cut = d.cut /\ e.me = d.me /\ e.peers = d.peers

Speaks(tb, dn, tb2, dn2, t, m, F) ==
    /\ Wired(tb, dn, F) /\ Wired(tb2, dn2, F) /\ t \in On(tb) /\ m \in F
    /\ m.k \notin {"welcome", "join", "leave"}
    /\ \A u \in Tabs \ {t} : tb2[u] = tb[u]
    /\ SameLine(tb[t], tb2[t])
    /\ \A x \in Things : Has(tb2[t], x) <=> Has(tb[t], x) \/ Brings(m, x)
    /\ Line(tb2, dn2, t) = Line(tb, dn, t)
    /\ \A u \in On(tb) \ {t} : Line(tb2, dn2, u) = Append(Line(tb, dn, u), m)

LEMMA LineType ==
  ASSUME NEW F, NEW tb, NEW dn, Wired(tb, dn, F), NEW t \in On(tb)
  PROVE  /\ t \in Tabs /\ tb[t].link \in Ids /\ tb[t].link \in Nat /\ tb[t].link # 0
         /\ Line(tb, dn, t) \in Seq(F) /\ Len(Line(tb, dn, t)) \in Nat
<1>1. t \in Tabs /\ tb[t].link \in Ids
  BY DEF Wired, On
<1>2. Ids \subseteq Nat /\ 0 \notin Ids
  BY IdsType
<1>3. Line(tb, dn, t) \in Seq(F)
  BY <1>1 DEF Line, Wired
<1>4. tb[t].link \in Nat /\ tb[t].link # 0
  BY <1>1, <1>2
<1> HIDE DEF Line
<1>5. Len(Line(tb, dn, t)) \in Nat
  BY <1>3, LenProperties
<1> QED
  BY <1>1, <1>3, <1>4, <1>5

LEMMA OnTabs ==
  ASSUME NEW tb
  PROVE  On(tb) \subseteq Tabs
  BY DEF On

LEMMA SameHas ==
  ASSUME NEW d, NEW e, NEW q, NEW x, Has(e, x) <=> Has(d, x)
  PROVE  /\ \A i : By(e, q, x, i) <=> By(d, q, x, i)
         /\ Gets(e, q, x) <=> Gets(d, q, x)
         /\ \A n : Answers(e, q, x, n) <=> Answers(d, q, x, n)
<1>1. \A i : By(e, q, x, i) <=> By(d, q, x, i)
  BY DEF By
<1> QED
  BY <1>1 DEF Gets, Answers

LEMMA SameLow ==
  ASSUME NEW d, NEW e, NEW q, SameLine(d, e)
  PROVE  Base(e, q) = Base(d, q) /\ \A i : LowAt(e, q, i) <=> LowAt(d, q, i)
<1>1. Base(e, q) = Base(d, q)
  BY DEF Base, SameLine
<1> QED
  BY <1>1 DEF LowAt, SameLine

LEMMA SpeaksOn ==
  ASSUME NEW F, NEW tb, NEW dn, NEW tb2, NEW dn2, NEW t, NEW m, Speaks(tb, dn, tb2, dn2, t, m, F)
  PROVE  On(tb2) = On(tb) /\ \A u \in Tabs : SameLine(tb[u], tb2[u])
<1>1. \A u \in Tabs : SameLine(tb[u], tb2[u])
  BY DEF Speaks, SameLine
<1> QED
  BY <1>1 DEF On, SameLine

LEMMA SpeaksLine ==
  ASSUME NEW F, NEW tb, NEW dn, NEW tb2, NEW dn2, NEW t, NEW m, Speaks(tb, dn, tb2, dn2, t, m, F),
         NEW u \in On(tb)
  PROVE  LET d == tb[u]
             e == tb2[u]
             q == Line(tb, dn, u)
             p == Line(tb2, dn2, u)
         IN  /\ q \in Seq(F) /\ p \in Seq(F) /\ Len(q) \in Nat /\ Len(p) \in Nat /\ Len(q) <= Len(p)
             /\ Len(p) \in {Len(q), Len(q) + 1}
             /\ \A i \in 1 .. Len(q) : p[i] = q[i]
             /\ \A i \in 1 .. Len(p) : i \notin 1 .. Len(q) => p[i] = m
             /\ Greeting(p) <=> Greeting(q)
             /\ WillAsk(p) <=> WillAsk(q)
             /\ Greeting(q) => p[1] = q[1]
             /\ Base(e, p) = Base(d, q)
             /\ \A i \in 1 .. Len(q) + 1 : LowAt(e, p, i) <=> LowAt(d, q, i)
<1> DEFINE d == tb[u]
           e == tb2[u]
           q == Line(tb, dn, u)
           p == Line(tb2, dn2, u)
<1>0. m \in F /\ m.k # "welcome" /\ u \in Tabs
  BY DEF Speaks, On
<1>1. u \in On(tb2) /\ SameLine(d, e) /\ m \in F /\ m.k # "welcome"
  BY <1>0, SpeaksOn
<1>2. q \in Seq(F) /\ p \in Seq(F) /\ Len(q) \in Nat /\ Len(p) \in Nat
  BY <1>1, LineType DEF Speaks
<1>3. p = q \/ p = Append(q, m)
  BY DEF Speaks
<1> HIDE DEF d, e, p, q
<1>4. CASE p = q
  <2>1. \A i \in 1 .. Len(p) : i \in 1 .. Len(q)
    BY <1>4
  <2>2. Len(q) <= Len(p) /\ Len(p) \in {Len(q), Len(q) + 1}
    BY <1>2, <1>4
  <2> QED
    BY <1>1, <1>2, <1>4, <2>1, <2>2, SameLow DEF d, e, p, q
<1>5. CASE p = Append(q, m)
  <2>1. /\ Len(p) = Len(q) + 1 /\ \A i \in 1 .. Len(q) : p[i] = q[i]
        /\ p[Len(q) + 1] = m
    BY <1>1, <1>2, <1>5, AppendedFrames
  <2>2. \A i \in 1 .. Len(p) : i \notin 1 .. Len(q) => p[i] = m
    BY <1>2, <2>1
  <2>3. /\ Greeting(p) <=> Greeting(q)
        /\ WillAsk(p) <=> WillAsk(q)
        /\ Base(d, p) = Base(d, q)
        /\ \A i \in 1 .. Len(q) + 1 : LowAt(d, p, i) <=> LowAt(d, q, i)
    BY <1>1, <1>2, <1>5, BaseAppend
  <2>4. Base(e, p) = Base(d, p) /\ \A i : LowAt(e, p, i) <=> LowAt(d, p, i)
    BY <1>1, SameLow
  <2>5. Greeting(q) => p[1] = q[1]
    <3>1. Greeting(q) => 1 \in 1 .. Len(q)
      BY <1>2 DEF Greeting
    <3> QED
      BY <2>1, <3>1
  <2>6. Len(q) <= Len(p) /\ Len(p) \in {Len(q), Len(q) + 1}
    BY <1>2, <2>1
  <2> QED
    BY <1>2, <2>1, <2>2, <2>3, <2>4, <2>5, <2>6 DEF d, e, p, q
<1> QED
  BY <1>3, <1>4, <1>5

LEMMA SpeaksThings ==
  ASSUME NEW F, NEW tb, NEW dn, NEW tb2, NEW dn2, NEW t, NEW m, Speaks(tb, dn, tb2, dn2, t, m, F),
         NEW u \in On(tb), NEW x \in Things
  PROVE  LET d == tb[u]
             e == tb2[u]
             q == Line(tb, dn, u)
             p == Line(tb2, dn2, u)
         IN  /\ Gets(e, p, x) <=> Gets(d, q, x) \/ Brings(m, x)
             /\ ~Brings(m, x) =>
                   /\ \A i \in 1 .. Len(q) + 1 : By(e, p, x, i) <=> By(d, q, x, i)
                   /\ \A n \in 0 .. Len(q) : Answers(e, p, x, n) <=> Answers(d, q, x, n)
                   /\ Answers(d, q, x, Len(q)) => Answers(e, p, x, Len(p))
             /\ ~Brings(m, x) /\ u # t /\ Asks(m, x) /\ Gets(d, q, x) => Answers(e, p, x, Len(p))
<1> DEFINE d == tb[u]
           e == tb2[u]
           q == Line(tb, dn, u)
           p == Line(tb2, dn2, u)
<1>1. m \in F /\ q \in Seq(F) /\ Len(q) \in Nat
  BY LineType DEF Speaks
<1>2. CASE u = t
  <2>1. p = q /\ (Has(e, x) <=> Has(d, x) \/ Brings(m, x))
    BY <1>2 DEF Speaks
  <2> HIDE DEF d, e, p, q
  <2>2. ~Brings(m, x) => /\ \A i : By(e, q, x, i) <=> By(d, q, x, i)
                         /\ Gets(e, q, x) <=> Gets(d, q, x)
                         /\ \A n : Answers(e, q, x, n) <=> Answers(d, q, x, n)
    BY <2>1, SameHas
  <2>3. Brings(m, x) => Gets(e, q, x)
    BY <2>1 DEF Gets, By
  <2> QED
    BY <1>2, <2>1, <2>2, <2>3 DEF d, e, p, q
<1>3. CASE u # t
  <2>1. p = Append(q, m) /\ e = d
    BY <1>3 DEF Speaks, On
  <2> HIDE DEF d, e, p, q
  <2>2. /\ \A i \in 1 .. Len(q) + 1 : By(d, p, x, i) <=> By(d, q, x, i)
        /\ Gets(d, p, x) <=> Gets(d, q, x) \/ Brings(m, x)
    BY <1>1, <2>1, ByAppend
  <2>3. /\ \A n \in 0 .. Len(q) : Answers(d, p, x, n) <=> Answers(d, q, x, n)
        /\ Answers(d, q, x, Len(q)) => Answers(d, p, x, Len(p))
        /\ Asks(m, x) /\ Gets(d, q, x) => Answers(d, p, x, Len(p))
    BY <1>1, <2>1, AnswersAppend
  <2> QED
    BY <2>1, <2>2, <2>3 DEF d, e, p, q
<1> QED
  BY <1>2, <1>3

LEMMA SpeaksAsksAt ==
  ASSUME NEW F, NEW tb, NEW dn, NEW tb2, NEW dn2, NEW t, NEW m, Speaks(tb, dn, tb2, dn2, t, m, F),
         NEW l \in On(tb), NEW a \in Tabs, NEW i, AsksAt(tb, dn, l, a, i)
  PROVE  AsksAt(tb2, dn2, l, a, i)
<1> DEFINE q == Line(tb, dn, l)
           p == Line(tb2, dn2, l)
<1>1. /\ i \in 1 .. Len(q) /\ q[i] = JoinOf(tb[a].link) /\ LowAt(tb[l], q, i)
  BY DEF AsksAt
<1>2. tb2[a].link = tb[a].link
  BY SpeaksOn DEF SameLine
<1>3. /\ Len(q) \in Nat /\ Len(p) \in Nat /\ Len(q) <= Len(p)
      /\ \A j \in 1 .. Len(q) : p[j] = q[j]
      /\ \A j \in 1 .. Len(q) + 1 : LowAt(tb2[l], p, j) <=> LowAt(tb[l], q, j)
  BY SpeaksLine
<1> HIDE DEF p, q
<1>4. i \in 1 .. Len(p) /\ i \in 1 .. Len(q) + 1
  BY <1>1, <1>3
<1>5. i \in 1 .. Len(p) /\ p[i] = JoinOf(tb2[a].link) /\ LowAt(tb2[l], p, i)
  BY <1>1, <1>2, <1>3, <1>4
<1> QED
  BY <1>5 DEF AsksAt, p

LEMMA SpeaksDue ==
  ASSUME NEW F, NEW tb, NEW dn, NEW tb2, NEW dn2, NEW t, NEW m, Speaks(tb, dn, tb2, dn2, t, m, F),
         NEW a \in Tabs, NEW x \in Things, Due(tb, dn, a, x), ~Brings(m, x)
  PROVE  Due(tb2, dn2, a, x)
<1>1. PICK l \in On(tb) \ {a}, i \in Nat :
         /\ AsksAt(tb, dn, l, a, i)
         /\ \/ x[1] = "dead"
            \/ ~By(tb[l], Line(tb, dn, l), x, i)
            \/ Answers(tb[l], Line(tb, dn, l), x, i - 1)
  BY DEF Due
<1>2. AsksAt(tb2, dn2, l, a, i) /\ l \in On(tb2) \ {a}
  BY <1>1, SpeaksAsksAt, SpeaksOn
<1>3. Len(Line(tb, dn, l)) \in Nat
  BY <1>1, LineType DEF Speaks
<1>4. i \in 1 .. Len(Line(tb, dn, l)) + 1 /\ i - 1 \in 0 .. Len(Line(tb, dn, l))
  BY <1>1, <1>3 DEF AsksAt
<1>5. /\ By(tb2[l], Line(tb2, dn2, l), x, i) <=> By(tb[l], Line(tb, dn, l), x, i)
      /\ Answers(tb2[l], Line(tb2, dn2, l), x, i - 1) <=> Answers(tb[l], Line(tb, dn, l), x, i - 1)
  BY <1>1, <1>4, SpeaksThings
<1> QED
  BY <1>1, <1>2, <1>5 DEF Due

LEMMA SpeaksSpread ==
  ASSUME NEW F, NEW tb, NEW dn, NEW tb2, NEW dn2, NEW t, NEW m, Speaks(tb, dn, tb2, dn2, t, m, F),
         Spread(tb, dn)
  PROVE  Spread(tb2, dn2)
<1> SUFFICES ASSUME NEW a \in On(tb2), NEW b \in On(tb2) \ {a}, NEW x \in Things,
                    Gets(tb2[a], Line(tb2, dn2, a), x)
             PROVE  Reaches(tb2, dn2, a, b, x)
  BY DEF Spread
<1>1. a \in On(tb) /\ b \in On(tb) \ {a} /\ a \in Tabs
  BY SpeaksOn, OnTabs
<1>2. /\ Gets(tb2[a], Line(tb2, dn2, a), x) => Gets(tb[a], Line(tb, dn, a), x) \/ Brings(m, x)
      /\ Gets(tb[b], Line(tb, dn, b), x) \/ Brings(m, x) => Gets(tb2[b], Line(tb2, dn2, b), x)
  BY <1>1, SpeaksThings
<1>3. CASE Brings(m, x)
  BY <1>2, <1>3 DEF Reaches
<1>4. CASE ~Brings(m, x)
  <2>1. Reaches(tb, dn, a, b, x)
    BY <1>1, <1>2, <1>4 DEF Spread
  <2>2. WillAsk(Line(tb, dn, b)) => WillAsk(Line(tb2, dn2, b))
    BY <1>1, SpeaksLine
  <2>3. Answers(tb[a], Line(tb, dn, a), x, Len(Line(tb, dn, a)))
           => Answers(tb2[a], Line(tb2, dn2, a), x, Len(Line(tb2, dn2, a)))
    BY <1>1, <1>4, SpeaksThings
  <2>4. Due(tb, dn, a, x) => Due(tb2, dn2, a, x)
    BY <1>1, <1>4, SpeaksDue
  <2> QED
    BY <1>2, <2>1, <2>2, <2>3, <2>4 DEF Reaches
<1> QED
  BY <1>3, <1>4

LEMMA SpeaksGreeted ==
  ASSUME NEW F, NEW tb, NEW dn, NEW tb2, NEW dn2, NEW t, NEW m, Speaks(tb, dn, tb2, dn2, t, m, F),
         Greeted(tb, dn)
  PROVE  Greeted(tb2, dn2)
<1> SUFFICES ASSUME NEW a \in On(tb2), NEW b \in On(tb2) \ {a}, WillAsk(Line(tb2, dn2, a))
             PROVE  \/ WillAsk(Line(tb2, dn2, b))
                    \/ \E i \in 1 .. Len(Line(tb2, dn2, a)) : Line(tb2, dn2, a)[i].k = "s1"
                    \/ Awaited(tb2, dn2, a)
  BY DEF Greeted
<1>1. a \in On(tb) /\ b \in On(tb) \ {a} /\ a \in Tabs
  BY SpeaksOn, OnTabs
<1>2. /\ WillAsk(Line(tb2, dn2, a)) => WillAsk(Line(tb, dn, a))
      /\ WillAsk(Line(tb, dn, b)) => WillAsk(Line(tb2, dn2, b))
  BY <1>1, SpeaksLine
<1>3. \/ WillAsk(Line(tb, dn, b))
      \/ \E i \in 1 .. Len(Line(tb, dn, a)) : Line(tb, dn, a)[i].k = "s1"
      \/ Awaited(tb, dn, a)
  BY <1>1, <1>2 DEF Greeted
<1>4. /\ Len(Line(tb, dn, a)) \in Nat /\ Len(Line(tb2, dn2, a)) \in Nat
      /\ Len(Line(tb, dn, a)) <= Len(Line(tb2, dn2, a))
      /\ \A i \in 1 .. Len(Line(tb, dn, a)) : Line(tb2, dn2, a)[i] = Line(tb, dn, a)[i]
  BY <1>1, SpeaksLine
<1>5. ASSUME NEW i \in 1 .. Len(Line(tb, dn, a)), Line(tb, dn, a)[i].k = "s1"
      PROVE  \E j \in 1 .. Len(Line(tb2, dn2, a)) : Line(tb2, dn2, a)[j].k = "s1"
  <2>1. i \in 1 .. Len(Line(tb2, dn2, a)) /\ Line(tb2, dn2, a)[i].k = "s1"
    BY <1>4, <1>5
  <2> QED
    BY <2>1
<1>6. ASSUME Awaited(tb, dn, a)
      PROVE  Awaited(tb2, dn2, a)
  <2>1. PICK l \in On(tb) \ {a}, i \in Nat : AsksAt(tb, dn, l, a, i)
    BY <1>6 DEF Awaited
  <2>2. l \in On(tb2) \ {a} /\ AsksAt(tb2, dn2, l, a, i)
    BY <1>1, <2>1, SpeaksAsksAt, SpeaksOn
  <2> QED
    BY <2>2 DEF Awaited
<1> QED
  BY <1>2, <1>3, <1>5, <1>6

LEMMA SpeaksRoom ==
  ASSUME NEW F, NEW tb, NEW dn, NEW tb2, NEW dn2, NEW t, NEW m, Speaks(tb, dn, tb2, dn2, t, m, F),
         NEW ps, NEW nx, RoomOK(tb, dn, ps, nx)
  PROVE  RoomOK(tb2, dn2, ps, nx)
<1>1. /\ ps \subseteq 1 .. (nx - 1)
      /\ \A a, b \in On(tb2) : tb2[a].link = tb2[b].link => a = b
      /\ \A a \in Tabs : tb2[a].link = 0 => tb2[a].cut = FALSE
  BY SpeaksOn, OnTabs DEF RoomOK, SameLine
<1>2. ASSUME NEW a \in On(tb2)
      PROVE  LineOK(tb2[a], Line(tb2, dn2, a), ps, nx)
  <2> DEFINE d == tb[a]
             e == tb2[a]
             q == Line(tb, dn, a)
             p == Line(tb2, dn2, a)
  <2>1. a \in On(tb) /\ SameLine(d, e) /\ LineOK(d, q, ps, nx)
    BY SpeaksOn, OnTabs DEF RoomOK
  <2>2. /\ Len(q) \in Nat /\ Len(p) \in Nat /\ Len(q) <= Len(p)
        /\ \A i \in 1 .. Len(q) : p[i] = q[i]
        /\ \A i \in 1 .. Len(p) : i \notin 1 .. Len(q) => p[i] = m
        /\ Greeting(p) <=> Greeting(q)
        /\ Greeting(q) => p[1] = q[1]
        /\ Base(e, p) = Base(d, q)
    BY <2>1, SpeaksLine
  <2>3. m.k \notin {"welcome", "join", "leave"}
    BY DEF Speaks
  <2> HIDE DEF d, e, p, q
  <2>4. e.link \in ps /\ e.link \in Base(e, p) /\ e.link = d.link
    BY <2>1, <2>2 DEF LineOK, SameLine
  <2>5. ASSUME NEW i \in 1 .. Len(p)
        PROVE  /\ i # 1 => p[i].k # "welcome"
               /\ p[i].k = "join" => p[i].p \in Nat /\ d.link < p[i].p
               /\ p[i].k = "leave" => p[i].p \notin ps /\ p[i].p \in 1 .. (nx - 1)
    <3>1. CASE i \in 1 .. Len(q)
      <4>1. p[i] = q[i] /\ (i # 1 => i \in 2 .. Len(q))
        BY <2>2, <3>1
      <4> QED
        BY <2>1, <3>1, <4>1 DEF LineOK
    <3>2. CASE i \notin 1 .. Len(q)
      BY <2>2, <2>3, <3>2
    <3> QED
      BY <3>1, <3>2
  <2>6. \A i \in 2 .. Len(p) : i \in 1 .. Len(p) /\ i # 1
    BY <2>2
  <2>7. IF Greeting(p) THEN p[1].me = e.link ELSE e.me = e.link
    BY <2>1, <2>2, <2>4 DEF LineOK, SameLine
  <2>8. ASSUME NEW r \in 1 .. (e.link - 1)
        PROVE  IF r \in ps THEN r \in Base(e, p)
               ELSE r \notin Base(e, p) \/ \E i \in 1 .. Len(p) : p[i] = LeaveOf(r)
    <3>1. IF r \in ps THEN r \in Base(d, q)
          ELSE r \notin Base(d, q) \/ \E i \in 1 .. Len(q) : q[i] = LeaveOf(r)
      BY <2>1, <2>4 DEF LineOK
    <3>2. (\E i \in 1 .. Len(q) : q[i] = LeaveOf(r)) => \E i \in 1 .. Len(p) : p[i] = LeaveOf(r)
      <4>1. \A i \in 1 .. Len(q) : i \in 1 .. Len(p)
        BY <2>2
      <4> QED
        BY <2>2, <4>1
    <3> QED
      BY <2>2, <3>1, <3>2
  <2> QED
    BY <2>4, <2>5, <2>6, <2>7, <2>8 DEF LineOK, e, p
<1> QED
  BY <1>1, <1>2 DEF RoomOK

\* The backlog after a frame: what it was, or the op itself.
Pushed(bl, bl2, m) ==
    \A i \in 1 .. Len(bl2) :
       /\ <<"got", bl2[i]>> \in Things
       /\ (\E j \in 1 .. Len(bl) : bl2[i] = bl[j]) \/ Brings(m, <<"got", bl2[i]>>)

LEMMA SpeaksKept ==
  ASSUME NEW F, NEW tb, NEW dn, NEW tb2, NEW dn2, NEW t, NEW m, Speaks(tb, dn, tb2, dn2, t, m, F),
         NEW bl, NEW bl2, Kept(tb, dn, bl),
         Pushed(bl, bl2, m)
  PROVE  Kept(tb2, dn2, bl2)
<1> SUFFICES ASSUME NEW i \in 1 .. Len(bl2), NEW a \in On(tb2)
             PROVE  Gets(tb2[a], Line(tb2, dn2, a), <<"got", bl2[i]>>)
  BY DEF Kept
<1>1. a \in On(tb)
  BY SpeaksOn
<1>2. /\ <<"got", bl2[i]>> \in Things
      /\ Gets(tb[a], Line(tb, dn, a), <<"got", bl2[i]>>) \/ Brings(m, <<"got", bl2[i]>>)
  BY <1>1 DEF Kept, Pushed
<1> QED
  BY <1>1, <1>2, SpeaksThings

----------------------------------------------------------------------------
(* A connected tab takes a frame; what it says to that has been sent         *)

HasAsk(q) == \E i \in 1 .. Len(q) : q[i].k = "s1"

Knows(d, e, h) ==
    CASE h.k = "welcome" -> e.me = h.me /\ e.peers = h.peers
      [] h.k = "join"    -> e.me = d.me /\ e.peers = d.peers \cup {h.p}
      [] h.k = "leave"   -> e.me = d.me /\ e.peers = d.peers \ {h.p}
      [] OTHER           -> e.me = d.me /\ e.peers = d.peers

\* Tab d becomes e by the first frame of q.
Turns(d, e, q) ==
    /\ q # << >> /\ e.link = d.link /\ e.cut = d.cut
    /\ Knows(d, e, q[1])
    /\ \A x \in Things :
          /\ Has(d, x) \/ Brings(q[1], x) => Has(e, x)
          /\ Has(e, x) => Has(d, x) \/ Brings(q[1], x) \/ (x[1] = "dead" /\ WillAsk(q))

\* What d had to say to that first frame is on its way to another tab f.
Said(d, e, q, f, p) ==
    /\ \A x \in Things : Asks(q[1], x) /\ Has(d, x) => Gets(f, p, x)
    /\ WillAsk(q) =>
          /\ HasAsk(p)
          /\ \A x \in Things : Gets(f, p, x) => Has(e, x) \/ Answers(f, p, x, Len(p))
    /\ q[1] = JoinOf(f.link) /\ LowAt(d, q, 1) =>
          /\ HasAsk(p)
          /\ \A x \in Things : Gets(f, p, x) /\ (x[1] = "dead" \/ ~Has(d, x)) => Answers(f, p, x, Len(p))

Takes(tb, dn, tb2, dn2, t, F) ==
    /\ Wired(tb, dn, F) /\ Wired(tb2, dn2, F) /\ t \in On(tb)
    /\ \A u \in Tabs \ {t} : tb2[u] = tb[u]
    /\ \A u \in On(tb) \ {t} : Line(tb2, dn2, u) = Line(tb, dn, u)
    /\ Turns(tb[t], tb2[t], Line(tb, dn, t))
    /\ Line(tb2, dn2, t) = Tail(Line(tb, dn, t))
    /\ \A u \in On(tb) \ {t} :
          Said(tb[t], tb2[t], Line(tb, dn, t), tb[u], Line(tb, dn, u))

LEMMA TakesOn ==
  ASSUME NEW F, NEW tb, NEW dn, NEW tb2, NEW dn2, NEW t, Takes(tb, dn, tb2, dn2, t, F)
  PROVE  /\ On(tb2) = On(tb) /\ \A u \in Tabs : tb2[u].link = tb[u].link /\ tb2[u].cut = tb[u].cut
         /\ t \in On(tb) /\ t \in Tabs
         /\ \A u \in On(tb) \ {t} : tb2[u] = tb[u] /\ Line(tb2, dn2, u) = Line(tb, dn, u)
         /\ \A u \in On(tb) : /\ Line(tb, dn, u) \in Seq(F) /\ Line(tb2, dn2, u) \in Seq(F)
                              /\ Len(Line(tb, dn, u)) \in Nat /\ tb[u].link \in Nat
<1>1. t \in On(tb) /\ t \in Tabs /\ \A u \in On(tb) \ {t} : Line(tb2, dn2, u) = Line(tb, dn, u)
  BY OnTabs DEF Takes
<1>2. \A u \in Tabs : tb2[u].link = tb[u].link /\ tb2[u].cut = tb[u].cut
  BY DEF Takes, Turns
<1>3. On(tb2) = On(tb)
  BY <1>2 DEF On
<1>4. \A u \in On(tb) \ {t} : tb2[u] = tb[u]
  BY OnTabs DEF Takes
<1>5. Wired(tb, dn, F) /\ Wired(tb2, dn2, F)
  BY DEF Takes
<1>6. ASSUME NEW u \in On(tb)
      PROVE  /\ Line(tb, dn, u) \in Seq(F) /\ Line(tb2, dn2, u) \in Seq(F)
             /\ Len(Line(tb, dn, u)) \in Nat /\ tb[u].link \in Nat
  BY <1>3, <1>5, LineType
<1> QED
  BY <1>1, <1>2, <1>3, <1>4, <1>6

\* What the tab knows of the room, behind the first frame.
LEMMA TurnsBase ==
  ASSUME NEW F, NEW d, NEW e, NEW q \in Seq(F), Turns(d, e, q), NEW ps, NEW nx, LineOK(d, q, ps, nx),
         d.link \in Nat
  PROVE  /\ ~Greeting(Tail(q)) /\ Base(e, Tail(q)) = e.peers /\ e.me = d.link
         /\ \A r \in e.peers : r < d.link => r \in Base(d, q) /\ q[1] # LeaveOf(r)
         /\ \A r \in Base(d, q) : r \in e.peers \/ q[1] = LeaveOf(r) \/ (q[1].k = "leave" /\ q[1].p = r)
         /\ q[1].k = "leave" => q[1].p \notin ps
<1>1. /\ q # << >> /\ Len(q) \in Nat /\ Len(q) >= 1 /\ Len(Tail(q)) = Len(q) - 1
      /\ \A i \in 1 .. Len(Tail(q)) : Tail(q)[i] = q[i + 1]
      /\ Tail(q) \in Seq(F)
  BY TailFrames DEF Turns
<1>2. ~Greeting(Tail(q))
  <2>1. CASE Tail(q) = << >>
    BY <2>1 DEF Greeting
  <2>2. CASE Tail(q) # << >>
    <3>1. Len(Tail(q)) >= 1 /\ Len(Tail(q)) \in Nat
      BY <1>1, <2>2
    <3>2. 1 \in 1 .. Len(Tail(q)) /\ 2 \in 2 .. Len(q) /\ 1 + 1 = 2
      BY <1>1, <3>1
    <3>3. Tail(q)[1] = q[2] /\ q[2].k # "welcome"
      BY <1>1, <3>2 DEF LineOK
    <3> QED
      BY <3>3 DEF Greeting
  <2> QED
    BY <2>1, <2>2
<1>3. Base(e, Tail(q)) = e.peers
  BY <1>2 DEF Base
<1>4. 1 \in 1 .. Len(q)
  BY <1>1
<1>5. /\ q[1].k = "join" => q[1].p \in Nat /\ d.link < q[1].p
      /\ q[1].k = "leave" => q[1].p \notin ps
  BY <1>4 DEF LineOK
<1>6. /\ LeaveOf(0).k = "leave" /\ \A r : LeaveOf(r).k = "leave" /\ LeaveOf(r).p = r
  BY DEF LeaveOf
<1>7. CASE q[1].k = "welcome"
  <2>1. e.me = q[1].me /\ e.peers = q[1].peers
    BY <1>7 DEF Turns, Knows
  <2>2. Base(d, q) = q[1].peers /\ q[1].me = d.link
    BY <1>1, <1>7 DEF Base, Greeting, LineOK
  <2>3. \A r : q[1] # LeaveOf(r)
    BY <1>6, <1>7
  <2> QED
    BY <1>2, <1>3, <1>7, <2>1, <2>2, <2>3
<1>8. CASE q[1].k # "welcome"
  <2>1. Base(d, q) = d.peers /\ d.me = d.link
    BY <1>8 DEF Base, Greeting, LineOK
  <2>2. CASE q[1].k = "join"
    <3>1. e.me = d.me /\ e.peers = d.peers \cup {q[1].p}
      BY <2>2 DEF Turns, Knows
    <3>2. \A r : q[1] # LeaveOf(r)
      BY <1>6, <2>2
    <3>3. ASSUME NEW r \in e.peers, r < d.link
          PROVE  r \in d.peers
      <4>1. CASE r = q[1].p
        <5>1. r \in Nat /\ d.link < r /\ r < d.link
          BY <1>5, <2>2, <3>3, <4>1
        <5> QED
          BY <5>1
      <4> QED
        BY <3>1, <4>1
    <3> QED
      BY <1>2, <1>3, <1>5, <2>1, <3>1, <3>2, <3>3
  <2>3. CASE q[1].k = "leave"
    <3>1. e.me = d.me /\ e.peers = d.peers \ {q[1].p}
      BY <2>3 DEF Turns, Knows
    <3>2. \A r \in e.peers : q[1] # LeaveOf(r)
      BY <1>6, <3>1
    <3> QED
      BY <1>2, <1>3, <1>5, <2>1, <2>3, <3>1, <3>2
  <2>4. CASE q[1].k \notin {"join", "leave"}
    <3>1. e.me = d.me /\ e.peers = d.peers
      BY <1>8, <2>4 DEF Turns, Knows
    <3>2. \A r : q[1] # LeaveOf(r)
      BY <1>6, <2>4
    <3> QED
      BY <1>2, <1>3, <2>1, <2>4, <3>1, <3>2
  <2> QED
    BY <2>2, <2>3, <2>4
<1> QED
  BY <1>7, <1>8

LEMMA TurnsLine ==
  ASSUME NEW F, NEW d, NEW e, NEW q \in Seq(F), Turns(d, e, q), NEW ps, NEW nx, LineOK(d, q, ps, nx),
         d.link \in Nat
  PROVE  LineOK(e, Tail(q), ps, nx)
<1> DEFINE p == Tail(q)
<1>1. /\ q # << >> /\ Len(q) \in Nat /\ Len(q) >= 1 /\ Len(p) = Len(q) - 1
      /\ \A i \in 1 .. Len(p) : p[i] = q[i + 1]
  BY TailFrames DEF Turns
<1>2. /\ ~Greeting(p) /\ Base(e, p) = e.peers /\ e.me = d.link
      /\ \A r \in e.peers : r < d.link => r \in Base(d, q) /\ q[1] # LeaveOf(r)
      /\ \A r \in Base(d, q) : r \in e.peers \/ q[1] = LeaveOf(r) \/ (q[1].k = "leave" /\ q[1].p = r)
      /\ q[1].k = "leave" => q[1].p \notin ps
  BY TurnsBase
<1>3. e.link = d.link
  BY DEF Turns
<1> HIDE DEF p
<1>4. \A i \in 1 .. Len(p) : i + 1 \in 2 .. Len(q) /\ i + 1 \in 1 .. Len(q)
  BY <1>1
<1>5. /\ \A i \in 2 .. Len(p) : p[i].k # "welcome"
      /\ \A i \in 1 .. Len(p) : p[i].k = "join" => p[i].p \in Nat /\ e.link < p[i].p
      /\ \A i \in 1 .. Len(p) : p[i].k = "leave" => p[i].p \notin ps /\ p[i].p \in 1 .. (nx - 1)
  <2>1. \A i \in 2 .. Len(p) : i \in 1 .. Len(p)
    BY <1>1
  <2> QED
    BY <1>1, <1>3, <1>4, <2>1 DEF LineOK
<1>6. \A r : q[1] = LeaveOf(r) => q[1].k = "leave" /\ q[1].p = r
  BY DEF LeaveOf
<1>7. \A r \in ps : r \in Base(d, q) => r \in e.peers
  BY <1>2, <1>6
<1>8. ASSUME NEW r \in 1 .. (e.link - 1)
      PROVE  IF r \in ps THEN r \in Base(e, p)
             ELSE r \notin Base(e, p) \/ \E i \in 1 .. Len(p) : p[i] = LeaveOf(r)
  <2>1. IF r \in ps THEN r \in Base(d, q)
        ELSE r \notin Base(d, q) \/ \E i \in 1 .. Len(q) : q[i] = LeaveOf(r)
    BY <1>3 DEF LineOK
  <2>2. CASE r \in ps
    BY <1>2, <1>7, <2>1, <2>2
  <2>3. CASE r \notin ps /\ r \in e.peers
    <3>1. r \in Base(d, q) /\ q[1] # LeaveOf(r)
      BY <1>2, <1>3, <2>3
    <3>2. PICK i \in 1 .. Len(q) : q[i] = LeaveOf(r)
      BY <2>1, <2>3, <3>1
    <3>3. i # 1
      BY <3>1, <3>2
    <3>4. i - 1 \in 1 .. Len(p) /\ (i - 1) + 1 = i
      BY <1>1, <3>2, <3>3
    <3>5. p[i - 1] = LeaveOf(r)
      BY <1>1, <3>2, <3>4
    <3> QED
      BY <2>3, <3>4, <3>5
  <2>4. CASE r \notin ps /\ r \notin e.peers
    BY <1>2, <2>4
  <2> QED
    BY <2>2, <2>3, <2>4
<1>9. e.link \in ps /\ e.link \in Base(e, p)
  BY <1>2, <1>3, <1>7 DEF LineOK
<1> QED
  BY <1>2, <1>3, <1>5, <1>8, <1>9 DEF LineOK, p

LEMMA TakesRoom ==
  ASSUME NEW F, NEW tb, NEW dn, NEW tb2, NEW dn2, NEW t, Takes(tb, dn, tb2, dn2, t, F),
         NEW ps, NEW nx, RoomOK(tb, dn, ps, nx)
  PROVE  RoomOK(tb2, dn2, ps, nx)
<1>1. /\ ps \subseteq 1 .. (nx - 1)
      /\ \A a, b \in On(tb2) : tb2[a].link = tb2[b].link => a = b
      /\ \A a \in Tabs : tb2[a].link = 0 => tb2[a].cut = FALSE
  BY TakesOn, OnTabs DEF RoomOK
<1>2. ASSUME NEW a \in On(tb2)
      PROVE  LineOK(tb2[a], Line(tb2, dn2, a), ps, nx)
  <2>1. a \in On(tb) /\ LineOK(tb[a], Line(tb, dn, a), ps, nx)
    BY TakesOn DEF RoomOK
  <2>2. CASE a # t
    BY <2>1, <2>2, TakesOn
  <2>3. CASE a = t
    <3>1. Turns(tb[a], tb2[a], Line(tb, dn, a)) /\ Line(tb2, dn2, a) = Tail(Line(tb, dn, a))
      BY <2>3 DEF Takes
    <3>2. Line(tb, dn, a) \in Seq(F) /\ tb[a].link \in Nat
      BY <2>1, TakesOn
    <3> QED
      BY <2>1, <3>1, <3>2, TurnsLine
  <2> QED
    BY <2>2, <2>3
<1> QED
  BY <1>1, <1>2 DEF RoomOK

\* A question to come is still to come, or it is the one just put.
LEMMA TakesAsksAt ==
  ASSUME NEW F, NEW tb, NEW dn, NEW tb2, NEW dn2, NEW t, Takes(tb, dn, tb2, dn2, t, F),
         NEW ps, NEW nx, RoomOK(tb, dn, ps, nx),
         NEW l \in On(tb), NEW a \in Tabs, NEW i \in Nat, AsksAt(tb, dn, l, a, i)
  PROVE  /\ l # t => AsksAt(tb2, dn2, l, a, i)
         /\ l = t /\ i # 1 => AsksAt(tb2, dn2, l, a, i - 1)
         /\ l = t /\ i = 1 => Line(tb, dn, t)[1] = JoinOf(tb[a].link) /\ LowAt(tb[t], Line(tb, dn, t), 1)
<1>1. tb2[a].link = tb[a].link
  BY TakesOn
<1>2. l # t => AsksAt(tb2, dn2, l, a, i)
  BY <1>1, TakesOn DEF AsksAt
<1>3. l = t /\ i = 1 => Line(tb, dn, t)[1] = JoinOf(tb[a].link) /\ LowAt(tb[t], Line(tb, dn, t), 1)
  BY DEF AsksAt
<1>4. ASSUME l = t, i # 1
      PROVE  AsksAt(tb2, dn2, l, a, i - 1)
  <2> DEFINE q == Line(tb, dn, t)
             d == tb[t]
             e == tb2[t]
             p == Line(tb2, dn2, t)
  <2>1. /\ Turns(d, e, q) /\ q \in Seq(F) /\ p = Tail(q) /\ LineOK(d, q, ps, nx) /\ d.link \in Nat
        /\ e.link = d.link
    BY TakesOn DEF Takes, RoomOK, Turns
  <2>2. i \in 1 .. Len(q) /\ q[i] = JoinOf(tb[a].link) /\ LowAt(d, q, i)
    BY <1>4 DEF AsksAt
  <2> HIDE DEF d, e, p, q
  <2>3. /\ q # << >> /\ Len(q) \in Nat /\ Len(p) = Len(q) - 1
        /\ \A j \in 1 .. Len(p) : p[j] = q[j + 1]
    BY <2>1, TailFrames DEF Turns
  <2>4. i - 1 \in 1 .. Len(p) /\ i - 1 \in 1 .. Len(q) /\ (i - 1) + 1 = i
    BY <1>4, <2>2, <2>3
  <2>5. \A r \in Base(e, p) : r < d.link => r \in Base(d, q) /\ q[1] # LeaveOf(r)
    BY <2>1, TurnsBase
  <2>6. LowAt(e, p, i - 1)
    BY <2>1, <2>2, <2>3, <2>4, <2>5, LowTail
  <2>7. p[i - 1] = JoinOf(tb2[a].link)
    BY <1>1, <2>2, <2>3, <2>4
  <2> QED
    BY <1>4, <2>4, <2>6, <2>7 DEF AsksAt, p, e
<1> QED
  BY <1>2, <1>3, <1>4

LEMMA TakesThings ==
  ASSUME NEW F, NEW tb, NEW dn, NEW tb2, NEW dn2, NEW t, Takes(tb, dn, tb2, dn2, t, F),
         NEW x \in Things
  PROVE  LET d == tb[t]
             e == tb2[t]
             q == Line(tb, dn, t)
             p == Line(tb2, dn2, t)
         IN  /\ Gets(d, q, x) => Gets(e, p, x)
             /\ Gets(e, p, x) => Gets(d, q, x) \/ (Has(e, x) /\ x[1] = "dead" /\ WillAsk(q))
             /\ x[1] # "dead" => \A i \in 1 .. Len(q) : By(e, p, x, i) => By(d, q, x, i + 1)
             /\ \A n \in 0 .. (Len(q) - 1) :
                   Answers(d, q, x, n + 1) => Answers(e, p, x, n) \/ (Asks(q[1], x) /\ Has(d, x))
             /\ Len(p) = Len(q) - 1 /\ Len(q) \in Nat /\ Len(q) >= 1
<1> DEFINE q == Line(tb, dn, t)
           d == tb[t]
           e == tb2[t]
           p == Line(tb2, dn2, t)
<1>1. /\ q \in Seq(F) /\ p = Tail(q) /\ q # << >>
      /\ Has(d, x) \/ Brings(q[1], x) => Has(e, x)
      /\ Has(e, x) => Has(d, x) \/ Brings(q[1], x) \/ (x[1] = "dead" /\ WillAsk(q))
  BY TakesOn DEF Takes, Turns
<1> HIDE DEF d, e, p, q
<1>2. /\ Gets(d, q, x) => Gets(e, p, x)
      /\ (Has(e, x) => Has(d, x) \/ Brings(q[1], x)) =>
            /\ \A i \in 1 .. Len(q) : By(e, p, x, i) => By(d, q, x, i + 1)
            /\ Gets(e, p, x) => Gets(d, q, x)
  BY <1>1, ByTail
<1>3. \A n \in 0 .. (Len(q) - 1) :
         Answers(d, q, x, n + 1) => Answers(e, p, x, n) \/ (Asks(q[1], x) /\ Has(d, x))
  BY <1>1, AnswersTail
<1>4. Len(p) = Len(q) - 1 /\ Len(q) \in Nat /\ Len(q) >= 1
  BY <1>1, TailFrames
<1>5. Gets(e, p, x) => Gets(d, q, x) \/ (Has(e, x) /\ x[1] = "dead" /\ WillAsk(q))
  BY <1>1, <1>2
<1>6. x[1] # "dead" => \A i \in 1 .. Len(q) : By(e, p, x, i) => By(d, q, x, i + 1)
  BY <1>1, <1>2
<1> QED
  BY <1>2, <1>3, <1>4, <1>5, <1>6 DEF d, e, p, q

\* What was to come to b by a question to a.
LEMMA TakesDue ==
  ASSUME NEW F, NEW tb, NEW dn, NEW tb2, NEW dn2, NEW t, Takes(tb, dn, tb2, dn2, t, F),
         NEW ps, NEW nx, RoomOK(tb, dn, ps, nx),
         NEW a \in On(tb), NEW b \in On(tb) \ {a}, NEW x \in Things,
         Gets(tb[a], Line(tb, dn, a), x), Due(tb, dn, a, x)
  PROVE  Reaches(tb2, dn2, a, b, x)
<1>1. PICK l \in On(tb) \ {a}, i \in Nat :
         /\ AsksAt(tb, dn, l, a, i)
         /\ \/ x[1] = "dead"
            \/ ~By(tb[l], Line(tb, dn, l), x, i)
            \/ Answers(tb[l], Line(tb, dn, l), x, i - 1)
  BY DEF Due
<1>2. a \in Tabs /\ On(tb2) = On(tb) /\ t \in On(tb)
  BY TakesOn, OnTabs
<1>3. CASE l # t
  <2>1. AsksAt(tb2, dn2, l, a, i)
    BY <1>1, <1>2, <1>3, TakesAsksAt
  <2>2. tb2[l] = tb[l] /\ Line(tb2, dn2, l) = Line(tb, dn, l)
    BY <1>1, <1>3, TakesOn
  <2> QED
    BY <1>1, <1>2, <2>1, <2>2 DEF Reaches, Due
<1>4. CASE l = t
  <2> DEFINE d == tb[t]
             e == tb2[t]
             q == Line(tb, dn, t)
             p == Line(tb2, dn2, t)
  <2>1. /\ Gets(d, q, x) => Gets(e, p, x)
        /\ x[1] # "dead" => \A j \in 1 .. Len(q) : By(e, p, x, j) => By(d, q, x, j + 1)
        /\ \A n \in 0 .. (Len(q) - 1) :
              Answers(d, q, x, n + 1) => Answers(e, p, x, n) \/ (Asks(q[1], x) /\ Has(d, x))
        /\ Len(p) = Len(q) - 1 /\ Len(q) \in Nat /\ Len(q) >= 1
    BY TakesThings
  <2>2. /\ x[1] = "dead" \/ ~By(d, q, x, i) \/ Answers(d, q, x, i - 1)
        /\ i \in 1 .. Len(q) /\ t # a
    BY <1>1, <1>4 DEF AsksAt
  <2>3. CASE i = 1
    <3>1. q[1] = JoinOf(tb[a].link) /\ LowAt(d, q, 1)
      BY <1>1, <1>2, <1>4, <2>3, TakesAsksAt
    <3>2. ~Answers(d, q, x, i - 1)
      BY <2>3 DEF Answers
    <3>3. x[1] = "dead" \/ ~Has(d, x)
      BY <2>2, <3>2 DEF By
    <3>4. Answers(tb[a], Line(tb, dn, a), x, Len(Line(tb, dn, a)))
      BY <2>2, <3>1, <3>3 DEF Takes, Said
    <3>5. tb2[a] = tb[a] /\ Line(tb2, dn2, a) = Line(tb, dn, a)
      BY <2>2, TakesOn
    <3> QED
      BY <3>4, <3>5 DEF Reaches
  <2>4. CASE i # 1
    <3>1. AsksAt(tb2, dn2, t, a, i - 1) /\ i - 1 \in Nat
      BY <1>1, <1>2, <1>4, <2>2, <2>4, TakesAsksAt
    <3>2. CASE x[1] = "dead"
      BY <1>2, <2>2, <3>1, <3>2 DEF Reaches, Due
    <3>3. CASE x[1] # "dead" /\ ~By(d, q, x, i)
      <4>1. i - 1 \in 1 .. Len(q) /\ (i - 1) + 1 = i
        BY <2>2, <2>4
      <4>2. ~By(e, p, x, i - 1)
        BY <2>1, <3>3, <4>1
      <4> QED
        BY <1>2, <2>2, <3>1, <4>2 DEF Reaches, Due
    <3>4. CASE Answers(d, q, x, i - 1)
      <4>1. (i - 1) - 1 \in 0 .. (Len(q) - 1) /\ ((i - 1) - 1) + 1 = i - 1
        BY <2>1, <2>2, <2>4
      <4>2. Answers(e, p, x, (i - 1) - 1) \/ (Asks(q[1], x) /\ Has(d, x))
        BY <2>1, <3>4, <4>1
      <4>3. CASE Answers(e, p, x, (i - 1) - 1)
        BY <1>2, <2>2, <3>1, <4>3 DEF Reaches, Due
      <4>4. CASE Asks(q[1], x) /\ Has(d, x)
        <5>1. CASE b = t
          <6>1. Gets(d, q, x)
            BY <4>4 DEF Gets, By
          <6> QED
            BY <2>1, <5>1, <6>1 DEF Reaches
        <5>2. CASE b # t
          <6>1. Gets(tb[b], Line(tb, dn, b), x)
            BY <4>4, <5>2 DEF Takes, Said
          <6>2. tb2[b] = tb[b] /\ Line(tb2, dn2, b) = Line(tb, dn, b)
            BY <5>2, TakesOn
          <6> QED
            BY <6>1, <6>2 DEF Reaches
        <5> QED
          BY <5>1, <5>2
      <4> QED
        BY <4>2, <4>3, <4>4
    <3> QED
      BY <2>2, <3>2, <3>3, <3>4
  <2> QED
    BY <2>3, <2>4
<1> QED
  BY <1>3, <1>4

LEMMA TakesSpread ==
  ASSUME NEW F, NEW tb, NEW dn, NEW tb2, NEW dn2, NEW t, Takes(tb, dn, tb2, dn2, t, F),
         NEW ps, NEW nx, RoomOK(tb, dn, ps, nx), Spread(tb, dn), Greeted(tb, dn)
  PROVE  Spread(tb2, dn2)
<1> SUFFICES ASSUME NEW a \in On(tb2), NEW b \in On(tb2) \ {a}, NEW x \in Things,
                    Gets(tb2[a], Line(tb2, dn2, a), x)
             PROVE  Reaches(tb2, dn2, a, b, x)
  BY DEF Spread
<1> DEFINE d == tb[t]
           e == tb2[t]
           q == Line(tb, dn, t)
           p == Line(tb2, dn2, t)
<1>1. /\ a \in On(tb) /\ b \in On(tb) \ {a} /\ a \in Tabs /\ On(tb2) = On(tb)
      /\ \A u \in On(tb) \ {t} : tb2[u] = tb[u] /\ Line(tb2, dn2, u) = Line(tb, dn, u)
      /\ q \in Seq(F) /\ q # << >> /\ p = Tail(q)
  BY TakesOn, OnTabs DEF Takes, Turns
<1>2. /\ Gets(d, q, x) => Gets(e, p, x)
      /\ Gets(e, p, x) => Gets(d, q, x) \/ (Has(e, x) /\ x[1] = "dead" /\ WillAsk(q))
      /\ \A n \in 0 .. (Len(q) - 1) :
            Answers(d, q, x, n + 1) => Answers(e, p, x, n) \/ (Asks(q[1], x) /\ Has(d, x))
      /\ Len(p) = Len(q) - 1 /\ Len(q) \in Nat /\ Len(q) >= 1
  BY TakesThings
<1>3. CASE Gets(tb[a], Line(tb, dn, a), x)
  <2>1. Reaches(tb, dn, a, b, x)
    BY <1>1, <1>3 DEF Spread
  <2>2. CASE Gets(tb[b], Line(tb, dn, b), x)
    <3>1. Gets(tb2[b], Line(tb2, dn2, b), x)
      BY <1>1, <1>2, <2>2
    <3> QED
      BY <3>1 DEF Reaches
  <2>3. CASE WillAsk(Line(tb, dn, b))
    <3>1. CASE b # t
      BY <1>1, <2>3, <3>1 DEF Reaches
    <3>2. CASE b = t
      <4>1. Has(e, x) \/ Answers(tb[a], Line(tb, dn, a), x, Len(Line(tb, dn, a)))
        BY <1>1, <1>3, <2>3, <3>2 DEF Takes, Said
      <4>2. Has(e, x) => Gets(tb2[b], Line(tb2, dn2, b), x)
        BY <3>2 DEF Gets, By
      <4>3. tb2[a] = tb[a] /\ Line(tb2, dn2, a) = Line(tb, dn, a)
        BY <1>1, <3>2
      <4> QED
        BY <4>1, <4>2, <4>3 DEF Reaches
    <3> QED
      BY <3>1, <3>2
  <2>4. CASE Answers(tb[a], Line(tb, dn, a), x, Len(Line(tb, dn, a)))
    <3>1. CASE a # t
      BY <1>1, <2>4, <3>1 DEF Reaches
    <3>2. CASE a = t
      <4>1. Len(q) - 1 \in 0 .. (Len(q) - 1) /\ (Len(q) - 1) + 1 = Len(q)
        BY <1>2
      <4>2. Answers(e, p, x, Len(p)) \/ (Asks(q[1], x) /\ Has(d, x))
        BY <1>2, <2>4, <3>2, <4>1
      <4>3. CASE Answers(e, p, x, Len(p))
        BY <3>2, <4>3 DEF Reaches
      <4>4. CASE Asks(q[1], x) /\ Has(d, x)
        <5>1. Gets(tb[b], Line(tb, dn, b), x)
          BY <1>1, <3>2, <4>4 DEF Takes, Said
        <5>2. tb2[b] = tb[b] /\ Line(tb2, dn2, b) = Line(tb, dn, b)
          BY <1>1, <3>2
        <5> QED
          BY <5>1, <5>2 DEF Reaches
      <4> QED
        BY <4>2, <4>3, <4>4
    <3> QED
      BY <3>1, <3>2
  <2>5. CASE Due(tb, dn, a, x)
    BY <1>1, <1>3, <2>5, TakesDue
  <2> QED
    BY <2>1, <2>2, <2>3, <2>4, <2>5 DEF Reaches
<1>4. CASE ~Gets(tb[a], Line(tb, dn, a), x)
  <2>1. a = t /\ Has(e, x) /\ x[1] = "dead" /\ WillAsk(q)
    BY <1>1, <1>2, <1>4
  <2>2. b \in On(tb) \ {t} /\ tb2[b] = tb[b] /\ Line(tb2, dn2, b) = Line(tb, dn, b)
    BY <1>1, <2>1
  <2>3. WillAsk(Line(tb, dn, b)) \/ (\E i \in 1 .. Len(q) : q[i].k = "s1") \/ Awaited(tb, dn, t)
    BY <1>1, <2>1, <2>2 DEF Greeted
  <2>4. CASE WillAsk(Line(tb, dn, b))
    BY <2>2, <2>4 DEF Reaches
  <2>5. ASSUME NEW i \in 1 .. Len(q), q[i].k = "s1"
        PROVE  Reaches(tb2, dn2, a, b, x)
    <3>1. q[1].k = "welcome"
      BY <2>1 DEF WillAsk, Greeting
    <3>2. i # 1
      BY <2>5, <3>1
    <3>3. i \in 2 .. Len(q) /\ Asks(q[i], x)
      BY <1>2, <2>1, <2>5, <3>2 DEF Asks
    <3> HIDE DEF d, e, p, q
    <3>4. Answers(e, p, x, Len(p))
      BY <1>1, <2>1, <3>3, AsksTail
    <3> QED
      BY <2>1, <3>4 DEF Reaches, e, p
  <2>6. CASE Awaited(tb, dn, t)
    <3>1. PICK l \in On(tb) \ {t}, i \in Nat : AsksAt(tb, dn, l, t, i)
      BY <2>6 DEF Awaited
    <3>2. AsksAt(tb2, dn2, l, t, i)
      BY <1>1, <2>1, <3>1, TakesAsksAt
    <3> QED
      BY <1>1, <2>1, <3>1, <3>2 DEF Reaches, Due
  <2> QED
    BY <2>3, <2>4, <2>5, <2>6
<1> QED
  BY <1>3, <1>4

LEMMA TakesGreeted ==
  ASSUME NEW F, NEW tb, NEW dn, NEW tb2, NEW dn2, NEW t, Takes(tb, dn, tb2, dn2, t, F),
         NEW ps, NEW nx, RoomOK(tb, dn, ps, nx), Greeted(tb, dn)
  PROVE  Greeted(tb2, dn2)
<1> SUFFICES ASSUME NEW a \in On(tb2), NEW b \in On(tb2) \ {a}, WillAsk(Line(tb2, dn2, a))
             PROVE  \/ WillAsk(Line(tb2, dn2, b))
                    \/ HasAsk(Line(tb2, dn2, a))
                    \/ Awaited(tb2, dn2, a)
  BY DEF Greeted, HasAsk
<1>1. /\ a \in On(tb) /\ b \in On(tb) \ {a} /\ a \in Tabs /\ On(tb2) = On(tb) /\ t \in On(tb)
      /\ \A u \in On(tb) \ {t} : tb2[u] = tb[u] /\ Line(tb2, dn2, u) = Line(tb, dn, u)
  BY TakesOn, OnTabs
<1>2. a # t
  <2>1. ~Greeting(Line(tb2, dn2, t))
    <3>1. /\ Turns(tb[t], tb2[t], Line(tb, dn, t)) /\ Line(tb2, dn2, t) = Tail(Line(tb, dn, t))
          /\ Line(tb, dn, t) \in Seq(F) /\ tb[t].link \in Nat
      BY TakesOn DEF Takes
    <3>2. LineOK(tb[t], Line(tb, dn, t), ps, nx)
      BY <1>1 DEF RoomOK
    <3> QED
      BY <3>1, <3>2, TurnsBase
  <2> QED
    BY <2>1 DEF WillAsk
<1>3. Line(tb2, dn2, a) = Line(tb, dn, a)
  BY <1>1, <1>2
<1>4. WillAsk(Line(tb, dn, b)) \/ HasAsk(Line(tb, dn, a)) \/ Awaited(tb, dn, a)
  BY <1>1, <1>3 DEF Greeted, HasAsk
<1>5. CASE WillAsk(Line(tb, dn, b))
  <2>1. CASE b # t
    BY <1>1, <1>5, <2>1
  <2>2. CASE b = t
    BY <1>1, <1>2, <1>3, <1>5, <2>2 DEF Takes, Said
  <2> QED
    BY <2>1, <2>2
<1>6. CASE HasAsk(Line(tb, dn, a))
  BY <1>3, <1>6
<1>7. CASE Awaited(tb, dn, a)
  <2>1. PICK l \in On(tb) \ {a}, i \in Nat : AsksAt(tb, dn, l, a, i)
    BY <1>7 DEF Awaited
  <2>2. /\ l # t => AsksAt(tb2, dn2, l, a, i)
        /\ l = t /\ i # 1 => AsksAt(tb2, dn2, l, a, i - 1)
        /\ l = t /\ i = 1 => Line(tb, dn, t)[1] = JoinOf(tb[a].link) /\ LowAt(tb[t], Line(tb, dn, t), 1)
    BY <1>1, <2>1, TakesAsksAt
  <2>3. CASE l = t /\ i = 1
    BY <1>1, <1>2, <1>3, <2>2, <2>3 DEF Takes, Said
  <2>4. CASE l # t
    BY <1>1, <2>1, <2>2, <2>4 DEF Awaited
  <2>5. CASE l = t /\ i # 1
    <3>1. AsksAt(tb2, dn2, l, a, i - 1) /\ i \in Nat
      BY <2>2, <2>5
    <3>2. i - 1 \in Nat
      BY <3>1 DEF AsksAt
    <3> QED
      BY <1>1, <2>1, <3>1, <3>2 DEF Awaited
  <2> QED
    BY <2>3, <2>4, <2>5
<1> QED
  BY <1>4, <1>5, <1>6, <1>7

LEMMA TakesKept ==
  ASSUME NEW F, NEW tb, NEW dn, NEW tb2, NEW dn2, NEW t, Takes(tb, dn, tb2, dn2, t, F),
         NEW bl, Kept(tb, dn, bl), \A i \in 1 .. Len(bl) : <<"got", bl[i]>> \in Things
  PROVE  Kept(tb2, dn2, bl)
<1> SUFFICES ASSUME NEW i \in 1 .. Len(bl), NEW a \in On(tb2)
             PROVE  Gets(tb2[a], Line(tb2, dn2, a), <<"got", bl[i]>>)
  BY DEF Kept
<1>1. a \in On(tb) /\ Gets(tb[a], Line(tb, dn, a), <<"got", bl[i]>>)
  BY TakesOn DEF Kept
<1>2. CASE a = t
  BY <1>1, <1>2, TakesThings
<1>3. CASE a # t
  BY <1>1, <1>3, TakesOn
<1> QED
  BY <1>2, <1>3

LEMMA SpeaksConv ==
  ASSUME NEW F, NEW tb, NEW dn, NEW tb2, NEW dn2, NEW t, NEW m, Speaks(tb, dn, tb2, dn2, t, m, F),
         NEW ps, NEW nx, NEW bl, NEW bl2, Conv(tb, dn, ps, nx, bl),
         Pushed(bl, bl2, m)
  PROVE  Conv(tb2, dn2, ps, nx, bl2)
<1>1. RoomOK(tb2, dn2, ps, nx)
  BY SpeaksRoom DEF Conv
<1>2. Spread(tb2, dn2)
  BY SpeaksSpread DEF Conv
<1>3. Greeted(tb2, dn2)
  BY SpeaksGreeted DEF Conv
<1>4. Kept(tb2, dn2, bl2)
  BY SpeaksKept DEF Conv
<1> QED
  BY <1>1, <1>2, <1>3, <1>4 DEF Conv

LEMMA TakesConv ==
  ASSUME NEW F, NEW tb, NEW dn, NEW tb2, NEW dn2, NEW t, Takes(tb, dn, tb2, dn2, t, F),
         NEW ps, NEW nx, NEW bl, Conv(tb, dn, ps, nx, bl),
         \A i \in 1 .. Len(bl) : <<"got", bl[i]>> \in Things
  PROVE  Conv(tb2, dn2, ps, nx, bl)
<1>1. RoomOK(tb2, dn2, ps, nx)
  BY TakesRoom DEF Conv
<1>2. Spread(tb2, dn2)
  BY TakesSpread DEF Conv
<1>3. Greeted(tb2, dn2)
  BY TakesGreeted DEF Conv
<1>4. Kept(tb2, dn2, bl)
  BY TakesKept DEF Conv
<1> QED
  BY <1>1, <1>2, <1>3, <1>4 DEF Conv

----------------------------------------------------------------------------
(* Steps that nobody in the room notices                                     *)

\* The connected tabs, what they have and their streams are the same.
Alike(tb, dn, tb2, dn2) ==
    /\ On(tb2) = On(tb)
    /\ \A u \in On(tb) : /\ SameLine(tb[u], tb2[u]) /\ Line(tb2, dn2, u) = Line(tb, dn, u)
                         /\ \A x \in Things : Has(tb2[u], x) <=> Has(tb[u], x)
    /\ \A u \in Tabs : tb2[u].link = 0 => tb2[u].cut = FALSE

LEMMA AlikeConv ==
  ASSUME NEW tb, NEW dn, NEW tb2, NEW dn2, Alike(tb, dn, tb2, dn2),
         NEW ps, NEW nx, NEW bl, Conv(tb, dn, ps, nx, bl),
         \A i \in 1 .. Len(bl) : <<"got", bl[i]>> \in Things
  PROVE  Conv(tb2, dn2, ps, nx, bl)
<1>1. /\ On(tb2) = On(tb)
      /\ \A u \in On(tb) : /\ SameLine(tb[u], tb2[u]) /\ Line(tb2, dn2, u) = Line(tb, dn, u)
                           /\ tb2[u].link = tb[u].link
  BY DEF Alike, SameLine
<1>2. ASSUME NEW u \in On(tb), NEW x \in Things
      PROVE  LET q == Line(tb, dn, u)
             IN  /\ \A i : By(tb2[u], q, x, i) <=> By(tb[u], q, x, i)
                 /\ Gets(tb2[u], q, x) <=> Gets(tb[u], q, x)
                 /\ \A n : Answers(tb2[u], q, x, n) <=> Answers(tb[u], q, x, n)
  <2>1. Has(tb2[u], x) <=> Has(tb[u], x)
    BY DEF Alike
  <2> QED
    BY <2>1, SameHas
<1>3. ASSUME NEW u \in On(tb)
      PROVE  LET q == Line(tb, dn, u)
             IN  /\ Base(tb2[u], q) = Base(tb[u], q)
                 /\ \A i : LowAt(tb2[u], q, i) <=> LowAt(tb[u], q, i)
  BY <1>1, SameLow
<1>4. \A l, a \in On(tb) : \A i : AsksAt(tb2, dn2, l, a, i) <=> AsksAt(tb, dn, l, a, i)
  BY <1>1, <1>3 DEF AsksAt
<1>5. \A a \in On(tb) : Awaited(tb2, dn2, a) <=> Awaited(tb, dn, a)
  BY <1>1, <1>4 DEF Awaited
<1>6. ASSUME NEW a \in On(tb), NEW x \in Things
      PROVE  Due(tb2, dn2, a, x) <=> Due(tb, dn, a, x)
  <2>1. ASSUME NEW l \in On(tb) \ {a}, NEW i \in Nat
        PROVE  /\ AsksAt(tb2, dn2, l, a, i) <=> AsksAt(tb, dn, l, a, i)
               /\ By(tb2[l], Line(tb2, dn2, l), x, i) <=> By(tb[l], Line(tb, dn, l), x, i)
               /\ Answers(tb2[l], Line(tb2, dn2, l), x, i - 1)
                     <=> Answers(tb[l], Line(tb, dn, l), x, i - 1)
    <3>1. Line(tb2, dn2, l) = Line(tb, dn, l)
      BY <1>1
    <3>2. AsksAt(tb2, dn2, l, a, i) <=> AsksAt(tb, dn, l, a, i)
      BY <1>4
    <3> QED
      BY <1>2, <3>1, <3>2
  <2> QED
    BY <1>1, <2>1 DEF Due
<1>7. Spread(tb2, dn2)
  <2>1. \A a, b \in On(tb) : \A x \in Things : Reaches(tb2, dn2, a, b, x) <=> Reaches(tb, dn, a, b, x)
    BY <1>1, <1>2, <1>6 DEF Reaches
  <2> QED
    BY <1>1, <1>2, <2>1 DEF Spread, Conv
<1>8. Greeted(tb2, dn2)
  BY <1>1, <1>5 DEF Greeted, Conv
<1>9. Kept(tb2, dn2, bl)
  BY <1>1, <1>2 DEF Kept, Conv
<1>10. RoomOK(tb2, dn2, ps, nx)
  <2>1. ASSUME NEW u \in On(tb)
        PROVE  LineOK(tb2[u], Line(tb2, dn2, u), ps, nx)
    <3>1. /\ tb2[u].link = tb[u].link /\ tb2[u].me = tb[u].me
          /\ Base(tb2[u], Line(tb, dn, u)) = Base(tb[u], Line(tb, dn, u))
          /\ Line(tb2, dn2, u) = Line(tb, dn, u)
      BY <1>1, <1>3 DEF SameLine
    <3>2. LineOK(tb[u], Line(tb, dn, u), ps, nx)
      BY DEF Conv, RoomOK
    <3> QED
      BY <3>1, <3>2 DEF LineOK
  <2>2. \A u \in Tabs : tb2[u].link = 0 => tb2[u].cut = FALSE
    BY DEF Alike
  <2> QED
    BY <1>1, <2>1, <2>2 DEF RoomOK, Conv
<1> QED
  BY <1>7, <1>8, <1>9, <1>10 DEF Conv

----------------------------------------------------------------------------
(* A connection ends                                                         *)

\* Tab t is connected no more; it was to ask none of two others.
Goes(tb, dn, tb2, dn2, t) ==
    /\ On(tb2) = On(tb) \ {t}
    /\ \A u \in On(tb2) : tb2[u] = tb[u] /\ Line(tb2, dn2, u) = Line(tb, dn, u)
    /\ \A u \in Tabs : tb2[u].link = 0 => tb2[u].cut = FALSE
    /\ \A a \in On(tb2) : \A b \in On(tb2) \ {a} : \A i \in Nat : ~AsksAt(tb, dn, t, a, i)

LEMMA GoesConv ==
  ASSUME NEW tb, NEW dn, NEW tb2, NEW dn2, NEW t, Goes(tb, dn, tb2, dn2, t),
         NEW ps, NEW nx, NEW bl, Conv(tb, dn, ps, nx, bl)
  PROVE  Conv(tb2, dn2, ps, nx, bl)
<1>1. /\ On(tb2) \subseteq On(tb)
      /\ \A u \in On(tb2) : tb2[u] = tb[u] /\ Line(tb2, dn2, u) = Line(tb, dn, u)
      /\ \A u \in On(tb) : u \in On(tb2) \/ u = t
  BY DEF Goes
<1>2. \A l, a \in On(tb2) : \A i : AsksAt(tb2, dn2, l, a, i) <=> AsksAt(tb, dn, l, a, i)
  BY <1>1 DEF AsksAt
<1>3. ASSUME NEW a \in On(tb2), NEW b \in On(tb2) \ {a}, Awaited(tb, dn, a)
      PROVE  Awaited(tb2, dn2, a)
  <2>1. PICK l \in On(tb) \ {a}, i \in Nat : AsksAt(tb, dn, l, a, i)
    BY <1>3 DEF Awaited
  <2>2. l # t
    BY <2>1 DEF Goes
  <2> QED
    BY <1>1, <1>2, <2>1, <2>2 DEF Awaited
<1>4. ASSUME NEW a \in On(tb2), NEW b \in On(tb2) \ {a}, NEW x, Due(tb, dn, a, x)
      PROVE  Due(tb2, dn2, a, x)
  <2>1. PICK l \in On(tb) \ {a}, i \in Nat :
           /\ AsksAt(tb, dn, l, a, i)
           /\ \/ x[1] = "dead"
              \/ ~By(tb[l], Line(tb, dn, l), x, i)
              \/ Answers(tb[l], Line(tb, dn, l), x, i - 1)
    BY <1>4 DEF Due
  <2>2. l # t
    BY <2>1 DEF Goes
  <2>3. l \in On(tb2) \ {a} /\ AsksAt(tb2, dn2, l, a, i)
    BY <1>1, <1>2, <2>1, <2>2
  <2>4. tb2[l] = tb[l] /\ Line(tb2, dn2, l) = Line(tb, dn, l)
    BY <1>1, <2>3
  <2> QED
    BY <2>1, <2>3, <2>4 DEF Due
<1>5. Spread(tb2, dn2)
  BY <1>1, <1>4 DEF Spread, Reaches, Conv
<1>6. Greeted(tb2, dn2)
  BY <1>1, <1>3 DEF Greeted, Conv
<1>7. Kept(tb2, dn2, bl)
  BY <1>1 DEF Kept, Conv
<1>8. RoomOK(tb2, dn2, ps, nx)
  <2>1. \A u \in Tabs : tb2[u].link = 0 => tb2[u].cut = FALSE
    BY DEF Goes
  <2> QED
    BY <1>1, <2>1 DEF RoomOK, Conv
<1> QED
  BY <1>5, <1>6, <1>7, <1>8 DEF Conv

----------------------------------------------------------------------------
(* The hub tells every connected tab of a newcomer, or that a peer left      *)

Noted(tb, dn, tb2, dn2, m, F) ==
    /\ Wired(tb, dn, F) /\ m \in F /\ m.k \in {"join", "leave"}
    /\ On(tb) \subseteq On(tb2)
    /\ \A u \in On(tb) : tb2[u] = tb[u] /\ Line(tb2, dn2, u) = Append(Line(tb, dn, u), m)

LEMMA NotedLine ==
  ASSUME NEW F, NEW tb, NEW dn, NEW tb2, NEW dn2, NEW m, Noted(tb, dn, tb2, dn2, m, F),
         NEW u \in On(tb)
  PROVE  LET d == tb[u]
             q == Line(tb, dn, u)
             p == Line(tb2, dn2, u)
         IN  /\ tb2[u] = d /\ u \in On(tb2) /\ u \in Tabs
             /\ Len(q) \in Nat /\ Len(p) = Len(q) + 1 /\ p[Len(q) + 1] = m
             /\ \A i \in 1 .. Len(q) : p[i] = q[i]
             /\ Greeting(p) <=> Greeting(q)
             /\ Greeting(q) => p[1] = q[1]
             /\ WillAsk(p) <=> WillAsk(q)
             /\ Base(d, p) = Base(d, q)
             /\ \A i \in 1 .. Len(q) + 1 : LowAt(d, p, i) <=> LowAt(d, q, i)
<1> DEFINE d == tb[u]
           q == Line(tb, dn, u)
           p == Line(tb2, dn2, u)
<1>1. /\ q \in Seq(F) /\ m \in F /\ m.k # "welcome" /\ p = Append(q, m) /\ tb2[u] = d
      /\ u \in On(tb2) /\ u \in Tabs
  BY LineType DEF Noted
<1> HIDE DEF d, p, q
<1>2. /\ Len(q) \in Nat /\ Len(p) = Len(q) + 1 /\ p[Len(q) + 1] = m
      /\ \A i \in 1 .. Len(q) : p[i] = q[i]
  BY <1>1, AppendedFrames
<1>3. /\ Greeting(p) <=> Greeting(q)
      /\ WillAsk(p) <=> WillAsk(q)
      /\ Base(d, p) = Base(d, q)
      /\ \A i \in 1 .. Len(q) + 1 : LowAt(d, p, i) <=> LowAt(d, q, i)
  BY <1>1, BaseAppend
<1>4. Greeting(q) => p[1] = q[1]
  <2>1. Greeting(q) => 1 \in 1 .. Len(q)
    BY <1>1, <1>2 DEF Greeting
  <2> QED
    BY <1>2, <2>1
<1> QED
  BY <1>1, <1>2, <1>3, <1>4 DEF d, p, q

LEMMA NotedThings ==
  ASSUME NEW F, NEW tb, NEW dn, NEW tb2, NEW dn2, NEW m, Noted(tb, dn, tb2, dn2, m, F),
         NEW u \in On(tb), NEW x
  PROVE  LET d == tb[u]
             q == Line(tb, dn, u)
             p == Line(tb2, dn2, u)
         IN  /\ Gets(d, p, x) <=> Gets(d, q, x)
             /\ \A i \in 1 .. Len(q) + 1 : By(d, p, x, i) <=> By(d, q, x, i)
             /\ \A n \in 0 .. Len(q) : Answers(d, p, x, n) <=> Answers(d, q, x, n)
             /\ Answers(d, q, x, Len(q)) => Answers(d, p, x, Len(p))
<1> DEFINE d == tb[u]
           q == Line(tb, dn, u)
           p == Line(tb2, dn2, u)
<1>1. q \in Seq(F) /\ m \in F /\ m.k \in {"join", "leave"} /\ p = Append(q, m)
  BY LineType DEF Noted
<1>2. ~Brings(m, x)
  BY <1>1 DEF Brings
<1> HIDE DEF d, p, q
<1>3. /\ \A i \in 1 .. Len(q) + 1 : By(d, p, x, i) <=> By(d, q, x, i)
      /\ Gets(d, p, x) <=> Gets(d, q, x)
  BY <1>1, <1>2, ByAppend
<1>4. /\ \A n \in 0 .. Len(q) : Answers(d, p, x, n) <=> Answers(d, q, x, n)
      /\ Answers(d, q, x, Len(q)) => Answers(d, p, x, Len(p))
  BY <1>1, AnswersAppend
<1> QED
  BY <1>3, <1>4 DEF d, p, q

LEMMA NotedAsksAt ==
  ASSUME NEW F, NEW tb, NEW dn, NEW tb2, NEW dn2, NEW m, Noted(tb, dn, tb2, dn2, m, F),
         NEW l \in On(tb), NEW a \in On(tb), NEW i, AsksAt(tb, dn, l, a, i)
  PROVE  AsksAt(tb2, dn2, l, a, i)
<1> DEFINE q == Line(tb, dn, l)
           p == Line(tb2, dn2, l)
<1>1. /\ i \in 1 .. Len(q) /\ q[i] = JoinOf(tb[a].link) /\ LowAt(tb[l], q, i)
  BY DEF AsksAt
<1>2. tb2[a] = tb[a]
  BY NotedLine
<1>3. /\ Len(q) \in Nat /\ Len(p) = Len(q) + 1 /\ tb2[l] = tb[l]
      /\ \A j \in 1 .. Len(q) : p[j] = q[j]
      /\ \A j \in 1 .. Len(q) + 1 : LowAt(tb[l], p, j) <=> LowAt(tb[l], q, j)
  BY NotedLine
<1> HIDE DEF p, q
<1>4. i \in 1 .. Len(p) /\ i \in 1 .. Len(q) + 1
  BY <1>1, <1>3
<1>5. i \in 1 .. Len(p) /\ p[i] = JoinOf(tb2[a].link) /\ LowAt(tb2[l], p, i)
  BY <1>1, <1>2, <1>3, <1>4
<1> QED
  BY <1>5 DEF AsksAt, p

LEMMA NotedReaches ==
  ASSUME NEW F, NEW tb, NEW dn, NEW tb2, NEW dn2, NEW m, Noted(tb, dn, tb2, dn2, m, F),
         NEW a \in On(tb), NEW b \in On(tb), NEW x, Reaches(tb, dn, a, b, x)
  PROVE  Reaches(tb2, dn2, a, b, x)
<1>1. tb2[a] = tb[a] /\ tb2[b] = tb[b] /\ (WillAsk(Line(tb, dn, b)) => WillAsk(Line(tb2, dn2, b)))
  BY NotedLine
<1>2. /\ Gets(tb[b], Line(tb, dn, b), x) => Gets(tb[b], Line(tb2, dn2, b), x)
      /\ Answers(tb[a], Line(tb, dn, a), x, Len(Line(tb, dn, a)))
            => Answers(tb[a], Line(tb2, dn2, a), x, Len(Line(tb2, dn2, a)))
  BY NotedThings
<1>3. ASSUME Due(tb, dn, a, x)
      PROVE  Due(tb2, dn2, a, x)
  <2>1. PICK l \in On(tb) \ {a}, i \in Nat :
           /\ AsksAt(tb, dn, l, a, i)
           /\ \/ x[1] = "dead"
              \/ ~By(tb[l], Line(tb, dn, l), x, i)
              \/ Answers(tb[l], Line(tb, dn, l), x, i - 1)
    BY <1>3 DEF Due
  <2>2. AsksAt(tb2, dn2, l, a, i)
    BY <2>1, NotedAsksAt
  <2>3. l \in On(tb2) \ {a} /\ tb2[l] = tb[l] /\ Len(Line(tb, dn, l)) \in Nat
    BY <2>1, NotedLine
  <2>4. i \in 1 .. Len(Line(tb, dn, l)) + 1 /\ i - 1 \in 0 .. Len(Line(tb, dn, l))
    BY <2>1, <2>3 DEF AsksAt
  <2>5. /\ By(tb[l], Line(tb2, dn2, l), x, i) <=> By(tb[l], Line(tb, dn, l), x, i)
        /\ Answers(tb[l], Line(tb2, dn2, l), x, i - 1) <=> Answers(tb[l], Line(tb, dn, l), x, i - 1)
    BY <2>1, <2>4, NotedThings
  <2> QED
    BY <2>1, <2>2, <2>3, <2>5 DEF Due
<1> QED
  BY <1>1, <1>2, <1>3 DEF Reaches

LEMMA NotedGreeted ==
  ASSUME NEW F, NEW tb, NEW dn, NEW tb2, NEW dn2, NEW m, Noted(tb, dn, tb2, dn2, m, F),
         Greeted(tb, dn), NEW a \in On(tb), NEW b \in On(tb) \ {a}, WillAsk(Line(tb2, dn2, a))
  PROVE  \/ WillAsk(Line(tb2, dn2, b))
         \/ \E i \in 1 .. Len(Line(tb2, dn2, a)) : Line(tb2, dn2, a)[i].k = "s1"
         \/ Awaited(tb2, dn2, a)
<1>1. /\ WillAsk(Line(tb2, dn2, a)) => WillAsk(Line(tb, dn, a))
      /\ WillAsk(Line(tb, dn, b)) => WillAsk(Line(tb2, dn2, b))
      /\ Len(Line(tb, dn, a)) \in Nat /\ Len(Line(tb2, dn2, a)) = Len(Line(tb, dn, a)) + 1
      /\ \A i \in 1 .. Len(Line(tb, dn, a)) : Line(tb2, dn2, a)[i] = Line(tb, dn, a)[i]
  BY NotedLine
<1>2. \/ WillAsk(Line(tb, dn, b))
      \/ \E i \in 1 .. Len(Line(tb, dn, a)) : Line(tb, dn, a)[i].k = "s1"
      \/ Awaited(tb, dn, a)
  BY <1>1 DEF Greeted
<1>3. ASSUME NEW i \in 1 .. Len(Line(tb, dn, a)), Line(tb, dn, a)[i].k = "s1"
      PROVE  \E j \in 1 .. Len(Line(tb2, dn2, a)) : Line(tb2, dn2, a)[j].k = "s1"
  <2>1. i \in 1 .. Len(Line(tb2, dn2, a)) /\ Line(tb2, dn2, a)[i].k = "s1"
    BY <1>1, <1>3
  <2> QED
    BY <2>1
<1>4. ASSUME Awaited(tb, dn, a)
      PROVE  Awaited(tb2, dn2, a)
  <2>1. PICK l \in On(tb) \ {a}, i \in Nat : AsksAt(tb, dn, l, a, i)
    BY <1>4 DEF Awaited
  <2>2. l \in On(tb2) \ {a} /\ AsksAt(tb2, dn2, l, a, i)
    BY <2>1, NotedAsksAt, NotedLine
  <2> QED
    BY <2>2 DEF Awaited
<1> QED
  BY <1>1, <1>2, <1>3, <1>4

\* Frame m to peer r, and the hub's peers and next id after it.
Tells(m, ps, nx, ps2, nx2, r) ==
    \/ m = JoinOf(nx) /\ ps2 = ps \cup {nx} /\ nx2 = nx + 1
    \/ \E g \in ps : m = LeaveOf(g) /\ ps2 = ps \ {g} /\ nx2 = nx /\ r # g

LEMMA NotedLineOK ==
  ASSUME NEW F, NEW tb, NEW dn, NEW tb2, NEW dn2, NEW m, Noted(tb, dn, tb2, dn2, m, F),
         NEW u \in On(tb), NEW ps, NEW nx \in Nat, LineOK(tb[u], Line(tb, dn, u), ps, nx),
         ps \subseteq 1 .. (nx - 1), NEW ps2, NEW nx2 \in Nat,
         Tells(m, ps, nx, ps2, nx2, tb[u].link)
  PROVE  LineOK(tb2[u], Line(tb2, dn2, u), ps2, nx2)
<1> DEFINE d == tb[u]
           q == Line(tb, dn, u)
           p == Line(tb2, dn2, u)
<1>1. /\ tb2[u] = d
      /\ Len(q) \in Nat /\ Len(p) = Len(q) + 1 /\ p[Len(q) + 1] = m
      /\ \A i \in 1 .. Len(q) : p[i] = q[i]
      /\ Greeting(p) <=> Greeting(q)
      /\ Greeting(q) => p[1] = q[1]
      /\ Base(d, p) = Base(d, q)
  BY NotedLine
<1>2. LineOK(d, q, ps, nx) /\ d.link \in 1 .. (nx - 1)
  BY DEF LineOK
<1> HIDE DEF d, p, q
<1>3. \A i \in 1 .. Len(p) : i \in 1 .. Len(q) \/ (i = Len(q) + 1 /\ p[i] = m)
  BY <1>1
<1>4. \A r : (\E i \in 1 .. Len(q) : q[i] = LeaveOf(r)) \/ m = LeaveOf(r)
              => \E i \in 1 .. Len(p) : p[i] = LeaveOf(r)
  <2>1. Len(q) + 1 \in 1 .. Len(p) /\ \A i \in 1 .. Len(q) : i \in 1 .. Len(p)
    BY <1>1
  <2> QED
    BY <1>1, <2>1
<1>5. \A i \in 2 .. Len(p) : i \in 2 .. Len(q) \/ p[i] = m
  BY <1>1
<1>6. \A i \in 2 .. Len(q) : p[i] = q[i]
  BY <1>1
<1>7. IF Greeting(p) THEN p[1].me = d.link ELSE d.me = d.link
  BY <1>1, <1>2 DEF LineOK
<1>8. d.link \in Base(d, p)
  BY <1>1, <1>2 DEF LineOK
<1>9. CASE m = JoinOf(nx) /\ ps2 = ps \cup {nx} /\ nx2 = nx + 1
  <2>1. m.k = "join" /\ m.p = nx /\ d.link < nx /\ nx \in Nat
    BY <1>2, <1>9 DEF JoinOf
  <2>2. \A i \in 2 .. Len(p) : p[i].k # "welcome"
    BY <1>2, <1>5, <1>6, <2>1 DEF LineOK
  <2>3. \A i \in 1 .. Len(p) : p[i].k = "join" => p[i].p \in Nat /\ d.link < p[i].p
    BY <1>1, <1>2, <1>3, <2>1 DEF LineOK
  <2>4. ASSUME NEW i \in 1 .. Len(p), p[i].k = "leave"
        PROVE  p[i].p \notin ps2 /\ p[i].p \in 1 .. (nx2 - 1)
    <3>1. i \in 1 .. Len(q) /\ p[i] = q[i]
      BY <1>1, <1>3, <2>1, <2>4
    <3>2. p[i].p \notin ps /\ p[i].p \in 1 .. (nx - 1)
      BY <1>2, <2>4, <3>1 DEF LineOK
    <3> QED
      BY <1>9, <3>2
  <2>5. ASSUME NEW r \in 1 .. (d.link - 1)
        PROVE  IF r \in ps2 THEN r \in Base(d, p)
               ELSE r \notin Base(d, p) \/ \E i \in 1 .. Len(p) : p[i] = LeaveOf(r)
    <3>1. r \in ps2 <=> r \in ps
      BY <1>2, <1>9
    <3> QED
      BY <1>1, <1>2, <1>4, <3>1 DEF LineOK
  <2> QED
    BY <1>1, <1>2, <1>7, <1>8, <1>9, <2>2, <2>3, <2>4, <2>5 DEF LineOK, p
<1>10. ASSUME NEW g \in ps, m = LeaveOf(g), ps2 = ps \ {g}, nx2 = nx, d.link # g
       PROVE  LineOK(d, p, ps2, nx2)
  <2>1. m.k = "leave" /\ m.p = g /\ g \notin ps2 /\ g \in 1 .. (nx2 - 1)
    BY <1>10 DEF LeaveOf
  <2>2. \A i \in 2 .. Len(p) : p[i].k # "welcome"
    BY <1>2, <1>5, <1>6, <2>1 DEF LineOK
  <2>3. \A i \in 1 .. Len(p) : p[i].k = "join" => p[i].p \in Nat /\ d.link < p[i].p
    BY <1>1, <1>2, <1>3, <2>1 DEF LineOK
  <2>4. \A i \in 1 .. Len(p) : p[i].k = "leave" => p[i].p \notin ps2 /\ p[i].p \in 1 .. (nx2 - 1)
    BY <1>1, <1>2, <1>3, <1>10, <2>1 DEF LineOK
  <2>5. ASSUME NEW r \in 1 .. (d.link - 1)
        PROVE  IF r \in ps2 THEN r \in Base(d, p)
               ELSE r \notin Base(d, p) \/ \E i \in 1 .. Len(p) : p[i] = LeaveOf(r)
    <3>1. IF r \in ps THEN r \in Base(d, q)
          ELSE r \notin Base(d, q) \/ \E i \in 1 .. Len(q) : q[i] = LeaveOf(r)
      BY <1>2 DEF LineOK
    <3>2. r = g \/ (r \in ps2 <=> r \in ps)
      BY <1>10
    <3>3. r = g => \E i \in 1 .. Len(p) : p[i] = LeaveOf(r)
      BY <1>4, <1>10
    <3>4. r = g => r \notin ps2
      BY <2>1
    <3> QED
      BY <1>1, <1>4, <3>1, <3>2, <3>3, <3>4
  <2>6. d.link \in ps2
    BY <1>2, <1>10 DEF LineOK
  <2> QED
    BY <1>7, <1>8, <2>2, <2>3, <2>4, <2>5, <2>6 DEF LineOK
<1> QED
  BY <1>1, <1>9, <1>10 DEF Tells, d, p

\* The hub's session of a peer ends.
LEMMA LeaveConv ==
  ASSUME NEW F, NEW tb, NEW dn, NEW dn2, NEW p, NEW ps, NEW nx \in Nat, NEW bl,
         Noted(tb, dn, tb, dn2, LeaveOf(p), F), Conv(tb, dn, ps, nx, bl),
         p \in ps, \A u \in On(tb) : tb[u].link # p
  PROVE  Conv(tb, dn2, ps \ {p}, nx, bl)
<1>1. RoomOK(tb, dn2, ps \ {p}, nx)
  <2>1. ASSUME NEW u \in On(tb)
        PROVE  LineOK(tb[u], Line(tb, dn2, u), ps \ {p}, nx)
    <3>1. LineOK(tb[u], Line(tb, dn, u), ps, nx) /\ ps \subseteq 1 .. (nx - 1)
      BY DEF Conv, RoomOK
    <3>2. Tells(LeaveOf(p), ps, nx, ps \ {p}, nx, tb[u].link)
      BY DEF Tells
    <3> QED
      BY <3>1, <3>2, NotedLineOK
  <2>2. ps \ {p} \subseteq 1 .. (nx - 1)
    BY DEF Conv, RoomOK
  <2> QED
    BY <2>1, <2>2 DEF Conv, RoomOK
<1>2. Spread(tb, dn2)
  BY NotedReaches, NotedThings DEF Conv, Spread
<1>3. Greeted(tb, dn2)
  <2>1. Greeted(tb, dn)
    BY DEF Conv
  <2> QED
    BY <2>1, NotedGreeted DEF Greeted
<1>4. Kept(tb, dn2, bl)
  BY NotedThings DEF Conv, Kept
<1> QED
  BY <1>1, <1>2, <1>3, <1>4 DEF Conv

----------------------------------------------------------------------------
(* A tab connects                                                            *)

WelcomeOf(nx, ps, bl) ==
    [k |-> "welcome", me |-> nx, peers |-> ps \cup {nx}, ops |-> {bl[i] : i \in DOMAIN bl}]

\* Tab t becomes peer nx; the peer that is to ask it is there, if anybody is.
Enters(tb, dn, tb2, dn2, t, ps, nx, bl, F) ==
    /\ Noted(tb, dn, tb2, dn2, JoinOf(nx), F) /\ nx \in Nat \ {0} /\ bl \in Seq(Tabs \X Nat)
    /\ t \in Tabs \ On(tb) /\ On(tb2) = On(tb) \cup {t} /\ tb2[t].link = nx
    /\ \A u \in Tabs : tb2[u].link = 0 => tb2[u].cut = FALSE
    /\ Line(tb2, dn2, t) = <<WelcomeOf(nx, ps, bl)>>
    /\ \A u \in On(tb) : Base(tb[u], Line(tb, dn, u)) \subseteq Ids
    /\ On(tb) # {} => \E l \in On(tb) : \A r \in ps : tb[l].link <= r

\* The newcomer's stream.
LEMMA EntersLine ==
  ASSUME NEW F, NEW tb, NEW dn, NEW tb2, NEW dn2, NEW t, NEW ps, NEW nx, NEW bl,
         Enters(tb, dn, tb2, dn2, t, ps, nx, bl, F), RoomOK(tb, dn, ps, nx)
  PROVE  LET q == Line(tb2, dn2, t)
         IN  /\ LineOK(tb2[t], q, ps \cup {nx}, nx + 1)
             /\ On(tb) # {} => WillAsk(q)
<1> DEFINE q == Line(tb2, dn2, t)
           w == WelcomeOf(nx, ps, bl)
<1>1. /\ w.k = "welcome" /\ w.me = nx /\ w.peers = ps \cup {nx}
  BY DEF WelcomeOf
<1>2. q = <<w>> /\ tb2[t].link = nx /\ nx \in Nat \ {0} /\ ps \subseteq 1 .. (nx - 1)
  BY DEF Enters, RoomOK
<1> HIDE DEF w, q
<1>3. q # << >> /\ Len(q) = 1 /\ q[1] = w
  BY <1>2
<1>4. Greeting(q) /\ Base(tb2[t], q) = ps \cup {nx}
  BY <1>1, <1>3 DEF Greeting, Base
<1>5. LineOK(tb2[t], q, ps \cup {nx}, nx + 1)
  <2>1. \A i \in 2 .. Len(q) : q[i].k # "welcome"
    BY <1>3
  <2>2. \A i \in 1 .. Len(q) : q[i].k = "welcome"
    BY <1>1, <1>3
  <2> QED
    BY <1>1, <1>2, <1>3, <1>4, <2>1, <2>2 DEF LineOK
<1>6. ASSUME On(tb) # {}
      PROVE  WillAsk(q)
  <2>1. PICK l \in On(tb) : TRUE
    BY <1>6
  <2>2. tb[l].link \in ps
    BY DEF RoomOK, LineOK
  <2>3. tb[l].link # nx
    BY <1>2, <2>2
  <2> QED
    BY <1>1, <1>3, <1>4, <2>2, <2>3 DEF WillAsk
<1> QED
  BY <1>1, <1>3, <1>5, <1>6 DEF q, w

LEMMA EntersRoom ==
  ASSUME NEW F, NEW tb, NEW dn, NEW tb2, NEW dn2, NEW t, NEW ps, NEW nx, NEW bl,
         Enters(tb, dn, tb2, dn2, t, ps, nx, bl, F), RoomOK(tb, dn, ps, nx)
  PROVE  RoomOK(tb2, dn2, ps \cup {nx}, nx + 1)
<1>1. /\ nx \in Nat \ {0} /\ ps \subseteq 1 .. (nx - 1) /\ nx + 1 \in Nat
      /\ Noted(tb, dn, tb2, dn2, JoinOf(nx), F)
  BY DEF Enters, RoomOK
<1>2. ASSUME NEW u \in On(tb)
      PROVE  /\ LineOK(tb2[u], Line(tb2, dn2, u), ps \cup {nx}, nx + 1)
             /\ tb2[u].link = tb[u].link /\ tb2[u].link # nx
  <2>1. LineOK(tb[u], Line(tb, dn, u), ps, nx)
    BY DEF RoomOK
  <2>2. Tells(JoinOf(nx), ps, nx, ps \cup {nx}, nx + 1, tb[u].link)
    BY DEF Tells
  <2>3. LineOK(tb2[u], Line(tb2, dn2, u), ps \cup {nx}, nx + 1)
    BY <1>1, <2>1, <2>2, NotedLineOK
  <2>4. tb2[u].link = tb[u].link
    BY <1>1 DEF Noted
  <2>5. tb[u].link \in ps
    BY <2>1 DEF LineOK
  <2> QED
    BY <1>1, <2>3, <2>4, <2>5
<1>3. LineOK(tb2[t], Line(tb2, dn2, t), ps \cup {nx}, nx + 1)
  BY EntersLine
<1>4. On(tb2) = On(tb) \cup {t} /\ tb2[t].link = nx
  BY DEF Enters
<1>5. \A a, b \in On(tb2) : tb2[a].link = tb2[b].link => a = b
  BY <1>2, <1>4 DEF RoomOK
<1>6. \A u \in Tabs : tb2[u].link = 0 => tb2[u].cut = FALSE
  BY DEF Enters
<1>7. ps \cup {nx} \subseteq 1 .. ((nx + 1) - 1)
  BY <1>1
<1> QED
  BY <1>2, <1>3, <1>4, <1>5, <1>6, <1>7 DEF RoomOK

\* The lowest peer will ask the newcomer, and nobody will ask the lowest peer.
LEMMA EntersLowest ==
  ASSUME NEW F, NEW tb, NEW dn, NEW tb2, NEW dn2, NEW t, NEW ps, NEW nx, NEW bl,
         Enters(tb, dn, tb2, dn2, t, ps, nx, bl, F), RoomOK(tb, dn, ps, nx),
         NEW l \in On(tb), \A r \in ps : tb[l].link <= r
  PROVE  /\ AsksAt(tb2, dn2, l, t, Len(Line(tb, dn, l)) + 1)
         /\ \A x : ~Due(tb, dn, l, x)
<1> DEFINE d == tb[l]
           q == Line(tb, dn, l)
           p == Line(tb2, dn2, l)
<1>1. Noted(tb, dn, tb2, dn2, JoinOf(nx), F) /\ tb2[t].link = nx /\ Base(d, q) \subseteq Ids
  BY DEF Enters
<1>2. /\ tb2[l] = d /\ Len(q) \in Nat /\ Len(p) = Len(q) + 1 /\ p[Len(q) + 1] = JoinOf(nx)
      /\ \A i \in 1 .. Len(q) + 1 : LowAt(d, p, i) <=> LowAt(d, q, i)
  BY <1>1, NotedLine
<1>3. LineOK(d, q, ps, nx) /\ d.link \in Nat /\ ps \subseteq Nat
  <2>1. LineOK(d, q, ps, nx) /\ ps \subseteq Nat
    BY DEF RoomOK, Enters
  <2>2. d.link \in Nat
    BY <1>1, LineType DEF Noted
  <2> QED
    BY <2>1, <2>2
<1>4. LowAt(d, q, Len(q) + 1)
  <2> SUFFICES ASSUME NEW r \in Base(d, q), r < d.link
               PROVE  \E j \in 1 .. ((Len(q) + 1) - 1) : q[j] = LeaveOf(r)
    BY DEF LowAt
  <2>1. r \in Nat \ {0}
    BY <1>1, IdsType
  <2> HIDE DEF d, q
  <2>2. r \in 1 .. (d.link - 1) /\ (Len(q) + 1) - 1 = Len(q)
    BY <1>2, <1>3, <2>1
  <2>3. r \notin ps
    <3>1. r \in ps => d.link <= r
      BY DEF d
    <3> QED
      BY <1>3, <2>1, <3>1
  <2>4. \E j \in 1 .. Len(q) : q[j] = LeaveOf(r)
    BY <1>3, <2>2, <2>3 DEF LineOK
  <2> QED
    BY <2>2, <2>4
<1>5. AsksAt(tb2, dn2, l, t, Len(q) + 1)
  <2> HIDE DEF d, p, q
  <2>1. Len(q) + 1 \in 1 .. Len(p) /\ Len(q) + 1 \in 1 .. Len(q) + 1
    BY <1>2
  <2>2. p[Len(q) + 1] = JoinOf(tb2[t].link) /\ LowAt(tb2[l], p, Len(q) + 1)
    BY <1>1, <1>2, <1>4, <2>1
  <2> QED
    BY <2>1, <2>2 DEF AsksAt, p
<1>6. ASSUME NEW x, Due(tb, dn, l, x)
      PROVE  FALSE
  <2>1. PICK k \in On(tb) \ {l}, i \in Nat : AsksAt(tb, dn, k, l, i)
    BY <1>6 DEF Due
  <2>2. /\ i \in 1 .. Len(Line(tb, dn, k)) /\ Line(tb, dn, k)[i] = JoinOf(d.link)
        /\ LineOK(tb[k], Line(tb, dn, k), ps, nx)
    BY <2>1 DEF AsksAt, RoomOK
  <2>3. tb[k].link < d.link /\ tb[k].link \in ps
    BY <2>2 DEF LineOK, JoinOf
  <2>4. d.link <= tb[k].link /\ tb[k].link \in Nat
    BY <1>3, <2>3
  <2> QED
    BY <1>3, <2>3, <2>4
<1> QED
  BY <1>5, <1>6

LEMMA EntersSpread ==
  ASSUME NEW F, NEW tb, NEW dn, NEW tb2, NEW dn2, NEW t, NEW ps, NEW nx, NEW bl,
         Enters(tb, dn, tb2, dn2, t, ps, nx, bl, F), Conv(tb, dn, ps, nx, bl)
  PROVE  Spread(tb2, dn2) /\ Greeted(tb2, dn2) /\ Kept(tb2, dn2, bl)
<1>1. /\ RoomOK(tb, dn, ps, nx) /\ Spread(tb, dn) /\ Greeted(tb, dn) /\ Kept(tb, dn, bl)
      /\ Noted(tb, dn, tb2, dn2, JoinOf(nx), F) /\ On(tb2) = On(tb) \cup {t} /\ t \notin On(tb)
      /\ bl \in Seq(Tabs \X Nat)
  BY DEF Conv, Enters
<1>2. /\ Len(Line(tb2, dn2, t)) = 1 /\ Line(tb2, dn2, t)[1] = WelcomeOf(nx, ps, bl)
      /\ On(tb) # {} => WillAsk(Line(tb2, dn2, t))
  <2>1. RoomOK(tb, dn, ps, nx)
    BY DEF Conv
  <2>2. On(tb) # {} => WillAsk(Line(tb2, dn2, t))
    BY <2>1, EntersLine
  <2>3. Line(tb2, dn2, t) = <<WelcomeOf(nx, ps, bl)>>
    BY DEF Enters
  <2> QED
    BY <2>2, <2>3
<1>3. ASSUME On(tb) # {}
      PROVE  \E l \in On(tb) : /\ AsksAt(tb2, dn2, l, t, Len(Line(tb, dn, l)) + 1)
                               /\ \A x : ~Due(tb, dn, l, x)
  <2>1. PICK l \in On(tb) : \A r \in ps : tb[l].link <= r
    BY <1>3 DEF Enters
  <2> QED
    BY <1>1, <2>1, EntersLowest
<1>4. \A u \in On(tb) : /\ tb2[u] = tb[u] /\ Len(Line(tb, dn, u)) \in Nat
                        /\ Len(Line(tb, dn, u)) + 1 \in 1 .. Len(Line(tb, dn, u)) + 1
                        /\ Len(Line(tb, dn, u)) \in 0 .. Len(Line(tb, dn, u))
                        /\ (Len(Line(tb, dn, u)) + 1) - 1 = Len(Line(tb, dn, u))
                        /\ WillAsk(Line(tb, dn, u)) => WillAsk(Line(tb2, dn2, u))
  <2> TAKE u \in On(tb)
  <2>1. /\ tb2[u] = tb[u] /\ Len(Line(tb, dn, u)) \in Nat
        /\ WillAsk(Line(tb, dn, u)) => WillAsk(Line(tb2, dn2, u))
    BY <1>1, NotedLine
  <2> QED
    BY <2>1
<1>5. ASSUME NEW b \in On(tb), NEW x \in Things
      PROVE  Reaches(tb2, dn2, t, b, x)
  <2>1. PICK l \in On(tb) : /\ AsksAt(tb2, dn2, l, t, Len(Line(tb, dn, l)) + 1)
                            /\ \A y : ~Due(tb, dn, l, y)
    BY <1>3
  <2> DEFINE q == Line(tb, dn, l)
             p == Line(tb2, dn2, l)
  <2>2. l \in On(tb2) \ {t} /\ tb2[l] = tb[l] /\ Len(q) + 1 \in Nat /\ (Len(q) + 1) - 1 = Len(q)
    BY <1>1, <1>4, <2>1
  <2>3. /\ By(tb[l], p, x, Len(q) + 1) <=> By(tb[l], q, x, Len(q) + 1)
        /\ Answers(tb[l], p, x, Len(q)) <=> Answers(tb[l], q, x, Len(q))
    BY <1>1, <1>4, NotedThings
  <2>4. \/ x[1] = "dead" \/ ~By(tb[l], p, x, Len(q) + 1) \/ Answers(tb[l], p, x, Len(q))
        => Due(tb2, dn2, t, x)
    <3> HIDE DEF q
    <3>1. \/ x[1] = "dead" \/ ~By(tb2[l], p, x, Len(q) + 1) \/ Answers(tb2[l], p, x, (Len(q) + 1) - 1)
          => Due(tb2, dn2, t, x)
      BY <2>1, <2>2 DEF Due, q
    <3> QED
      BY <2>2, <3>1
  <2>5. CASE x[1] # "dead" /\ By(tb[l], p, x, Len(q) + 1) /\ ~Answers(tb[l], p, x, Len(q))
    <3>1. Gets(tb[l], q, x) /\ ~Answers(tb[l], q, x, Len(q))
      BY <2>3, <2>5 DEF Gets
    <3>2. Gets(tb[b], Line(tb, dn, b), x) \/ WillAsk(Line(tb, dn, b))
      <4>1. CASE l = b
        BY <3>1, <4>1
      <4>2. CASE l # b
        <5>1. Reaches(tb, dn, l, b, x)
          BY <1>1, <2>1, <3>1, <4>2 DEF Spread
        <5> QED
          BY <2>1, <3>1, <5>1 DEF Reaches
      <4> QED
        BY <4>1, <4>2
    <3>3. Gets(tb[b], Line(tb, dn, b), x) => Gets(tb2[b], Line(tb2, dn2, b), x)
      BY <1>1, <1>4, NotedThings
    <3> QED
      BY <1>4, <3>2, <3>3 DEF Reaches
  <2> QED
    BY <2>4, <2>5 DEF Reaches
<1>6. Spread(tb2, dn2)
  <2> SUFFICES ASSUME NEW a \in On(tb2), NEW b \in On(tb2) \ {a}, NEW x \in Things,
                      Gets(tb2[a], Line(tb2, dn2, a), x)
               PROVE  Reaches(tb2, dn2, a, b, x)
    BY DEF Spread
  <2>1. CASE a = t
    BY <1>1, <1>5, <2>1
  <2>2. CASE a # t /\ b = t
    BY <1>1, <1>2, <2>2 DEF Reaches
  <2>3. CASE a # t /\ b # t
    <3>1. a \in On(tb) /\ b \in On(tb) \ {a}
      BY <1>1, <2>3
    <3>2. Gets(tb[a], Line(tb, dn, a), x)
      BY <1>1, <1>4, <3>1, NotedThings
    <3>3. Reaches(tb, dn, a, b, x)
      BY <1>1, <3>1, <3>2 DEF Spread
    <3> QED
      BY <1>1, <3>1, <3>3, NotedReaches
  <2> QED
    BY <2>1, <2>2, <2>3
<1>7. Greeted(tb2, dn2)
  <2> SUFFICES ASSUME NEW a \in On(tb2), NEW b \in On(tb2) \ {a}, WillAsk(Line(tb2, dn2, a))
               PROVE  \/ WillAsk(Line(tb2, dn2, b))
                      \/ \E i \in 1 .. Len(Line(tb2, dn2, a)) : Line(tb2, dn2, a)[i].k = "s1"
                      \/ Awaited(tb2, dn2, a)
    BY DEF Greeted
  <2>1. CASE a = t
    <3>1. b \in On(tb)
      BY <1>1, <2>1
    <3>2. PICK l \in On(tb) : AsksAt(tb2, dn2, l, t, Len(Line(tb, dn, l)) + 1)
      BY <1>3, <3>1
    <3>3. l \in On(tb2) \ {t} /\ Len(Line(tb, dn, l)) + 1 \in Nat
      BY <1>1, <1>4, <3>2
    <3> QED
      BY <2>1, <3>2, <3>3 DEF Awaited
  <2>2. CASE a # t /\ b = t
    BY <1>1, <1>2, <2>2
  <2>3. CASE a # t /\ b # t
    BY <1>1, <2>3, NotedGreeted
  <2> QED
    BY <2>1, <2>2, <2>3
<1>8. Kept(tb2, dn2, bl)
  <2> SUFFICES ASSUME NEW i \in 1 .. Len(bl), NEW a \in On(tb2)
               PROVE  Gets(tb2[a], Line(tb2, dn2, a), <<"got", bl[i]>>)
    BY DEF Kept
  <2>1. CASE a = t
    <3>1. DOMAIN bl = 1 .. Len(bl)
      BY <1>1
    <3>2. Brings(WelcomeOf(nx, ps, bl), <<"got", bl[i]>>)
      BY <3>1 DEF Brings, WelcomeOf
    <3>3. 1 \in 1 .. ((Len(Line(tb2, dn2, t)) + 1) - 1)
      BY <1>2
    <3> QED
      BY <1>2, <2>1, <3>2, <3>3 DEF Gets, By
  <2>2. CASE a # t
    <3>1. a \in On(tb) /\ tb2[a] = tb[a]
      BY <1>1, <1>4, <2>2
    <3>2. Gets(tb[a], Line(tb, dn, a), <<"got", bl[i]>>)
      BY <1>1, <3>1 DEF Kept
    <3> DEFINE x == <<"got", bl[i]>>
    <3> HIDE DEF x
    <3>3. Gets(tb[a], Line(tb2, dn2, a), x) <=> Gets(tb[a], Line(tb, dn, a), x)
      BY <1>1, <3>1, NotedThings
    <3> QED
      BY <3>1, <3>2, <3>3 DEF x
  <2> QED
    BY <2>1, <2>2
<1> QED
  BY <1>6, <1>7, <1>8

LEMMA EntersConv ==
  ASSUME NEW F, NEW tb, NEW dn, NEW tb2, NEW dn2, NEW t, NEW ps, NEW nx, NEW bl,
         Enters(tb, dn, tb2, dn2, t, ps, nx, bl, F), Conv(tb, dn, ps, nx, bl)
  PROVE  Conv(tb2, dn2, ps \cup {nx}, nx + 1, bl)
<1>1. RoomOK(tb2, dn2, ps \cup {nx}, nx + 1)
  BY EntersRoom DEF Conv
<1>2. Spread(tb2, dn2) /\ Greeted(tb2, dn2) /\ Kept(tb2, dn2, bl)
  BY EntersSpread
<1> QED
  BY <1>1, <1>2 DEF Conv

----------------------------------------------------------------------------
(* Handlers: what they change of a tab, and what they send                   *)

Formed(s) ==
    /\ \E M : s.d \in TabRecord(M)
    /\ s \in [d : {s.d}, st : {s.st}, out : {s.out}, used : {s.used}, blame : {s.blame}]

\* s is tab d as the room knows it, and nothing is sent yet.
Fresh(d, s) ==
    /\ Formed(s) /\ SameLine(d, s.d) /\ s.out = NoFrame
    /\ s.d.got = d.got /\ s.d.dead = d.dead

\* Handler s of tab d sends what it inserts or asks, if d has a socket.
Utters(d, s) ==
    /\ Formed(s) /\ SameLine(d, s.d)
    /\ \/ /\ s.out = NoFrame
          /\ d.link # 0 => \A x \in Things : Has(s.d, x) <=> Has(d, x)
       \/ /\ d.link # 0 /\ s.out.k \in {"s1", "op", "saved"}
          /\ \A x \in Things : Has(s.d, x) <=> Has(d, x) \/ Brings(s.out, x)

\* A handler that goes on with tab d2.
LEMMA FormedWith ==
  ASSUME NEW s, Formed(s), NEW d2, NEW M, d2 \in TabRecord(M)
  PROVE  /\ Formed([s EXCEPT !.d = d2])
         /\ [s EXCEPT !.d = d2].d = d2 /\ [s EXCEPT !.d = d2].out = s.out
         /\ [s EXCEPT !.d = d2].blame = s.blame
  BY DEF Formed

LEMMA FreshUtters ==
  ASSUME NEW d, NEW s, Fresh(d, s)
  PROVE  Utters(d, s)
  BY DEF Fresh, Utters, Has

LEMMA SendUtters ==
  ASSUME NEW d, NEW s, Fresh(d, s), NEW m, m.k \in {"s1", "saved"}
  PROVE  Utters(d, Send(s, m)) /\ Send(s, m).blame = s.blame
<1>1. CASE s.d.link = 0
  BY <1>1, FreshUtters DEF Send
<1>2. CASE s.d.link # 0
  <2> DEFINE s2 == Send(s, m)
  <2>1. s2 = [s EXCEPT !.out = m]
    BY <1>2 DEF Send
  <2> HIDE DEF s2
  <2>3. Formed(s2) /\ s2.d = s.d /\ s2.out = m /\ s2.blame = s.blame
    BY <2>1 DEF Fresh, Formed
  <2>4. \A x \in Things : ~Brings(m, x) /\ (Has(s.d, x) <=> Has(d, x))
    BY DEF Brings, Has, Fresh
  <2> QED
    BY <1>2, <2>3, <2>4 DEF Utters, Fresh, SameLine, s2
<1> QED
  BY <1>1, <1>2

LEMMA InsertUtters ==
  ASSUME NEW d, NEW s, Fresh(d, s), NEW t \in Tabs, NEW text
  PROVE  Utters(d, Insert(s, t, text)) /\ Insert(s, t, text).blame = s.blame
<1> DEFINE k  == <<t, Len(s.st[t]) + 1>>
           d2 == [s.d EXCEPT !.got = @ \cup {k}]
           s2 == [s EXCEPT !.st[t] = Append(@, text), !.d.got = @ \cup {k}]
           m  == [k |-> "op", s |-> k]
<1>1. Insert(s, t, text) = Send(s2, m)
  BY DEF Insert
<1>2. PICK M : s.d \in TabRecord(M)
  BY DEF Fresh, Formed
<1>3. /\ d2 \in TabRecord(M \cup {k}) /\ d2.got = s.d.got \cup {k} /\ d2.dead = s.d.dead
      /\ SameLine(s.d, d2)
  <2> HIDE DEF k
  <2> QED
    BY <1>2 DEF TabRecord, SameLine
<1>4. s2.d = d2 /\ s2.out = s.out /\ s2.blame = s.blame /\ Formed(s2)
  <2> DEFINE st2 == [s.st EXCEPT ![t] = Append(@, text)]
  <2>1. s2 = [s EXCEPT !.st = st2, !.d = d2]
    <3> HIDE DEF k
    <3> QED
      BY DEF Fresh, Formed
  <2> HIDE DEF k, d2, s2, st2
  <2>2. PICK M2 : d2 \in TabRecord(M2)
    BY <1>3
  <2>3. Formed(s)
    BY DEF Fresh
  <2> QED
    BY <2>1, <2>2, <2>3 DEF Formed
<1> HIDE DEF s2, d2
<1>5. SameLine(d, s2.d) /\ s2.out = NoFrame
  BY <1>3, <1>4 DEF Fresh, SameLine
<1>6. CASE s2.d.link = 0
  <2>1. Send(s2, m) = s2 /\ d.link = 0
    BY <1>5, <1>6 DEF Send, SameLine
  <2> QED
    BY <1>1, <1>4, <1>5, <2>1 DEF Utters
<1>7. CASE s2.d.link # 0
  <2> DEFINE s3 == Send(s2, m)
  <2>1. s3 = [s2 EXCEPT !.out = m]
    BY <1>7 DEF Send
  <2>2. Formed(s3) /\ s3.d = s2.d /\ s3.out = m /\ s3.blame = s.blame
    <3> HIDE DEF m, s3
    <3> QED
      BY <1>4, <2>1 DEF Formed
  <2>3. m.k = "op" /\ m.s = k
    OBVIOUS
  <2> HIDE DEF s3, m, k
  <2>5. ASSUME NEW x \in Things
        PROVE  Has(s3.d, x) <=> Has(d, x) \/ Brings(m, x)
    BY <1>3, <1>4, <2>2, <2>3 DEF Has, Brings, Fresh
  <2>6. d.link # 0
    BY <1>5, <1>7 DEF SameLine
  <2> QED
    BY <1>1, <1>5, <2>2, <2>3, <2>5, <2>6 DEF Utters, s3
<1> QED
  BY <1>6, <1>7

LEMMA MaybeSeedUtters ==
  ASSUME NEW d, NEW s, Fresh(d, s), NEW t \in Tabs, NEW force
  PROVE  Utters(d, MaybeSeed(s, t, force)) /\ MaybeSeed(s, t, force).blame = s.blame
<1> DEFINE d2 == [s.d EXCEPT !.pending = NoText, !.seeded = TRUE, !.seedText = s.d.pending,
                             !.fallback = 0]
           s2 == [s EXCEPT !.d.pending = NoText, !.d.seeded = TRUE,
                           !.d.seedText = s.d.pending, !.d.fallback = 0]
<1>1. \/ MaybeSeed(s, t, force) = s
      \/ MaybeSeed(s, t, force) = s2
      \/ MaybeSeed(s, t, force) = Insert(s2, t, s.d.pending)
  <2> HIDE DEF s2
  <2> QED
    BY DEF MaybeSeed, s2
<1>2. PICK M : s.d \in TabRecord(M)
  BY DEF Fresh, Formed
<1>3. d2 \in TabRecord(M) /\ SameLine(s.d, d2) /\ d2.got = s.d.got /\ d2.dead = s.d.dead
  BY <1>2 DEF TabRecord, MaybeText, SameLine
<1>4. s2.d = d2 /\ s2.out = s.out /\ s2.blame = s.blame /\ Formed(s2)
  <2>1. s2 = [s EXCEPT !.d = d2]
    BY DEF Fresh, Formed
  <2> HIDE DEF s2, d2
  <2> QED
    BY <1>3, <2>1, FormedWith DEF Fresh
<1> HIDE DEF s2, d2
<1>5. Fresh(d, s2)
  BY <1>3, <1>4 DEF Fresh, SameLine
<1> QED
  BY <1>1, <1>4, <1>5, FreshUtters, InsertUtters

LEMMA UnreachableUtters ==
  ASSUME NEW d, NEW s, Fresh(d, s), NEW t \in Tabs
  PROVE  Utters(d, Unreachable(s, t)) /\ Unreachable(s, t).blame = s.blame
<1> DEFINE d2 == [s.d EXCEPT !.offline = TRUE]
           s2 == [s EXCEPT !.d.offline = TRUE]
<1>1. Unreachable(s, t) = s \/ Unreachable(s, t) = MaybeSeed(s2, t, FALSE)
  BY DEF Unreachable
<1>2. PICK M : s.d \in TabRecord(M)
  BY DEF Fresh, Formed
<1>3. d2 \in TabRecord(M) /\ SameLine(s.d, d2) /\ d2.got = s.d.got /\ d2.dead = s.d.dead
  BY <1>2 DEF TabRecord, SameLine
<1>4. s2.d = d2 /\ s2.out = s.out /\ s2.blame = s.blame /\ Formed(s2)
  <2>1. s2 = [s EXCEPT !.d = d2]
    BY DEF Fresh, Formed
  <2> HIDE DEF s2, d2
  <2> QED
    BY <1>3, <2>1, FormedWith DEF Fresh
<1> HIDE DEF s2, d2
<1>5. Fresh(d, s2)
  BY <1>3, <1>4 DEF Fresh, SameLine
<1>6. CASE Unreachable(s, t) = s
  BY <1>6, FreshUtters
<1>7. CASE Unreachable(s, t) = MaybeSeed(s2, t, FALSE)
  <2>1. Utters(d, MaybeSeed(s2, t, FALSE)) /\ MaybeSeed(s2, t, FALSE).blame = s2.blame
    BY <1>5, MaybeSeedUtters
  <2> QED
    BY <1>4, <1>7, <2>1
<1> QED
  BY <1>1, <1>6, <1>7

\* The start of a handler of tab t.
LEMMA FreshNow ==
  ASSUME Inv, NEW t \in Tabs, NEW d2, NEW M, d2 \in TabRecord(M),
         d2.got = tab[t].got, d2.dead = tab[t].dead, NEW u2, NEW b2
  PROVE  LET s == [d |-> d2, st |-> structs, out |-> NoFrame, used |-> u2, blame |-> b2]
         IN  Fresh(d2, s) /\ (SameLine(tab[t], d2) => Fresh(tab[t], s)) /\ s.blame = b2
<1> DEFINE s == [d |-> d2, st |-> structs, out |-> NoFrame, used |-> u2, blame |-> b2]
<1>1. s.d = d2 /\ s.out = NoFrame /\ s.blame = b2 /\ Formed(s)
  BY DEF Formed
<1> HIDE DEF s
<1> QED
  BY <1>1 DEF Fresh, SameLine, s

----------------------------------------------------------------------------
(* A handler ends, and the hub passes its frame on                           *)

\* No two tabs have one peer id, and none has one that is still to be given out.
Linked(tb, nx) ==
    /\ \A t \in Tabs : tb[t].link \in 0 .. (nx - 1)
    /\ \A t, u \in Tabs : tb[t].link = tb[u].link /\ tb[t].link # 0 => t = u

LEMMA DoesTab ==
  ASSUME Inv, NEW t \in Tabs, NEW s, Formed(s), NEW q, Does(t, s, q)
  PROVE  /\ SameLine(s.d, tab'[t]) /\ tab'[t].got = s.d.got /\ tab'[t].dead = s.d.dead
         /\ \A x \in Things : Has(tab'[t], x) <=> Has(s.d, x)
         /\ \A u \in Tabs \ {t} : tab'[u] = tab[u]
         /\ peers' = peers /\ next' = next /\ unasked' = unasked
         /\ s.blame \subseteq blame' /\ Relay(s, q)
<1> DEFINE l == s.d.loading /\ ~(s.d.fetched /\ Hydrated(s.d, s.st))
           w == s.d.unsaved \/ (IsDirty(s.d, s.st) /\ ~IsDirty(tab[t], structs))
           d == [s.d EXCEPT !.loading = l, !.unsaved = w]
<1>1. /\ tab' = [tab EXCEPT ![t] = d] /\ Relay(s, q)
      /\ peers' = peers /\ next' = next /\ unasked' = unasked
  BY DEF Does
<1>2. PICK M : s.d \in TabRecord(M)
  BY DEF Formed
<1> HIDE DEF l, w
<1>3. SameLine(s.d, d) /\ d.got = s.d.got /\ d.dead = s.d.dead
  BY <1>2 DEF TabRecord, SameLine
<1> HIDE DEF d
<1>4. tab'[t] = d /\ \A u \in Tabs \ {t} : tab'[u] = tab[u]
  BY <1>1 DEF Inv, Types
<1>5. \A x \in Things : Has(d, x) <=> Has(s.d, x)
  BY <1>3 DEF Has
<1>6. s.blame \subseteq blame'
  BY <1>1 DEF Relay
<1> QED
  BY <1>1, <1>3, <1>4, <1>5, <1>6

LEMMA BacklogThings ==
  ASSUME NEW st \in [Tabs -> Seq(Text)], NEW bl \in Seq(MadeIn(st))
  PROVE  bl \in Seq(Tabs \X Nat) /\ \A i \in 1 .. Len(bl) : <<"got", bl[i]>> \in Things
<1>1. MadeIn(st) \subseteq Tabs \X Nat
  <2> SUFFICES ASSUME NEW k \in MadeIn(st)
               PROVE  k \in Tabs \X Nat
    OBVIOUS
  <2>1. PICK c \in Tabs : \E j \in 1 .. Len(st[c]) : k = <<c, j>>
    BY MadeMember
  <2> QED
    BY <2>1
<1> HIDE DEF MadeIn
<1>2. bl \in Seq(Tabs \X Nat)
  BY <1>1, SeqGrows
<1>3. \A i \in 1 .. Len(bl) : bl[i] \in Tabs \X Nat
  BY <1>2
<1> QED
  BY <1>2, <1>3 DEF Things

LEMMA PushBacklogMembers ==
  ASSUME NEW F, backlog \in Seq(F), NEW k \in F, NEW i \in 1 .. Len(PushBacklog(k))
  PROVE  PushBacklog(k)[i] = k \/ \E j \in 1 .. Len(backlog) : PushBacklog(k)[i] = backlog[j]
<1>2. Len(backlog) \in Nat /\ OpBacklog \in Nat /\ OpBacklog # 0
  BY CollabConstants, LenProperties
<1>3. CASE Len(backlog) = OpBacklog
  <2> DEFINE r == Tail(backlog)
  <2>1. backlog # << >>
    BY <1>2, <1>3
  <2>2. /\ r \in Seq(F) /\ Len(r) = Len(backlog) - 1
        /\ \A j \in 1 .. Len(r) : r[j] = backlog[j + 1]
    BY <2>1, TailFrames
  <2>3. PushBacklog(k) = Append(r, k)
    BY <1>3 DEF PushBacklog
  <2> HIDE DEF r
  <2>4. i \in 1 .. Len(Append(r, k))
    BY <2>3
  <2>5. Append(r, k)[i] = k \/ (i \in 1 .. Len(r) /\ Append(r, k)[i] = r[i])
    BY <2>2, <2>4, AppendedFrames
  <2>6. i \in 1 .. Len(r) => i + 1 \in 1 .. Len(backlog)
    BY <1>2, <2>2
  <2> QED
    BY <2>2, <2>3, <2>5, <2>6
<1>4. CASE Len(backlog) # OpBacklog
  <2>1. PushBacklog(k) = Append(backlog, k)
    BY <1>4 DEF PushBacklog
  <2> QED
    BY <2>1, AppendedFrames
<1> QED
  BY <1>3, <1>4

\* What the hub sends is behind the stream of every other connected tab.
LEMMA BroadcastLine ==
  ASSUME Inv, RoomOK(tab, down, peers, next), NEW F, NEW q \in [Ids -> Seq(F)], NEW from, NEW m \in F
  PROVE  /\ Broadcast(q, from, m) \in [Ids -> Seq(F)]
         /\ \A u \in On(tab) : tab[u].link # from =>
               Broadcast(q, from, m)[tab[u].link] = Append(q[tab[u].link], m)
         /\ from \in Ids => Broadcast(q, from, m)[from] = q[from]
<1> DEFINE b == Broadcast(q, from, m)
<1>1. b = [p \in Ids |-> IF p \in peers \ {from} /\ Live(p) THEN Append(q[p], m) ELSE q[p]]
  BY DEF Broadcast
<1>2. \A p \in Ids : Append(q[p], m) \in Seq(F) /\ q[p] \in Seq(F)
  BY AppendFrame
<1>3. b \in [Ids -> Seq(F)]
  BY <1>1, <1>2
<1>4. ASSUME NEW u \in On(tab), tab[u].link # from
      PROVE  b[tab[u].link] = Append(q[tab[u].link], m)
  <2>1. u \in Tabs /\ tab[u].link \in peers /\ tab[u].cut = FALSE
    BY DEF RoomOK, LineOK, On
  <2>2. tab[u].link \in Ids
    BY <2>1 DEF Inv, Types
  <2>3. Live(tab[u].link)
    BY <2>1 DEF Live
  <2> QED
    BY <1>1, <1>4, <2>1, <2>2, <2>3
<1>5. from \in Ids => b[from] = q[from]
  BY <1>1
<1> QED
  BY <1>3, <1>4, <1>5

LEMMA DownWired ==
  ASSUME Inv, NEW m
  PROVE  \E F : Wired(tab, down, F) /\ m \in F
<1> DEFINE F == Frame(MadeIn(structs)) \cup {m}
<1>1. \A p \in Ids : down[p] \in Seq(F)
  <2> TAKE p \in Ids
  <2>1. down[p] \in Seq(Frame(MadeIn(structs)))
    BY DEF Inv, Types
  <2> HIDE DEF Frame
  <2> QED
    BY <2>1, SeqGrows
<1>2. down \in [Ids -> Seq(F)] /\ m \in F
  <2>1. down \in [Ids -> Seq(Frame(MadeIn(structs)))]
    BY DEF Inv, Types
  <2> HIDE DEF F
  <2>2. down \in [Ids -> Seq(F)]
    BY <1>1, <2>1
  <2> QED
    BY <2>2 DEF F
<1>3. \A t \in Tabs : tab[t].link \in Ids \cup {0}
  BY TabTyped DEF TabRecord
<1> HIDE DEF F
<1> QED
  BY <1>2, <1>3 DEF Wired

\* A handler of a tab that is not connected, or is not any more.
LEMMA OffConv ==
  ASSUME Inv, Conv(tab, down, peers, next, backlog), NEW t \in Tabs \ On(tab),
         NEW s, Formed(s), NEW q, Does(t, s, q),
         \A u \in On(tab) : q[tab[u].link] = down[tab[u].link],
         s.d.link = 0 \/ s.d.cut = TRUE, s.d.link = 0 => s.out = NoFrame /\ s.d.cut = FALSE
  PROVE  Conv(tab', down', peers', next', backlog')
<1>1. /\ SameLine(s.d, tab'[t]) /\ \A u \in Tabs \ {t} : tab'[u] = tab[u]
      /\ peers' = peers /\ next' = next /\ Relay(s, q)
  BY DoesTab
<1>2. s.d.cut = TRUE \/ s.out = NoFrame
  OBVIOUS
<1>3. down' = q /\ backlog' = backlog
  BY <1>1, <1>2 DEF Relay, NoFrame
<1>4. On(tab') = On(tab)
  BY <1>1 DEF On, SameLine
<1>5. \A u \in On(tab) : u # t /\ u \in Tabs /\ tab'[u] = tab[u]
  BY <1>1, OnTabs
<1>6. \A u \in Tabs : tab'[u].link = 0 => tab'[u].cut = FALSE
  BY <1>1 DEF SameLine, Conv, RoomOK
<1>7. Alike(tab, down, tab', down')
  BY <1>3, <1>4, <1>5, <1>6 DEF Alike, SameLine, Line
<1>8. \A i \in 1 .. Len(backlog) : <<"got", backlog[i]>> \in Things
  BY BacklogThings DEF Inv, Types
<1> QED
  BY <1>1, <1>3, <1>7, <1>8, AlikeConv

LEMMA PushedBacklog ==
  ASSUME Inv, Inv', NEW m, backlog' = IF m.k = "op" THEN PushBacklog(m.s) ELSE backlog
  PROVE  Pushed(backlog, backlog', m)
<1> SUFFICES ASSUME NEW i \in 1 .. Len(backlog')
             PROVE  /\ <<"got", backlog'[i]>> \in Things
                    /\ (\E j \in 1 .. Len(backlog) : backlog'[i] = backlog[j]) \/ Brings(m, <<"got", backlog'[i]>>)
  BY DEF Pushed
<1>1. <<"got", backlog'[i]>> \in Things
  <2>1. structs' \in [Tabs -> Seq(Text)] /\ backlog' \in Seq(MadeIn(structs'))
    BY DEF Inv, Types
  <2> QED
    BY <2>1, BacklogThings
<1>2. ASSUME m.k = "op"
      PROVE  (\E j \in 1 .. Len(backlog) : backlog'[i] = backlog[j]) \/ Brings(m, <<"got", backlog'[i]>>)
  <2> DEFINE G == MadeIn(structs) \cup {m.s}
  <2>1. backlog \in Seq(MadeIn(structs)) /\ MadeIn(structs) \subseteq G /\ m.s \in G
    BY DEF Inv, Types
  <2> HIDE DEF G
  <2>2. backlog \in Seq(G)
    BY <2>1, SeqGrows
  <2>3. backlog' = PushBacklog(m.s)
    BY <1>2
  <2>4. PushBacklog(m.s)[i] = m.s \/ \E j \in 1 .. Len(backlog) : PushBacklog(m.s)[i] = backlog[j]
    BY <2>1, <2>2, <2>3, PushBacklogMembers
  <2> QED
    BY <1>2, <2>3, <2>4 DEF Brings
<1>3. ASSUME m.k # "op"
      PROVE  \E j \in 1 .. Len(backlog) : backlog'[i] = backlog[j]
  BY <1>3
<1> QED
  BY <1>1, <1>2, <1>3

\* A connected tab sends frame m, and the hub passes it on.
LEMMA RelayedConv ==
  ASSUME Inv, Inv', Conv(tab, down, peers, next, backlog), NEW t \in On(tab), NEW m,
         m.k \notin {"welcome", "join", "leave"},
         SameLine(tab[t], tab'[t]), \A u \in Tabs \ {t} : tab'[u] = tab[u],
         \A x \in Things : Has(tab'[t], x) <=> Has(tab[t], x) \/ Brings(m, x),
         down' = Broadcast(down, tab[t].link, m),
         backlog' = IF m.k = "op" THEN PushBacklog(m.s) ELSE backlog
  PROVE  Conv(tab', down', peers, next, backlog')
<1>1. PICK F : Wired(tab, down, F) /\ m \in F
  BY DownWired
<1>2. RoomOK(tab, down, peers, next) /\ down \in [Ids -> Seq(F)]
  BY <1>1 DEF Conv, Wired
<1>3. /\ down' \in [Ids -> Seq(F)]
      /\ \A u \in On(tab) : tab[u].link # tab[t].link => down'[tab[u].link] = Append(down[tab[u].link], m)
      /\ tab[t].link \in Ids => down'[tab[t].link] = down[tab[t].link]
  BY <1>1, <1>2, BroadcastLine
<1>4. t \in Tabs /\ tab[t].link \in Ids
  BY <1>1, LineType
<1>5. \A u \in On(tab) \ {t} : u \in Tabs /\ tab'[u] = tab[u] /\ tab[u].link # tab[t].link
  BY <1>2, OnTabs DEF RoomOK
<1>6. \A u \in Tabs : tab'[u].link \in Ids \cup {0}
  BY <1>1, <1>4 DEF SameLine, Wired
<1>7. Line(tab', down', t) = Line(tab, down, t)
  BY <1>3, <1>4 DEF Line, SameLine
<1>8. \A u \in On(tab) \ {t} : Line(tab', down', u) = Append(Line(tab, down, u), m)
  BY <1>3, <1>5 DEF Line
<1>9. Speaks(tab, down, tab', down', t, m, F)
  BY <1>1, <1>3, <1>6, <1>7, <1>8 DEF Speaks, Wired
<1>10. Pushed(backlog, backlog', m)
  BY PushedBacklog
<1> QED
  BY <1>9, <1>10, SpeaksConv

LEMMA NoFrameKind == NoFrame.k = "none"
  BY DEF NoFrame

LEMMA RefusedGrows ==
  ASSUME NEW b, NEW b2, b \subseteq b2, ~Refused(b2)
  PROVE  ~Refused(b)
  BY DEF Refused

\* The hub takes the frame of a connected tab, unless it refuses it.
LEMMA RelayTakes ==
  ASSUME NEW s, NEW q, Relay(s, q), s.d.cut = FALSE, s.out # NoFrame, ~Refused(blame')
  PROVE  /\ down' = Broadcast(q, s.d.link, s.out)
         /\ backlog' = IF s.out.k = "op" THEN PushBacklog(s.out.s) ELSE backlog
  BY DEF Relay, Refused

LEMMA RelayNothing ==
  ASSUME NEW s, NEW q, Relay(s, q), s.out = NoFrame
  PROVE  down' = q /\ backlog' = backlog
<1>1. s.out.k # "op"
  BY NoFrameKind
<1> QED
  BY <1>1 DEF Relay

\* A handler of a connected tab that inserts, asks or says that it saved.
LEMMA OnConv ==
  ASSUME Inv, Inv', Conv(tab, down, peers, next, backlog), NEW t \in On(tab),
         NEW s, Utters(tab[t], s), Does(t, s, down), ~Refused(blame')
  PROVE  Conv(tab', down', peers', next', backlog')
<1>1. t \in Tabs /\ tab[t].link # 0 /\ tab[t].cut = FALSE /\ Formed(s) /\ SameLine(tab[t], s.d)
  BY DEF On, Utters
<1>2. /\ SameLine(s.d, tab'[t]) /\ \A x \in Things : Has(tab'[t], x) <=> Has(s.d, x)
      /\ \A u \in Tabs \ {t} : tab'[u] = tab[u]
      /\ peers' = peers /\ next' = next /\ Relay(s, down)
  BY <1>1, DoesTab
<1>3. SameLine(tab[t], tab'[t]) /\ s.d.cut = FALSE /\ s.d.link = tab[t].link
  BY <1>1, <1>2 DEF SameLine
<1>4. CASE s.out = NoFrame
  <2>1. down' = down /\ backlog' = backlog
    BY <1>2, <1>4 DEF Relay, NoFrame
  <2>2. On(tab') = On(tab)
    BY <1>2, <1>3 DEF On, SameLine
  <2>3. \A x \in Things : Has(tab'[t], x) <=> Has(tab[t], x)
    <3>1. s.out.k \notin {"s1", "op", "saved"}
      <4>1. s.out.k = "none"
        BY <1>4, NoFrameKind
      <4> QED
        BY <4>1
    <3>2. \A x \in Things : Has(s.d, x) <=> Has(tab[t], x)
      BY <1>1, <3>1 DEF Utters
    <3> QED
      BY <1>2, <3>2
  <2>4. \A u \in On(tab) \ {t} : u \in Tabs /\ tab'[u] = tab[u]
    BY <1>2, OnTabs
  <2>5. \A u \in Tabs : tab'[u].link = 0 => tab'[u].cut = FALSE
    BY <1>1, <1>2, <1>3 DEF SameLine, Conv, RoomOK
  <2>6. \A u \in On(tab) : /\ SameLine(tab[u], tab'[u]) /\ Line(tab', down', u) = Line(tab, down, u)
                           /\ \A x \in Things : Has(tab'[u], x) <=> Has(tab[u], x)
    <3>1. ASSUME NEW u \in On(tab)
          PROVE  SameLine(tab[u], tab'[u]) /\ \A x \in Things : Has(tab'[u], x) <=> Has(tab[u], x)
      <4>1. CASE u = t
        BY <1>3, <2>3, <4>1
      <4>2. CASE u # t
        BY <2>4, <4>2 DEF SameLine
      <4> QED
        BY <4>1, <4>2
    <3> QED
      BY <2>1, <3>1 DEF Line, SameLine
  <2>7. Alike(tab, down, tab', down')
    BY <2>2, <2>5, <2>6 DEF Alike
  <2>8. \A i \in 1 .. Len(backlog) : <<"got", backlog[i]>> \in Things
    BY BacklogThings DEF Inv, Types
  <2> QED
    BY <1>2, <2>1, <2>7, <2>8, AlikeConv
<1>5. CASE s.out # NoFrame
  <2> DEFINE m == s.out
  <2>1. /\ m.k \in {"s1", "op", "saved"}
        /\ \A x \in Things : Has(s.d, x) <=> Has(tab[t], x) \/ Brings(m, x)
    BY <1>5 DEF Utters
  <2>2. /\ down' = Broadcast(down, tab[t].link, m)
        /\ backlog' = IF m.k = "op" THEN PushBacklog(m.s) ELSE backlog
    BY <1>2, <1>3, <1>5, RelayTakes
  <2>3. \A x \in Things : Has(tab'[t], x) <=> Has(tab[t], x) \/ Brings(m, x)
    BY <1>2, <2>1
  <2>4. m.k \notin {"welcome", "join", "leave"}
    BY <2>1
  <2> HIDE DEF m
  <2>5. Conv(tab', down', peers, next, backlog')
    BY <1>2, <1>3, <2>2, <2>3, <2>4, RelayedConv
  <2> QED
    BY <1>2, <2>5
<1> QED
  BY <1>4, <1>5

\* The inductive invariant of convergence, beside Inv.
Settled == Linked(tab, next) /\ ConvInv

LEMMA UttersStep ==
  ASSUME Inv, Inv', Settled, NEW t \in Tabs, NEW s, Utters(tab[t], s), Does(t, s, down),
         blame \subseteq s.blame
  PROVE  Settled'
<1>1. Formed(s) /\ SameLine(tab[t], s.d)
  BY DEF Utters
<1>2. /\ SameLine(s.d, tab'[t]) /\ \A u \in Tabs \ {t} : tab'[u] = tab[u]
      /\ next' = next /\ unasked' = unasked /\ s.blame \subseteq blame'
  BY <1>1, DoesTab
<1>3. Linked(tab', next')
  BY <1>1, <1>2 DEF Linked, SameLine, Settled
<1>4. ASSUME ~Refused(blame'), unasked' = {}
      PROVE  Conv(tab', down', peers', next', backlog')
  <2>1. Conv(tab, down, peers, next, backlog)
    <3>1. ~Refused(blame) /\ unasked = {}
      <4>1. blame \subseteq blame'
        BY <1>2
      <4> QED
        BY <1>2, <1>4, <4>1, RefusedGrows
    <3> QED
      BY <3>1 DEF Settled, ConvInv, Heard
  <2>2. CASE t \in On(tab)
    BY <1>4, <2>1, <2>2, OnConv
  <2>3. CASE t \notin On(tab)
    <3>1. s.d.link = 0 \/ s.d.cut = TRUE
      BY <1>1, <2>3, TabTyped DEF On, SameLine, TabRecord
    <3>2. s.d.link = 0 => s.out = NoFrame /\ s.d.cut = FALSE
      BY <1>1, <2>1 DEF Utters, SameLine, Conv, RoomOK
    <3> QED
      BY <1>1, <2>1, <2>3, <3>1, <3>2, OffConv
  <2> QED
    BY <2>2, <2>3
<1> QED
  BY <1>3, <1>4 DEF Settled, ConvInv, Heard

----------------------------------------------------------------------------
(* The steps in which a tab only inserts, asks or says that it saved         *)

LEMMA FetchedConv ==
  ASSUME Inv, Inv', Settled, NEW t \in Tabs, Fetched(t)
  PROVE  Settled'
<1>0. PICK body \in past :
         Does(t, MaybeSeed([Now(t) EXCEPT !.d = [@ EXCEPT !.fetched = TRUE, !.baseline = body,
                                                          !.pending = body]], t, FALSE), down)
  BY DEF Fetched
<1> DEFINE d2 == [tab[t] EXCEPT !.fetched = TRUE, !.baseline = body, !.pending = body]
           s1 == [d |-> d2, st |-> structs, out |-> NoFrame, used |-> used, blame |-> blame]
<1>1. [Now(t) EXCEPT !.d = [@ EXCEPT !.fetched = TRUE, !.baseline = body, !.pending = body]] = s1
  BY DEF Now
<1>2. Does(t, MaybeSeed(s1, t, FALSE), down)
  BY <1>0, <1>1
<1>3. tab[t] \in TabRecord(MadeIn(structs)) /\ body \in MaybeText
  BY TabTyped DEF Inv, Types, MaybeText
<1>4. d2 \in TabRecord(MadeIn(structs)) /\ SameLine(tab[t], d2) /\ d2.got = tab[t].got /\ d2.dead = tab[t].dead
  BY <1>3 DEF TabRecord, SameLine
<1> HIDE DEF d2
<1>5. Fresh(tab[t], s1) /\ s1.blame = blame
  BY <1>4, FreshNow
<1> HIDE DEF s1
<1>6. Utters(tab[t], MaybeSeed(s1, t, FALSE)) /\ MaybeSeed(s1, t, FALSE).blame = s1.blame
  BY <1>5, MaybeSeedUtters
<1> QED
  BY <1>2, <1>5, <1>6, UttersStep

LEMMA HydrateTimeoutConv ==
  ASSUME Inv, Inv', Settled, NEW t \in Tabs, HydrateTimeout(t)
  PROVE  Settled'
<1> DEFINE d2 == [tab[t] EXCEPT !.loading = FALSE]
           b2 == blame \cup {"not hydrated"}
           s1 == [Now(t) EXCEPT !.d = d2, !.used = Counted, !.blame = b2]
<1>1. Does(t, s1, down)
  BY DEF HydrateTimeout, Now
<1>3. tab[t] \in TabRecord(MadeIn(structs))
  BY TabTyped
<1>4. d2 \in TabRecord(MadeIn(structs)) /\ SameLine(tab[t], d2) /\ d2.got = tab[t].got /\ d2.dead = tab[t].dead
  BY <1>3 DEF TabRecord, SameLine
<1>5. blame \subseteq b2
  OBVIOUS
<1> HIDE DEF d2, b2
<1>6. s1.d = d2 /\ s1.st = structs /\ s1.out = NoFrame /\ s1.used = Counted /\ s1.blame = b2
  BY DEF Now
<1>7. s1 \in [d : {s1.d}, st : {s1.st}, out : {s1.out}, used : {s1.used}, blame : {s1.blame}]
  BY DEF Now
<1> HIDE DEF s1
<1>8. Fresh(tab[t], s1)
  BY <1>4, <1>6, <1>7 DEF Fresh, Formed
<1> QED
  BY <1>1, <1>5, <1>6, <1>8, FreshUtters, UttersStep

LEMMA TypeConv ==
  ASSUME Inv, Inv', Settled, NEW t \in Tabs, Type(t)
  PROVE  Settled'
<1> DEFINE d2 == tab[t]
           b2 == blame
           s1 == [d |-> d2, st |-> structs, out |-> NoFrame, used |-> [used EXCEPT !.edits = @ + 1], blame |-> b2]
<1>1. [Now(t) EXCEPT !.used.edits = @ + 1] = s1
  BY DEF Now
<1>2. Does(t, Insert(s1, t, Only(used.edits + 1)), down)
  BY <1>1 DEF Type
<1>3. tab[t] \in TabRecord(MadeIn(structs))
  BY TabTyped
<1>4. d2 \in TabRecord(MadeIn(structs)) /\ SameLine(tab[t], d2) /\ d2.got = tab[t].got /\ d2.dead = tab[t].dead
  BY <1>3 DEF TabRecord, SameLine
<1>5. blame \subseteq b2
  OBVIOUS
<1> HIDE DEF d2, b2
<1>6. Fresh(tab[t], s1) /\ s1.blame = b2
  BY <1>4, FreshNow
<1> HIDE DEF s1
<1>7. Utters(tab[t], Insert(s1, t, Only(used.edits + 1))) /\ (Insert(s1, t, Only(used.edits + 1))).blame = s1.blame
  BY <1>6, InsertUtters
<1> QED
  BY <1>2, <1>5, <1>6, <1>7, UttersStep

LEMMA SaveConv ==
  ASSUME Inv, Inv', Settled, NEW t \in Tabs, Save(t)
  PROVE  Settled'
<1> DEFINE b  == TextOf(tab[t], structs)
           d2 == [tab[t] EXCEPT !.save = [at |-> "sent", body |-> b]]
           s0 == [Now(t) EXCEPT !.used = Counted]
           s1 == [s0 EXCEPT !.d = d2]
<1>1. Does(t, s1, down)
  <2>1. s1 = [Now(t) EXCEPT !.used = Counted,
                            !.d.save = [at |-> "sent", body |-> TextOf(tab[t], structs)]]
    BY DEF Now
  <2> HIDE DEF s1
  <2> QED
    BY <2>1 DEF Save
<1>3. tab[t] \in TabRecord(MadeIn(structs)) /\ b \in Text
  BY TabTyped, TextOfType
<1> HIDE DEF b
<1>4. d2 \in TabRecord(MadeIn(structs)) /\ SameLine(tab[t], d2) /\ d2.got = tab[t].got /\ d2.dead = tab[t].dead
  BY <1>3 DEF TabRecord, SameLine, SaveRecord
<1> HIDE DEF d2
<1>6. s1.d = d2 /\ s1.st = structs /\ s1.out = NoFrame /\ s1.used = Counted /\ s1.blame = blame
  BY DEF Now
<1>7. s1 \in [d : {s1.d}, st : {s1.st}, out : {s1.out}, used : {s1.used}, blame : {s1.blame}]
  BY DEF Now
<1> HIDE DEF s1
<1>8. Fresh(tab[t], s1)
  BY <1>4, <1>6, <1>7 DEF Fresh, Formed
<1> QED
  BY <1>1, <1>6, <1>8, FreshUtters, UttersStep

LEMMA SaveReturnsConv ==
  ASSUME Inv, Inv', Settled, NEW t \in Tabs, SaveReturns(t)
  PROVE  Settled'
<1> DEFINE d2 == [tab[t] EXCEPT !.baseline = tab[t].save.body, !.save = Idle, !.unsaved = FALSE]
           b2 == blame
           s1 == [d |-> d2, st |-> structs, out |-> NoFrame, used |-> used, blame |-> b2]
<1>1. [Now(t) EXCEPT !.d = [@ EXCEPT !.baseline = tab[t].save.body, !.save = Idle, !.unsaved = FALSE]] = s1
  BY DEF Now
<1>2. Does(t, Send(s1, [k |-> "saved"]), down)
  BY <1>1 DEF SaveReturns
<1>3. tab[t] \in TabRecord(MadeIn(structs)) /\ tab[t].save.body \in MaybeText /\ Idle \in SaveRecord
  BY TabTyped DEF TabRecord, SaveRecord, MaybeText, Idle
<1>4. d2 \in TabRecord(MadeIn(structs)) /\ SameLine(tab[t], d2) /\ d2.got = tab[t].got /\ d2.dead = tab[t].dead
  BY <1>3 DEF TabRecord, SameLine
<1>5. blame \subseteq b2
  OBVIOUS
<1> HIDE DEF d2, b2
<1>6. Fresh(tab[t], s1) /\ s1.blame = b2
  BY <1>4, FreshNow
<1> HIDE DEF s1
<1>7. Utters(tab[t], Send(s1, [k |-> "saved"])) /\ (Send(s1, [k |-> "saved"])).blame = s1.blame
  BY <1>6, SendUtters
<1> QED
  BY <1>2, <1>5, <1>6, <1>7, UttersStep

LEMMA SaveFailsConv ==
  ASSUME Inv, Inv', Settled, NEW t \in Tabs, SaveFails(t)
  PROVE  Settled'
<1> DEFINE d2 == [tab[t] EXCEPT !.save = Idle]
           b2 == blame
           s1 == [d |-> d2, st |-> structs, out |-> NoFrame, used |-> used, blame |-> b2]
<1>1. [Now(t) EXCEPT !.d.save = Idle] = s1
  BY DEF Now
<1>2. Does(t, s1, down)
  BY <1>1 DEF SaveFails
<1>3. tab[t] \in TabRecord(MadeIn(structs)) /\ Idle \in SaveRecord
  BY TabTyped DEF SaveRecord, Idle
<1>4. d2 \in TabRecord(MadeIn(structs)) /\ SameLine(tab[t], d2) /\ d2.got = tab[t].got /\ d2.dead = tab[t].dead
  BY <1>3 DEF TabRecord, SameLine
<1>5. blame \subseteq b2
  OBVIOUS
<1> HIDE DEF d2, b2
<1>6. Fresh(tab[t], s1) /\ s1.blame = b2
  BY <1>4, FreshNow
<1> HIDE DEF s1
<1>7. Utters(tab[t], s1) /\ (s1).blame = s1.blame
  BY <1>6, FreshUtters
<1> QED
  BY <1>2, <1>5, <1>6, <1>7, UttersStep

LEMMA SyncRetryConv ==
  ASSUME Inv, Inv', Settled, NEW t \in Tabs, SyncRetry(t)
  PROVE  Settled'
<1> DEFINE d2 == [tab[t] EXCEPT !.retry = @ - 1]
           b2 == blame
           s1 == [d |-> d2, st |-> structs, out |-> NoFrame, used |-> used, blame |-> b2]
<1>1. [Now(t) EXCEPT !.d.retry = @ - 1] = s1
  BY DEF Now
<1>2. Does(t, SyncRequest(s1), down)
  BY <1>1 DEF SyncRetry
<1>3. tab[t] \in TabRecord(MadeIn(structs)) /\ tab[t].retry - 1 \in Nat
  BY TabTyped DEF TabRecord, SyncRetry
<1>4. d2 \in TabRecord(MadeIn(structs)) /\ SameLine(tab[t], d2) /\ d2.got = tab[t].got /\ d2.dead = tab[t].dead
  BY <1>3 DEF TabRecord, SameLine
<1>5. blame \subseteq b2
  OBVIOUS
<1> HIDE DEF d2, b2
<1>6. Fresh(tab[t], s1) /\ s1.blame = b2
  BY <1>4, FreshNow
<1> HIDE DEF s1
<1>7. Utters(tab[t], SyncRequest(s1)) /\ (SyncRequest(s1)).blame = s1.blame
  BY <1>6, SendUtters DEF SyncRequest
<1> QED
  BY <1>2, <1>5, <1>6, <1>7, UttersStep

LEMMA SeedFallbackConv ==
  ASSUME Inv, Inv', Settled, NEW t \in Tabs, SeedFallback(t)
  PROVE  Settled'
<1> DEFINE d2 == [tab[t] EXCEPT !.fallback = @ - 1]
           b2 == blame
           s1 == [d |-> d2, st |-> structs, out |-> NoFrame, used |-> used, blame |-> b2]
<1>1. [Now(t) EXCEPT !.d.fallback = @ - 1] = s1
  BY DEF Now
<1>2. Does(t, MaybeSeed(s1, t, TRUE), down)
  BY <1>1 DEF SeedFallback
<1>3. tab[t] \in TabRecord(MadeIn(structs)) /\ tab[t].fallback - 1 \in Nat
  BY TabTyped DEF TabRecord, SeedFallback
<1>4. d2 \in TabRecord(MadeIn(structs)) /\ SameLine(tab[t], d2) /\ d2.got = tab[t].got /\ d2.dead = tab[t].dead
  BY <1>3 DEF TabRecord, SameLine
<1>5. blame \subseteq b2
  OBVIOUS
<1> HIDE DEF d2, b2
<1>6. Fresh(tab[t], s1) /\ s1.blame = b2
  BY <1>4, FreshNow
<1> HIDE DEF s1
<1>7. Utters(tab[t], MaybeSeed(s1, t, TRUE)) /\ (MaybeSeed(s1, t, TRUE)).blame = s1.blame
  BY <1>6, MaybeSeedUtters
<1> QED
  BY <1>2, <1>5, <1>6, <1>7, UttersStep

LEMMA ConnectFailsConv ==
  ASSUME Inv, Inv', Settled, NEW t \in Tabs, ConnectFails(t)
  PROVE  Settled'
<1> DEFINE d2 == tab[t]
           b2 == blame
           s1 == [d |-> d2, st |-> structs, out |-> NoFrame, used |-> Counted, blame |-> b2]
<1>1. [Now(t) EXCEPT !.used = Counted] = s1
  BY DEF Now
<1>2. Does(t, Unreachable(s1, t), down)
  BY <1>1 DEF ConnectFails
<1>3. tab[t] \in TabRecord(MadeIn(structs))
  BY TabTyped
<1>4. d2 \in TabRecord(MadeIn(structs)) /\ SameLine(tab[t], d2) /\ d2.got = tab[t].got /\ d2.dead = tab[t].dead
  BY <1>3 DEF TabRecord, SameLine
<1>5. blame \subseteq b2
  OBVIOUS
<1> HIDE DEF d2, b2
<1>6. Fresh(tab[t], s1) /\ s1.blame = b2
  BY <1>4, FreshNow
<1> HIDE DEF s1
<1>7. Utters(tab[t], Unreachable(s1, t)) /\ (Unreachable(s1, t)).blame = s1.blame
  BY <1>6, UnreachableUtters
<1> QED
  BY <1>2, <1>5, <1>6, <1>7, UttersStep

----------------------------------------------------------------------------
(* A connection is found broken, a save is written, the hub forgets          *)

LEMMA NextType ==
  ASSUME Inv
  PROVE  next \in Nat /\ next >= 1
  BY IdsType DEF Inv, Types

LEMMA DroppedConv ==
  ASSUME Inv, Settled, NEW t \in Tabs, Dropped(t)
  PROVE  Settled'
<1> DEFINE d2 == [tab[t] EXCEPT !.link = 0, !.cut = FALSE]
           s1 == [Now(t) EXCEPT !.d = d2]
           s2 == Unreachable(s1, t)
<1>1. Does(t, s2, down)
  BY DEF Dropped, Now
<1>2. Does(t, s2, down) /\ t \notin On(tab)
  BY <1>1 DEF Dropped, On
<1>3. tab[t] \in TabRecord(MadeIn(structs))
  BY TabTyped
<1>4. /\ d2 \in TabRecord(MadeIn(structs)) /\ d2.link = 0 /\ d2.cut = FALSE
      /\ d2.got = tab[t].got /\ d2.dead = tab[t].dead
  BY <1>3 DEF TabRecord
<1> HIDE DEF d2
<1>5. Fresh(d2, s1) /\ s1.blame = blame
  <2>1. s1 = [d |-> d2, st |-> structs, out |-> NoFrame, used |-> used, blame |-> blame]
    BY DEF Now
  <2> HIDE DEF s1
  <2> QED
    BY <1>4, <2>1, FreshNow
<1> HIDE DEF s1
<1>6. Utters(d2, s2) /\ s2.blame = blame
  BY <1>5, UnreachableUtters
<1> HIDE DEF s2
<1>7. Formed(s2) /\ s2.out = NoFrame /\ s2.d.link = 0 /\ s2.d.cut = FALSE
  BY <1>4, <1>6 DEF Utters, SameLine
<1>8. /\ tab'[t].link = 0 /\ \A u \in Tabs \ {t} : tab'[u] = tab[u]
      /\ next' = next /\ unasked' = unasked /\ blame \subseteq blame'
  BY <1>2, <1>6, <1>7, DoesTab DEF SameLine
<1>9. Linked(tab', next')
  BY <1>8, NextType DEF Linked, Settled
<1>10. ASSUME ~Refused(blame'), unasked' = {}
       PROVE  Conv(tab', down', peers', next', backlog')
  <2>1. Conv(tab, down, peers, next, backlog)
    <3>1. ~Refused(blame) /\ unasked = {}
      BY <1>8, <1>10, RefusedGrows
    <3> QED
      BY <3>1 DEF Settled, ConvInv, Heard
  <2> QED
    BY <1>2, <1>7, <2>1, OffConv
<1> QED
  BY <1>9, <1>10 DEF Settled, ConvInv, Heard

LEMMA SaveWrittenConv ==
  ASSUME Inv, Settled, NEW t \in Tabs, SaveWritten(t)
  PROVE  Settled'
<1>1. /\ tab' = [tab EXCEPT ![t].save.at = "written"] /\ down' = down /\ peers' = peers
      /\ next' = next /\ backlog' = backlog /\ blame' = blame /\ unasked' = unasked
  BY DEF SaveWritten, hub
<1>2. \A u \in Tabs : tab[u] \in TabRecord(MadeIn(structs))
  BY TabTyped
<1>3. \A u \in Tabs \ {t} : tab'[u] = tab[u]
  BY <1>1 DEF Inv, Types
<1>4. SameLine(tab[t], tab'[t]) /\ tab'[t].got = tab[t].got /\ tab'[t].dead = tab[t].dead
  BY <1>1, <1>2 DEF Inv, Types, TabRecord, SameLine
<1>5. \A u \in Tabs : SameLine(tab[u], tab'[u]) /\ tab'[u].got = tab[u].got /\ tab'[u].dead = tab[u].dead
  BY <1>3, <1>4 DEF SameLine
<1>6. Linked(tab', next')
  BY <1>1, <1>5 DEF Linked, SameLine, Settled
<1>7. ASSUME Conv(tab, down, peers, next, backlog)
      PROVE  Conv(tab', down, peers, next, backlog)
  <2>1. On(tab') = On(tab) /\ On(tab) \subseteq Tabs
    BY <1>5 DEF On, SameLine
  <2>2. \A u \in Tabs : Line(tab', down, u) = Line(tab, down, u)
    BY <1>5 DEF Line, SameLine
  <2>3. \A u \in Tabs : \A x \in Things : Has(tab'[u], x) <=> Has(tab[u], x)
    BY <1>5 DEF Has
  <2>4. \A u \in Tabs : tab'[u].link = 0 => tab'[u].cut = FALSE
    BY <1>5, <1>7 DEF SameLine, Conv, RoomOK
  <2>5. Alike(tab, down, tab', down)
    BY <1>5, <2>1, <2>2, <2>3, <2>4 DEF Alike
  <2>6. \A i \in 1 .. Len(backlog) : <<"got", backlog[i]>> \in Things
    BY BacklogThings DEF Inv, Types
  <2> QED
    BY <1>7, <2>5, <2>6, AlikeConv
<1> QED
  BY <1>1, <1>6, <1>7 DEF Settled, ConvInv, Heard

LEMMA EvictIdleConv ==
  ASSUME Settled, EvictIdle
  PROVE  Settled'
<1>1. /\ backlog' = << >> /\ tab' = tab /\ down' = down /\ peers' = peers /\ next' = next
      /\ blame' = blame /\ unasked' = unasked
  BY DEF EvictIdle
<1>2. Kept(tab, down, << >>)
  BY DEF Kept
<1>3. Conv(tab, down, peers, next, backlog) => Conv(tab, down, peers, next, << >>)
  BY <1>2 DEF Conv
<1> QED
  BY <1>1, <1>3 DEF Settled, ConvInv, Heard

LEMMA StutterConv ==
  ASSUME Settled, UNCHANGED vars
  PROVE  Settled'
  BY DEF Settled, ConvInv, Heard, vars

----------------------------------------------------------------------------
(* Connections end and begin                                                 *)

\* What is done to the lines of connected tabs, which nobody shares.
LEMMA NotedBroadcast ==
  ASSUME Inv, RoomOK(tab, down, peers, next), NEW p, NEW m, m.k \in {"join", "leave"},
         \A u \in On(tab) : tab[u].link # p
  PROVE  \E F : Noted(tab, down, tab, Broadcast(down, p, m), m, F)
<1>1. PICK F : Wired(tab, down, F) /\ m \in F
  BY DownWired
<1>2. down \in [Ids -> Seq(F)]
  BY <1>1 DEF Wired
<1>3. \A u \in On(tab) : tab[u].link # p =>
         Broadcast(down, p, m)[tab[u].link] = Append(down[tab[u].link], m)
  BY <1>1, <1>2, BroadcastLine
<1>4. Noted(tab, down, tab, Broadcast(down, p, m), m, F)
  BY <1>1, <1>3 DEF Noted, Line
<1> QED
  BY <1>4

LEMMA LeaveStepConv ==
  ASSUME Inv, Settled, NEW p \in Ids, Leave(p)
  PROVE  Settled'
<1>1. /\ p \in peers /\ ~Live(p) /\ peers' = peers \ {p} /\ down' = Broadcast(down, p, LeaveOf(p))
      /\ tab' = tab /\ next' = next /\ backlog' = backlog /\ blame' = blame /\ unasked' = unasked
  BY DEF Leave, LeaveOf
<1>2. \A u \in On(tab) : tab[u].link # p
  BY <1>1 DEF On, Live
<1>3. LeaveOf(p).k \in {"join", "leave"}
  BY DEF LeaveOf
<1>4. ASSUME Conv(tab, down, peers, next, backlog)
      PROVE  Conv(tab, down', peers', next, backlog)
  <2>1. RoomOK(tab, down, peers, next)
    BY <1>4 DEF Conv
  <2>2. PICK F : Noted(tab, down, tab, Broadcast(down, p, LeaveOf(p)), LeaveOf(p), F)
    BY <1>2, <1>3, <2>1, NotedBroadcast
  <2>3. next \in Nat
    BY NextType
  <2>4. Noted(tab, down, tab, down', LeaveOf(p), F)
    BY <1>1, <2>2
  <2>5. Conv(tab, down', peers \ {p}, next, backlog)
    BY <1>1, <1>2, <1>4, <2>3, <2>4, LeaveConv
  <2> QED
    BY <1>1, <2>5
<1> QED
  BY <1>1, <1>4 DEF Settled, ConvInv, Heard

\* The one that goes and was to ask a newcomer is the hub's lowest peer.
LEMMA ForsakenGoes ==
  ASSUME Inv, Conv(tab, down, peers, next, backlog), NEW t \in On(tab), Forsaken(tab[t].link) = {},
         NEW tb2, NEW dn2, On(tb2) = On(tab) \ {t},
         \A u \in On(tb2) : tb2[u] = tab[u] /\ Line(tb2, dn2, u) = Line(tab, down, u),
         \A u \in Tabs : tb2[u].link = 0 => tb2[u].cut = FALSE
  PROVE  Goes(tab, down, tb2, dn2, t)
<1> SUFFICES ASSUME NEW a \in On(tb2), NEW b \in On(tb2) \ {a}, NEW i \in Nat, AsksAt(tab, down, t, a, i)
             PROVE  FALSE
  BY DEF Goes
<1> DEFINE p == tab[t].link
           r == tab[a].link
           v == tab[b].link
           q == Line(tab, down, t)
<1>1. a \in On(tab) /\ b \in On(tab) /\ a # t /\ b # t /\ a # b
  OBVIOUS
<1>2. /\ RoomOK(tab, down, peers, next)
      /\ \A u \in On(tab) : LineOK(tab[u], Line(tab, down, u), peers, next)
      /\ \A u, w \in On(tab) : tab[u].link = tab[w].link => u = w
  BY DEF Conv, RoomOK
<1>3. p \in peers /\ r \in peers /\ v \in peers /\ p # r /\ p # v /\ r # v
  BY <1>1, <1>2 DEF LineOK
<1>4. Live(r) /\ Live(v)
  <2>1. \A u \in On(tab) : u \in Tabs /\ tab[u].cut = FALSE
    BY DEF On
  <2> QED
    BY <1>1, <2>1 DEF Live
<1>5. /\ i \in 1 .. Len(q) /\ q[i] = JoinOf(r) /\ LowAt(tab[t], q, i)
  BY DEF AsksAt
<1>6. q = down[p] /\ p \in Ids /\ down \in [Ids -> Seq(Frame(MadeIn(structs)))] /\ peers \subseteq Ids
  BY <1>3 DEF Line, Inv, Types
<1>7. i \in DOMAIN down[p] /\ down[p][i] = [k |-> "join", p |-> r]
  <2> HIDE DEF q, p, r
  <2>1. down[p] \in Seq(Frame(MadeIn(structs)))
    BY <1>6
  <2> QED
    BY <1>5, <1>6, <2>1, LenProperties DEF JoinOf
<1>8. ASSUME NEW w \in peers
      PROVE  p <= w
  <2>1. w \in Nat /\ p \in Nat /\ w >= 1 /\ p >= 1
    BY <1>6, IdsType
  <2> SUFFICES ASSUME w < p
               PROVE  FALSE
    BY <2>1
  <2>2. LineOK(tab[t], q, peers, next)
    BY <1>2
  <2>3. w \in 1 .. (tab[t].link - 1)
    BY <2>1
  <2>4. w \in Base(tab[t], q)
    BY <2>2, <2>3 DEF LineOK
  <2>5. PICK j \in 1 .. (i - 1) : q[j] = LeaveOf(w)
    BY <1>5, <2>4 DEF LowAt
  <2> HIDE DEF q
  <2>6. Len(q) \in Nat
    BY <1>6, LenProperties
  <2>7. j \in 1 .. Len(q)
    BY <1>5, <2>6
  <2>8. q[j].k = "leave" /\ q[j].p = w
    BY <2>5 DEF LeaveOf
  <2>9. q[j].p \notin peers
    BY <2>2, <2>7, <2>8 DEF LineOK
  <2> QED
    BY <2>8, <2>9
<1>9. Lowest(p)
  BY <1>3, <1>8 DEF Lowest
<1> HIDE DEF p, r, v, q
<1>10. r \in Forsaken(p)
  BY <1>3, <1>4, <1>7, <1>9 DEF Forsaken
<1> QED
  BY <1>10 DEF p

\* No other tab's stream is the one of tab t.
LEMMA OwnLine ==
  ASSUME Inv, Linked(tab, next), NEW t \in Tabs, tab[t].link # 0, NEW u \in On(tab) \ {t}
  PROVE  /\ tab[u].link # tab[t].link
         /\ \A q : [down EXCEPT ![tab[t].link] = q][tab[u].link] = down[tab[u].link]
<1>1. u \in Tabs /\ tab[u].link # tab[t].link
  BY OnTabs DEF Linked
<1>2. down \in [Ids -> Seq(Frame(MadeIn(structs)))]
  BY DEF Inv, Types
<1>3. tab[u].link \in Ids
  BY <1>1, TabTyped DEF TabRecord, On
<1> QED
  BY <1>1, <1>2, <1>3

LEMMA CutConv ==
  ASSUME Inv, Settled, NEW t \in Tabs, Cut(t)
  PROVE  Settled'
<1> DEFINE p   == tab[t].link
           dn1 == [down EXCEPT ![p] = << >>]
<1>1. /\ p # 0 /\ tab' = [tab EXCEPT ![t].cut = TRUE]
      /\ \/ peers' = peers \ {p} /\ down' = [Broadcast(down, p, LeaveOf(p)) EXCEPT ![p] = << >>]
         \/ down' = dn1 /\ peers' = peers
      /\ unasked' = unasked \cup Forsaken(p)
      /\ next' = next /\ backlog' = backlog /\ blame' = blame
  BY DEF Cut, LeaveOf
<1>2. ~tab[t].cut
  BY DEF Cut
<1>3. tab[t] \in TabRecord(MadeIn(structs)) /\ p \in Ids /\ tab[t].cut = FALSE
  BY <1>1, <1>2, TabTyped DEF TabRecord
<1>4. t \in On(tab)
  BY <1>1, <1>3 DEF On
<1>5. tab'[t].link = p /\ tab'[t].cut = TRUE /\ \A u \in Tabs \ {t} : tab'[u] = tab[u]
  BY <1>1, <1>3 DEF Inv, Types, TabRecord
<1>6. Linked(tab', next')
  BY <1>1, <1>5 DEF Linked, Settled
<1>7. ASSUME ~Refused(blame), unasked' = {}
      PROVE  Conv(tab', down', peers', next, backlog)
  <2>1. Conv(tab, down, peers, next, backlog) /\ Forsaken(p) = {}
    BY <1>1, <1>7 DEF Settled, ConvInv, Heard
  <2>2. On(tab') = On(tab) \ {t}
    BY <1>5 DEF On
  <2>3. \A u \in On(tab) \ {t} : u \in Tabs /\ tab'[u] = tab[u]
    BY <1>5, OnTabs
  <2>4. Linked(tab, next)
    BY DEF Settled
  <2>5. \A u \in On(tab) \ {t} : dn1[tab[u].link] = down[tab[u].link] /\ tab[u].link # p
    <3> TAKE u \in On(tab) \ {t}
    <3>1. tab[t].link # 0
      BY <1>1
    <3>2. /\ tab[u].link # tab[t].link
          /\ \A q : [down EXCEPT ![tab[t].link] = q][tab[u].link] = down[tab[u].link]
      BY <2>4, <3>1, OwnLine
    <3> QED
      BY <3>2
  <2> HIDE DEF dn1
  <2>6. \A u \in On(tab') : tab'[u] = tab[u] /\ Line(tab', dn1, u) = Line(tab, down, u)
    BY <2>2, <2>3, <2>5 DEF Line
  <2>7. \A u \in Tabs : tab'[u].link = 0 => tab'[u].cut = FALSE
    BY <1>1, <1>5, <2>1 DEF Conv, RoomOK
  <2>8. Goes(tab, down, tab', dn1, t)
    BY <1>4, <2>1, <2>2, <2>6, <2>7, ForsakenGoes
  <2>9. Conv(tab', dn1, peers, next, backlog)
    BY <2>1, <2>8, GoesConv
  <2>10. CASE down' = dn1 /\ peers' = peers
    BY <2>9, <2>10
  <2>11. CASE peers' = peers \ {p} /\ down' = [Broadcast(down, p, LeaveOf(p)) EXCEPT ![p] = << >>]
    <3>1. PICK F : Wired(tab, down, F) /\ LeaveOf(p) \in F
      BY DownWired
    <3>2. RoomOK(tab, down, peers, next) /\ down \in [Ids -> Seq(F)]
      BY <2>1, <3>1 DEF Conv, Wired
    <3>3. /\ Broadcast(down, p, LeaveOf(p)) \in [Ids -> Seq(F)]
          /\ \A u \in On(tab) : tab[u].link # p =>
                Broadcast(down, p, LeaveOf(p))[tab[u].link] = Append(down[tab[u].link], LeaveOf(p))
      <4> DEFINE m == LeaveOf(p)
      <4> HIDE DEF m, p
      <4>1. m \in F
        BY <3>1 DEF m
      <4>2. /\ Broadcast(down, p, m) \in [Ids -> Seq(F)]
            /\ \A u \in On(tab) : tab[u].link # p =>
                  Broadcast(down, p, m)[tab[u].link] = Append(down[tab[u].link], m)
        BY <3>2, <4>1, BroadcastLine
      <4> QED
        BY <4>2 DEF m
    <3>4. \A u \in On(tab') : /\ tab'[u].link \in Ids /\ tab'[u].link # p
                              /\ down'[tab'[u].link] = Append(dn1[tab'[u].link], LeaveOf(p))
      <4> SUFFICES ASSUME NEW u \in On(tab')
                   PROVE  /\ tab'[u].link \in Ids /\ tab'[u].link # p
                          /\ down'[tab'[u].link] = Append(dn1[tab'[u].link], LeaveOf(p))
        OBVIOUS
      <4>1. u \in On(tab) \ {t} /\ tab'[u] = tab[u]
        BY <2>2, <2>3
      <4>2. tab[u].link \in Ids /\ tab[u].link # p /\ dn1[tab[u].link] = down[tab[u].link]
        BY <2>5, <3>1, <4>1, LineType
      <4>3. down'[tab[u].link] = Broadcast(down, p, LeaveOf(p))[tab[u].link]
        BY <2>11, <3>3, <4>2
      <4> QED
        BY <3>3, <4>1, <4>2, <4>3
    <3>5. Wired(tab', dn1, F)
      <4>1. dn1 \in [Ids -> Seq(F)]
        <5>1. << >> \in Seq(F)
          OBVIOUS
        <5> QED
          BY <3>2, <5>1 DEF dn1
      <4>2. \A u \in Tabs : tab'[u].link \in Ids \cup {0}
        BY <1>5, <3>1 DEF Wired
      <4> QED
        BY <4>1, <4>2 DEF Wired
    <3>6. LeaveOf(p).k \in {"join", "leave"}
      BY DEF LeaveOf
    <3>7. Noted(tab', dn1, tab', down', LeaveOf(p), F)
      BY <3>1, <3>4, <3>5, <3>6 DEF Noted, Line
    <3>8. p \in peers
      BY <1>4, <3>2 DEF RoomOK, LineOK
    <3>9. next \in Nat /\ \A u \in On(tab') : tab'[u].link # p
      BY <3>4, NextType
    <3> HIDE DEF p
    <3>10. Conv(tab', down', peers \ {p}, next, backlog)
      BY <2>9, <3>7, <3>8, <3>9, LeaveConv
    <3> QED
      BY <2>11, <3>10
  <2> QED
    BY <1>1, <2>10, <2>11 DEF dn1
<1> QED
  BY <1>1, <1>6, <1>7 DEF Settled, ConvInv, Heard

LEMMA CloseConv ==
  ASSUME Inv, Settled, NEW t \in Tabs, Close(t)
  PROVE  Settled'
<1> DEFINE p == tab[t].link
<1>1. /\ tab' = [tab EXCEPT ![t] = [@ EXCEPT !.closed = TRUE, !.link = 0, !.cut = FALSE]]
      /\ down' = IF tab[t].link = 0 THEN down ELSE [down EXCEPT ![tab[t].link] = << >>]
      /\ unasked' = unasked \cup Forsaken(p)
      /\ peers' = peers /\ next' = next /\ backlog' = backlog /\ blame' = blame
  BY DEF Close, hub
<1>2. tab[t] \in TabRecord(MadeIn(structs))
  BY TabTyped
<1>3. tab'[t].link = 0 /\ tab'[t].cut = FALSE /\ \A u \in Tabs \ {t} : tab'[u] = tab[u]
  BY <1>1, <1>2 DEF Inv, Types, TabRecord
<1>4. Linked(tab', next')
  BY <1>1, <1>3, NextType DEF Linked, Settled
<1>5. ASSUME ~Refused(blame), unasked' = {}
      PROVE  Conv(tab', down', peers, next, backlog)
  <2>1. Conv(tab, down, peers, next, backlog) /\ Forsaken(p) = {} /\ Linked(tab, next)
    BY <1>1, <1>5 DEF Settled, ConvInv, Heard
  <2>2. On(tab') = On(tab) \ {t}
    BY <1>3 DEF On
  <2>3. \A u \in On(tab) \ {t} : u \in Tabs /\ tab'[u] = tab[u]
    BY <1>3, OnTabs
  <2>4. \A u \in On(tab) \ {t} : down'[tab[u].link] = down[tab[u].link]
    <3> TAKE u \in On(tab) \ {t}
    <3>1. CASE tab[t].link = 0
      BY <1>1, <3>1
    <3>2. CASE tab[t].link # 0
      <4>1. \A q : [down EXCEPT ![tab[t].link] = q][tab[u].link] = down[tab[u].link]
        BY <2>1, <3>2, OwnLine
      <4>2. down' = [down EXCEPT ![tab[t].link] = << >>]
        BY <1>1, <3>2
      <4> QED
        BY <4>1, <4>2
    <3> QED
      BY <3>1, <3>2
  <2>5. \A u \in On(tab') : tab'[u] = tab[u] /\ Line(tab', down', u) = Line(tab, down, u)
    BY <2>2, <2>3, <2>4 DEF Line
  <2>6. \A u \in Tabs : tab'[u].link = 0 => tab'[u].cut = FALSE
    BY <1>3, <2>1 DEF Conv, RoomOK
  <2>7. CASE t \in On(tab)
    <3>1. Goes(tab, down, tab', down', t)
      BY <2>1, <2>2, <2>5, <2>6, <2>7, ForsakenGoes
    <3> QED
      BY <2>1, <3>1, GoesConv
  <2>8. CASE t \notin On(tab)
    <3>1. On(tab') = On(tab)
      BY <2>2, <2>8
    <3>2. Alike(tab, down, tab', down')
      BY <2>5, <2>6, <3>1 DEF Alike, SameLine
    <3>3. \A i \in 1 .. Len(backlog) : <<"got", backlog[i]>> \in Things
      BY BacklogThings DEF Inv, Types
    <3> QED
      BY <2>1, <3>2, <3>3, AlikeConv
  <2> QED
    BY <2>7, <2>8
<1> QED
  BY <1>1, <1>4, <1>5 DEF Settled, ConvInv, Heard

\* Every peer a tab knows of, or will when it is welcomed, has an id.
LEMMA BaseIds ==
  ASSUME Inv, NEW u \in On(tab)
  PROVE  Base(tab[u], Line(tab, down, u)) \subseteq Ids
<1> DEFINE q == Line(tab, down, u)
<1>1. u \in Tabs /\ tab[u].link # 0
  BY DEF On
<1>2. tab[u].link \in Ids /\ tab[u].peers \subseteq Ids
  BY <1>1, TabTyped DEF TabRecord
<1>3. q \in Seq(Frame(MadeIn(structs)))
  BY <1>2 DEF Line, Inv, Types
<1> HIDE DEF q
<1>4. ASSUME Greeting(q)
      PROVE  q[1].peers \subseteq Ids
  <2>1. q # << >> /\ q[1].k = "welcome"
    BY <1>4 DEF Greeting
  <2>2. q[1] \in Frame(MadeIn(structs))
    BY <1>3, <2>1, TailFrames
  <2> QED
    BY <2>1, <2>2, FrameKinds
<1>5. Base(tab[u], q) \subseteq Ids
  BY <1>2, <1>4 DEF Base
<1> QED
  BY <1>5 DEF q

LEMMA ConnectConv ==
  ASSUME Inv, Settled, NEW t \in Tabs, Connect(t)
  PROVE  Settled'
<1> DEFINE m == JoinOf(next)
           b == Broadcast(down, next, m)
           w == <<WelcomeOf(next, peers, backlog)>>
<1>1. /\ tab[t].link = 0 /\ next \in Ids /\ tab' = [tab EXCEPT ![t].link = next]
      /\ peers' = peers \cup {next} /\ next' = next + 1 /\ down' = [b EXCEPT ![next] = w]
      /\ backlog' = backlog /\ blame' = blame
  BY DEF Connect, WelcomeOf, JoinOf
<1>2. unasked' = IF (\E p \in peers : Live(p)) /\ ~(\E p \in peers : Lowest(p) /\ Live(p))
                 THEN unasked \cup {next} ELSE unasked
  BY DEF Connect
<1>3. tab[t] \in TabRecord(MadeIn(structs)) /\ next \in Nat /\ next >= 1
  BY TabTyped, NextType
<1>4. tab'[t].link = next /\ tab'[t].cut = tab[t].cut /\ \A u \in Tabs \ {t} : tab'[u] = tab[u]
  BY <1>1, <1>3 DEF Inv, Types, TabRecord
<1>5. Linked(tab', next')
  BY <1>1, <1>3, <1>4 DEF Linked, Settled
<1>6. ASSUME ~Refused(blame), unasked' = {}
      PROVE  Conv(tab', down', peers', next', backlog)
  <2>1. unasked = {} /\ ((\E p \in peers : Live(p)) => \E p \in peers : Lowest(p) /\ Live(p))
    BY <1>2, <1>6
  <2>2. Conv(tab, down, peers, next, backlog) /\ RoomOK(tab, down, peers, next) /\ Linked(tab, next)
    BY <1>6, <2>1 DEF Settled, ConvInv, Heard, Conv
  <2>3. t \notin On(tab) /\ On(tab') = On(tab) \cup {t}
    BY <1>1, <1>3, <1>4, <2>2 DEF On, RoomOK
  <2>4. \A u \in On(tab) : u # t /\ u \in Tabs /\ tab'[u] = tab[u] /\ tab[u].link # next
    BY <1>3, <1>4, <2>2, <2>3, OnTabs DEF Linked
  <2>5. PICK F : Wired(tab, down, F) /\ m \in F
    BY DownWired
  <2>6. down \in [Ids -> Seq(F)]
    BY <2>5 DEF Wired
  <2>7. m.k \in {"join", "leave"}
    BY DEF JoinOf
  <2> HIDE DEF m, w
  <2>8. /\ b \in [Ids -> Seq(F)]
        /\ \A u \in On(tab) : tab[u].link # next => b[tab[u].link] = Append(down[tab[u].link], m)
    BY <2>2, <2>5, <2>6, BroadcastLine
  <2> HIDE DEF b
  <2>9. down'[next] = w /\ \A p \in Ids : p # next => down'[p] = b[p]
    BY <1>1, <2>8
  <2>10. \A u \in On(tab) : Line(tab', down', u) = Append(Line(tab, down, u), m)
    <3> TAKE u \in On(tab)
    <3>1. tab[u].link \in Ids
      BY <2>5, LineType
    <3> QED
      BY <2>4, <2>8, <2>9, <3>1 DEF Line
  <2>11. Noted(tab, down, tab', down', m, F)
    BY <2>3, <2>4, <2>5, <2>7, <2>10 DEF Noted
  <2>12. Line(tab', down', t) = w
    BY <1>4, <2>9 DEF Line
  <2>13. backlog \in Seq(Tabs \X Nat)
    BY BacklogThings DEF Inv, Types
  <2>14. \A u \in Tabs : tab'[u].link = 0 => tab'[u].cut = FALSE
    BY <1>3, <1>4, <2>2 DEF RoomOK
  <2>15. \A u \in On(tab) : Base(tab[u], Line(tab, down, u)) \subseteq Ids
    BY BaseIds
  <2>16. ASSUME On(tab) # {}
         PROVE  \E l \in On(tab) : \A r \in peers : tab[l].link <= r
    <3>1. PICK u \in On(tab) : TRUE
      BY <2>16
    <3>2. tab[u].link \in peers /\ u \in Tabs /\ tab[u].cut = FALSE
      BY <2>2, <3>1 DEF RoomOK, LineOK, On
    <3>3. Live(tab[u].link)
      BY <3>2 DEF Live
    <3>4. PICK p \in peers : Lowest(p) /\ Live(p)
      BY <2>1, <3>2, <3>3
    <3>5. PICK l \in Tabs : tab[l].link = p /\ ~tab[l].cut
      BY <3>4 DEF Live
    <3>6. p # 0 /\ tab[l].cut = FALSE
      BY <3>5, TabTyped, IdsType DEF TabRecord, Inv, Types
    <3>7. l \in On(tab)
      BY <3>5, <3>6 DEF On
    <3> QED
      BY <3>4, <3>5, <3>7 DEF Lowest
  <2>17. Enters(tab, down, tab', down', t, peers, next, backlog, F)
    BY <1>3, <1>4, <2>3, <2>11, <2>12, <2>13, <2>14, <2>15, <2>16 DEF Enters, m, w
  <2>18. Conv(tab', down', peers \cup {next}, next + 1, backlog)
    BY <2>2, <2>17, EntersConv
  <2> QED
    BY <1>1, <2>18
<1> QED
  BY <1>1, <1>5, <1>6 DEF Settled, ConvInv, Heard

----------------------------------------------------------------------------
(* A tab takes a frame                                                       *)

\* Frame m, if any, is all that tab d has to say to the first frame of q.
Says(d, e, q, m) ==
    /\ m = NoFrame \/ m.k \in {"s1", "s2"}
    /\ \A x \in Things : Brings(m, x) => Has(d, x)
    /\ \A x \in Things : Asks(q[1], x) /\ Has(d, x) => Brings(m, x)
    /\ WillAsk(q) =>
          m.k = "s1" /\ \A x \in Things : Has(e, x) \/ Asks(m, x)
    /\ q[1].k = "join" /\ LowAt(d, q, 1) =>
          m.k = "s1" /\ \A x \in Things : x[1] = "dead" \/ ~Has(d, x) => Asks(m, x)

Replies(d, s, q) == Turns(d, s.d, q) /\ Says(d, s.d, q, s.out)

LEMMA SaysSaid ==
  ASSUME NEW F, NEW p \in Seq(F), NEW m \in F, NEW d, NEW e, NEW q, NEW f, Says(d, e, q, m), m # NoFrame
  PROVE  Said(d, e, q, f, Append(p, m))
<1> DEFINE p2 == Append(p, m)
<1>1. /\ Len(p) \in Nat /\ Len(p2) = Len(p) + 1 /\ p2[Len(p) + 1] = m
  BY AppendedFrames
<1>2. \A x : Gets(f, p2, x) <=> Gets(f, p, x) \/ Brings(m, x)
  BY ByAppend
<1>3. \A x : Asks(m, x) /\ Gets(f, p, x) => Answers(f, p2, x, Len(p2))
  BY AnswersAppend
<1> HIDE DEF p2
<1>4. m.k = "s1" => HasAsk(p2)
  BY <1>1 DEF HasAsk
<1>5. \A x : m.k = "s1" => ~Brings(m, x)
  BY DEF Brings
<1>6. \A x \in Things : Asks(q[1], x) /\ Has(d, x) => Gets(f, p2, x)
  BY <1>2 DEF Says
<1>7. ASSUME WillAsk(q)
      PROVE  /\ HasAsk(p2)
             /\ \A x \in Things : Gets(f, p2, x) => Has(e, x) \/ Answers(f, p2, x, Len(p2))
  BY <1>2, <1>3, <1>4, <1>5, <1>7 DEF Says
<1>8. ASSUME q[1] = JoinOf(f.link), LowAt(d, q, 1)
      PROVE  /\ HasAsk(p2)
             /\ \A x \in Things : Gets(f, p2, x) /\ (x[1] = "dead" \/ ~Has(d, x)) => Answers(f, p2, x, Len(p2))
  <2>1. q[1].k = "join"
    BY <1>8 DEF JoinOf
  <2>2. m.k = "s1" /\ \A x \in Things : x[1] = "dead" \/ ~Has(d, x) => Asks(m, x)
    BY <1>8, <2>1 DEF Says
  <2> QED
    BY <1>2, <1>3, <1>4, <1>5, <2>2
<1>9. Said(d, e, q, f, p2)
  BY <1>6, <1>7, <1>8 DEF Said
<1> QED
  BY <1>9 DEF p2

LEMMA SaysNothing ==
  ASSUME NEW d, NEW e, NEW q, NEW f, NEW p, Says(d, e, q, NoFrame)
  PROVE  Said(d, e, q, f, p)
<1>1. \A x : ~Brings(NoFrame, x)
  BY NoFrameKind DEF Brings
<1>2. NoFrame.k # "s1"
  BY NoFrameKind
<1>3. q[1] = JoinOf(f.link) => q[1].k = "join"
  BY DEF JoinOf
<1> QED
  BY <1>1, <1>2, <1>3 DEF Says, Said

\* What is left of the tab when the handler is over says the same.
LEMMA TurnsSame ==
  ASSUME NEW d, NEW e, NEW q, NEW e2, Turns(d, e, q), SameLine(e, e2),
         \A x \in Things : Has(e2, x) <=> Has(e, x)
  PROVE  Turns(d, e2, q)
<1>1. Knows(d, e2, q[1])
  <2>1. Knows(d, e, q[1]) /\ e2.me = e.me /\ e2.peers = e.peers
    BY DEF Turns, SameLine
  <2> QED
    BY <2>1 DEF Knows
<1> QED
  BY <1>1 DEF Turns, SameLine

LEMMA SaysSame ==
  ASSUME NEW d, NEW e, NEW q, NEW m, NEW e2, Says(d, e, q, m),
         \A x \in Things : Has(e2, x) <=> Has(e, x)
  PROVE  Says(d, e2, q, m)
  BY DEF Says

\* The stream of tab t without its first frame.
Popped(dn, p) == dn = [down EXCEPT ![p] = Tail(@)]

LEMMA PoppedLine ==
  ASSUME Inv, Linked(tab, next), NEW t \in On(tab), NEW F, Wired(tab, down, F),
         down[tab[t].link] # << >>,
         NEW dn, Popped(dn, tab[t].link)
  PROVE  /\ dn \in [Ids -> Seq(F)] /\ dn[tab[t].link] = Tail(down[tab[t].link])
         /\ \A u \in On(tab) \ {t} : dn[tab[u].link] = down[tab[u].link] /\ tab[u].link # tab[t].link
<1> DEFINE p == tab[t].link
<1>1. t \in Tabs /\ p # 0 /\ p \in Ids /\ down \in [Ids -> Seq(F)]
  BY LineType DEF Wired
<1>2. Tail(down[p]) \in Seq(F)
  BY <1>1, TailFrames
<1>3. dn = [down EXCEPT ![p] = Tail(down[p])]
  BY <1>1 DEF Popped
<1>4. \A u \in On(tab) \ {t} : dn[tab[u].link] = down[tab[u].link] /\ tab[u].link # p
  <2> TAKE u \in On(tab) \ {t}
  <2>1. /\ tab[u].link # tab[t].link
        /\ \A q : [down EXCEPT ![tab[t].link] = q][tab[u].link] = down[tab[u].link]
    BY <1>1, OwnLine
  <2> QED
    BY <1>3, <2>1
<1> QED
  BY <1>1, <1>2, <1>3, <1>4

\* A connected tab takes a frame and answers it at most.
LEMMA RepliesConv ==
  ASSUME Inv, Conv(tab, down, peers, next, backlog), Linked(tab, next), NEW t \in On(tab),
         down[tab[t].link] # << >>,
         NEW s, Formed(s), Replies(tab[t], s, down[tab[t].link]),
         NEW dn, Popped(dn, tab[t].link), Does(t, s, dn)
  PROVE  Conv(tab', down', peers', next', backlog')
<1> DEFINE p == tab[t].link
           m == s.out
<1>1. PICK F : Wired(tab, down, F) /\ m \in F
  BY DownWired
<1>2. t \in Tabs /\ p \in Ids /\ tab[t].cut = FALSE /\ RoomOK(tab, down, peers, next)
  BY <1>1, LineType DEF On, Conv
<1>3. /\ dn \in [Ids -> Seq(F)] /\ dn[p] = Tail(down[p])
      /\ \A u \in On(tab) \ {t} : dn[tab[u].link] = down[tab[u].link] /\ tab[u].link # p
  BY <1>1, PoppedLine
<1>4. /\ SameLine(s.d, tab'[t]) /\ \A x \in Things : Has(tab'[t], x) <=> Has(s.d, x)
      /\ \A u \in Tabs \ {t} : tab'[u] = tab[u]
      /\ peers' = peers /\ next' = next /\ Relay(s, dn)
  BY <1>2, DoesTab
<1>5. Turns(tab[t], tab'[t], down[p]) /\ Says(tab[t], tab'[t], down[p], m)
  BY <1>4, TurnsSame, SaysSame DEF Replies
<1>6. tab'[t].link = p /\ s.d.link = p /\ s.d.cut = FALSE
  BY <1>2, <1>4, <1>5 DEF Turns, SameLine
<1>7. \A u \in On(tab) \ {t} : u \in Tabs /\ tab'[u] = tab[u]
  BY <1>4, OnTabs
<1>8. \A u \in Tabs : tab'[u].link \in Ids \cup {0}
  BY <1>1, <1>2, <1>4, <1>6 DEF Wired
<1>9. \A i \in 1 .. Len(backlog) : <<"got", backlog[i]>> \in Things
  BY BacklogThings DEF Inv, Types
<1>10. CASE m = NoFrame
  <2>1. down' = dn /\ backlog' = backlog
    BY <1>4, <1>10, NoFrameKind DEF Relay
  <2>2. \A u \in On(tab) \ {t} : Said(tab[t], tab'[t], down[p], tab[u], Line(tab, down, u))
    BY <1>5, <1>10, SaysNothing
  <2>3. \A u \in On(tab) \ {t} : Line(tab', down', u) = Line(tab, down, u)
    BY <1>3, <1>7, <2>1 DEF Line
  <2>4. Line(tab, down, t) = down[p] /\ Line(tab', down', t) = Tail(down[p])
    BY <1>3, <1>6, <2>1 DEF Line
  <2>5. Wired(tab', down', F)
    BY <1>3, <1>8, <2>1 DEF Wired
  <2>6. Takes(tab, down, tab', down', t, F)
    BY <1>1, <1>4, <1>5, <2>2, <2>3, <2>4, <2>5 DEF Takes
  <2>7. Conv(tab', down', peers, next, backlog)
    BY <1>9, <2>6, TakesConv
  <2> QED
    BY <1>4, <2>1, <2>7
<1>11. CASE m # NoFrame
  <2> DEFINE b == Broadcast(down, p, m)
  <2>1. m.k \in {"s1", "s2"}
    BY <1>5, <1>11 DEF Says
  <2>2. down' = Broadcast(dn, p, m) /\ backlog' = backlog
    BY <1>4, <1>6, <1>11, <2>1 DEF Relay
  <2>3. \A x \in Things : Brings(m, x) => Has(tab[t], x)
    BY <1>5 DEF Says
  <2> HIDE DEF m
  <2>4. down \in [Ids -> Seq(F)]
    BY <1>1 DEF Wired
  <2>5. /\ b \in [Ids -> Seq(F)] /\ b[p] = down[p]
        /\ \A u \in On(tab) : tab[u].link # p => b[tab[u].link] = Append(down[tab[u].link], m)
    BY <1>1, <1>2, <2>4, BroadcastLine
  <2>6. /\ down' \in [Ids -> Seq(F)] /\ down'[p] = dn[p]
        /\ \A u \in On(tab) : tab[u].link # p => down'[tab[u].link] = Append(dn[tab[u].link], m)
    <3> DEFINE c == Broadcast(dn, p, m)
    <3>1. /\ c \in [Ids -> Seq(F)] /\ c[p] = dn[p]
          /\ \A u \in On(tab) : tab[u].link # p => c[tab[u].link] = Append(dn[tab[u].link], m)
      BY <1>1, <1>2, <1>3, BroadcastLine
    <3> HIDE DEF c
    <3>2. down' = c
      BY <2>2 DEF c
    <3> QED
      BY <3>1, <3>2
  <2> HIDE DEF b
  <2>7. Wired(tab, b, F)
    BY <1>1, <2>5 DEF Wired
  <2>8. \A u \in On(tab) \ {t} : Line(tab, b, u) = Append(Line(tab, down, u), m)
    BY <1>3, <2>5 DEF Line
  <2>9. Line(tab, b, t) = Line(tab, down, t) /\ Line(tab, down, t) = down[p]
    BY <2>5 DEF Line
  <2>10. Speaks(tab, down, tab, b, t, m, F)
    BY <1>1, <2>1, <2>3, <2>7, <2>8, <2>9 DEF Speaks, SameLine
  <2>11. Pushed(backlog, backlog, m)
    BY <1>9 DEF Pushed
  <2>12. Conv(tab, b, peers, next, backlog)
    BY <2>10, <2>11, SpeaksConv
  <2>13. \A u \in On(tab) \ {t} : Said(tab[t], tab'[t], down[p], tab[u], Line(tab, b, u))
    <3> TAKE u \in On(tab) \ {t}
    <3>1. Line(tab, down, u) \in Seq(F)
      BY <1>1, LineType
    <3>2. Said(tab[t], tab'[t], down[p], tab[u], Append(Line(tab, down, u), m))
      BY <1>1, <1>5, <1>11, <3>1, SaysSaid
    <3> QED
      BY <2>8, <3>2
  <2>14. \A u \in On(tab) \ {t} : Line(tab', down', u) = Line(tab, b, u)
    <3> TAKE u \in On(tab) \ {t}
    <3>1. tab'[u].link = tab[u].link /\ tab[u].link # p /\ dn[tab[u].link] = down[tab[u].link]
      BY <1>3, <1>7
    <3>2. down'[tab[u].link] = Append(dn[tab[u].link], m)
      BY <2>6, <3>1
    <3> QED
      BY <2>8, <3>1, <3>2 DEF Line
  <2>15. Line(tab', down', t) = Tail(down[p])
    BY <1>3, <1>6, <2>6 DEF Line
  <2>16. Wired(tab', down', F)
    BY <1>8, <2>6 DEF Wired
  <2>17. Takes(tab, b, tab', down', t, F)
    BY <1>4, <1>5, <2>7, <2>9, <2>13, <2>14, <2>15, <2>16 DEF Takes
  <2>18. Conv(tab', down', peers, next, backlog)
    BY <1>9, <2>12, <2>17, TakesConv
  <2> QED
    BY <1>4, <2>2, <2>18
<1> QED
  BY <1>10, <1>11

\* A connected tab takes a frame, and then goes on as it would at any time.
LEMMA TurnsConv ==
  ASSUME Inv, Inv', Conv(tab, down, peers, next, backlog), Linked(tab, next), NEW t \in On(tab),
         down[tab[t].link] # << >>,
         NEW d2, Turns(tab[t], d2, down[tab[t].link]), Says(tab[t], d2, down[tab[t].link], NoFrame),
         NEW s, Utters(d2, s), NEW dn, Popped(dn, tab[t].link), Does(t, s, dn),
         ~Refused(blame')
  PROVE  Conv(tab', down', peers', next', backlog')
<1> DEFINE p == tab[t].link
           m == s.out
           tb == [tab EXCEPT ![t] = d2]
<1>1. PICK F : Wired(tab, down, F) /\ m \in F
  BY DownWired
<1>2. t \in Tabs /\ p \in Ids /\ p # 0 /\ tab[t].cut = FALSE /\ RoomOK(tab, down, peers, next)
  BY <1>1, LineType DEF On, Conv
<1>3. /\ dn \in [Ids -> Seq(F)] /\ dn[p] = Tail(down[p])
      /\ \A u \in On(tab) \ {t} : dn[tab[u].link] = down[tab[u].link] /\ tab[u].link # p
  BY <1>1, PoppedLine
<1>4. tb[t] = d2 /\ \A u \in Tabs \ {t} : tb[u] = tab[u]
  BY <1>2 DEF Inv, Types
<1> HIDE DEF tb
<1>5. d2.link = p /\ d2.cut = FALSE
  <2>1. d2.link = tab[t].link /\ d2.cut = tab[t].cut
    BY DEF Turns
  <2> QED
    BY <1>2, <2>1
<1>6. Takes(tab, down, tb, dn, t, F)
  <2>1. \A u \in Tabs : tb[u].link \in Ids \cup {0}
    BY <1>1, <1>2, <1>4, <1>5 DEF Wired
  <2>2. Wired(tb, dn, F)
    BY <1>3, <2>1 DEF Wired
  <2>3. \A u \in On(tab) \ {t} : Said(tab[t], d2, down[p], tab[u], Line(tab, down, u))
    BY SaysNothing
  <2>4. \A u \in On(tab) \ {t} : u \in Tabs /\ tb[u] = tab[u]
    BY <1>4, OnTabs
  <2>5. \A u \in On(tab) \ {t} : Line(tb, dn, u) = Line(tab, down, u)
    BY <1>3, <2>4 DEF Line
  <2>6. Line(tab, down, t) = down[p] /\ Line(tb, dn, t) = Tail(down[p])
    BY <1>3, <1>4, <1>5 DEF Line
  <2> QED
    BY <1>1, <1>4, <2>2, <2>3, <2>5, <2>6 DEF Takes
<1>7. \A i \in 1 .. Len(backlog) : <<"got", backlog[i]>> \in Things
  BY BacklogThings DEF Inv, Types
<1>8. Conv(tb, dn, peers, next, backlog) /\ On(tb) = On(tab)
  <2>1. Conv(tb, dn, peers, next, backlog)
    BY <1>6, <1>7, TakesConv
  <2>2. On(tb) = On(tab)
    BY <1>6, TakesOn
  <2> QED
    BY <2>1, <2>2
<1>9. Formed(s) /\ SameLine(d2, s.d)
  BY DEF Utters
<1>10. /\ SameLine(s.d, tab'[t]) /\ \A x \in Things : Has(tab'[t], x) <=> Has(s.d, x)
       /\ \A u \in Tabs \ {t} : tab'[u] = tab[u]
       /\ peers' = peers /\ next' = next /\ Relay(s, dn)
  BY <1>2, <1>9, DoesTab
<1>11. /\ SameLine(d2, tab'[t]) /\ tab'[t].link = p /\ s.d.link = p /\ s.d.cut = FALSE
       /\ \A u \in Tabs \ {t} : tab'[u] = tb[u]
  BY <1>4, <1>5, <1>9, <1>10 DEF SameLine
<1>12. \A u \in On(tab) \ {t} : u \in Tabs /\ tab'[u] = tb[u] /\ tb[u] = tab[u]
  BY <1>4, <1>11, OnTabs
<1>13. CASE m = NoFrame
  <2>1. down' = dn /\ backlog' = backlog
    BY <1>10, <1>13, NoFrameKind DEF Relay
  <2>2. \A x \in Things : Has(tab'[t], x) <=> Has(d2, x)
    <3>1. s.out.k = "none"
      BY <1>13, NoFrameKind
    <3>2. \A x \in Things : Has(s.d, x) <=> Has(d2, x)
      <4>1. s.out.k \notin {"s1", "op", "saved"}
        BY <3>1
      <4> QED
        BY <1>2, <1>5, <4>1 DEF Utters
    <3> QED
      BY <1>10, <3>2
  <2>3. On(tab') = On(tb)
    <3>1. tab'[t].link = tb[t].link /\ tab'[t].cut = tb[t].cut
      BY <1>4, <1>11 DEF SameLine
    <3>2. \A u \in Tabs : tab'[u].link = tb[u].link /\ tab'[u].cut = tb[u].cut
      BY <1>11, <3>1
    <3> QED
      BY <3>2 DEF On
  <2>4. ASSUME NEW u \in On(tb)
        PROVE  /\ SameLine(tb[u], tab'[u]) /\ Line(tab', down', u) = Line(tb, dn, u)
               /\ \A x \in Things : Has(tab'[u], x) <=> Has(tb[u], x)
    <3>1. CASE u = t
      BY <1>4, <1>5, <1>11, <2>1, <2>2, <3>1 DEF Line
    <3>2. CASE u # t
      BY <1>8, <1>12, <2>1, <3>2 DEF Line, SameLine
    <3> QED
      BY <3>1, <3>2
  <2>5. \A u \in Tabs : tab'[u].link = 0 => tab'[u].cut = FALSE
    BY <1>2, <1>10, <1>11 DEF RoomOK
  <2>6. Alike(tb, dn, tab', down')
    BY <2>3, <2>4, <2>5 DEF Alike
  <2>7. Conv(tab', down', peers, next, backlog)
    BY <1>7, <1>8, <2>6, AlikeConv
  <2> QED
    BY <1>10, <2>1, <2>7
<1>14. CASE m # NoFrame
  <2>1. /\ m.k \in {"s1", "op", "saved"}
        /\ \A x \in Things : Has(s.d, x) <=> Has(d2, x) \/ Brings(m, x)
    BY <1>14 DEF Utters
  <2>2. /\ down' = Broadcast(dn, p, m)
        /\ backlog' = IF m.k = "op" THEN PushBacklog(m.s) ELSE backlog
    BY <1>10, <1>11, <1>14, RelayTakes
  <2> HIDE DEF m
  <2>3. /\ down' \in [Ids -> Seq(F)] /\ down'[p] = dn[p]
        /\ \A u \in On(tab) : tab[u].link # p => down'[tab[u].link] = Append(dn[tab[u].link], m)
    <3> DEFINE c == Broadcast(dn, p, m)
    <3>1. /\ c \in [Ids -> Seq(F)] /\ c[p] = dn[p]
          /\ \A u \in On(tab) : tab[u].link # p => c[tab[u].link] = Append(dn[tab[u].link], m)
      <4>1. m \in F /\ RoomOK(tab, down, peers, next) /\ dn \in [Ids -> Seq(F)] /\ p \in Ids
        BY <1>1, <1>2, <1>3 DEF m
      <4> HIDE DEF p
      <4>2. /\ Broadcast(dn, p, m) \in [Ids -> Seq(F)]
            /\ \A u \in On(tab) : tab[u].link # p =>
                  Broadcast(dn, p, m)[tab[u].link] = Append(dn[tab[u].link], m)
            /\ p \in Ids => Broadcast(dn, p, m)[p] = dn[p]
        BY <4>1, BroadcastLine
      <4> QED
        BY <4>1, <4>2
    <3> HIDE DEF c
    <3>2. down' = c
      BY <2>2 DEF c
    <3> QED
      BY <3>1, <3>2
  <2>4. \A x \in Things : Has(tab'[t], x) <=> Has(tb[t], x) \/ Brings(m, x)
    BY <1>4, <1>10, <2>1
  <2>5. Wired(tb, dn, F) /\ t \in On(tb)
    BY <1>6, <1>8 DEF Takes
  <2>6. Wired(tab', down', F)
    <3>1. \A u \in Tabs : tab'[u].link \in Ids \cup {0}
      BY <1>2, <1>11, <2>5 DEF Wired
    <3> QED
      BY <2>3, <3>1 DEF Wired
  <2>7. Line(tab', down', t) = Line(tb, dn, t)
    BY <1>4, <1>5, <1>11, <2>3 DEF Line
  <2>8. \A u \in On(tb) \ {t} : Line(tab', down', u) = Append(Line(tb, dn, u), m)
    <3> TAKE u \in On(tb) \ {t}
    <3>1. u \in On(tab) \ {t} /\ tab'[u] = tb[u] /\ tb[u] = tab[u] /\ tab[u].link # p
      BY <1>3, <1>8, <1>12
    <3>2. down'[tab[u].link] = Append(dn[tab[u].link], m)
      BY <2>3, <3>1
    <3> QED
      BY <3>1, <3>2 DEF Line
  <2>9. SameLine(tb[t], tab'[t])
    BY <1>4, <1>11
  <2>10. Speaks(tb, dn, tab', down', t, m, F)
    BY <1>1, <1>11, <2>1, <2>4, <2>5, <2>6, <2>7, <2>8, <2>9 DEF Speaks, m
  <2>11. Pushed(backlog, backlog', m)
    BY <2>2, PushedBacklog
  <2>12. Conv(tab', down', peers, next, backlog')
    BY <1>8, <2>10, <2>11, SpeaksConv
  <2> QED
    BY <1>10, <2>12
<1> QED
  BY <1>13, <1>14

LEMMA SoundFormed ==
  ASSUME NEW t, NEW s, Sound(s, t)
  PROVE  Formed(s) /\ s.d \in TabRecord(MadeIn(s.st))
<1>1. s.d \in TabRecord(MadeIn(s.st))
  BY DEF Sound, Typed
<1>2. s \in [d : {s.d}, st : {s.st}, out : {s.out}, used : {s.used}, blame : {s.blame}]
  <2> HIDE DEF TabRecord
  <2> QED
    BY DEF Sound, Typed
<1> QED
  BY <1>1, <1>2 DEF Formed

LEMMA SyncedFields ==
  ASSUME NEW t, NEW s, Sound(s, t), NEW new, NEW dead
  PROVE  LET r == Synced(s, new, dead)
         IN  /\ r.d.got = s.d.got \cup new /\ r.d.dead = s.d.dead \cup dead
             /\ SameLine(s.d, r.d) /\ r.out = s.out
<1> DEFINE d2 == [Apply(s.d, new, dead) EXCEPT !.synced = TRUE, !.retry = 0]
           b2 == IF TextOf(d2, s.st)[0] = 0 THEN s.blame \cup {"hollow"} ELSE s.blame
           s2 == [s EXCEPT !.d = d2, !.blame = b2]
<1>1. Synced(s, new, dead) = s2
  BY DEF Synced
<1>2. s.d \in TabRecord(MadeIn(s.st))
  BY SoundFormed
<1>3. /\ d2.got = s.d.got \cup new /\ d2.dead = s.d.dead \cup dead /\ SameLine(s.d, d2)
  BY <1>2 DEF TabRecord, Apply, SameLine
<1> HIDE DEF d2, b2
<1>4. s2.d = d2 /\ s2.out = s.out
  BY DEF Sound, Typed
<1> HIDE DEF s2
<1> QED
  BY <1>1, <1>3, <1>4

LEMMA DropSeedFields ==
  ASSUME NEW t, NEW s, Sound(s, t)
  PROVE  LET r == DropSeed(s)
         IN  /\ r.d.got = s.d.got /\ s.d.dead \subseteq r.d.dead
             /\ SameLine(s.d, r.d) /\ r.out = s.out
<1>1. CASE ~DropsSeed(s)
  BY <1>1 DEF DropSeed, SameLine
<1>2. CASE DropsSeed(s)
  <2> DEFINE d2 == [s.d EXCEPT !.dead = @ \cup Held(s.d), !.seeded = FALSE]
             b2 == s.blame \cup {"seed dropped"}
             s2 == [s EXCEPT !.d = d2, !.blame = b2]
  <2>1. DropSeed(s) = s2
    BY <1>2 DEF DropSeed, Sound, Typed
  <2>2. s.d \in TabRecord(MadeIn(s.st))
    BY SoundFormed
  <2>3. d2.got = s.d.got /\ s.d.dead \subseteq d2.dead /\ SameLine(s.d, d2)
    BY <2>2 DEF TabRecord, SameLine
  <2> HIDE DEF d2, b2
  <2>4. s2.d = d2 /\ s2.out = s.out
    BY DEF Sound, Typed
  <2> HIDE DEF s2
  <2> QED
    BY <2>1, <2>3, <2>4
<1> QED
  BY <1>1, <1>2

LEMMA SendFields ==
  ASSUME NEW t, NEW s, Sound(s, t), s.d.link # 0, NEW m
  PROVE  Send(s, m).d = s.d /\ Send(s, m).out = m
<1>1. Send(s, m) = [s EXCEPT !.out = m]
  BY DEF Send
<1> QED
  BY <1>1 DEF Sound, Typed

LEMMA WithFields ==
  ASSUME NEW t, NEW s, Sound(s, t), NEW d2
  PROVE  [s EXCEPT !.d = d2].d = d2 /\ [s EXCEPT !.d = d2].out = s.out
  BY DEF Sound, Typed

\* A frame to which the tab says nothing.
LEMMA SilentSays ==
  ASSUME NEW d, NEW e, NEW q, q[1].k # "s1", ~WillAsk(q), q[1].k = "join" => ~LowAt(d, q, 1)
  PROVE  Says(d, e, q, NoFrame)
<1>1. \A x : ~Brings(NoFrame, x)
  BY NoFrameKind DEF Brings
<1>2. \A x : ~Asks(q[1], x)
  BY DEF Asks
<1> QED
  BY <1>1, <1>2 DEF Says

\* A frame that brings nothing.
LEMMA TurnsNothing ==
  ASSUME NEW d, NEW e, NEW q, q # << >>, e.link = d.link, e.cut = d.cut, Knows(d, e, q[1]),
         e.got = d.got, e.dead = d.dead, q[1].k \notin {"op", "s2", "welcome"}
  PROVE  Turns(d, e, q)
<1>1. \A x : ~Brings(q[1], x)
  BY DEF Brings
<1>2. \A x : Has(e, x) <=> Has(d, x)
  BY DEF Has
<1> QED
  BY <1>1, <1>2 DEF Turns

LEMMA LeaveReplies ==
  ASSUME NEW t, NEW s, Sound(s, t), s.out = NoFrame, NEW q, q # << >>, q[1].k = "leave"
  PROVE  Replies(s.d, OnMessage(s, t, q[1]), q)
<1> DEFINE m  == q[1]
           d2 == [s.d EXCEPT !.peers = @ \ {m.p}]
           r  == [s EXCEPT !.d = d2]
<1>1. OnMessage(s, t, m) = r
  BY DEF OnMessage, Sound, Typed
<1>2. s.d \in TabRecord(MadeIn(s.st))
  BY SoundFormed
<1>3. /\ d2.link = s.d.link /\ d2.cut = s.d.cut /\ d2.me = s.d.me /\ d2.peers = s.d.peers \ {m.p}
      /\ d2.got = s.d.got /\ d2.dead = s.d.dead
  BY <1>2 DEF TabRecord
<1> HIDE DEF d2
<1>4. r.d = d2 /\ r.out = NoFrame
  BY WithFields
<1>5. Knows(s.d, d2, m)
  BY <1>3 DEF Knows
<1>6. Turns(s.d, d2, q)
  BY <1>3, <1>5, TurnsNothing
<1>7. Says(s.d, d2, q, NoFrame)
  BY SilentSays DEF WillAsk, Greeting
<1> HIDE DEF r
<1> QED
  BY <1>1, <1>4, <1>6, <1>7 DEF Replies

LEMMA SavedReplies ==
  ASSUME NEW t, NEW s, Sound(s, t), s.out = NoFrame, NEW q, q # << >>, q[1].k = "saved"
  PROVE  Replies(s.d, OnMessage(s, t, q[1]), q)
<1> DEFINE m  == q[1]
           d2 == [s.d EXCEPT !.baseline = TextOf(s.d, s.st)]
           r  == [s EXCEPT !.d = d2]
<1>1. OnMessage(s, t, m) = r
  BY DEF OnMessage, Sound, Typed
<1>2. s.d \in TabRecord(MadeIn(s.st))
  BY SoundFormed
<1>3. /\ d2.link = s.d.link /\ d2.cut = s.d.cut /\ d2.me = s.d.me /\ d2.peers = s.d.peers
      /\ d2.got = s.d.got /\ d2.dead = s.d.dead
  BY <1>2 DEF TabRecord
<1> HIDE DEF d2
<1>4. r.d = d2 /\ r.out = NoFrame
  BY WithFields
<1>5. Knows(s.d, d2, m)
  BY <1>3 DEF Knows
<1>6. Turns(s.d, d2, q)
  BY <1>3, <1>5, TurnsNothing
<1>7. Says(s.d, d2, q, NoFrame)
  BY SilentSays DEF WillAsk, Greeting
<1> HIDE DEF r
<1> QED
  BY <1>1, <1>4, <1>6, <1>7 DEF Replies

\* The tab is asked: its answer brings everything it was asked for and has.
LEMMA AskedReplies ==
  ASSUME NEW t, NEW s, Sound(s, t), s.d.link # 0, NEW q, q # << >>, q[1].k = "s1"
  PROVE  Replies(s.d, OnMessage(s, t, q[1]), q)
<1> DEFINE m == q[1]
           a == [k |-> "s2", new |-> Missing(s.d, m.sv), dead |-> s.d.dead]
           r == Send(s, a)
<1>1. OnMessage(s, t, m) = r
  BY DEF OnMessage
<1>2. a.k = "s2" /\ a.new = s.d.got \ m.sv /\ a.dead = s.d.dead
  BY DEF Missing
<1> HIDE DEF a
<1>3. r.d = s.d /\ r.out = a
  BY SendFields
<1>4. Knows(s.d, s.d, m)
  BY DEF Knows
<1>5. Turns(s.d, s.d, q)
  BY <1>4, TurnsNothing
<1>6. \A x \in Things : Brings(a, x) => Has(s.d, x)
  BY <1>2 DEF Brings, Has
<1>7. \A x \in Things : Asks(m, x) /\ Has(s.d, x) => Brings(a, x)
  <2> TAKE x \in Things
  <2>1. x[1] \in {"got", "dead"}
    BY DEF Things
  <2> QED
    BY <1>2, <2>1 DEF Brings, Has, Asks
<1>8. ~WillAsk(q) /\ q[1].k # "join"
  BY DEF WillAsk, Greeting
<1>9. Says(s.d, s.d, q, a)
  BY <1>2, <1>6, <1>7, <1>8 DEF Says
<1> HIDE DEF r
<1> QED
  BY <1>1, <1>3, <1>5, <1>9 DEF Replies

LEMMA BroughtReplies ==
  ASSUME NEW t, NEW s, Sound(s, t), s.out = NoFrame, NEW q, q # << >>, q[1].k \in {"op", "s2"}
  PROVE  Replies(s.d, OnMessage(s, t, q[1]), q)
<1> DEFINE m == q[1]
           N == IF m.k = "op" THEN {m.s} ELSE m.new
           D == IF m.k = "op" THEN {} ELSE m.dead
           r == Synced(s, N, D)
<1>1. OnMessage(s, t, m) = r
  BY DEF OnMessage
<1>2. \A x \in Things : Brings(m, x) <=> IF x[1] = "got" THEN x[2] \in N ELSE x[2] \in D
  BY DEF Brings
<1> HIDE DEF N, D
<1>3. r.d.got = s.d.got \cup N /\ r.d.dead = s.d.dead \cup D /\ SameLine(s.d, r.d) /\ r.out = NoFrame
  BY SyncedFields
<1> HIDE DEF r
<1>4. Knows(s.d, r.d, m)
  BY <1>3 DEF Knows, SameLine
<1>5. \A x \in Things : Has(r.d, x) <=> Has(s.d, x) \/ Brings(m, x)
  BY <1>2, <1>3 DEF Has
<1>6. Turns(s.d, r.d, q)
  BY <1>3, <1>4, <1>5 DEF Turns, SameLine
<1>7. Says(s.d, r.d, q, NoFrame)
  BY SilentSays DEF WillAsk, Greeting
<1> QED
  BY <1>1, <1>3, <1>6, <1>7 DEF Replies

LEMMA LeastIsMin ==
  ASSUME NEW S \in SUBSET Nat, NEW a \in S, \A b \in S : a <= b
  PROVE  Min(S) = a
<1>1. \E x \in S : \A y \in S : x <= y
  OBVIOUS
<1>2. Min(S) \in S /\ \A y \in S : Min(S) <= y
  BY <1>1 DEF Min
<1>3. Min(S) <= a /\ a <= Min(S) /\ a \in Nat /\ Min(S) \in Nat
  BY <1>2
<1> QED
  BY <1>3

\* The lowest peer asks the newcomer.
LEMMA JoinReplies ==
  ASSUME NEW t \in Tabs, NEW s, Sound(s, t), s.out = NoFrame, s.d.link \in Ids, NEW q, q # << >>,
         NEW m, m = q[1], m \in Frame(MadeIn(s.st)), m.k = "join", Len(q) \in Nat, Len(q) >= 1,
         NEW ps, NEW nx, LineOK(s.d, q, ps, nx)
  PROVE  Replies(s.d, OnMessage(s, t, m), q)
<1> DEFINE d2 == [s.d EXCEPT !.peers = @ \cup {m.p}]
           s2 == [s EXCEPT !.d = d2]
           r  == OnMessage(s, t, m)
           a  == [k |-> "s1", sv |-> Held(d2)]
<1>1. s.d \in TabRecord(MadeIn(s.st)) /\ m.p \in Ids
  BY SoundFormed, FrameKinds
<1>2. /\ d2 \in TabRecord(MadeIn(s.st)) /\ Minor(s.d, d2)
      /\ d2.link = s.d.link /\ d2.cut = s.d.cut /\ d2.me = s.d.me /\ d2.peers = s.d.peers \cup {m.p}
      /\ d2.got = s.d.got /\ d2.dead = s.d.dead
  BY <1>1 DEF TabRecord, Minor
<1>3. s2 = [s EXCEPT !.d.peers = @ \cup {m.p}]
  BY DEF Sound, Typed
<1> HIDE DEF d2
<1>4. s2.d = d2 /\ s2.out = NoFrame /\ Sound(s2, t)
  <2>1. s2.d = d2 /\ s2.out = NoFrame
    BY WithFields
  <2>2. Sound(s2, t)
    BY <1>2, MinorKeeps
  <2> QED
    BY <2>1, <2>2
<1>5. r = IF s2.d.me = Min(s2.d.peers) THEN SyncRequest(s2) ELSE s2
  <2>1. r = OnJoin(s, m)
    BY DEF OnMessage
  <2> HIDE DEF r, s2
  <2> QED
    BY <1>3, <2>1 DEF OnJoin
<1> HIDE DEF s2, r
<1>6. r = IF d2.me = Min(d2.peers) THEN Send(s2, a) ELSE s2
  BY <1>4, <1>5 DEF SyncRequest
<1> HIDE DEF a
<1>7. s2.d.link # 0
  BY <1>2, <1>4, IdsType
<1>8. Send(s2, a).d = d2 /\ Send(s2, a).out = a
  BY <1>4, <1>7, SendFields
<1>9. r.d = d2 /\ r.out = IF d2.me = Min(d2.peers) THEN a ELSE NoFrame
  BY <1>4, <1>6, <1>8
<1>10. Knows(s.d, d2, m)
  BY <1>2 DEF Knows
<1>11. Turns(s.d, d2, q)
  BY <1>2, <1>10, TurnsNothing
<1>12. ~WillAsk(q) /\ ~Greeting(q) /\ q[1].k # "s1"
  BY DEF WillAsk, Greeting
<1>13. ASSUME LowAt(s.d, q, 1)
       PROVE  d2.me = Min(d2.peers)
  <2>1. s.d.me = s.d.link /\ s.d.link \in s.d.peers
    BY <1>12 DEF LineOK, Base
  <2>2. m.p \in Nat /\ s.d.link < m.p
    BY DEF LineOK
  <2>3. \A w \in s.d.peers : ~(w < s.d.link)
    BY <1>12, <1>13 DEF LowAt, Base
  <2>4. s.d.peers \subseteq Nat /\ s.d.link \in Nat
    BY <1>1, IdsType DEF TabRecord
  <2>5. \A w \in d2.peers : s.d.link <= w
    BY <1>2, <2>2, <2>3, <2>4
  <2>6. d2.peers \in SUBSET Nat /\ s.d.link \in d2.peers
    BY <1>2, <2>1, <2>2, <2>4
  <2>7. Min(d2.peers) = s.d.link
    BY <2>5, <2>6, LeastIsMin
  <2> QED
    BY <1>2, <2>1, <2>7
<1>14. CASE d2.me = Min(d2.peers)
  <2>1. a.k = "s1" /\ a.sv \subseteq s.d.got
    BY <1>2 DEF a, Held
  <2>2. \A x : ~Brings(a, x)
    BY <2>1 DEF Brings
  <2>3. \A x \in Things : x[1] = "dead" \/ ~Has(s.d, x) => Asks(a, x)
    BY <2>1 DEF Asks, Has
  <2>4. \A x : ~Asks(q[1], x)
    BY <1>12 DEF Asks
  <2>5. Says(s.d, d2, q, a)
    BY <1>12, <2>1, <2>2, <2>3, <2>4 DEF Says
  <2> QED
    BY <1>9, <1>11, <1>14, <2>5 DEF Replies, r
<1>15. CASE d2.me # Min(d2.peers)
  <2>1. Says(s.d, d2, q, NoFrame)
    BY <1>12, <1>13, <1>15, SilentSays
  <2> QED
    BY <1>9, <1>11, <1>15, <2>1 DEF Replies, r
<1> QED
  BY <1>14, <1>15

\* The tab has read the welcome, and done nothing else yet.
Welcomed(s, m) ==
    LET s1 == [s EXCEPT !.d.welcomed = TRUE, !.d.me = m.me, !.d.peers = m.peers]
    IN  IF m.ops = {} THEN s1 ELSE Synced(s1, m.ops, {})

LEMMA WelcomedFields ==
  ASSUME NEW t \in Tabs, NEW s, Sound(s, t), s.out = NoFrame,
         NEW m \in Frame(MadeIn(s.st)), m.k = "welcome"
  PROVE  /\ Sound(Welcomed(s, m), t) /\ Welcomed(s, m).out = NoFrame
         /\ Welcomed(s, m).d.link = s.d.link /\ Welcomed(s, m).d.cut = s.d.cut
         /\ Welcomed(s, m).d.me = m.me /\ Welcomed(s, m).d.peers = m.peers
         /\ Welcomed(s, m).d.got = s.d.got \cup m.ops /\ Welcomed(s, m).d.dead = s.d.dead
<1> DEFINE d1 == [s.d EXCEPT !.welcomed = TRUE, !.me = m.me, !.peers = m.peers]
           s1 == [s EXCEPT !.d = d1]
           r  == Welcomed(s, m)
<1>1. m.me \in Ids /\ m.peers \in SUBSET Ids /\ m.ops \in SUBSET MadeIn(s.st)
  BY FrameKinds
<1>2. s1 = [s EXCEPT !.d.welcomed = TRUE, !.d.me = m.me, !.d.peers = m.peers]
  BY DEF Sound, Typed
<1>3. s.d \in TabRecord(MadeIn(s.st))
  BY SoundFormed
<1>4. /\ d1 \in TabRecord(MadeIn(s.st)) /\ Minor(s.d, d1)
      /\ d1.link = s.d.link /\ d1.cut = s.d.cut /\ d1.me = m.me /\ d1.peers = m.peers
      /\ d1.got = s.d.got /\ d1.dead = s.d.dead
  BY <1>1, <1>3 DEF TabRecord, Minor
<1>5. r = IF m.ops = {} THEN s1 ELSE Synced(s1, m.ops, {})
  <2> HIDE DEF s1
  <2> QED
    BY <1>2 DEF Welcomed
<1> HIDE DEF d1, r
<1>6. s1.d = d1 /\ s1.out = NoFrame
  BY WithFields
<1>7. Sound(s1, t) /\ s1.st = s.st
  <2>1. Sound(s1, t)
    BY <1>4, MinorKeeps
  <2>2. s1.st = s.st
    BY DEF Sound, Typed
  <2> QED
    BY <2>1, <2>2
<1> HIDE DEF s1
<1>8. CASE m.ops = {}
  <2>1. r = s1 /\ s.d.got \cup m.ops = s.d.got
    BY <1>5, <1>8
  <2> QED
    BY <1>4, <1>6, <1>7, <2>1 DEF r
<1>9. CASE m.ops # {}
  <2>1. r = Synced(s1, m.ops, {})
    BY <1>5, <1>9
  <2>2. Sound(r, t)
    BY <1>1, <1>7, <2>1, SyncedKeeps
  <2>3. r.d.got = s1.d.got \cup m.ops /\ r.d.dead = s1.d.dead \cup {} /\ SameLine(s1.d, r.d) /\ r.out = s1.out
    <3> DEFINE N == m.ops
               D == {}
               y == Synced(s1, N, D)
    <3>1. r = y
      BY <2>1
    <3> HIDE DEF N, D
    <3>2. y.d.got = s1.d.got \cup N /\ y.d.dead = s1.d.dead \cup D /\ SameLine(s1.d, y.d) /\ y.out = s1.out
      BY <1>7, SyncedFields
    <3> HIDE DEF y
    <3> QED
      BY <3>1, <3>2 DEF N, D
  <2>4. /\ r.d.got = d1.got \cup m.ops /\ r.d.dead = d1.dead /\ r.out = NoFrame
        /\ r.d.link = d1.link /\ r.d.cut = d1.cut /\ r.d.me = d1.me /\ r.d.peers = d1.peers
    BY <1>6, <2>3 DEF SameLine
  <2> QED
    BY <1>4, <1>6, <2>2, <2>4 DEF r
<1> QED
  BY <1>8, <1>9

LEMMA WelcomeHas ==
  ASSUME NEW q, q[1].k = "welcome", NEW d, NEW e, e.got = d.got \cup q[1].ops, d.dead \subseteq e.dead
  PROVE  /\ \A x \in Things : Has(d, x) \/ Brings(q[1], x) => Has(e, x)
         /\ \A x \in Things : Has(e, x) => Has(d, x) \/ Brings(q[1], x) \/ x[1] = "dead"
         /\ e.dead = d.dead => \A x \in Things : Has(e, x) => Has(d, x) \/ Brings(q[1], x)
<1>1. \A x \in Things : x[1] \in {"got", "dead"}
  BY DEF Things
<1>2. \A x : Brings(q[1], x) <=> x[1] = "got" /\ x[2] \in q[1].ops
  BY DEF Brings
<1> QED
  BY <1>1, <1>2 DEF Has

\* Not alone in the room, a tab may drop its seed, and asks everybody.
LEMMA WelcomeReplies ==
  ASSUME NEW t \in Tabs, NEW s, Sound(s, t), s.out = NoFrame, s.d.link # 0, NEW q, q # << >>,
         NEW m, m = q[1], m \in Frame(MadeIn(s.st)), m.k = "welcome", m.peers # {m.me}
  PROVE  Replies(s.d, OnMessage(s, t, m), q)
<1> DEFINE w  == Welcomed(s, m)
           v  == DropSeed(w)
           a  == [k |-> "s1", sv |-> Held(v.d)]
           c  == Send(v, a)
           r4 == IF w.d.synced THEN 0 ELSE c.d.retry + 1
           f4 == IF Spent(w.d) THEN 0 ELSE c.d.fallback + 1
           d4 == [c.d EXCEPT !.retry = r4, !.fallback = f4]
           r  == [c EXCEPT !.d = d4]
<1>1. OnMessage(s, t, m) = [c EXCEPT !.d.retry = IF w.d.synced THEN 0 ELSE @ + 1,
                                     !.d.fallback = IF Spent(w.d) THEN 0 ELSE @ + 1]
  BY DEF OnMessage, OnWelcome, Welcomed, SyncRequest
<1>2. /\ Sound(w, t) /\ w.out = NoFrame /\ w.d.link = s.d.link /\ w.d.cut = s.d.cut
      /\ w.d.me = m.me /\ w.d.peers = m.peers
      /\ w.d.got = s.d.got \cup m.ops /\ w.d.dead = s.d.dead
  BY WelcomedFields
<1> HIDE DEF w
<1>3. Sound(v, t) /\ v.d.got = w.d.got /\ w.d.dead \subseteq v.d.dead /\ SameLine(w.d, v.d)
  BY <1>2, DropSeedKeeps, DropSeedFields
<1> HIDE DEF v
<1>4. v.d.link # 0
  BY <1>2, <1>3 DEF SameLine
<1>5. a.k = "s1" /\ a.sv \subseteq v.d.got
  BY DEF Held
<1>6. Sound(c, t)
  <2>1. Sound(SyncRequest(v), t)
    BY <1>3, SyncRequestKeeps
  <2> QED
    BY <2>1 DEF SyncRequest
<1> HIDE DEF a
<1>7. c.d = v.d /\ c.out = a
  BY <1>3, <1>4, SendFields
<1>8. OnMessage(s, t, m) = r
  <2>1. r = [c EXCEPT !.d.retry = IF w.d.synced THEN 0 ELSE @ + 1,
                      !.d.fallback = IF Spent(w.d) THEN 0 ELSE @ + 1]
    <3> HIDE DEF c
    <3> QED
      BY <1>6 DEF Sound, Typed
  <2> HIDE DEF r, c
  <2> QED
    BY <1>1, <2>1, Zenon
<1> HIDE DEF c
<1>9. c.d \in TabRecord(MadeIn(c.st))
  BY <1>6, SoundFormed
<1>10. SameLine(c.d, d4) /\ d4.got = c.d.got /\ d4.dead = c.d.dead
  <2> HIDE DEF r4, f4
  <2> QED
    BY <1>9 DEF TabRecord, SameLine
<1> HIDE DEF d4
<1>11. r.d = d4 /\ r.out = a
  BY <1>6, <1>7, WithFields
<1> HIDE DEF r
<1>12. /\ d4.link = s.d.link /\ d4.cut = s.d.cut /\ d4.me = m.me /\ d4.peers = m.peers
       /\ d4.got = s.d.got \cup m.ops /\ s.d.dead \subseteq d4.dead /\ d4.got = v.d.got
  BY <1>2, <1>3, <1>7, <1>10 DEF SameLine
<1>13. WillAsk(q)
  BY DEF WillAsk, Greeting
<1>14. Turns(s.d, d4, q)
  <2>1. Knows(s.d, d4, m)
    BY <1>12 DEF Knows
  <2>2. /\ \A x \in Things : Has(s.d, x) \/ Brings(q[1], x) => Has(d4, x)
        /\ \A x \in Things : Has(d4, x) => Has(s.d, x) \/ Brings(q[1], x) \/ x[1] = "dead"
    BY <1>12, WelcomeHas
  <2> QED
    BY <1>12, <1>13, <2>1, <2>2 DEF Turns
<1>15. Says(s.d, d4, q, a)
  <2>1. \A x : ~Brings(a, x)
    BY <1>5 DEF Brings
  <2>2. \A x : ~Asks(q[1], x)
    BY DEF Asks
  <2>3. \A x \in Things : Has(d4, x) \/ Asks(a, x)
    BY <1>5, <1>12 DEF Has, Asks
  <2> QED
    BY <1>5, <2>1, <2>2, <2>3 DEF Says
<1> QED
  BY <1>8, <1>11, <1>14, <1>15 DEF Replies

\* Alone in the room, a tab goes on with what it may insert.
LEMMA AloneUtters ==
  ASSUME NEW t \in Tabs, NEW s, Sound(s, t), s.out = NoFrame, NEW q, q # << >>,
         NEW m, m = q[1], m \in Frame(MadeIn(s.st)), m.k = "welcome", m.peers = {m.me}
  PROVE  /\ Turns(s.d, Welcomed(s, m).d, q) /\ Says(s.d, Welcomed(s, m).d, q, NoFrame)
         /\ Utters(Welcomed(s, m).d, OnMessage(s, t, m))
<1> DEFINE w == Welcomed(s, m)
<1>1. OnMessage(s, t, m) = MaybeSeed(w, t, FALSE)
  BY DEF OnMessage, OnWelcome, Welcomed
<1>2. /\ Sound(w, t) /\ w.out = NoFrame /\ w.d.link = s.d.link /\ w.d.cut = s.d.cut
      /\ w.d.me = m.me /\ w.d.peers = m.peers
      /\ w.d.got = s.d.got \cup m.ops /\ w.d.dead = s.d.dead
  BY WelcomedFields
<1> HIDE DEF w
<1>3. ~WillAsk(q)
  BY DEF WillAsk
<1>4. Turns(s.d, w.d, q)
  <2>1. Knows(s.d, w.d, m)
    BY <1>2 DEF Knows
  <2>2. /\ \A x \in Things : Has(s.d, x) \/ Brings(q[1], x) => Has(w.d, x)
        /\ \A x \in Things : Has(w.d, x) => Has(s.d, x) \/ Brings(q[1], x)
    BY <1>2, WelcomeHas
  <2> QED
    BY <1>2, <2>1, <2>2 DEF Turns
<1>5. Says(s.d, w.d, q, NoFrame)
  BY <1>3, SilentSays
<1>6. Fresh(w.d, w)
  BY <1>2, SoundFormed DEF Fresh, SameLine
<1>7. Utters(w.d, MaybeSeed(w, t, FALSE))
  BY <1>6, MaybeSeedUtters
<1> QED
  BY <1>1, <1>4, <1>5, <1>7 DEF w

LEMMA JoinLink ==
  ASSUME NEW t \in Tabs, NEW s, Sound(s, t), NEW m \in Frame(MadeIn(s.st)), m.k = "join"
  PROVE  OnMessage(s, t, m).d.link = s.d.link /\ OnMessage(s, t, m).d.cut = s.d.cut
<1> DEFINE d2 == [s.d EXCEPT !.peers = @ \cup {m.p}]
           s2 == [s EXCEPT !.d = d2]
           a  == [k |-> "s1", sv |-> Held(s2.d)]
<1>1. OnJoin(s, m) = s2 \/ OnJoin(s, m) = SyncRequest(s2)
  BY DEF OnJoin, Sound, Typed
<1>2. m.p \in Ids /\ s.d \in TabRecord(MadeIn(s.st))
  BY FrameKinds, SoundFormed
<1>3. d2 \in TabRecord(MadeIn(s.st)) /\ Minor(s.d, d2) /\ d2.link = s.d.link /\ d2.cut = s.d.cut
  BY <1>2 DEF TabRecord, Minor
<1> HIDE DEF d2
<1>4. s2.d = d2
  BY WithFields
<1>5. Sound(s2, t)
  BY <1>3, MinorKeeps
<1>6. OnMessage(s, t, m) = OnJoin(s, m)
  BY DEF OnMessage
<1>7. SyncRequest(s2) = Send(s2, a)
  BY DEF SyncRequest
<1> HIDE DEF s2, a
<1>8. Send(s2, a).d = s2.d
  <2>1. CASE s2.d.link = 0
    BY <2>1 DEF Send
  <2>2. CASE s2.d.link # 0
    BY <1>5, <2>2, SendFields
  <2> QED
    BY <2>1, <2>2
<1>9. OnJoin(s, m).d = s2.d
  BY <1>1, <1>7, <1>8
<1> QED
  BY <1>3, <1>4, <1>6, <1>9

\* No frame changes the connection.
LEMMA MessageLink ==
  ASSUME NEW t \in Tabs, NEW s, Sound(s, t), s.out = NoFrame, s.d.link # 0, NEW q, q # << >>,
         NEW m, m = q[1], m \in Frame(MadeIn(s.st))
  PROVE  OnMessage(s, t, m).d.link = s.d.link /\ OnMessage(s, t, m).d.cut = s.d.cut
<1>1. CASE m.k = "welcome" /\ m.peers = {m.me}
  <2> DEFINE w == Welcomed(s, m)
  <2>1. Turns(s.d, w.d, q) /\ Utters(w.d, OnMessage(s, t, m))
    BY <1>1, AloneUtters
  <2> HIDE DEF w
  <2> QED
    BY <2>1 DEF Turns, Utters, SameLine
<1>2. CASE m.k = "join"
  BY <1>2, JoinLink
<1>3. CASE m.k # "join" /\ ~(m.k = "welcome" /\ m.peers = {m.me})
  <2>1. Replies(s.d, OnMessage(s, t, m), q)
    <3>1. CASE m.k = "welcome"
      BY <1>3, <3>1, WelcomeReplies
    <3>2. CASE m.k = "leave"
      BY <3>2, LeaveReplies
    <3>3. CASE m.k = "saved"
      BY <3>3, SavedReplies
    <3>4. CASE m.k = "s1"
      BY <3>4, AskedReplies
    <3>5. CASE m.k \in {"op", "s2"}
      BY <3>5, BroughtReplies
    <3> QED
      BY <1>3, <3>1, <3>2, <3>3, <3>4, <3>5, FrameKinds
  <2> QED
    BY <2>1 DEF Replies, Turns
<1> QED
  BY <1>1, <1>2, <1>3

LEMMA MessageReplies ==
  ASSUME NEW t \in Tabs, NEW s, Sound(s, t), s.out = NoFrame, s.d.link \in Ids, NEW q, q # << >>,
         NEW m, m = q[1], m \in Frame(MadeIn(s.st)), Len(q) \in Nat, Len(q) >= 1,
         ~(m.k = "welcome" /\ m.peers = {m.me}),
         NEW ps, NEW nx, LineOK(s.d, q, ps, nx)
  PROVE  Replies(s.d, OnMessage(s, t, m), q)
<1>1. s.d.link # 0
  BY IdsType
<1>2. CASE m.k = "welcome"
  BY <1>1, <1>2, WelcomeReplies
<1>3. CASE m.k = "leave"
  BY <1>3, LeaveReplies
<1>4. CASE m.k = "saved"
  BY <1>4, SavedReplies
<1>5. CASE m.k = "s1"
  BY <1>1, <1>5, AskedReplies
<1>6. CASE m.k \in {"op", "s2"}
  BY <1>6, BroughtReplies
<1>7. CASE m.k = "join"
  BY <1>7, JoinReplies
<1> QED
  BY <1>2, <1>3, <1>4, <1>5, <1>6, <1>7, FrameKinds

LEMMA TabTakesConv ==
  ASSUME Inv, Inv', Settled, NEW t \in Tabs, TabTakes(t)
  PROVE  Settled'
<1> DEFINE p  == tab[t].link
           q  == down[p]
           m  == Head(q)
           dn == [down EXCEPT ![p] = Tail(@)]
           s  == OnMessage(Now(t), t, m)
<1>1. p # 0 /\ q # << >> /\ Does(t, s, dn)
  BY DEF TabTakes
<1>2. p \in Ids
  BY <1>1, TabTyped DEF TabRecord
<1>3. q \in Seq(Frame(MadeIn(structs)))
  BY <1>2 DEF Inv, Types
<1>4. m \in Frame(MadeIn(structs)) /\ m = q[1] /\ Len(q) \in Nat /\ Len(q) >= 1
  <2> HIDE DEF q
  <2> QED
    BY <1>1, <1>3, TailFrames
<1>5. blame = {} => SafeFrame(m)
  BY <1>2, <1>4 DEF Inv, Safe, AllSafe
<1>6. /\ Sound(Now(t), t) /\ Now(t).d = tab[t] /\ Now(t).st = structs /\ Now(t).out = NoFrame
      /\ Now(t).blame = blame
  BY NowSound, TabTyped
<1>7. Popped(dn, p)
  BY DEF Popped
<1>8. \A u \in On(tab) \ {t} : dn[tab[u].link] = down[tab[u].link]
  <2> TAKE u \in On(tab) \ {t}
  <2>1. \A c : [down EXCEPT ![tab[t].link] = c][tab[u].link] = down[tab[u].link]
    BY <1>1, OwnLine DEF Settled
  <2> QED
    BY <2>1
<1> HIDE DEF m, dn
<1>9. Sound(s, t) /\ Follows(Now(t), s, t)
  BY <1>4, <1>5, <1>6, OnMessageKeeps
<1>10. s.d.link = p /\ s.d.cut = tab[t].cut
  <2> HIDE DEF q, p
  <2>1. Now(t).d.link # 0
    BY <1>1, <1>6 DEF p
  <2>2. m \in Frame(MadeIn(Now(t).st))
    BY <1>4, <1>6
  <2>3. s.d.link = Now(t).d.link /\ s.d.cut = Now(t).d.cut
    BY <1>1, <1>4, <1>6, <2>1, <2>2, MessageLink
  <2> QED
    BY <1>6, <2>3 DEF p
<1>11. Formed(s) /\ blame \subseteq s.blame
  BY <1>6, <1>9, SoundFormed DEF Follows
<1>12. /\ SameLine(s.d, tab'[t]) /\ \A u \in Tabs \ {t} : tab'[u] = tab[u]
       /\ next' = next /\ unasked' = unasked /\ s.blame \subseteq blame'
  BY <1>1, <1>11, DoesTab
<1>13. Linked(tab', next')
  BY <1>10, <1>12 DEF Linked, SameLine, Settled
<1>14. ASSUME ~Refused(blame'), unasked' = {}
       PROVE  Conv(tab', down', peers', next', backlog')
  <2>1. Conv(tab, down, peers, next, backlog) /\ Linked(tab, next)
    <3>1. ~Refused(blame) /\ unasked = {}
      <4>1. blame \subseteq blame'
        BY <1>11, <1>12
      <4> QED
        BY <1>12, <1>14, <4>1, RefusedGrows
    <3> QED
      BY <3>1 DEF Settled, ConvInv, Heard
  <2>2. CASE t \notin On(tab)
    <3>1. tab[t].cut = TRUE
      BY <1>1, <2>2, TabTyped DEF On, TabRecord
    <3>2. \A u \in On(tab) : dn[tab[u].link] = down[tab[u].link]
      BY <1>8, <2>2
    <3> HIDE DEF s
    <3> QED
      BY <1>1, <1>10, <1>11, <2>1, <2>2, <3>1, <3>2, OffConv
  <2>3. CASE t \in On(tab) /\ m.k = "welcome" /\ m.peers = {m.me}
    <3> DEFINE d2 == Welcomed(Now(t), m).d
    <3>1. Turns(tab[t], d2, q) /\ Says(tab[t], d2, q, NoFrame) /\ Utters(d2, s)
      BY <1>1, <1>4, <1>6, <2>3, AloneUtters
    <3> HIDE DEF d2, s
    <3> QED
      BY <1>1, <1>7, <1>14, <2>1, <2>3, <3>1, TurnsConv
  <2>4. CASE t \in On(tab) /\ ~(m.k = "welcome" /\ m.peers = {m.me})
    <3>1. LineOK(tab[t], q, peers, next)
      BY <2>1, <2>4 DEF Conv, RoomOK, Line
    <3>2. Replies(tab[t], s, q)
      <4> HIDE DEF q
      <4> QED
        BY <1>1, <1>2, <1>4, <1>6, <2>4, <3>1, MessageReplies
    <3> HIDE DEF s
    <3> QED
      BY <1>1, <1>7, <1>11, <2>1, <2>4, <3>2, RepliesConv
  <2> QED
    BY <2>2, <2>3, <2>4
<1> QED
  BY <1>13, <1>14 DEF Settled, ConvInv, Heard

----------------------------------------------------------------------------
(* The theorem                                                               *)

LEMMA InitConv == Init => Settled
<1> SUFFICES ASSUME Init
             PROVE  Settled
  OBVIOUS
<1>1. /\ next = 1 /\ peers = {} /\ backlog = << >>
      /\ \A t \in Tabs : tab[t].link = 0 /\ tab[t].cut = FALSE
  BY DEF Init, NoTab
<1>2. On(tab) = {}
  BY <1>1 DEF On
<1>3. Linked(tab, next)
  BY <1>1 DEF Linked
<1>4. RoomOK(tab, down, peers, next)
  BY <1>1, <1>2 DEF RoomOK
<1>5. Spread(tab, down) /\ Greeted(tab, down) /\ Kept(tab, down, backlog)
  BY <1>1, <1>2 DEF Spread, Greeted, Kept
<1> QED
  BY <1>3, <1>4, <1>5 DEF Settled, ConvInv, Conv

LEMMA StepConv == Inv /\ Inv' /\ Settled /\ [Next]_vars => Settled'
<1> SUFFICES ASSUME Inv, Inv', Settled, [Next]_vars
             PROVE  Settled'
  OBVIOUS
<1>1. ASSUME NEW t \in Tabs,
             \/ Fetched(t) \/ HydrateTimeout(t) \/ Type(t) \/ Close(t)
             \/ Save(t) \/ SaveWritten(t) \/ SaveReturns(t) \/ SaveFails(t)
             \/ SyncRetry(t) \/ SeedFallback(t)
             \/ Connect(t) \/ ConnectFails(t) \/ Cut(t) \/ Dropped(t) \/ TabTakes(t)
      PROVE  Settled'
  BY <1>1, FetchedConv, HydrateTimeoutConv, TypeConv, CloseConv, SaveConv, SaveWrittenConv,
     SaveReturnsConv, SaveFailsConv, SyncRetryConv, SeedFallbackConv, ConnectConv,
     ConnectFailsConv, CutConv, DroppedConv, TabTakesConv
<1>2. ASSUME NEW p \in Ids, Leave(p)
      PROVE  Settled'
  BY <1>2, LeaveStepConv
<1>3. CASE EvictIdle
  BY <1>3, EvictIdleConv
<1>4. CASE UNCHANGED vars
  BY <1>4, StutterConv
<1> QED
  BY <1>1, <1>2, <1>3, <1>4 DEF Next

\* With nothing on its way, what one connected tab has every other has too.
LEMMA QuietSame ==
  ASSUME Inv, Conv(tab, down, peers, next, backlog), \A p \in Ids : down[p] = << >>,
         NEW t \in On(tab), NEW u \in On(tab), NEW x \in Things, Has(tab[t], x)
  PROVE  Has(tab[u], x)
<1> SUFFICES ASSUME u # t
             PROVE  Has(tab[u], x)
  OBVIOUS
<1>1. \A v \in On(tab) : Line(tab, down, v) = << >>
  <2> TAKE v \in On(tab)
  <2>1. tab[v].link \in Ids
    BY TabTyped DEF TabRecord, On
  <2> QED
    BY <2>1 DEF Line
<1>2. \A d : Gets(d, << >>, x) <=> Has(d, x)
  BY DEF Gets, By
<1>3. ~WillAsk(<< >>)
  BY DEF WillAsk, Greeting
<1>4. \A d : ~Answers(d, << >>, x, Len(<< >>))
  BY DEF Answers
<1>5. ~Due(tab, down, t, x)
  <2> SUFFICES ASSUME NEW l \in On(tab), NEW i \in Nat, AsksAt(tab, down, l, t, i)
               PROVE  FALSE
    BY DEF Due
  <2>1. i \in 1 .. Len(<< >>)
    BY <1>1 DEF AsksAt
  <2> QED
    BY <2>1
<1>6. Gets(tab[t], Line(tab, down, t), x)
  BY <1>1, <1>2
<1>7. Reaches(tab, down, t, u, x)
  BY <1>6 DEF Conv, Spread
<1> QED
  BY <1>1, <1>2, <1>3, <1>4, <1>5, <1>7 DEF Reaches

LEMMA ConvergesFollows == Inv /\ Settled => ConvergesUnlessUnheard
<1> SUFFICES ASSUME Inv, Settled, Heard, Quiet,
                    NEW t \in Opened, NEW u \in Opened, Connected(t), Connected(u)
             PROVE  Doc(t) = Doc(u)
  BY DEF ConvergesUnlessUnheard, Converges, Heard, Refused
<1>1. Conv(tab, down, peers, next, backlog) /\ \A p \in Ids : down[p] = << >>
  BY DEF Settled, ConvInv, Quiet
<1>2. t \in Tabs /\ u \in Tabs
  BY DEF Opened
<1>3. t \in On(tab) /\ u \in On(tab)
  BY <1>2, TabTyped DEF On, Connected, TabRecord
<1>4. \A x \in Things : Has(tab[t], x) <=> Has(tab[u], x)
  BY <1>1, <1>3, QuietSame
<1>5. MadeIn(structs) \subseteq Tabs \X Nat
  <2> SUFFICES ASSUME NEW k \in MadeIn(structs)
               PROVE  k \in Tabs \X Nat
    OBVIOUS
  <2>1. k = <<k[1], k[2]>> /\ k[1] \in Tabs /\ k[2] \in 1 .. Len(structs[k[1]])
    BY MadePair
  <2> QED
    BY <2>1 DEF Inv, Types
<1>6. /\ tab[t].got \subseteq Tabs \X Nat /\ tab[t].dead \subseteq Tabs \X Nat
      /\ tab[u].got \subseteq Tabs \X Nat /\ tab[u].dead \subseteq Tabs \X Nat
  <2> HIDE DEF MadeIn
  <2> QED
    BY <1>2, <1>5, TabTyped DEF TabRecord
<1>7. ASSUME NEW k \in Tabs \X Nat
      PROVE  /\ k \in tab[t].got <=> k \in tab[u].got
             /\ k \in tab[t].dead <=> k \in tab[u].dead
  <2>1. <<"got", k>> \in Things /\ <<"dead", k>> \in Things
    BY DEF Things
  <2> QED
    BY <1>4, <2>1 DEF Has
<1>8. tab[u].got = tab[t].got /\ tab[u].dead = tab[t].dead
  BY <1>6, <1>7
<1> QED
  BY <1>8, MinorDoc DEF Doc

\* Editors that are connected and have received everything show one text,
\* whatever the order of inserts, welcomes, joins, requests, answers and broken
\* connections, unless the hub refused an op or the peer that was to ask a
\* newcomer went before it did.
THEOREM EditorsConverge == Spec => []ConvergesUnlessUnheard
<1>1. Init => Inv /\ Settled
  BY InitInv, InitConv
<1>2. Inv /\ Settled /\ [Next]_vars => (Inv /\ Settled)'
  BY StepInv, StepConv
<1>3. Inv /\ Settled => ConvergesUnlessUnheard
  BY ConvergesFollows
<1> QED
  BY <1>1, <1>2, <1>3, PTL DEF Spec
=============================================================================
