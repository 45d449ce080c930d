--------------------------- MODULE CollabTextProofs ---------------------------
(***************************************************************************)
(* Proofs about CollabText, for every number of tabs, insertions, broken     *)
(* connections and events, every length of the hub's backlog, and a hub      *)
(* that learns of a broken connection at once or later.                      *)
(***************************************************************************)
EXTENDS CollabText, FiniteSetTheorems, FunctionTheorems, TLAPS

USE CollabConstants DEF Tokens

----------------------------------------------------------------------------
(* The inductive invariant *)

MadeIn(st) == UNION {{c} \X (1 .. Len(st[c])) : c \in Tabs}

MaybeText == Text \cup {NoText}
SaveRecord == [at : {"none"}, body : {NoText}] \cup [at : {"sent", "written"}, body : Text]

\* A tab, if the insertions made are those in M.
TabRecord(M) ==
    [closed : BOOLEAN, loading : BOOLEAN, fetched : BOOLEAN,
     baseline : MaybeText, pending : MaybeText,
     link : Ids \cup {0}, cut : BOOLEAN, me : Ids \cup {0}, peers : SUBSET Ids,
     welcomed : BOOLEAN, offline : BOOLEAN, seeded : BOOLEAN, seedText : MaybeText,
     synced : BOOLEAN, got : SUBSET M, dead : SUBSET M, retry : Nat, fallback : Nat,
     save : SaveRecord, unsaved : BOOLEAN]

\* A frame.
Frame(M) ==
    [k : {"welcome"}, me : Ids, peers : SUBSET Ids, ops : SUBSET M]
       \cup [k : {"join", "leave"}, p : Ids] \cup [k : {"s1"}, sv : SUBSET M]
       \cup [k : {"s2"}, new : SUBSET M, dead : SUBSET M] \cup [k : {"op"}, s : M]
       \cup [k : {"saved"}]

Bounds == [edits : 0 .. MaxEdits, cuts : Nat, events : Nat]
Mistakes == {"hollow", "seed dropped", "not hydrated", "op refused"}

\* No insertion of q bears the file's first text, or only one does.
Plain(q) == \A i \in 1 .. Len(q) : q[i][0] = 0
SeedOnce(q) == \A i, j \in 1 .. Len(q) : q[i][0] >= 1 /\ q[j][0] >= 1 => i = j

\* Tab t has what it inserted, and one of its insertions may bear the file's first
\* text: none as long as the text it fetches may still be inserted.
Owns(d, st, t) ==
    /\ \A j \in 1 .. Len(st[t]) : <<t, j>> \in d.got
    /\ SeedOnce(st[t])
    /\ ~(d.fetched = TRUE /\ d.pending = NoText) => Plain(st[t])
    /\ d.pending # NoText => d.fetched = TRUE

\* The file's text is in document d.
Bears(d, st) == \E k \in Held(d) \ d.dead : st[k[1]][k[2]][0] >= 1

\* Without a mistake nothing is deleted, what a tab may still insert or write
\* bears the file's text, and so does its document, unless it is empty and known
\* to be.
SafeDoc(d, st) ==
    /\ d.dead = {}
    /\ d.pending # NoText => d.pending[0] >= 1
    /\ d.save.at = "sent" => d.save.body[0] >= 1
    /\ d.seeded = TRUE \/ d.synced = TRUE \/ d.loading = FALSE \/ TextOf(d, st) # Empty
          => Bears(d, st)

SafeFrame(m) == m.k = "s2" => m.dead = {}
AllSafe(q) == \A p \in Ids : \A i \in 1 .. Len(q[p]) : SafeFrame(q[p][i])

Types ==
    /\ structs \in [Tabs -> Seq(Text)]
    /\ tab \in [Tabs -> TabRecord(MadeIn(structs))]
    /\ peers \in SUBSET Ids /\ next \in 1 .. Cardinality(Tabs) + MaxCuts + 1
    /\ backlog \in Seq(MadeIn(structs)) /\ Len(backlog) <= OpBacklog
    /\ down \in [Ids -> Seq(Frame(MadeIn(structs)))]
    /\ file \in past /\ past \in SUBSET Text /\ used \in Bounds /\ blame \in SUBSET Mistakes

Safe ==
    /\ \A text \in past : text[0] >= 1
    /\ \A t \in Tabs : SafeDoc(tab[t], structs)
    /\ AllSafe(down)

Inv ==
    /\ Types
    /\ \A t \in Tabs : Owns(tab[t], structs, t)
    /\ blame = {} => Safe

----------------------------------------------------------------------------
(* Documents and their texts *)

LEMMA TokensType == MaxEdits \in Nat /\ Tokens = 0 .. MaxEdits /\ 0 \in Tokens
  BY CollabConstants DEF Tokens

LEMMA IdsType == /\ Cardinality(Tabs) \in Nat /\ MaxCuts \in Nat /\ 0 \notin Ids
                 /\ Ids = 1 .. (Cardinality(Tabs) + MaxCuts)
                 /\ Cardinality(Ids) = Cardinality(Tabs) + MaxCuts
<1>1. Cardinality(Tabs) \in Nat /\ MaxCuts \in Nat
  BY FS_CardinalityType
<1>2. Cardinality(1 .. (Cardinality(Tabs) + MaxCuts)) = Cardinality(Tabs) + MaxCuts
  BY <1>1, FS_Interval, SMT
<1> QED
  BY <1>1, <1>2 DEF Ids

LEMMA Texts == /\ Empty \in Text /\ NoText \notin Text
               /\ \A x \in Tokens : Only(x) \in Text
  BY TokensType DEF Empty, NoText, Only, Text

\* The insertions made.
LEMMA MadeMember ==
  ASSUME NEW st, NEW k
  PROVE  k \in MadeIn(st) <=> \E c \in Tabs : \E j \in 1 .. Len(st[c]) : k = <<c, j>>
  BY DEF MadeIn

LEMMA MadePair ==
  ASSUME NEW st, NEW k \in MadeIn(st)
  PROVE  k = <<k[1], k[2]>> /\ k[1] \in Tabs /\ k[2] \in 1 .. Len(st[k[1]])
  BY MadeMember

\* The union of a finite family of finite sets.
LEMMA FiniteFamily ==
  ASSUME NEW S, IsFiniteSet(S), NEW f, \A x \in S : IsFiniteSet(f[x])
  PROVE  IsFiniteSet(UNION {f[x] : x \in S})
<1> DEFINE T == {f[x] : x \in S}
           g == [x \in S |-> f[x]]
<1>1. g \in Surjection(S, T)
  BY DEF Surjection
<1>2. IsFiniteSet(T)
  BY <1>1, FS_Surjection
<1> QED
  BY <1>2, FS_UNION

LEMMA FiniteRow ==
  ASSUME NEW k, NEW n \in Nat
  PROVE  IsFiniteSet({k} \X (1 .. n))
<1>1. IsFiniteSet({k})
  BY FS_Singleton
<1>2. 1 \in Int /\ n \in Int
  OBVIOUS
<1>3. IsFiniteSet(1 .. n)
  BY <1>2, FS_Interval
<1> QED
  BY <1>1, <1>3, FS_Product

LEMMA MadeFinite ==
  ASSUME NEW st \in [Tabs -> Seq(Text)]
  PROVE  IsFiniteSet(MadeIn(st))
<1> DEFINE f == [c \in Tabs |-> {c} \X (1 .. Len(st[c]))]
<1>1. \A c \in Tabs : IsFiniteSet(f[c])
  <2> TAKE c \in Tabs
  <2>1. Len(st[c]) \in Nat
    OBVIOUS
  <2> QED
    BY <2>1, FiniteRow
<1>2. IsFiniteSet(UNION {f[c] : c \in Tabs})
  <2> HIDE DEF f
  <2> QED
    BY <1>1, FiniteFamily
<1> QED
  BY <1>2 DEF MadeIn

\* A text counts copies; it has one of the file's text if some insertion does.
LEMMA TextOfType ==
  ASSUME NEW st \in [Tabs -> Seq(Text)], NEW d, d.got \subseteq MadeIn(st)
  PROVE  /\ TextOf(d, st) \in Text
         /\ TextOf(d, st)[0] >= 1 <=> Bears(d, st)
         /\ TextOf(d, st)[0] = 0 <=> ~Bears(d, st)
         /\ Bears(d, st) => TextOf(d, st) # Empty
<1> DEFINE alive == Held(d) \ d.dead
           f(x) == [k \in alive |-> {k} \X (1 .. st[k[1]][k[2]][x])]
           copies(x) == UNION {{k} \X (1 .. st[k[1]][k[2]][x]) : k \in alive}
<1>1. alive \subseteq MadeIn(st)
  BY DEF Held
<1>2. IsFiniteSet(alive)
  BY <1>1, MadeFinite, FS_Subset
<1>3. \A k \in alive : \A x \in Tokens : st[k[1]][k[2]][x] \in Nat
  <2> SUFFICES ASSUME NEW k \in alive, NEW x \in Tokens
               PROVE  st[k[1]][k[2]][x] \in Nat
    OBVIOUS
  <2>1. k[1] \in Tabs /\ k[2] \in 1 .. Len(st[k[1]])
    BY <1>1, MadePair
  <2>2. st[k[1]] \in Seq(Text)
    BY <2>1
  <2>3. st[k[1]][k[2]] \in Text
    BY <2>1, <2>2
  <2> QED
    BY <2>3 DEF Text
<1>4. \A x \in Tokens : IsFiniteSet(copies(x))
  <2> TAKE x \in Tokens
  <2>1. \A k \in alive : IsFiniteSet(f(x)[k])
    <3> TAKE k \in alive
    <3>1. st[k[1]][k[2]][x] \in Nat
      BY <1>3
    <3> QED
      BY <3>1, FiniteRow
  <2>2. IsFiniteSet(UNION {f(x)[k] : k \in alive})
    <3> DEFINE g == f(x)
    <3> HIDE DEF f, alive, g
    <3> QED
      BY <1>2, <2>1, FiniteFamily DEF g
  <2>3. {f(x)[k] : k \in alive} = {{k} \X (1 .. st[k[1]][k[2]][x]) : k \in alive}
    OBVIOUS
  <2> QED
    BY <2>2, <2>3
<1>5. TextOf(d, st) = [x \in Tokens |-> Cardinality(copies(x))]
  BY DEF TextOf
<1>6. \A x \in Tokens : Cardinality(copies(x)) \in Nat
  BY <1>4, FS_CardinalityType
<1>7. TextOf(d, st) \in Text
  BY <1>5, <1>6 DEF Text
<1>8. TextOf(d, st)[0] = Cardinality(copies(0)) /\ Cardinality(copies(0)) \in Nat
  BY <1>5, <1>6, TokensType
<1>9. Cardinality(copies(0)) = 0 <=> copies(0) = {}
  BY <1>4, TokensType, FS_EmptySet
<1>10. copies(0) = {} <=> ~Bears(d, st)
  <2>1. ASSUME Bears(d, st)
        PROVE  copies(0) # {}
    <3>1. PICK k \in alive : st[k[1]][k[2]][0] >= 1
      BY <2>1 DEF Bears
    <3>2. <<k, 1>> \in {k} \X (1 .. st[k[1]][k[2]][0])
      BY <3>1, <1>3, TokensType
    <3> QED
      BY <3>2
  <2>2. ASSUME copies(0) # {}
        PROVE  Bears(d, st)
    <3>1. PICK k \in alive : {k} \X (1 .. st[k[1]][k[2]][0]) # {}
      BY <2>2
    <3>2. st[k[1]][k[2]][0] \in Nat
      BY <1>3, TokensType
    <3>3. st[k[1]][k[2]][0] >= 1
      BY <3>1, <3>2
    <3> QED
      BY <3>3 DEF Bears
  <2> QED
    BY <2>1, <2>2
<1>11. Empty[0] = 0
  BY TokensType DEF Empty
<1> HIDE DEF copies, alive
<1> QED
  BY <1>7, <1>8, <1>9, <1>10, <1>11

\* Insertions are only added: st2 continues st.
Grown(st, st2) ==
    \A c \in Tabs : /\ Len(st[c]) <= Len(st2[c])
                     /\ \A j \in 1 .. Len(st[c]) : st2[c][j] = st[c][j]

LEMMA GrownSame ==
  ASSUME NEW st \in [Tabs -> Seq(Text)]
  PROVE  Grown(st, st)
  BY DEF Grown

LEMMA GrownMade ==
  ASSUME NEW st \in [Tabs -> Seq(Text)], NEW st2 \in [Tabs -> Seq(Text)], Grown(st, st2)
  PROVE  MadeIn(st) \subseteq MadeIn(st2)
<1> SUFFICES ASSUME NEW k \in MadeIn(st)
             PROVE  k \in MadeIn(st2)
  OBVIOUS
<1>1. PICK c \in Tabs : \E j \in 1 .. Len(st[c]) : k = <<c, j>>
  BY MadeMember
<1>2. Len(st[c]) \in Nat /\ Len(st2[c]) \in Nat /\ Len(st[c]) <= Len(st2[c])
  BY DEF Grown
<1>3. 1 .. Len(st[c]) \subseteq 1 .. Len(st2[c])
  BY <1>2
<1> QED
  BY <1>1, <1>3, MadeMember

LEMMA GrownTwice ==
  ASSUME NEW st \in [Tabs -> Seq(Text)], NEW st2 \in [Tabs -> Seq(Text)],
         NEW st3 \in [Tabs -> Seq(Text)], Grown(st, st2), Grown(st2, st3)
  PROVE  Grown(st, st3)
<1> SUFFICES ASSUME NEW c \in Tabs
             PROVE  /\ Len(st[c]) <= Len(st3[c])
                    /\ \A j \in 1 .. Len(st[c]) : st3[c][j] = st[c][j]
  BY DEF Grown
<1>1. Len(st[c]) \in Nat /\ Len(st2[c]) \in Nat /\ Len(st3[c]) \in Nat
  OBVIOUS
<1>2. Len(st[c]) <= Len(st2[c]) /\ Len(st2[c]) <= Len(st3[c])
  BY DEF Grown
<1>3. Len(st[c]) <= Len(st3[c]) /\ 1 .. Len(st[c]) \subseteq 1 .. Len(st2[c])
  BY <1>1, <1>2
<1>4. ASSUME NEW j \in 1 .. Len(st[c])
      PROVE  st3[c][j] = st[c][j]
  <2>1. st2[c][j] = st[c][j]
    BY DEF Grown
  <2>2. j \in 1 .. Len(st2[c])
    BY <1>3
  <2>3. st3[c][j] = st2[c][j]
    BY <2>2 DEF Grown
  <2> QED
    BY <2>1, <2>3
<1> QED
  BY <1>3, <1>4

\* What others insert changes no document by itself.
LEMMA GrownText ==
  ASSUME NEW st \in [Tabs -> Seq(Text)], NEW st2 \in [Tabs -> Seq(Text)], Grown(st, st2),
         NEW d, d.got \subseteq MadeIn(st)
  PROVE  TextOf(d, st2) = TextOf(d, st) /\ (Bears(d, st2) <=> Bears(d, st))
<1> DEFINE alive == Held(d) \ d.dead
           part(s, x) == {{k} \X (1 .. s[k[1]][k[2]][x]) : k \in alive}
<1>1. \A k \in alive : st2[k[1]][k[2]] = st[k[1]][k[2]]
  <2> TAKE k \in alive
  <2>1. k \in MadeIn(st)
    BY DEF Held
  <2>2. k[1] \in Tabs /\ k[2] \in 1 .. Len(st[k[1]])
    BY <2>1, MadePair
  <2> QED
    BY <2>2 DEF Grown
<1>2. Bears(d, st2) <=> Bears(d, st)
  BY <1>1 DEF Bears
<1>3. \A x \in Tokens : part(st2, x) = part(st, x)
  <2> HIDE DEF alive
  <2> QED
    BY <1>1
<1>4. TextOf(d, st) = [x \in Tokens |-> Cardinality(UNION part(st, x))]
  BY DEF TextOf
<1>5. TextOf(d, st2) = [x \in Tokens |-> Cardinality(UNION part(st2, x))]
  BY DEF TextOf
<1> HIDE DEF part
<1> QED
  BY <1>2, <1>3, <1>4, <1>5

----------------------------------------------------------------------------
(* Handlers *)

\* What a handler of tab t passes on.
Typed(s) ==
    /\ s.st \in [Tabs -> Seq(Text)]
    /\ s \in [d : TabRecord(MadeIn(s.st)), st : [Tabs -> Seq(Text)],
              out : Frame(MadeIn(s.st)) \cup {NoFrame}, used : Bounds, blame : SUBSET Mistakes]

Sound(s, t) ==
    /\ Typed(s)
    /\ Owns(s.d, s.st, t)
    /\ s.blame = {} => SafeDoc(s.d, s.st) /\ SafeFrame(s.out)

\* s comes after r: tab t may have inserted, and no mistake is forgotten.
Follows(r, s, t) ==
    /\ Grown(r.st, s.st)
    /\ \A u \in Tabs \ {t} : s.st[u] = r.st[u]
    /\ r.blame \subseteq s.blame
    /\ s.used = r.used

LEMMA TabGrows ==
  ASSUME NEW M, NEW M2, M \subseteq M2, NEW d \in TabRecord(M)
  PROVE  d \in TabRecord(M2)
  BY DEF TabRecord

LEMMA FrameGrows ==
  ASSUME NEW M, NEW M2, M \subseteq M2, NEW m \in Frame(M)
  PROVE  m \in Frame(M2)
  BY DEF Frame

LEMMA FollowsSame ==
  ASSUME NEW s, Typed(s), NEW t
  PROVE  Follows(s, s, t)
  BY GrownSame DEF Follows, Typed

LEMMA FollowsTwice ==
  ASSUME NEW r, NEW s, NEW v, NEW t, Typed(r), Typed(s), Typed(v), Follows(r, s, t), Follows(s, v, t)
  PROVE  Follows(r, v, t)
<1>1. /\ r.st \in [Tabs -> Seq(Text)] /\ s.st \in [Tabs -> Seq(Text)] /\ v.st \in [Tabs -> Seq(Text)]
      /\ Grown(r.st, s.st) /\ Grown(s.st, v.st)
  BY DEF Typed, Follows
<1>2. Grown(r.st, v.st)
  BY <1>1, GrownTwice
<1> QED
  BY <1>2 DEF Follows

LEMMA SendKeeps ==
  ASSUME NEW t \in Tabs, NEW s, Sound(s, t), NEW m \in Frame(MadeIn(s.st)),
         s.blame = {} => SafeFrame(m)
  PROVE  Sound(Send(s, m), t) /\ Follows(s, Send(s, m), t)
<1>1. CASE s.d.link = 0
  BY <1>1, FollowsSame DEF Send, Sound
<1>2. CASE s.d.link # 0
  <2>1. Send(s, m) = [s EXCEPT !.out = m]
    BY <1>2 DEF Send
  <2>2. Typed(s) /\ Typed([s EXCEPT !.out = m])
    BY DEF Sound, Typed
  <2>3. /\ [s EXCEPT !.out = m].d = s.d /\ [s EXCEPT !.out = m].st = s.st
        /\ [s EXCEPT !.out = m].out = m /\ [s EXCEPT !.out = m].used = s.used
        /\ [s EXCEPT !.out = m].blame = s.blame
    BY <2>2 DEF Typed
  <2>4. Sound(Send(s, m), t)
    BY <2>1, <2>2, <2>3 DEF Sound
  <2>5. Grown(s.st, s.st)
    BY <2>2, GrownSame DEF Typed
  <2> QED
    BY <2>1, <2>3, <2>4, <2>5 DEF Follows
<1> QED
  BY <1>1, <1>2

\* One more insertion.
LEMMA AppendOnce ==
  ASSUME NEW q \in Seq(Text), NEW text \in Text
  PROVE  /\ Plain(q) /\ text[0] = 0 => Plain(Append(q, text))
         /\ SeedOnce(q) /\ text[0] = 0 => SeedOnce(Append(q, text))
         /\ Plain(q) => SeedOnce(Append(q, text))
<1>1. /\ Len(q) \in Nat /\ Len(Append(q, text)) = Len(q) + 1
      /\ Append(q, text)[Len(q) + 1] = text
      /\ \A i \in 1 .. Len(q) : Append(q, text)[i] = q[i]
  OBVIOUS
<1>2. \A i \in 1 .. Len(q) + 1 : i \in 1 .. Len(q) \/ i = Len(q) + 1
  BY <1>1
<1>3. Plain(q) /\ text[0] = 0 => Plain(Append(q, text))
  BY <1>1, <1>2 DEF Plain
<1>4. SeedOnce(q) /\ text[0] = 0 => SeedOnce(Append(q, text))
  BY <1>1, <1>2 DEF SeedOnce
<1>5. Plain(q) => SeedOnce(Append(q, text))
  BY <1>1, <1>2 DEF SeedOnce, Plain
<1> QED
  BY <1>3, <1>4, <1>5

\* The `update` handler.  The text is the only one of the tab's to bear the file's
\* first text, and that text is in it or in the document already.
LEMMA InsertKeeps ==
  ASSUME NEW t \in Tabs, NEW s, Typed(s), NEW text \in Text,
         \A j \in 1 .. Len(s.st[t]) : <<t, j>> \in s.d.got,
         SeedOnce(s.st[t]), Plain(s.st[t]) \/ text[0] = 0,
         ~(s.d.fetched = TRUE /\ s.d.pending = NoText) => Plain(s.st[t]) /\ text[0] = 0,
         s.d.pending # NoText => s.d.fetched = TRUE,
         s.blame = {} => /\ s.d.dead = {} /\ SafeFrame(s.out)
                         /\ s.d.pending # NoText => s.d.pending[0] >= 1
                         /\ s.d.save.at = "sent" => s.d.save.body[0] >= 1
                         /\ text[0] >= 1 \/ Bears(s.d, s.st)
  PROVE  Sound(Insert(s, t, text), t) /\ Follows(s, Insert(s, t, text), t)
<1> DEFINE n  == Len(s.st[t]) + 1
           st2 == [s.st EXCEPT ![t] = Append(@, text)]
           d2 == [s.d EXCEPT !.got = @ \cup {<<t, n>>}]
           s2 == [s EXCEPT !.st[t] = Append(@, text), !.d.got = @ \cup {<<t, n>>}]
           m  == [k |-> "op", s |-> <<t, n>>]
<1>1. /\ s2.st = st2 /\ s2.d = d2 /\ s2.out = s.out /\ s2.used = s.used /\ s2.blame = s.blame
      /\ s2 = [s EXCEPT !.st = st2, !.d = d2]
  BY DEF Typed
<1>2. s.st \in [Tabs -> Seq(Text)] /\ s.st[t] \in Seq(Text) /\ Len(s.st[t]) \in Nat
  BY DEF Typed
<1>3. /\ st2 \in [Tabs -> Seq(Text)] /\ st2[t] = Append(s.st[t], text)
      /\ \A u \in Tabs \ {t} : st2[u] = s.st[u]
  BY <1>2
<1>4. /\ Len(st2[t]) = n /\ st2[t][n] = text
      /\ \A j \in 1 .. Len(s.st[t]) : st2[t][j] = s.st[t][j]
  BY <1>2, <1>3
<1>5. Grown(s.st, st2)
  <2> SUFFICES ASSUME NEW c \in Tabs
               PROVE  /\ Len(s.st[c]) <= Len(st2[c])
                      /\ \A j \in 1 .. Len(s.st[c]) : st2[c][j] = s.st[c][j]
    BY DEF Grown
  <2>1. Len(s.st[c]) \in Nat
    BY <1>2
  <2> QED
    BY <1>2, <1>3, <1>4, <2>1
<1>6. MadeIn(s.st) \subseteq MadeIn(st2)
  BY <1>2, <1>3, <1>5, GrownMade
<1>7. <<t, n>> \in MadeIn(st2)
  <2>1. n \in 1 .. Len(st2[t])
    BY <1>2, <1>4
  <2> QED
    BY <2>1, MadeMember
<1>8. d2 \in TabRecord(MadeIn(st2))
  <2>1. s.d \in TabRecord(MadeIn(st2))
    <3>1. s.d \in TabRecord(MadeIn(s.st))
      BY DEF Typed
    <3> HIDE DEF st2
    <3> QED
      BY <3>1, <1>6, TabGrows
  <2> QED
    BY <2>1, <1>7 DEF TabRecord
<1>9. Typed(s2)
  <2>1. s.out \in Frame(MadeIn(st2)) \cup {NoFrame}
    <3>1. s.out \in Frame(MadeIn(s.st)) \cup {NoFrame}
      BY DEF Typed
    <3> HIDE DEF st2
    <3> QED
      BY <3>1, <1>6, FrameGrows
  <2> HIDE DEF st2, d2, s2
  <2> QED
    BY <1>1, <1>3, <1>8, <2>1 DEF Typed
<1>10. /\ d2.got = s.d.got \cup {<<t, n>>} /\ d2.dead = s.d.dead /\ d2.pending = s.d.pending
       /\ d2.fetched = s.d.fetched /\ d2.save = s.d.save
  BY DEF Typed, TabRecord
<1>11. Owns(d2, st2, t)
  <2>1. \A j \in 1 .. n : <<t, j>> \in d2.got
    <3> TAKE j \in 1 .. n
    <3>1. j = n \/ j \in 1 .. Len(s.st[t])
      BY <1>2
    <3> QED
      BY <3>1, <1>10
  <2>2. /\ SeedOnce(st2[t])
        /\ ~(s.d.fetched = TRUE /\ s.d.pending = NoText) => Plain(st2[t])
    BY <1>2, <1>3, AppendOnce
  <2> HIDE DEF d2, st2
  <2> QED
    BY <2>1, <2>2, <1>2, <1>4, <1>10 DEF Owns
<1>12. ASSUME s.blame = {}
       PROVE  Bears(d2, st2)
  <2>1. Held(s.d) \subseteq Held(d2)
    BY <1>10 DEF Held
  <2>2. s.d.dead = {} /\ d2.dead = {}
    BY <1>12, <1>10
  <2>3. CASE text[0] >= 1
    <3>1. \A j \in 1 .. n : <<t, j>> \in d2.got
      BY <1>11, <1>4 DEF Owns
    <3>2. <<t, n>> \in Held(d2)
      BY <3>1, <1>2 DEF Held
    <3>3. st2[<<t, n>>[1]][<<t, n>>[2]][0] >= 1
      BY <2>3, <1>4
    <3> DEFINE k == <<t, n>>
    <3>4. k \in Held(d2) \ d2.dead /\ st2[k[1]][k[2]][0] >= 1
      BY <2>2, <3>2, <3>3
    <3> HIDE DEF d2, st2, k
    <3> QED
      BY <3>4 DEF Bears
  <2>4. CASE Bears(s.d, s.st)
    <3>1. s.d.got \subseteq MadeIn(s.st)
      BY DEF Typed, TabRecord
    <3> HIDE DEF d2, st2
    <3>2. Bears(s.d, st2)
      BY <2>4, <3>1, <1>2, <1>3, <1>5, GrownText
    <3> QED
      BY <2>1, <2>2, <3>2 DEF Bears
  <2> QED
    BY <1>12, <2>3, <2>4
<1>13. Sound(s2, t)
  <2> HIDE DEF d2, st2, s2
  <2> QED
    BY <1>1, <1>9, <1>10, <1>11, <1>12 DEF Sound, SafeDoc
<1>14. m \in Frame(MadeIn(s2.st)) /\ SafeFrame(m)
  BY <1>1, <1>7 DEF Frame, SafeFrame
<1>15. Insert(s, t, text) = Send(s2, m)
  BY DEF Insert
<1>16. Follows(s, s2, t)
  <2> HIDE DEF d2, st2, s2
  <2> QED
    BY <1>1, <1>3, <1>5 DEF Follows
<1>17. Sound(Send(s2, m), t) /\ Follows(s2, Send(s2, m), t)
  <2> HIDE DEF s2, m
  <2> QED
    BY <1>13, <1>14, SendKeeps
<1> HIDE DEF s2, m
<1> QED
  BY <1>9, <1>15, <1>16, <1>17, FollowsTwice DEF Sound

\* Fields that neither the document's text nor what the tab may insert or write
\* depends on.
Minor(d, d2) ==
    /\ d2.loading = d.loading /\ d2.fetched = d.fetched /\ d2.pending = d.pending
    /\ d2.seeded = d.seeded /\ d2.synced = d.synced /\ d2.got = d.got /\ d2.dead = d.dead
    /\ d2.save.at = "sent" => d2.save = d.save

LEMMA MinorDoc ==
  ASSUME NEW d, NEW d2, NEW st, d2.got = d.got, d2.dead = d.dead
  PROVE  Held(d2) = Held(d) /\ TextOf(d2, st) = TextOf(d, st) /\ (Bears(d2, st) <=> Bears(d, st))
<1>1. Held(d2) = Held(d)
  BY DEF Held
<1> QED
  BY <1>1 DEF TextOf, Bears

LEMMA MinorKeeps ==
  ASSUME NEW t \in Tabs, NEW s, Sound(s, t), NEW d2 \in TabRecord(MadeIn(s.st)), Minor(s.d, d2)
  PROVE  Sound([s EXCEPT !.d = d2], t) /\ Follows(s, [s EXCEPT !.d = d2], t)
<1> DEFINE s2 == [s EXCEPT !.d = d2]
<1>1. /\ s2.st = s.st /\ s2.d = d2 /\ s2.out = s.out /\ s2.used = s.used /\ s2.blame = s.blame
  BY DEF Sound, Typed
<1>2. Typed(s2)
  BY DEF Sound, Typed
<1>3. TextOf(d2, s.st) = TextOf(s.d, s.st) /\ (Bears(d2, s.st) <=> Bears(s.d, s.st))
  BY MinorDoc DEF Minor
<1>4. Owns(d2, s.st, t)
  BY DEF Sound, Owns, Minor
<1>5. Sound(s2, t)
  <2> HIDE DEF s2
  <2> QED
    BY <1>1, <1>2, <1>3, <1>4 DEF Sound, SafeDoc, Minor
<1>6. Follows(s, s2, t)
  <2>1. Grown(s.st, s.st)
    BY GrownSame DEF Sound, Typed
  <2> HIDE DEF s2
  <2> QED
    BY <1>1, <2>1 DEF Follows
<1> QED
  BY <1>5, <1>6

LEMMA SyncRequestKeeps ==
  ASSUME NEW t \in Tabs, NEW s, Sound(s, t)
  PROVE  Sound(SyncRequest(s), t) /\ Follows(s, SyncRequest(s), t)
<1>1. Held(s.d) \subseteq MadeIn(s.st)
  BY DEF Held, Sound, Typed, TabRecord
<1>2. [k |-> "s1", sv |-> Held(s.d)] \in Frame(MadeIn(s.st))
  BY <1>1 DEF Frame
<1>3. SafeFrame([k |-> "s1", sv |-> Held(s.d)])
  BY DEF SafeFrame
<1> QED
  BY <1>2, <1>3, SendKeeps DEF SyncRequest

\* _maybeSeed: a text that is there to be inserted holds the file's text, so the
\* document does afterwards.
LEMMA MaybeSeedKeeps ==
  ASSUME NEW t \in Tabs, NEW s, Sound(s, t), NEW force
  PROVE  Sound(MaybeSeed(s, t, force), t) /\ Follows(s, MaybeSeed(s, t, force), t)
<1> DEFINE d2 == [s.d EXCEPT !.pending = NoText, !.seeded = TRUE, !.seedText = s.d.pending,
                             !.fallback = 0]
           s2 == [s EXCEPT !.d = d2]
<1>1. /\ s2.st = s.st /\ s2.d = d2 /\ s2.out = s.out /\ s2.used = s.used /\ s2.blame = s.blame
      /\ s2 = [s EXCEPT !.d.pending = NoText, !.d.seeded = TRUE,
                                 !.d.seedText = s.d.pending, !.d.fallback = 0]
  BY DEF Sound, Typed
<1>2. \/ MaybeSeed(s, t, force) = s
      \/ /\ s.d.pending # NoText
         /\ MaybeSeed(s, t, force) = IF s.d.pending = Empty THEN s2 ELSE Insert(s2, t, s.d.pending)
  <2> HIDE DEF s2, d2
  <2> QED
    BY <1>1 DEF MaybeSeed
<1>3. CASE MaybeSeed(s, t, force) = s
  BY <1>3, FollowsSame DEF Sound
<1>4. CASE /\ s.d.pending # NoText
           /\ MaybeSeed(s, t, force) = IF s.d.pending = Empty THEN s2 ELSE Insert(s2, t, s.d.pending)
  <2>1. s.d \in TabRecord(MadeIn(s.st)) /\ s.d.pending \in Text
    BY <1>4 DEF Sound, Typed, TabRecord, MaybeText
  <2>2. d2 \in TabRecord(MadeIn(s.st))
    BY <2>1 DEF TabRecord, MaybeText
  <2>3. /\ d2.pending = NoText /\ d2.fetched = s.d.fetched /\ d2.got = s.d.got
        /\ d2.dead = s.d.dead /\ d2.save = s.d.save
    BY <2>1 DEF TabRecord
  <2>4. Typed(s2)
    <3> HIDE DEF d2
    <3> QED
      BY <2>2 DEF Sound, Typed
  <2>5. /\ \A j \in 1 .. Len(s.st[t]) : <<t, j>> \in d2.got
        /\ SeedOnce(s.st[t]) /\ Plain(s.st[t]) /\ d2.fetched = TRUE
    <3> HIDE DEF d2
    <3> QED
      BY <1>4, <2>3 DEF Sound, Owns
  <2>6. s.blame = {} => /\ d2.dead = {} /\ SafeFrame(s.out)
                        /\ d2.save.at = "sent" => d2.save.body[0] >= 1
                        /\ s.d.pending[0] >= 1
    <3> HIDE DEF d2
    <3> QED
      BY <1>4, <2>3 DEF Sound, SafeDoc
  <2>8. Follows(s, s2, t)
    <3>1. Grown(s.st, s.st)
      BY GrownSame DEF Sound, Typed
    <3> HIDE DEF s2, d2
    <3> QED
      BY <1>1, <3>1 DEF Follows
  <2>9. CASE s.d.pending = Empty
    <3>1. s.blame # {}
      BY <2>6, <2>9, TokensType DEF Empty
    <3>2. Owns(d2, s.st, t)
      <4> HIDE DEF d2
      <4> QED
        BY <2>3, <2>5 DEF Owns
    <3>3. Sound(s2, t)
      <4> HIDE DEF s2, d2
      <4> QED
        BY <1>1, <2>4, <3>1, <3>2 DEF Sound
    <3> HIDE DEF s2
    <3> QED
      BY <1>4, <2>8, <2>9, <3>3
  <2>10. CASE s.d.pending # Empty
    <3>1. /\ Sound(Insert(s2, t, s.d.pending), t)
          /\ Follows(s2, Insert(s2, t, s.d.pending), t)
      <4> HIDE DEF s2, d2
      <4> QED
        BY <1>1, <2>1, <2>3, <2>4, <2>5, <2>6, InsertKeeps
    <3> HIDE DEF s2
    <3> QED
      BY <1>4, <2>4, <2>8, <2>10, <3>1, FollowsTwice DEF Sound
  <2> QED
    BY <2>9, <2>10
<1> HIDE DEF s2
<1> QED
  BY <1>2, <1>3, <1>4

\* _onOp and the s2 branch: the document bears the file's text or the tab is to
\* blame for calling it synced.
LEMMA SyncedKeeps ==
  ASSUME NEW t \in Tabs, NEW s, Sound(s, t), NEW new \in SUBSET MadeIn(s.st),
         NEW dead \in SUBSET MadeIn(s.st), s.blame = {} => dead = {}
  PROVE  Sound(Synced(s, new, dead), t) /\ Follows(s, Synced(s, new, dead), t)
<1> DEFINE d2 == [Apply(s.d, new, dead) EXCEPT !.synced = TRUE, !.retry = 0]
           b2 == IF TextOf(d2, s.st)[0] = 0 THEN s.blame \cup {"hollow"} ELSE s.blame
           s2 == [s EXCEPT !.d = d2, !.blame = b2]
<1>1. Synced(s, new, dead) = s2
  BY DEF Synced
<1>2. s.d \in TabRecord(MadeIn(s.st))
  BY DEF Sound, Typed
<1>3. d2 \in TabRecord(MadeIn(s.st))
  BY <1>2 DEF TabRecord, Apply
<1>4. /\ d2.got = s.d.got \cup new /\ d2.dead = s.d.dead \cup dead /\ d2.pending = s.d.pending
      /\ d2.fetched = s.d.fetched /\ d2.save = s.d.save
  BY <1>2 DEF TabRecord, Apply
<1>5. b2 \in SUBSET Mistakes /\ s.blame \subseteq b2
  BY DEF Sound, Typed, Mistakes
<1>6. b2 = {} => s.blame = {} /\ TextOf(d2, s.st)[0] # 0
  OBVIOUS
<1> HIDE DEF d2, b2
<1>7. /\ s2.st = s.st /\ s2.d = d2 /\ s2.out = s.out /\ s2.used = s.used /\ s2.blame = b2
  BY DEF Sound, Typed
<1>8. Typed(s2)
  BY <1>3, <1>5 DEF Sound, Typed
<1>9. Owns(d2, s.st, t)
  BY <1>4 DEF Sound, Owns
<1>10. b2 = {} => Bears(d2, s.st)
  <2>1. s.st \in [Tabs -> Seq(Text)] /\ d2.got \subseteq MadeIn(s.st)
    BY <1>3 DEF Sound, Typed, TabRecord
  <2> QED
    BY <1>6, <2>1, TextOfType
<1>11. Sound(s2, t)
  <2> HIDE DEF s2
  <2>1. b2 = {} => SafeDoc(d2, s.st) /\ SafeFrame(s.out)
    BY <1>4, <1>6, <1>10 DEF Sound, SafeDoc
  <2> QED
    BY <1>7, <1>8, <1>9, <2>1 DEF Sound
<1>12. Follows(s, s2, t)
  <2>1. Grown(s.st, s.st)
    BY GrownSame DEF Sound, Typed
  <2> HIDE DEF s2
  <2> QED
    BY <1>5, <1>7, <2>1 DEF Follows
<1> HIDE DEF s2
<1> QED
  BY <1>1, <1>11, <1>12

LEMMA DropSeedKeeps ==
  ASSUME NEW t \in Tabs, NEW s, Sound(s, t)
  PROVE  Sound(DropSeed(s), t) /\ Follows(s, DropSeed(s), t)
<1>1. CASE ~DropsSeed(s)
  BY <1>1, FollowsSame DEF DropSeed, Sound
<1>2. CASE DropsSeed(s)
  <2> DEFINE d2 == [s.d EXCEPT !.dead = @ \cup Held(s.d), !.seeded = FALSE]
             b2 == s.blame \cup {"seed dropped"}
             s2 == [s EXCEPT !.d = d2, !.blame = b2]
  <2>1. DropSeed(s) = s2
    BY <1>2 DEF DropSeed, Sound, Typed
  <2>2. s.d \in TabRecord(MadeIn(s.st)) /\ Held(s.d) \subseteq MadeIn(s.st)
    BY DEF Sound, Typed, TabRecord, Held
  <2>3. d2 \in TabRecord(MadeIn(s.st))
    BY <2>2 DEF TabRecord
  <2>4. d2.got = s.d.got /\ d2.pending = s.d.pending /\ d2.fetched = s.d.fetched
    BY <2>2 DEF TabRecord
  <2>5. b2 \in SUBSET Mistakes /\ s.blame \subseteq b2 /\ b2 # {}
    BY DEF Sound, Typed, Mistakes
  <2> HIDE DEF d2, b2
  <2>6. /\ s2.st = s.st /\ s2.d = d2 /\ s2.out = s.out /\ s2.used = s.used /\ s2.blame = b2
    BY DEF Sound, Typed
  <2>7. Typed(s2)
    BY <2>3, <2>5 DEF Sound, Typed
  <2>8. Owns(d2, s.st, t)
    BY <2>4 DEF Sound, Owns
  <2>9. Grown(s.st, s.st)
    BY GrownSame DEF Sound, Typed
  <2> HIDE DEF s2
  <2>10. Sound(s2, t)
    BY <2>5, <2>6, <2>7, <2>8 DEF Sound
  <2>11. Follows(s, s2, t)
    BY <2>5, <2>6, <2>9 DEF Follows
  <2> QED
    BY <2>1, <2>10, <2>11
<1> QED
  BY <1>1, <1>2

\* A frame of each kind.
LEMMA FrameKinds ==
  ASSUME NEW M, NEW m \in Frame(M)
  PROVE  /\ m.k \in {"welcome", "join", "leave", "s1", "s2", "op", "saved"}
         /\ m.k = "welcome" => m.me \in Ids /\ m.peers \in SUBSET Ids /\ m.ops \in SUBSET M
         /\ m.k \in {"join", "leave"} => m.p \in Ids
         /\ m.k = "s1" => m.sv \in SUBSET M
         /\ m.k = "s2" => m.new \in SUBSET M /\ m.dead \in SUBSET M
         /\ m.k = "op" => m.s \in M
  BY DEF Frame

LEMMA OnWelcomeKeeps ==
  ASSUME NEW t \in Tabs, NEW s, Sound(s, t), NEW m \in Frame(MadeIn(s.st)), m.k = "welcome"
  PROVE  Sound(OnWelcome(s, t, m), t) /\ Follows(s, OnWelcome(s, t, m), t)
<1> DEFINE d1 == [s.d EXCEPT !.welcomed = TRUE, !.me = m.me, !.peers = m.peers]
           s1 == [s EXCEPT !.d = d1]
           s2 == IF m.ops = {} THEN s1 ELSE Synced(s1, m.ops, {})
           s3 == SyncRequest(DropSeed(s2))
           r4 == IF s2.d.synced THEN 0 ELSE s3.d.retry + 1
           f4 == IF Spent(s2.d) THEN 0 ELSE s3.d.fallback + 1
           d4 == [s3.d EXCEPT !.retry = r4, !.fallback = f4]
           s4 == [s3 EXCEPT !.d = d4]
<1>1. m.me \in Ids /\ m.peers \in SUBSET Ids /\ m.ops \in SUBSET MadeIn(s.st)
  BY FrameKinds
<1>2. s1 = [s EXCEPT !.d.welcomed = TRUE, !.d.me = m.me, !.d.peers = m.peers]
  BY DEF Sound, Typed
<1>3. Sound(s1, t) /\ Follows(s, s1, t) /\ s1.st = s.st
  <2>1. s.d \in TabRecord(MadeIn(s.st))
    BY DEF Sound, Typed
  <2>2. d1 \in TabRecord(MadeIn(s.st)) /\ Minor(s.d, d1)
    BY <1>1, <2>1 DEF TabRecord, Minor
  <2> HIDE DEF d1
  <2>3. Sound(s1, t) /\ Follows(s, s1, t)
    BY <2>2, MinorKeeps
  <2> QED
    BY <2>3 DEF Sound, Typed
<1> HIDE DEF s1, d1
<1>4. Sound(s2, t) /\ Follows(s, s2, t)
  <2>1. CASE m.ops = {}
    BY <1>3, <2>1
  <2>2. CASE m.ops # {}
    <3>1. Sound(Synced(s1, m.ops, {}), t) /\ Follows(s1, Synced(s1, m.ops, {}), t)
      BY <1>1, <1>3, SyncedKeeps
    <3>2. Sound(s, t)
      OBVIOUS
    <3> QED
      BY <1>3, <2>2, <3>1, <3>2, FollowsTwice DEF Sound
  <2> QED
    BY <2>1, <2>2
<1>5. OnWelcome(s, t, m) = IF m.peers # {m.me} THEN s4 ELSE MaybeSeed(s2, t, FALSE)
  <2>1. Sound(s3, t)
    <3> HIDE DEF s2
    <3> QED
      BY <1>4, SyncRequestKeeps, DropSeedKeeps
  <2>2. s4 = [s3 EXCEPT !.d.retry = IF s2.d.synced THEN 0 ELSE @ + 1,
                        !.d.fallback = IF Spent(s2.d) THEN 0 ELSE @ + 1]
    <3> HIDE DEF s2, s3
    <3> QED
      BY <2>1 DEF Sound, Typed
  <2>3. OnWelcome(s, t, m) =
          IF m.peers # {m.me}
          THEN [s3 EXCEPT !.d.retry = IF s2.d.synced THEN 0 ELSE @ + 1,
                          !.d.fallback = IF Spent(s2.d) THEN 0 ELSE @ + 1]
          ELSE MaybeSeed(s2, t, FALSE)
    BY <1>2 DEF OnWelcome
  <2> HIDE DEF s1, s2, s3, s4
  <2> QED
    BY <2>2, <2>3, Zenon
<1> HIDE DEF s2
<1>6. Sound(s3, t) /\ Follows(s, s3, t)
  <2>1. Sound(DropSeed(s2), t) /\ Follows(s2, DropSeed(s2), t)
    BY <1>4, DropSeedKeeps
  <2>2. Sound(s3, t) /\ Follows(DropSeed(s2), s3, t)
    BY <2>1, SyncRequestKeeps
  <2> HIDE DEF s3
  <2>3. Follows(s, DropSeed(s2), t)
    BY <1>4, <2>1, FollowsTwice DEF Sound
  <2> QED
    BY <2>1, <2>2, <2>3, FollowsTwice DEF Sound
<1> HIDE DEF s3
<1>7. Sound(s4, t) /\ Follows(s3, s4, t)
  <2>1. s3.d \in TabRecord(MadeIn(s3.st))
    BY <1>6 DEF Sound, Typed
  <2>2. r4 \in Nat /\ f4 \in Nat
    <3>1. s3.d.retry \in Nat /\ s3.d.fallback \in Nat
      BY <2>1 DEF TabRecord
    <3> QED
      BY <3>1
  <2>3. d4 \in TabRecord(MadeIn(s3.st)) /\ Minor(s3.d, d4)
    <3> HIDE DEF r4, f4
    <3> QED
      BY <2>1, <2>2 DEF TabRecord, Minor
  <2> HIDE DEF d4
  <2> QED
    BY <1>6, <2>3, MinorKeeps
<1>8. Follows(s, s4, t)
  <2> HIDE DEF s4
  <2> QED
    BY <1>6, <1>7, FollowsTwice DEF Sound
<1>9. /\ Sound(MaybeSeed(s2, t, FALSE), t) /\ Follows(s, MaybeSeed(s2, t, FALSE), t)
  <2>1. Sound(MaybeSeed(s2, t, FALSE), t) /\ Follows(s2, MaybeSeed(s2, t, FALSE), t)
    BY <1>4, MaybeSeedKeeps
  <2> QED
    BY <1>4, <2>1, FollowsTwice DEF Sound
<1> HIDE DEF s4
<1> QED
  BY <1>5, <1>7, <1>8, <1>9

LEMMA OnJoinKeeps ==
  ASSUME NEW t \in Tabs, NEW s, Sound(s, t), NEW m \in Frame(MadeIn(s.st)), m.k = "join"
  PROVE  Sound(OnJoin(s, m), t) /\ Follows(s, OnJoin(s, m), t)
<1> DEFINE d2 == [s.d EXCEPT !.peers = @ \cup {m.p}]
           s2 == [s EXCEPT !.d = d2]
<1>1. OnJoin(s, m) = s2 \/ OnJoin(s, m) = SyncRequest(s2)
  BY DEF OnJoin, Sound, Typed
<1>2. m.p \in Ids /\ s.d \in TabRecord(MadeIn(s.st))
  BY FrameKinds DEF Sound, Typed
<1>3. d2 \in TabRecord(MadeIn(s.st)) /\ Minor(s.d, d2)
  BY <1>2 DEF TabRecord, Minor
<1> HIDE DEF d2
<1>4. Sound(s2, t) /\ Follows(s, s2, t)
  BY <1>3, MinorKeeps
<1> HIDE DEF s2
<1>5. Sound(SyncRequest(s2), t) /\ Follows(s2, SyncRequest(s2), t)
  BY <1>4, SyncRequestKeeps
<1>6. Follows(s, SyncRequest(s2), t)
  BY <1>4, <1>5, FollowsTwice DEF Sound
<1> QED
  BY <1>1, <1>4, <1>5, <1>6

\* Every frame, if nothing is deleted by it without a mistake.
LEMMA OnMessageKeeps ==
  ASSUME NEW t \in Tabs, NEW s, Sound(s, t), NEW m \in Frame(MadeIn(s.st)),
         s.blame = {} => SafeFrame(m)
  PROVE  Sound(OnMessage(s, t, m), t) /\ Follows(s, OnMessage(s, t, m), t)
<1>1. s.d \in TabRecord(MadeIn(s.st)) /\ s.st \in [Tabs -> Seq(Text)]
  BY DEF Sound, Typed
<1>2. CASE m.k = "welcome"
  BY <1>2, OnWelcomeKeeps DEF OnMessage
<1>3. CASE m.k = "join"
  BY <1>3, OnJoinKeeps DEF OnMessage
<1>4. CASE m.k = "leave"
  <2> DEFINE d2 == [s.d EXCEPT !.peers = @ \ {m.p}]
  <2>1. OnMessage(s, t, m) = [s EXCEPT !.d = d2]
    BY <1>4 DEF OnMessage, Sound, Typed
  <2>2. d2 \in TabRecord(MadeIn(s.st)) /\ Minor(s.d, d2)
    BY <1>1 DEF TabRecord, Minor
  <2> HIDE DEF d2
  <2> QED
    BY <2>1, <2>2, MinorKeeps
<1>5. CASE m.k = "s1"
  <2> DEFINE r == [k |-> "s2", new |-> Missing(s.d, m.sv), dead |-> s.d.dead]
  <2>1. OnMessage(s, t, m) = Send(s, r)
    BY <1>5 DEF OnMessage
  <2>2. Missing(s.d, m.sv) \in SUBSET MadeIn(s.st) /\ s.d.dead \in SUBSET MadeIn(s.st)
    BY <1>1 DEF TabRecord, Missing
  <2>3. r \in Frame(MadeIn(s.st))
    BY <2>2 DEF Frame
  <2>4. s.blame = {} => SafeFrame(r)
    BY DEF Sound, SafeDoc, SafeFrame
  <2> HIDE DEF r
  <2> QED
    BY <2>1, <2>3, <2>4, SendKeeps
<1>6. CASE m.k = "s2"
  <2>1. OnMessage(s, t, m) = Synced(s, m.new, m.dead)
    BY <1>6 DEF OnMessage
  <2>2. m.new \in SUBSET MadeIn(s.st) /\ m.dead \in SUBSET MadeIn(s.st)
    BY <1>6, FrameKinds
  <2>3. s.blame = {} => m.dead = {}
    BY <1>6 DEF SafeFrame
  <2> QED
    BY <2>1, <2>2, <2>3, SyncedKeeps
<1>7. CASE m.k = "op"
  <2>1. OnMessage(s, t, m) = Synced(s, {m.s}, {})
    BY <1>7 DEF OnMessage
  <2>2. {m.s} \in SUBSET MadeIn(s.st) /\ {} \in SUBSET MadeIn(s.st)
    BY <1>7, FrameKinds
  <2> QED
    BY <2>1, <2>2, SyncedKeeps
<1>8. CASE m.k = "saved"
  <2> DEFINE d2 == [s.d EXCEPT !.baseline = TextOf(s.d, s.st)]
  <2>1. OnMessage(s, t, m) = [s EXCEPT !.d = d2]
    BY <1>8 DEF OnMessage, Sound, Typed
  <2>2. TextOf(s.d, s.st) \in Text
    BY <1>1, TextOfType DEF TabRecord
  <2>3. d2 \in TabRecord(MadeIn(s.st)) /\ Minor(s.d, d2)
    BY <1>1, <2>2 DEF TabRecord, Minor, MaybeText
  <2> HIDE DEF d2
  <2> QED
    BY <2>1, <2>3, MinorKeeps
<1> QED
  BY <1>2, <1>3, <1>4, <1>5, <1>6, <1>7, <1>8, FrameKinds

LEMMA UnreachableKeeps ==
  ASSUME NEW t \in Tabs, NEW s, Sound(s, t)
  PROVE  Sound(Unreachable(s, t), t) /\ Follows(s, Unreachable(s, t), t)
<1> DEFINE d2 == [s.d EXCEPT !.offline = TRUE]
           s2 == [s EXCEPT !.d = d2]
<1>1. Unreachable(s, t) = s \/ Unreachable(s, t) = MaybeSeed(s2, t, FALSE)
  BY DEF Unreachable, Sound, Typed
<1>2. s.d \in TabRecord(MadeIn(s.st))
  BY DEF Sound, Typed
<1>3. d2 \in TabRecord(MadeIn(s.st)) /\ Minor(s.d, d2)
  BY <1>2 DEF TabRecord, Minor
<1> HIDE DEF d2
<1>4. Sound(s2, t) /\ Follows(s, s2, t)
  BY <1>3, MinorKeeps
<1> HIDE DEF s2
<1>5. Sound(MaybeSeed(s2, t, FALSE), t) /\ Follows(s2, MaybeSeed(s2, t, FALSE), t)
  BY <1>4, MaybeSeedKeeps
<1>6. Follows(s, MaybeSeed(s2, t, FALSE), t)
  BY <1>4, <1>5, FollowsTwice DEF Sound
<1>7. Follows(s, s, t)
  BY FollowsSame DEF Sound
<1> QED
  BY <1>1, <1>5, <1>6, <1>7

----------------------------------------------------------------------------
(* The end of a handler, and the hub *)

\* s is what a handler of tab t has made of the present state.
Comes(t, s) ==
    /\ Sound(s, t)
    /\ Grown(structs, s.st) /\ \A u \in Tabs \ {t} : s.st[u] = structs[u]
    /\ blame \subseteq s.blame /\ used.edits <= s.used.edits

Streams(q) ==
    /\ q \in [Ids -> Seq(Frame(MadeIn(structs)))]
    /\ blame = {} => AllSafe(q)

LEMMA NowSound ==
  ASSUME Inv, NEW t \in Tabs
  PROVE  Sound(Now(t), t) /\ Comes(t, Now(t))
<1>1. /\ Now(t).d = tab[t] /\ Now(t).st = structs /\ Now(t).out = NoFrame
      /\ Now(t).used = used /\ Now(t).blame = blame
  BY DEF Now
<1>2. Typed(Now(t))
  BY DEF Now, Typed, Inv, Types
<1>3. SafeFrame(NoFrame)
  BY DEF SafeFrame, NoFrame
<1>4. Sound(Now(t), t)
  BY <1>1, <1>2, <1>3 DEF Sound, Inv, Safe
<1>5. Grown(structs, structs)
  BY GrownSame DEF Inv, Types
<1>6. used.edits \in Nat
  BY DEF Inv, Types, Bounds
<1> QED
  BY <1>1, <1>4, <1>5, <1>6 DEF Comes

LEMMA ComesFollows ==
  ASSUME Inv, NEW t \in Tabs, NEW r, NEW s, Comes(t, r), Sound(s, t), Follows(r, s, t)
  PROVE  Comes(t, s)
<1>1. /\ structs \in [Tabs -> Seq(Text)] /\ r.st \in [Tabs -> Seq(Text)] /\ s.st \in [Tabs -> Seq(Text)]
      /\ Grown(structs, r.st) /\ Grown(r.st, s.st)
  BY DEF Comes, Follows, Sound, Typed, Inv, Types
<1>2. Grown(structs, s.st)
  BY <1>1, GrownTwice
<1> QED
  BY <1>2 DEF Comes, Follows

\* Appending to sequences.
LEMMA AppendFrame ==
  ASSUME NEW S, NEW q \in Seq(S), NEW m \in S
  PROVE  /\ Append(q, m) \in Seq(S)
         /\ \A i \in 1 .. Len(Append(q, m)) : Append(q, m)[i] = m \/ (i \in 1 .. Len(q) /\ Append(q, m)[i] = q[i])
  OBVIOUS

LEMMA BroadcastTyped ==
  ASSUME NEW M, NEW q \in [Ids -> Seq(Frame(M))], NEW from, NEW m \in Frame(M)
  PROVE  /\ Broadcast(q, from, m) \in [Ids -> Seq(Frame(M))]
         /\ SafeFrame(m) /\ AllSafe(q) => AllSafe(Broadcast(q, from, m))
<1> DEFINE b == Broadcast(q, from, m)
<1>1. b = [p \in Ids |-> IF p \in peers \ {from} /\ Live(p) THEN Append(q[p], m) ELSE q[p]]
  BY DEF Broadcast
<1>2. \A p \in Ids : b[p] = q[p] \/ b[p] = Append(q[p], m)
  BY <1>1
<1>3. \A p \in Ids : Append(q[p], m) \in Seq(Frame(M)) /\ q[p] \in Seq(Frame(M))
  BY AppendFrame
<1>4. b \in [Ids -> Seq(Frame(M))]
  BY <1>1, <1>3
<1> HIDE DEF b
<1>5. ASSUME SafeFrame(m), AllSafe(q),
             NEW p \in Ids, NEW i \in 1 .. Len(b[p])
      PROVE  SafeFrame(b[p][i])
  <2>1. CASE b[p] = q[p]
    BY <1>5, <2>1 DEF AllSafe
  <2>2. CASE b[p] = Append(q[p], m)
    <3>1. q[p] \in Seq(Frame(M))
      OBVIOUS
    <3>2. b[p][i] = m \/ (i \in 1 .. Len(q[p]) /\ b[p][i] = q[p][i])
      BY <2>2, <3>1, AppendFrame
    <3> QED
      BY <1>5, <3>2 DEF AllSafe
  <2> QED
    BY <1>2, <2>1, <2>2
<1>6. SafeFrame(m) /\ AllSafe(q) => AllSafe(b)
  BY <1>5 DEF AllSafe
<1> QED
  BY <1>4, <1>6 DEF b

LEMMA PushBacklogTyped ==
  ASSUME NEW M, backlog \in Seq(M), Len(backlog) <= OpBacklog, NEW k \in M
  PROVE  PushBacklog(k) \in Seq(M) /\ Len(PushBacklog(k)) <= OpBacklog
<1>1. OpBacklog \in Nat /\ OpBacklog # 0 /\ Len(backlog) \in Nat
  OBVIOUS
<1>2. CASE Len(backlog) = OpBacklog
  <2>1. Tail(backlog) \in Seq(M) /\ Len(Tail(backlog)) = Len(backlog) - 1
    BY <1>1, <1>2
  <2>2. Append(Tail(backlog), k) \in Seq(M) /\ Len(Append(Tail(backlog), k)) = Len(backlog)
    BY <2>1, <1>1
  <2> QED
    BY <1>2, <2>2 DEF PushBacklog
<1>3. CASE Len(backlog) # OpBacklog
  <2>1. Append(backlog, k) \in Seq(M) /\ Len(Append(backlog, k)) = Len(backlog) + 1
    BY <1>1
  <2> QED
    BY <1>1, <1>3, <2>1 DEF PushBacklog
<1> QED
  BY <1>2, <1>3

LEMMA SeqGrows ==
  ASSUME NEW S, NEW T, S \subseteq T, NEW q \in Seq(S)
  PROVE  q \in Seq(T)
  OBVIOUS

LEMMA StreamsGrow ==
  ASSUME NEW M, NEW M2, M \subseteq M2, NEW q \in [Ids -> Seq(Frame(M))]
  PROVE  q \in [Ids -> Seq(Frame(M2))]
<1>1. Frame(M) \subseteq Frame(M2)
  BY FrameGrows
<1> HIDE DEF Frame
<1>2. \A p \in Ids : q[p] \in Seq(Frame(M2))
  BY <1>1, SeqGrows
<1> QED
  BY <1>2

LEMMA OneEvent ==
  ASSUME NEW u \in Bounds
  PROVE  [u EXCEPT !.events = @ + 1] \in Bounds /\ [u EXCEPT !.events = @ + 1].edits = u.edits
  BY DEF Bounds

\* The hub takes what the handler sent.
LEMMA RelayKeeps ==
  ASSUME Inv, NEW t \in Tabs, NEW s, Comes(t, s), NEW q, Streams(q), Relay(s, q)
  PROVE  /\ backlog' \in Seq(MadeIn(s.st)) /\ Len(backlog') <= OpBacklog
         /\ down' \in [Ids -> Seq(Frame(MadeIn(s.st)))]
         /\ used' \in Bounds /\ used'.edits = s.used.edits
         /\ blame' \in SUBSET Mistakes /\ s.blame \subseteq blame'
         /\ blame' = {} => AllSafe(down')
<1> DEFINE M == MadeIn(s.st)
           m == s.out
<1>1. /\ Typed(s) /\ s.used \in Bounds /\ s.blame \in SUBSET Mistakes /\ m \in Frame(M) \cup {NoFrame}
      /\ blame \subseteq s.blame
      /\ s.blame = {} => SafeFrame(m)
  BY DEF Comes, Sound, Typed
<1>2. MadeIn(structs) \subseteq M
  BY <1>1, GrownMade DEF Comes, Typed, Inv, Types
<1>3. q \in [Ids -> Seq(Frame(M))]
  BY <1>2, StreamsGrow DEF Streams
<1>4. backlog \in Seq(M) /\ Len(backlog) <= OpBacklog
  <2>1. backlog \in Seq(MadeIn(structs)) /\ Len(backlog) <= OpBacklog
    BY DEF Inv, Types
  <2> HIDE DEF M
  <2> QED
    BY <1>2, <2>1, SeqGrows
<1>5. s.blame = {} => AllSafe(q)
  BY <1>1 DEF Streams
<1> HIDE DEF M, m
<1>6. CASE /\ m # NoFrame /\ ~s.d.cut
           /\ down' = Broadcast(q, s.d.link, m)
           /\ backlog' = IF m.k = "op" THEN PushBacklog(m.s) ELSE backlog
           /\ used' = s.used /\ blame' = s.blame
  <2>1. m \in Frame(M)
    BY <1>1, <1>6
  <2>2. down' \in [Ids -> Seq(Frame(M))]
    BY <1>3, <1>6, <2>1, BroadcastTyped
  <2>3. s.blame = {} => AllSafe(down')
    BY <1>1, <1>3, <1>5, <1>6, <2>1, BroadcastTyped
  <2>4. backlog' \in Seq(M) /\ Len(backlog') <= OpBacklog
    <3>1. CASE m.k = "op"
      <4>1. m.s \in M
        BY <2>1, <3>1, FrameKinds
      <4> QED
        BY <1>4, <1>6, <3>1, <4>1, PushBacklogTyped
    <3>2. CASE m.k # "op"
      BY <1>4, <1>6, <3>2
    <3> QED
      BY <3>1, <3>2
  <2> QED
    BY <1>1, <1>6, <2>2, <2>3, <2>4 DEF M
<1>7. CASE down' = q /\ used' = s.used /\ blame' = s.blame /\ backlog' = backlog
  BY <1>1, <1>3, <1>4, <1>5, <1>7 DEF M
<1>8. CASE /\ down' = q /\ used' = [s.used EXCEPT !.events = @ + 1]
           /\ blame' = s.blame \cup {"op refused"} /\ backlog' = backlog
  <2>1. used' \in Bounds /\ used'.edits = s.used.edits
    BY <1>1, <1>8, OneEvent
  <2>2. blame' \in SUBSET Mistakes /\ s.blame \subseteq blame' /\ blame' # {}
    BY <1>1, <1>8 DEF Mistakes
  <2> QED
    BY <1>3, <1>4, <1>8, <2>1, <2>2 DEF M
<1> QED
  BY <1>6, <1>7, <1>8 DEF Relay, m

\* A tab record with the loading screen l and the unsaved mark w.
Screened(d, l, w) == [d EXCEPT !.loading = l, !.unsaved = w]

\* The document after the handler, with the loading screen gone if it is hydrated.
LEMMA DoneKeeps ==
  ASSUME NEW t \in Tabs, NEW s, Sound(s, t), NEW l \in BOOLEAN, NEW w \in BOOLEAN,
         NEW d, d = Screened(s.d, l, w),
         l = FALSE => s.d.loading = FALSE \/ Hydrated(s.d, s.st)
  PROVE  /\ d \in TabRecord(MadeIn(s.st))
         /\ Owns(d, s.st, t)
         /\ s.blame = {} => SafeDoc(d, s.st)
<1>1. s.d \in TabRecord(MadeIn(s.st))
  BY DEF Sound, Typed
<1>2. /\ s.d.loading \in BOOLEAN /\ s.d.seeded \in BOOLEAN /\ s.d.synced \in BOOLEAN
  BY <1>1 DEF TabRecord
<1>3. /\ d \in TabRecord(MadeIn(s.st))
      /\ d.loading = l /\ d.fetched = s.d.fetched /\ d.pending = s.d.pending
      /\ d.seeded = s.d.seeded /\ d.synced = s.d.synced /\ d.got = s.d.got
      /\ d.dead = s.d.dead /\ d.save = s.d.save
  BY <1>1 DEF TabRecord, Screened
<1>4. Owns(d, s.st, t)
  BY <1>3 DEF Sound, Owns
<1>5. TextOf(d, s.st) = TextOf(s.d, s.st) /\ (Bears(d, s.st) <=> Bears(s.d, s.st))
  BY <1>3, MinorDoc
<1>6. l = FALSE => \/ s.d.loading = FALSE \/ s.d.seeded = TRUE \/ s.d.synced = TRUE
                   \/ TextOf(s.d, s.st) # Empty
  BY <1>2 DEF Hydrated, IsEmpty
<1>7. s.blame = {} => SafeDoc(d, s.st)
  BY <1>3, <1>5, <1>6 DEF Sound, SafeDoc
<1> QED
  BY <1>3, <1>4, <1>7

\* What a handler of one tab leaves, for the whole system.
LEMMA DoesKeeps ==
  ASSUME Inv, NEW t \in Tabs, NEW s, Comes(t, s), NEW q, Streams(q), Does(t, s, q),
         drive' = drive
  PROVE  Inv'
<1> DEFINE l == s.d.loading /\ ~(s.d.fetched /\ Hydrated(s.d, s.st))
           w == s.d.unsaved \/ (IsDirty(s.d, s.st) /\ ~IsDirty(tab[t], structs))
           d == [s.d EXCEPT !.loading = l, !.unsaved = w]
<1>1. /\ tab' = [tab EXCEPT ![t] = d] /\ structs' = s.st /\ Relay(s, q)
      /\ peers' = peers /\ next' = next
  BY DEF Does
<1>2. /\ backlog' \in Seq(MadeIn(s.st)) /\ Len(backlog') <= OpBacklog
      /\ down' \in [Ids -> Seq(Frame(MadeIn(s.st)))]
      /\ used' \in Bounds /\ used'.edits = s.used.edits
      /\ blame' \in SUBSET Mistakes /\ s.blame \subseteq blame'
      /\ blame' = {} => AllSafe(down')
  BY <1>1, RelayKeeps
<1>3. /\ Sound(s, t) /\ s.st \in [Tabs -> Seq(Text)] /\ structs \in [Tabs -> Seq(Text)]
      /\ Grown(structs, s.st)
      /\ MadeIn(structs) \subseteq MadeIn(s.st)
  BY GrownMade DEF Comes, Sound, Typed, Inv, Types
<1>4. w \in BOOLEAN
  OBVIOUS
<1>5. /\ d \in TabRecord(MadeIn(s.st)) /\ Owns(d, s.st, t)
      /\ s.blame = {} => SafeDoc(d, s.st)
  <2>1. l \in BOOLEAN /\ (l = FALSE => s.d.loading = FALSE \/ Hydrated(s.d, s.st))
    <3>1. s.d.loading \in BOOLEAN
      BY <1>3 DEF Sound, Typed, TabRecord
    <3> QED
      BY <3>1
  <2>2. d = Screened(s.d, l, w)
    BY Zenon DEF Screened
  <2> HIDE DEF d, l, w
  <2> QED
    BY <1>3, <1>4, <2>1, <2>2, DoneKeeps
<1> HIDE DEF d, l, w
<1>6. /\ tab \in [Tabs -> TabRecord(MadeIn(structs))]
      /\ \A u \in Tabs : tab[u] \in TabRecord(MadeIn(s.st))
  BY <1>3, TabGrows DEF Inv, Types
<1>7. /\ tab' \in [Tabs -> TabRecord(MadeIn(s.st))] /\ tab'[t] = d
      /\ \A u \in Tabs \ {t} : tab'[u] = tab[u]
  BY <1>1, <1>5, <1>6
<1>8. Types'
  BY <1>1, <1>2, <1>3, <1>7 DEF Types, Inv, drive
<1>9. ASSUME NEW u \in Tabs
      PROVE  Owns(tab'[u], structs', u)
  <2>1. CASE u = t
    BY <1>1, <1>2, <1>5, <1>7, <2>1
  <2>2. CASE u # t
    <3>1. tab'[u] = tab[u] /\ structs'[u] = structs[u] /\ Owns(tab[u], structs, u)
      BY <1>1, <1>7, <2>2 DEF Inv, Comes
    <3> QED
      BY <3>1 DEF Owns
  <2> QED
    BY <2>1, <2>2
<1>10. ASSUME blame' = {}
       PROVE  Safe'
  <2>1. s.blame = {} /\ blame = {}
    BY <1>2, <1>10 DEF Comes
  <2>2. Safe
    BY <2>1 DEF Inv
  <2>3. ASSUME NEW u \in Tabs
        PROVE  SafeDoc(tab'[u], structs')
    <3>1. CASE u = t
      BY <1>1, <1>5, <1>7, <2>1, <3>1
    <3>2. CASE u # t
      <4>1. tab[u].got \subseteq MadeIn(structs)
        BY <1>6 DEF TabRecord
      <4>2. TextOf(tab[u], s.st) = TextOf(tab[u], structs)
            /\ (Bears(tab[u], s.st) <=> Bears(tab[u], structs))
        BY <1>3, <4>1, GrownText
      <4>3. SafeDoc(tab[u], structs)
        BY <2>2 DEF Safe
      <4>4. SafeDoc(tab[u], s.st)
        BY <4>2, <4>3 DEF SafeDoc
      <4> QED
        BY <1>1, <1>7, <3>2, <4>4
    <3> QED
      BY <3>1, <3>2
  <2>4. AllSafe(down')
    BY <1>2, <1>10
  <2> QED
    BY <2>2, <2>3, <2>4 DEF Safe, drive
<1> QED
  BY <1>8, <1>9, <1>10 DEF Inv

----------------------------------------------------------------------------
(* Steps of a tab *)

LEMMA UsedKeeps ==
  ASSUME Inv, NEW t \in Tabs, NEW s, Comes(t, s), NEW u \in Bounds, s.used.edits <= u.edits
  PROVE  /\ Comes(t, [s EXCEPT !.used = u])
         /\ [s EXCEPT !.used = u].d = s.d /\ [s EXCEPT !.used = u].st = s.st
         /\ [s EXCEPT !.used = u].used = u /\ [s EXCEPT !.used = u].blame = s.blame
         /\ [s EXCEPT !.used = u].out = s.out
<1> DEFINE s2 == [s EXCEPT !.used = u]
<1>1. /\ s2.st = s.st /\ s2.d = s.d /\ s2.out = s.out /\ s2.used = u /\ s2.blame = s.blame
  BY DEF Comes, Sound, Typed
<1>2. Typed(s2)
  BY DEF Comes, Sound, Typed
<1>3. s.used.edits \in Nat /\ u.edits \in Nat /\ used.edits \in Nat
  BY DEF Comes, Sound, Typed, Bounds, Inv, Types
<1>4. Owns(s.d, s.st, t)
  BY DEF Comes, Sound
<1> HIDE DEF s2
<1>5. Sound(s2, t)
  BY <1>1, <1>2, <1>4 DEF Comes, Sound
<1>6. Comes(t, s2)
  BY <1>1, <1>3, <1>5 DEF Comes
<1> QED
  BY <1>1, <1>6 DEF s2

LEMMA CountedBounds ==
  ASSUME Inv
  PROVE  /\ Counted \in Bounds /\ Counted.edits = used.edits
         /\ used.edits \in Nat /\ used.edits <= MaxEdits
  BY OneEvent DEF Counted, Inv, Types, Bounds

LEMMA DownStreams ==
  ASSUME Inv
  PROVE  Streams(down)
  BY DEF Inv, Types, Safe, Streams

LEMMA TabTyped ==
  ASSUME Inv, NEW t \in Tabs
  PROVE  /\ tab[t] \in TabRecord(MadeIn(structs)) /\ structs \in [Tabs -> Seq(Text)]
         /\ tab[t].got \subseteq MadeIn(structs)
         /\ Owns(tab[t], structs, t)
         /\ blame = {} => SafeDoc(tab[t], structs)
         /\ Now(t).d = tab[t] /\ Now(t).st = structs /\ Now(t).out = NoFrame
         /\ Now(t).used = used /\ Now(t).blame = blame
  BY DEF Inv, Types, Safe, Now, TabRecord

\* A handler that starts by writing minor fields.
LEMMA MinorComes ==
  ASSUME Inv, NEW t \in Tabs, NEW s, Comes(t, s), NEW d2 \in TabRecord(MadeIn(s.st)), Minor(s.d, d2)
  PROVE  Comes(t, [s EXCEPT !.d = d2])
  BY MinorKeeps, ComesFollows DEF Comes

LEMMA FetchedKeeps ==
  ASSUME Inv, NEW t \in Tabs, Fetched(t)
  PROVE  Inv'
<1>1. PICK body \in past :
         Does(t, MaybeSeed([Now(t) EXCEPT !.d = [tab[t] EXCEPT !.fetched = TRUE, !.baseline = body,
                                                              !.pending = body]], t, FALSE), down)
  BY DEF Fetched, Now
<1> DEFINE d2 == [tab[t] EXCEPT !.fetched = TRUE, !.baseline = body, !.pending = body]
           s2 == [Now(t) EXCEPT !.d = d2]
<1>2. /\ body \in Text /\ body # NoText /\ ~tab[t].fetched /\ drive' = drive
      /\ blame = {} => body[0] >= 1
  BY Texts DEF Inv, Types, Safe, Fetched
<1>13. Does(t, MaybeSeed(s2, t, FALSE), down)
  BY <1>1
<1>3. tab[t] \in TabRecord(MadeIn(structs))
  BY TabTyped
<1>4. /\ d2 \in TabRecord(MadeIn(structs))
      /\ d2.fetched = TRUE /\ d2.pending = body /\ d2.got = tab[t].got /\ d2.dead = tab[t].dead
      /\ d2.seeded = tab[t].seeded /\ d2.synced = tab[t].synced /\ d2.loading = tab[t].loading
      /\ d2.save = tab[t].save
  BY <1>2, <1>3 DEF TabRecord, MaybeText
<1> HIDE DEF d2
<1>5. /\ s2.st = structs /\ s2.d = d2 /\ s2.out = NoFrame /\ s2.used = used /\ s2.blame = blame
  BY DEF Now
<1>6. Typed(s2)
  BY <1>4, TabTyped DEF Typed, Now, Inv, Types
<1>7. Owns(d2, structs, t)
  BY <1>2, <1>4, TabTyped DEF Owns
<1>8. blame = {} => SafeDoc(d2, structs)
  <2>1. TextOf(d2, structs) = TextOf(tab[t], structs) /\ (Bears(d2, structs) <=> Bears(tab[t], structs))
    BY <1>4, MinorDoc
  <2> QED
    BY <1>2, <1>4, <2>1 DEF Inv, Safe, SafeDoc
<1>9. Grown(structs, structs) /\ used.edits \in Nat
  BY GrownSame, TabTyped, CountedBounds
<1> HIDE DEF s2
<1>10. Sound(s2, t)
  BY <1>5, <1>6, <1>7, <1>8 DEF Sound, SafeFrame, NoFrame
<1>11. Comes(t, s2)
  BY <1>5, <1>9, <1>10 DEF Comes
<1>12. Comes(t, MaybeSeed(s2, t, FALSE))
  BY <1>10, <1>11, MaybeSeedKeeps, ComesFollows
<1> QED
  BY <1>2, <1>12, <1>13, DownStreams, DoesKeeps

LEMMA HydrateTimeoutKeeps ==
  ASSUME Inv, NEW t \in Tabs, HydrateTimeout(t)
  PROVE  Inv'
<1> DEFINE d2 == [tab[t] EXCEPT !.loading = FALSE]
           b2 == blame \cup {"not hydrated"}
           s2 == [Now(t) EXCEPT !.d = d2, !.used = Counted, !.blame = b2]
<1>1. Does(t, s2, down) /\ drive' = drive
  BY DEF HydrateTimeout, Now
<1>2. tab[t] \in TabRecord(MadeIn(structs))
  BY TabTyped
<1>3. /\ d2 \in TabRecord(MadeIn(structs))
      /\ d2.fetched = tab[t].fetched /\ d2.pending = tab[t].pending /\ d2.got = tab[t].got
  BY <1>2 DEF TabRecord
<1>4. b2 \in SUBSET Mistakes /\ blame \subseteq b2 /\ b2 # {}
  BY DEF Inv, Types, Mistakes
<1> HIDE DEF d2, b2
<1>5. /\ s2.st = structs /\ s2.d = d2 /\ s2.out = NoFrame /\ s2.used = Counted /\ s2.blame = b2
  BY DEF Now
<1>6. Typed(s2)
  BY <1>3, <1>4, TabTyped, CountedBounds DEF Typed, Now
<1>7. Owns(d2, structs, t)
  BY <1>3, TabTyped DEF Owns
<1>8. Grown(structs, structs)
  BY GrownSame, TabTyped
<1> HIDE DEF s2
<1>9. Sound(s2, t)
  BY <1>4, <1>5, <1>6, <1>7, CountedBounds DEF Sound
<1>10. Comes(t, s2)
  BY <1>4, <1>5, <1>8, <1>9, CountedBounds DEF Comes
<1> QED
  BY <1>1, <1>10, DownStreams, DoesKeeps

LEMMA TypeKeeps ==
  ASSUME Inv, NEW t \in Tabs, Type(t)
  PROVE  Inv'
<1> DEFINE u2 == [used EXCEPT !.edits = @ + 1]
           s2 == [Now(t) EXCEPT !.used = u2]
           text == Only(used.edits + 1)
<1>1. /\ ~tab[t].loading /\ used.edits < MaxEdits /\ drive' = drive
      /\ Does(t, Insert(s2, t, text), down)
  BY DEF Type, Now
<1>2. used \in Bounds /\ used.edits \in Nat
  BY CountedBounds DEF Inv, Types
<1>3. u2 \in Bounds /\ u2.edits = used.edits + 1 /\ used.edits <= u2.edits
  BY <1>1, <1>2 DEF Bounds
<1>4. text \in Text /\ text[0] = 0
  BY <1>1, <1>2, Texts, TokensType DEF Only, Empty
<1> HIDE DEF u2, text
<1>5. /\ Comes(t, s2) /\ s2.st = structs /\ s2.d = tab[t] /\ s2.out = NoFrame /\ s2.used = u2
      /\ s2.blame = blame
  BY <1>3, NowSound, TabTyped, UsedKeeps
<1> HIDE DEF s2
<1>6. Typed(s2)
  BY <1>5, TabTyped DEF Comes, Sound
<1>7. /\ \A j \in 1 .. Len(structs[t]) : <<t, j>> \in tab[t].got
      /\ SeedOnce(structs[t])
      /\ ~(tab[t].fetched = TRUE /\ tab[t].pending = NoText) => Plain(structs[t])
      /\ tab[t].pending # NoText => tab[t].fetched = TRUE
  <2>1. Owns(tab[t], structs, t)
    BY TabTyped
  <2> QED
    BY <1>2, <1>6, <2>1 DEF Owns
<1>8. blame = {} => /\ tab[t].dead = {} /\ SafeFrame(NoFrame)
                    /\ tab[t].pending # NoText => tab[t].pending[0] >= 1
                    /\ tab[t].save.at = "sent" => tab[t].save.body[0] >= 1
                    /\ Bears(tab[t], structs)
  <2>1. tab[t].loading = FALSE
    BY <1>1, TabTyped DEF TabRecord
  <2>2. SafeFrame(NoFrame)
    BY DEF SafeFrame, NoFrame
  <2> QED
    BY <2>1, <2>2, TabTyped DEF SafeDoc
<1>9. Sound(Insert(s2, t, text), t) /\ Follows(s2, Insert(s2, t, text), t)
  BY <1>3, <1>4, <1>5, <1>6, <1>7, <1>8, InsertKeeps
<1>10. Comes(t, Insert(s2, t, text))
  BY <1>5, <1>9, ComesFollows
<1> QED
  BY <1>1, <1>10, DownStreams, DoesKeeps

LEMMA SaveKeeps ==
  ASSUME Inv, NEW t \in Tabs, Save(t)
  PROVE  Inv'
<1> DEFINE b  == TextOf(tab[t], structs)
           d2 == [tab[t] EXCEPT !.save = [at |-> "sent", body |-> b]]
           s1 == [Now(t) EXCEPT !.used = Counted]
           s2 == [s1 EXCEPT !.d = d2]
<1>1. Hydrated(tab[t], structs) /\ Does(t, s2, down) /\ drive' = drive
  <2>1. s2 = [Now(t) EXCEPT !.used = Counted,
                            !.d.save = [at |-> "sent", body |-> TextOf(tab[t], structs)]]
    BY DEF Now
  <2> HIDE DEF s2
  <2> QED
    BY <2>1 DEF Save
<1>2. tab[t] \in TabRecord(MadeIn(structs))
  BY TabTyped
<1>3. b \in Text /\ (Bears(tab[t], structs) => b[0] >= 1)
  BY TabTyped, TextOfType
<1> HIDE DEF b
<1>4. /\ d2 \in TabRecord(MadeIn(structs))
      /\ d2.fetched = tab[t].fetched /\ d2.pending = tab[t].pending /\ d2.got = tab[t].got
      /\ d2.dead = tab[t].dead /\ d2.seeded = tab[t].seeded /\ d2.synced = tab[t].synced
      /\ d2.loading = tab[t].loading /\ d2.save = [at |-> "sent", body |-> b]
  BY <1>2, <1>3 DEF TabRecord, SaveRecord
<1> HIDE DEF d2
<1>5. /\ Comes(t, s1) /\ s1.st = structs /\ s1.d = tab[t] /\ s1.out = NoFrame
      /\ s1.used = Counted /\ s1.blame = blame
  BY NowSound, TabTyped, UsedKeeps, CountedBounds
<1> HIDE DEF s1
<1>6. /\ s2.st = structs /\ s2.d = d2 /\ s2.out = NoFrame /\ s2.used = Counted /\ s2.blame = blame
  BY <1>5 DEF Comes, Sound, Typed
<1>7. Typed(s2)
  BY <1>4, <1>5 DEF Comes, Sound, Typed
<1>8. Owns(d2, structs, t)
  BY <1>4, TabTyped DEF Owns
<1>9. blame = {} => SafeDoc(d2, structs)
  <2>1. TextOf(d2, structs) = TextOf(tab[t], structs) /\ (Bears(d2, structs) <=> Bears(tab[t], structs))
    BY <1>4, MinorDoc
  <2>2. tab[t].seeded = TRUE \/ tab[t].synced = TRUE \/ TextOf(tab[t], structs) # Empty
    BY <1>1, <1>2 DEF Hydrated, IsEmpty, TabRecord
  <2>3. blame = {} => SafeDoc(tab[t], structs) /\ Bears(tab[t], structs)
    BY <2>2, TabTyped DEF SafeDoc
  <2> QED
    BY <1>3, <1>4, <2>1, <2>3 DEF SafeDoc
<1> HIDE DEF s2
<1>10. Sound(s2, t)
  BY <1>6, <1>7, <1>8, <1>9, CountedBounds DEF Sound, SafeFrame, NoFrame
<1>11. Comes(t, s2)
  BY <1>5, <1>6, <1>10 DEF Comes
<1> QED
  BY <1>1, <1>11, DownStreams, DoesKeeps

LEMMA SaveReturnsKeeps ==
  ASSUME Inv, NEW t \in Tabs, SaveReturns(t)
  PROVE  Inv'
<1> DEFINE d2 == [tab[t] EXCEPT !.baseline = tab[t].save.body, !.save = Idle, !.unsaved = FALSE]
           s2 == [Now(t) EXCEPT !.d = d2]
           m  == [k |-> "saved"]
<1>1. Does(t, Send(s2, m), down) /\ drive' = drive /\ tab[t].save.at = "written"
  BY DEF SaveReturns, Now
<1>2. tab[t] \in TabRecord(MadeIn(structs)) /\ tab[t].save.body \in MaybeText
  BY TabTyped DEF TabRecord, SaveRecord, MaybeText
<1>3. d2 \in TabRecord(MadeIn(structs)) /\ Minor(tab[t], d2)
  BY <1>2 DEF TabRecord, SaveRecord, Minor, Idle
<1> HIDE DEF d2
<1>4. Comes(t, s2) /\ Sound(s2, t)
  <2>1. Comes(t, s2)
    BY <1>3, NowSound, TabTyped, MinorComes
  <2> QED
    BY <2>1 DEF Comes
<1> HIDE DEF s2
<1>5. m \in Frame(MadeIn(s2.st)) /\ SafeFrame(m)
  BY DEF Frame, SafeFrame
<1> HIDE DEF m
<1>6. Comes(t, Send(s2, m))
  BY <1>4, <1>5, SendKeeps, ComesFollows
<1> QED
  BY <1>1, <1>6, DownStreams, DoesKeeps

LEMMA SaveFailsKeeps ==
  ASSUME Inv, NEW t \in Tabs, SaveFails(t)
  PROVE  Inv'
<1> DEFINE d2 == [tab[t] EXCEPT !.save = Idle]
           s2 == [Now(t) EXCEPT !.d = d2]
<1>1. Does(t, s2, down) /\ drive' = drive
  BY DEF SaveFails, Now
<1>2. tab[t] \in TabRecord(MadeIn(structs))
  BY TabTyped
<1>3. d2 \in TabRecord(MadeIn(structs)) /\ Minor(tab[t], d2)
  BY <1>2 DEF TabRecord, SaveRecord, Minor, Idle
<1> HIDE DEF d2
<1>4. Comes(t, s2)
  BY <1>3, NowSound, TabTyped, MinorComes
<1> HIDE DEF s2
<1> QED
  BY <1>1, <1>4, DownStreams, DoesKeeps

LEMMA SyncRetryKeeps ==
  ASSUME Inv, NEW t \in Tabs, SyncRetry(t)
  PROVE  Inv'
<1> DEFINE d2 == [tab[t] EXCEPT !.retry = @ - 1]
           s2 == [Now(t) EXCEPT !.d = d2]
<1>1. Does(t, SyncRequest(s2), down) /\ drive' = drive /\ tab[t].retry > 0
  BY DEF SyncRetry, Now
<1>2. tab[t] \in TabRecord(MadeIn(structs)) /\ tab[t].retry - 1 \in Nat
  BY <1>1, TabTyped DEF TabRecord
<1>3. d2 \in TabRecord(MadeIn(structs)) /\ Minor(tab[t], d2)
  BY <1>2 DEF TabRecord, Minor
<1> HIDE DEF d2
<1>4. Comes(t, s2) /\ Sound(s2, t)
  <2>1. Comes(t, s2)
    BY <1>3, NowSound, TabTyped, MinorComes
  <2> QED
    BY <2>1 DEF Comes
<1> HIDE DEF s2
<1>5. Comes(t, SyncRequest(s2))
  BY <1>4, SyncRequestKeeps, ComesFollows
<1> QED
  BY <1>1, <1>5, DownStreams, DoesKeeps

LEMMA SeedFallbackKeeps ==
  ASSUME Inv, NEW t \in Tabs, SeedFallback(t)
  PROVE  Inv'
<1> DEFINE d2 == [tab[t] EXCEPT !.fallback = @ - 1]
           s2 == [Now(t) EXCEPT !.d = d2]
<1>1. Does(t, MaybeSeed(s2, t, TRUE), down) /\ drive' = drive /\ tab[t].fallback > 0
  BY DEF SeedFallback, Now
<1>2. tab[t] \in TabRecord(MadeIn(structs)) /\ tab[t].fallback - 1 \in Nat
  BY <1>1, TabTyped DEF TabRecord
<1>3. d2 \in TabRecord(MadeIn(structs)) /\ Minor(tab[t], d2)
  BY <1>2 DEF TabRecord, Minor
<1> HIDE DEF d2
<1>4. Comes(t, s2) /\ Sound(s2, t)
  <2>1. Comes(t, s2)
    BY <1>3, NowSound, TabTyped, MinorComes
  <2> QED
    BY <2>1 DEF Comes
<1> HIDE DEF s2
<1>5. Comes(t, MaybeSeed(s2, t, TRUE))
  BY <1>4, MaybeSeedKeeps, ComesFollows
<1> QED
  BY <1>1, <1>5, DownStreams, DoesKeeps

LEMMA TabTakesKeeps ==
  ASSUME Inv, NEW t \in Tabs, TabTakes(t)
  PROVE  Inv'
<1> DEFINE p == tab[t].link
           q == [down EXCEPT ![p] = Tail(@)]
           m == Head(down[p])
           M == MadeIn(structs)
<1>1. /\ p # 0 /\ down[p] # << >> /\ drive' = drive
      /\ Does(t, OnMessage(Now(t), t, m), q)
  BY DEF TabTakes
<1>2. p \in Ids
  BY <1>1, TabTyped DEF TabRecord
<1>3. down \in [Ids -> Seq(Frame(M))] /\ (blame = {} => AllSafe(down))
  BY DEF Inv, Types, Safe
<1> HIDE DEF p, M
<1>4. /\ down[p] \in Seq(Frame(M)) /\ Len(down[p]) >= 1 /\ Len(down[p]) \in Nat
      /\ m \in Frame(M) /\ m = down[p][1]
      /\ Tail(down[p]) \in Seq(Frame(M)) /\ Len(Tail(down[p])) = Len(down[p]) - 1
      /\ \A i \in 1 .. Len(Tail(down[p])) : Tail(down[p])[i] = down[p][i + 1]
  BY <1>1, <1>2, <1>3
<1>5. q \in [Ids -> Seq(Frame(M))] /\ q[p] = Tail(down[p]) /\ \A r \in Ids \ {p} : q[r] = down[r]
  BY <1>2, <1>3, <1>4
<1>6. ASSUME blame = {}
      PROVE  AllSafe(q) /\ SafeFrame(m)
  <2>1. AllSafe(down)
    BY <1>3, <1>6
  <2>2. SafeFrame(m)
    BY <1>2, <1>4, <2>1 DEF AllSafe
  <2>3. ASSUME NEW r \in Ids, NEW i \in 1 .. Len(q[r])
        PROVE  SafeFrame(q[r][i])
    <3> HIDE DEF q
    <3>1. CASE r = p
      <4>1. i + 1 \in 1 .. Len(down[p]) /\ q[r][i] = down[p][i + 1]
        <5>1. q[r] = Tail(down[p]) /\ i \in 1 .. Len(Tail(down[p]))
          BY <1>5, <3>1
        <5>2. i \in Nat /\ i >= 1 /\ i <= Len(down[p]) - 1
          BY <1>4, <5>1
        <5> QED
          BY <1>4, <5>1, <5>2
      <4> QED
        BY <1>2, <2>1, <4>1 DEF AllSafe
    <3>2. CASE r # p
      BY <1>5, <2>1, <2>3, <3>2 DEF AllSafe
    <3> QED
      BY <3>1, <3>2
  <2> QED
    BY <2>2, <2>3 DEF AllSafe
<1> HIDE DEF q, m
<1>7. Streams(q)
  BY <1>5, <1>6 DEF Streams, M
<1>8. Sound(OnMessage(Now(t), t, m), t) /\ Follows(Now(t), OnMessage(Now(t), t, m), t)
  BY <1>4, <1>6, NowSound, TabTyped, OnMessageKeeps DEF M
<1>9. Comes(t, OnMessage(Now(t), t, m))
  BY <1>8, NowSound, ComesFollows
<1> QED
  BY <1>1, <1>7, <1>9, DoesKeeps

LEMMA ConnectFailsKeeps ==
  ASSUME Inv, NEW t \in Tabs, ConnectFails(t)
  PROVE  Inv'
<1> DEFINE s2 == [Now(t) EXCEPT !.used = Counted]
<1>1. Does(t, Unreachable(s2, t), down) /\ drive' = drive
  BY DEF ConnectFails
<1>2. Comes(t, s2)
  BY NowSound, TabTyped, UsedKeeps, CountedBounds
<1> HIDE DEF s2
<1>3. Comes(t, Unreachable(s2, t))
  BY <1>2, UnreachableKeeps, ComesFollows DEF Comes
<1> QED
  BY <1>1, <1>3, DownStreams, DoesKeeps

LEMMA DroppedKeeps ==
  ASSUME Inv, NEW t \in Tabs, Dropped(t)
  PROVE  Inv'
<1> DEFINE d2 == [tab[t] EXCEPT !.link = 0, !.cut = FALSE]
           s2 == [Now(t) EXCEPT !.d = d2]
<1>1. Does(t, Unreachable(s2, t), down) /\ drive' = drive
  BY DEF Dropped, Now
<1>2. tab[t] \in TabRecord(MadeIn(structs))
  BY TabTyped
<1>3. d2 \in TabRecord(MadeIn(structs)) /\ Minor(tab[t], d2)
  BY <1>2 DEF TabRecord, Minor
<1> HIDE DEF d2
<1>4. Comes(t, s2)
  BY <1>3, NowSound, TabTyped, MinorComes
<1> HIDE DEF s2
<1>5. Comes(t, Unreachable(s2, t))
  BY <1>4, UnreachableKeeps, ComesFollows DEF Comes
<1> QED
  BY <1>1, <1>5, DownStreams, DoesKeeps

----------------------------------------------------------------------------
(* Steps that insert nothing and leave every document alone *)

LEMMA HubKeeps ==
  ASSUME Inv, structs' = structs, blame' = blame,
         tab' \in [Tabs -> TabRecord(MadeIn(structs))], \A u \in Tabs : Minor(tab[u], tab'[u]),
         file' \in past', past' \in SUBSET Text, blame = {} => \A text \in past' : text[0] >= 1,
         used' \in Bounds, used'.edits = used.edits,
         peers' \in SUBSET Ids, next' \in 1 .. Cardinality(Tabs) + MaxCuts + 1,
         backlog' \in Seq(MadeIn(structs)), Len(backlog') <= OpBacklog,
         Streams(down')
  PROVE  Inv'
<1>1. Types'
  BY DEF Types, Streams, Inv
<1>2. ASSUME NEW u \in Tabs
      PROVE  Owns(tab'[u], structs', u)
  BY TabTyped DEF Owns, Minor
<1>3. ASSUME blame' = {}
      PROVE  Safe'
  <2>1. ASSUME NEW u \in Tabs
        PROVE  SafeDoc(tab'[u], structs')
    <3>1. SafeDoc(tab[u], structs) /\ Minor(tab[u], tab'[u])
      BY <1>3, TabTyped
    <3>2. TextOf(tab'[u], structs) = TextOf(tab[u], structs)
          /\ (Bears(tab'[u], structs) <=> Bears(tab[u], structs))
      BY <3>1, MinorDoc DEF Minor
    <3>3. SafeDoc(tab'[u], structs)
      BY <3>1, <3>2 DEF SafeDoc, Minor
    <3> QED
      BY <3>3
  <2>2. AllSafe(down')
    BY <1>3 DEF Streams
  <2> QED
    BY <1>3, <2>1, <2>2 DEF Safe
<1> QED
  BY <1>1, <1>2, <1>3 DEF Inv

\* One tab changes in minor fields.
LEMMA OneMinor ==
  ASSUME Inv, NEW t \in Tabs, NEW d2 \in TabRecord(MadeIn(structs)), Minor(tab[t], d2),
         tab' = [tab EXCEPT ![t] = d2]
  PROVE  tab' \in [Tabs -> TabRecord(MadeIn(structs))] /\ \A u \in Tabs : Minor(tab[u], tab'[u])
<1>1. tab \in [Tabs -> TabRecord(MadeIn(structs))]
  BY DEF Inv, Types
<1>2. \A d : Minor(d, d)
  BY DEF Minor
<1> QED
  BY <1>1, <1>2

LEMMA SameTab ==
  ASSUME Inv, tab' = tab
  PROVE  tab' \in [Tabs -> TabRecord(MadeIn(structs))] /\ \A u \in Tabs : Minor(tab[u], tab'[u])
  BY DEF Inv, Types, Minor

LEMMA SameFile ==
  ASSUME Inv, drive' = drive
  PROVE  file' \in past' /\ past' \in SUBSET Text /\ (blame = {} => \A text \in past' : text[0] >= 1)
  BY DEF Inv, Types, Safe, drive

LEMMA SameHub ==
  ASSUME Inv
  PROVE  /\ peers \in SUBSET Ids /\ next \in 1 .. Cardinality(Tabs) + MaxCuts + 1
         /\ backlog \in Seq(MadeIn(structs)) /\ Len(backlog) <= OpBacklog
         /\ used \in Bounds
  BY DEF Inv, Types

LEMMA SaveWrittenKeeps ==
  ASSUME Inv, NEW t \in Tabs, SaveWritten(t)
  PROVE  Inv'
<1> DEFINE d2 == [tab[t] EXCEPT !.save = [@ EXCEPT !.at = "written"]]
<1>1. /\ tab[t].save.at = "sent" /\ file' = tab[t].save.body /\ past' = past \cup {file'}
      /\ tab' = [tab EXCEPT ![t] = d2]
      /\ structs' = structs /\ peers' = peers /\ next' = next /\ backlog' = backlog
      /\ down' = down /\ used' = used /\ blame' = blame
  BY DEF SaveWritten, hub, Inv, Types
<1>2. tab[t] \in TabRecord(MadeIn(structs)) /\ tab[t].save \in SaveRecord
  BY TabTyped DEF TabRecord
<1>3. file' \in past' /\ past' \in SUBSET Text
  BY <1>1, <1>2 DEF SaveRecord, Inv, Types
<1>4. blame = {} => \A text \in past' : text[0] >= 1
  BY <1>1, TabTyped DEF SafeDoc, Inv, Safe
<1>5. [tab[t].save EXCEPT !.at = "written"] \in SaveRecord
      /\ [tab[t].save EXCEPT !.at = "written"].at = "written"
  BY <1>1, <1>2 DEF SaveRecord
<1>6. d2 \in TabRecord(MadeIn(structs)) /\ Minor(tab[t], d2)
  BY <1>2, <1>5 DEF TabRecord, Minor
<1> HIDE DEF d2
<1>7. tab' \in [Tabs -> TabRecord(MadeIn(structs))] /\ \A u \in Tabs : Minor(tab[u], tab'[u])
  BY <1>1, <1>6, OneMinor
<1> QED
  BY <1>1, <1>3, <1>4, <1>7, SameHub, DownStreams, HubKeeps

LEMMA ConnectKeeps ==
  ASSUME Inv, NEW t \in Tabs, Connect(t)
  PROVE  Inv'
<1> DEFINE d2 == [tab[t] EXCEPT !.link = next]
           j  == [k |-> "join", p |-> next]
           w  == [k |-> "welcome", me |-> next, peers |-> peers',
                  ops |-> {backlog[i] : i \in DOMAIN backlog}]
           b  == Broadcast(down, next, j)
           M  == MadeIn(structs)
<1>1. /\ next \in Ids /\ tab' = [tab EXCEPT ![t] = d2]
      /\ peers' = peers \cup {next} /\ next' = next + 1
      /\ down' = [b EXCEPT ![next] = <<w>>]
      /\ structs' = structs /\ backlog' = backlog /\ drive' = drive /\ used' = used /\ blame' = blame
  BY DEF Connect, Inv, Types
<1>2. tab[t] \in TabRecord(M)
  BY TabTyped
<1>3. d2 \in TabRecord(M) /\ Minor(tab[t], d2)
  BY <1>1, <1>2 DEF TabRecord, Minor
<1> HIDE DEF d2
<1>4. tab' \in [Tabs -> TabRecord(M)] /\ \A u \in Tabs : Minor(tab[u], tab'[u])
  BY <1>1, <1>3, OneMinor
<1>5. peers' \in SUBSET Ids /\ next' \in 1 .. Cardinality(Tabs) + MaxCuts + 1
  BY <1>1, SameHub, IdsType
<1>6. j \in Frame(M) /\ SafeFrame(j)
  BY <1>1 DEF Frame, SafeFrame
<1>7. {backlog[i] : i \in DOMAIN backlog} \in SUBSET M
  BY SameHub
<1>8. w \in Frame(M) /\ SafeFrame(w)
  <2> DEFINE ops == {backlog[i] : i \in DOMAIN backlog}
  <2> HIDE DEF ops
  <2>1. [k |-> "welcome", me |-> next, peers |-> peers', ops |-> ops] \in Frame(M)
    BY <1>1, <1>5, <1>7 DEF Frame, ops
  <2> QED
    BY <2>1 DEF SafeFrame, ops
<1> HIDE DEF j, w
<1>9. b \in [Ids -> Seq(Frame(M))] /\ (blame = {} => AllSafe(b))
  BY <1>6, DownStreams, BroadcastTyped DEF Streams
<1> HIDE DEF b
<1>10. <<w>> \in Seq(Frame(M)) /\ Len(<<w>>) = 1 /\ <<w>>[1] = w
  BY <1>8
<1>11. /\ down' \in [Ids -> Seq(Frame(M))] /\ down'[next] = <<w>>
       /\ \A p \in Ids \ {next} : down'[p] = b[p]
  BY <1>1, <1>9, <1>10
<1>12. blame = {} => AllSafe(down')
  <2> SUFFICES ASSUME blame = {}, NEW p \in Ids, NEW i \in 1 .. Len(down'[p])
               PROVE  SafeFrame(down'[p][i])
    BY DEF AllSafe
  <2>1. CASE p = next
    BY <1>8, <1>10, <1>11, <2>1
  <2>2. CASE p # next
    BY <1>9, <1>11, <2>2 DEF AllSafe
  <2> QED
    BY <2>1, <2>2
<1>13. Streams(down')
  BY <1>11, <1>12 DEF Streams, M
<1> QED
  BY <1>1, <1>4, <1>5, <1>13, SameHub, SameFile, HubKeeps DEF M

\* The frames to one peer are lost.
LEMMA EmptiedStreams ==
  ASSUME NEW q, Streams(q), NEW p \in Ids
  PROVE  Streams([q EXCEPT ![p] = << >>])
<1> DEFINE e == [q EXCEPT ![p] = << >>]
<1>1. q \in [Ids -> Seq(Frame(MadeIn(structs)))]
  BY DEF Streams
<1>2. /\ e \in [Ids -> Seq(Frame(MadeIn(structs)))] /\ e[p] = << >>
      /\ \A r \in Ids \ {p} : e[r] = q[r]
  BY <1>1
<1> HIDE DEF e
<1>3. blame = {} => AllSafe(e)
  <2> SUFFICES ASSUME blame = {}, NEW r \in Ids, NEW i \in 1 .. Len(e[r])
               PROVE  SafeFrame(e[r][i])
    BY DEF AllSafe
  <2>1. r # p
    BY <1>2
  <2> QED
    BY <1>2, <2>1 DEF Streams, AllSafe
<1> QED
  BY <1>2, <1>3 DEF Streams, e

LEMMA LeaveStreams ==
  ASSUME Inv, NEW p \in Ids
  PROVE  Streams(Broadcast(down, p, [k |-> "leave", p |-> p]))
<1> DEFINE m == [k |-> "leave", p |-> p]
<1>1. m \in Frame(MadeIn(structs)) /\ SafeFrame(m)
  BY DEF Frame, SafeFrame
<1> HIDE DEF m
<1>2. Streams(Broadcast(down, p, m))
  BY <1>1, DownStreams, BroadcastTyped DEF Streams
<1> QED
  BY <1>2 DEF m

LEMMA CutKeeps ==
  ASSUME Inv, NEW t \in Tabs, Cut(t)
  PROVE  Inv'
<1> DEFINE d2 == [tab[t] EXCEPT !.cut = TRUE]
           p  == tab[t].link
<1>1. /\ p # 0 /\ tab' = [tab EXCEPT ![t] = d2] /\ used' = [Counted EXCEPT !.cuts = @ + 1]
      /\ \/ /\ peers' = peers \ {p}
            /\ down' = [Broadcast(down, p, [k |-> "leave", p |-> p]) EXCEPT ![p] = << >>]
         \/ down' = [down EXCEPT ![p] = << >>] /\ peers' = peers
      /\ structs' = structs /\ next' = next /\ backlog' = backlog /\ drive' = drive /\ blame' = blame
  BY DEF Cut, Inv, Types
<1>2. tab[t] \in TabRecord(MadeIn(structs)) /\ p \in Ids
  BY <1>1, TabTyped DEF TabRecord
<1>3. d2 \in TabRecord(MadeIn(structs)) /\ Minor(tab[t], d2)
  BY <1>2 DEF TabRecord, Minor
<1>4. used' \in Bounds /\ used'.edits = used.edits
  <2>1. Counted \in Bounds /\ Counted.edits = used.edits
    BY CountedBounds
  <2> QED
    BY <1>1, <2>1 DEF Bounds
<1> HIDE DEF d2, p
<1>5. tab' \in [Tabs -> TabRecord(MadeIn(structs))] /\ \A u \in Tabs : Minor(tab[u], tab'[u])
  BY <1>1, <1>3, OneMinor
<1>6. Streams(down')
  BY <1>1, <1>2, DownStreams, LeaveStreams, EmptiedStreams
<1>7. peers' \in SUBSET Ids
  BY <1>1, SameHub
<1> QED
  BY <1>1, <1>4, <1>5, <1>6, <1>7, SameHub, SameFile, HubKeeps

LEMMA LeaveKeeps ==
  ASSUME Inv, NEW p \in Ids, Leave(p)
  PROVE  Inv'
<1>1. /\ peers' = peers \ {p} /\ down' = Broadcast(down, p, [k |-> "leave", p |-> p])
      /\ tab' = tab /\ structs' = structs /\ next' = next /\ backlog' = backlog /\ drive' = drive
      /\ used' = used /\ blame' = blame
  BY DEF Leave
<1>2. Streams(down')
  BY <1>1, LeaveStreams
<1>3. peers' \in SUBSET Ids
  BY <1>1, SameHub
<1> QED
  BY <1>1, <1>2, <1>3, SameTab, SameHub, SameFile, HubKeeps

LEMMA CloseKeeps ==
  ASSUME Inv, NEW t \in Tabs, Close(t)
  PROVE  Inv'
<1> DEFINE d2 == [tab[t] EXCEPT !.closed = TRUE, !.link = 0, !.cut = FALSE]
           p  == tab[t].link
<1>1. /\ tab' = [tab EXCEPT ![t] = d2] /\ used' = Counted
      /\ down' = IF p = 0 THEN down ELSE [down EXCEPT ![p] = << >>]
      /\ structs' = structs /\ peers' = peers /\ next' = next /\ backlog' = backlog
      /\ drive' = drive /\ blame' = blame
  BY DEF Close, hub, Inv, Types
<1>2. tab[t] \in TabRecord(MadeIn(structs)) /\ p \in Ids \cup {0}
  BY TabTyped DEF TabRecord
<1>3. d2 \in TabRecord(MadeIn(structs)) /\ Minor(tab[t], d2)
  BY <1>2 DEF TabRecord, Minor
<1> HIDE DEF d2, p
<1>4. tab' \in [Tabs -> TabRecord(MadeIn(structs))] /\ \A u \in Tabs : Minor(tab[u], tab'[u])
  BY <1>1, <1>3, OneMinor
<1>5. Streams(down')
  BY <1>1, <1>2, DownStreams, EmptiedStreams
<1> QED
  BY <1>1, <1>4, <1>5, CountedBounds, SameHub, SameFile, HubKeeps

LEMMA EvictIdleKeeps ==
  ASSUME Inv, EvictIdle
  PROVE  Inv'
<1>1. /\ backlog' = << >> /\ peers' = peers /\ down' = down
      /\ tab' = tab /\ structs' = structs /\ next' = next /\ drive' = drive
      /\ used' = used /\ blame' = blame
  BY DEF EvictIdle
<1>2. << >> \in Seq(MadeIn(structs)) /\ Len(<< >>) <= OpBacklog
  OBVIOUS
<1> QED
  BY <1>1, <1>2, SameTab, SameHub, SameFile, DownStreams, HubKeeps

----------------------------------------------------------------------------
(* The theorems *)

LEMMA InitInv == Init => Inv
<1> SUFFICES ASSUME Init PROVE Inv
  OBVIOUS
<1>1. structs \in [Tabs -> Seq(Text)] /\ \A c \in Tabs : Len(structs[c]) = 0
  BY DEF Init
<1>2. NoTab \in TabRecord(MadeIn(structs))
  BY DEF NoTab, TabRecord, MaybeText, SaveRecord, Idle
<1>3. tab \in [Tabs -> TabRecord(MadeIn(structs))] /\ \A t \in Tabs : tab[t] = NoTab
  BY <1>2 DEF Init
<1>4. file \in Text /\ file[0] = 1 /\ past = {file}
  BY TokensType, Texts DEF Init, Only, Empty
<1>5. down \in [Ids -> Seq(Frame(MadeIn(structs)))] /\ \A p \in Ids : Len(down[p]) = 0
  BY DEF Init
<1>6. Types
  <2>1. next \in 1 .. Cardinality(Tabs) + MaxCuts + 1
    BY IdsType DEF Init
  <2>2. used \in Bounds
    BY TokensType DEF Init, Bounds
  <2> QED
    BY <1>1, <1>3, <1>4, <1>5, <2>1, <2>2 DEF Init, Types
<1>7. ASSUME NEW t \in Tabs
      PROVE  Owns(tab[t], structs, t)
  BY <1>1, <1>3 DEF Owns, SeedOnce, Plain, NoTab, Init
<1>8. ASSUME NEW t \in Tabs
      PROVE  SafeDoc(tab[t], structs)
  <2>1. tab[t].got = {} /\ tab[t].got \subseteq MadeIn(structs)
    BY <1>3 DEF NoTab
  <2>2. TextOf(tab[t], structs) = Empty
    <3>1. Held(tab[t]) = {}
      BY <2>1 DEF Held
    <3>2. \A x \in Tokens : UNION {{k} \X (1 .. structs[k[1]][k[2]][x]) : k \in {}} = {}
      OBVIOUS
    <3>3. Held(tab[t]) \ tab[t].dead = {}
      BY <3>1
    <3> QED
      BY <3>2, <3>3, FS_EmptySet DEF TextOf, Empty
  <2> QED
    BY <1>3, <2>2 DEF SafeDoc, NoTab, Idle
<1>9. AllSafe(down)
  BY <1>5 DEF AllSafe
<1> QED
  BY <1>4, <1>6, <1>7, <1>8, <1>9 DEF Inv, Safe

LEMMA StepInv == Inv /\ [Next]_vars => Inv'
<1> SUFFICES ASSUME Inv, [Next]_vars PROVE Inv'
  OBVIOUS
<1>1. CASE UNCHANGED vars
  BY <1>1, SameTab, SameHub, SameFile, DownStreams, HubKeeps DEF vars
<1>2. CASE EvictIdle
  BY <1>2, EvictIdleKeeps
<1>3. ASSUME NEW p \in Ids, Leave(p)
      PROVE  Inv'
  BY <1>3, LeaveKeeps
<1>4. ASSUME NEW t \in Tabs,
             \/ Fetched(t) \/ HydrateTimeout(t) \/ Type(t) \/ Close(t)
             \/ Save(t) \/ SaveWritten(t) \/ SaveReturns(t) \/ SaveFails(t)
             \/ SyncRetry(t) \/ SeedFallback(t)
             \/ Connect(t) \/ ConnectFails(t) \/ Cut(t) \/ Dropped(t) \/ TabTakes(t)
      PROVE  Inv'
  BY <1>4, FetchedKeeps, HydrateTimeoutKeeps, TypeKeeps, CloseKeeps, SaveKeeps, SaveWrittenKeeps,
     SaveReturnsKeeps, SaveFailsKeeps, SyncRetryKeeps, SeedFallbackKeeps, ConnectKeeps,
     ConnectFailsKeeps, CutKeeps, DroppedKeeps, TabTakesKeeps
<1> QED
  BY <1>1, <1>2, <1>3, <1>4 DEF Next

\* The inductive invariant holds always.
THEOREM InductiveInv == Spec => []Inv
  BY InitInv, StepInv, PTL DEF Spec

LEMMA TypesFollow == Inv => TypeOK
<1> SUFFICES ASSUME Inv PROVE TypeOK
  OBVIOUS
<1>1. Made = MadeIn(structs)
  BY DEF Made, MadeIn
<1>2. structs \in [Tabs -> Seq(Text)] /\ used \in Bounds
  BY DEF Inv, Types
<1>3. ASSUME NEW t \in Tabs
      PROVE  /\ {tab[t].baseline, tab[t].pending, tab[t].seedText, tab[t].save.body}
                    \subseteq Text \cup {NoText}
             /\ {tab[t].link, tab[t].me} \subseteq Ids \cup {0} /\ tab[t].peers \subseteq Ids
             /\ {k \in Made : k[1] = t} \subseteq Held(tab[t])
             /\ tab[t].got \cup tab[t].dead \subseteq Made
             /\ tab[t].save.at \in {"none", "sent", "written"}
             /\ structs[t] \in Seq(Text)
             /\ \A i, j \in DOMAIN structs[t] : structs[t][i][0] >= 1 /\ structs[t][j][0] >= 1 => i = j
  <2>1. tab[t] \in TabRecord(MadeIn(structs)) /\ Owns(tab[t], structs, t)
    BY TabTyped
  <2>2. tab[t].save \in SaveRecord
    BY <2>1 DEF TabRecord
  <2>3. tab[t].save.body \in MaybeText /\ tab[t].save.at \in {"none", "sent", "written"}
    BY <2>2 DEF SaveRecord, MaybeText
  <2>4. ASSUME NEW k \in Made, k[1] = t
        PROVE  k \in Held(tab[t])
    <3>1. k = <<t, k[2]>> /\ k[2] \in 1 .. Len(structs[t])
      BY <1>1, <2>4, MadePair
    <3>2. \A j \in 1 .. k[2] : <<t, j>> \in tab[t].got
      <4>1. Len(structs[t]) \in Nat /\ 1 .. k[2] \subseteq 1 .. Len(structs[t])
        BY <1>2, <3>1
      <4> QED
        BY <2>1, <4>1 DEF Owns
    <3>3. k \in tab[t].got
      BY <2>1, <3>1 DEF Owns
    <3> QED
      BY <2>4, <3>2, <3>3 DEF Held
  <2>5. {tab[t].baseline, tab[t].pending, tab[t].seedText} \subseteq MaybeText
        /\ {tab[t].link, tab[t].me} \subseteq Ids \cup {0} /\ tab[t].peers \subseteq Ids
        /\ tab[t].got \cup tab[t].dead \subseteq Made
    BY <1>1, <2>1 DEF TabRecord
  <2>6. /\ structs[t] \in Seq(Text)
        /\ \A i, j \in DOMAIN structs[t] : structs[t][i][0] >= 1 /\ structs[t][j][0] >= 1 => i = j
    BY <1>2, <2>1 DEF Owns, SeedOnce
  <2> QED
    BY <2>3, <2>4, <2>5, <2>6 DEF MaybeText
<1>4. next \in 1 .. Cardinality(Ids) + 1 /\ peers \subseteq Ids /\ Len(backlog) <= OpBacklog
  BY SameHub, IdsType
<1>5. file \in past /\ past \subseteq Text /\ used.edits \in 0 .. MaxEdits
  BY DEF Inv, Types, Bounds
<1> QED
  BY <1>3, <1>4, <1>5 DEF TypeOK

\* Type correctness: a document holds what its own tab inserted and nothing that
\* was not inserted, and of what a tab inserts at most one piece bears the file's
\* first text: no tab seeds twice, however often it is welcomed, cut and timed out.
THEOREM TypeCorrect == Spec => []TypeOK
  BY InductiveInv, TypesFollow, PTL

LEMMA ShownFollows == Inv => TextShownUnlessHollow
<1> SUFFICES ASSUME Inv, blame = {}
             PROVE  TextKept /\ \A t \in Opened : ~tab[t].loading => Doc(t)[0] >= 1
  BY DEF TextShownUnlessHollow
<1>1. TextKept
  BY DEF Inv, Types, Safe, TextKept
<1>2. ASSUME NEW t \in Tabs, ~tab[t].loading
      PROVE  Doc(t)[0] >= 1
  <2>1. tab[t].loading = FALSE
    BY <1>2, TabTyped DEF TabRecord
  <2>2. Bears(tab[t], structs)
    BY <2>1, TabTyped DEF SafeDoc
  <2> QED
    BY <2>2, TabTyped, TextOfType DEF Doc
<1> QED
  BY <1>1, <1>2 DEF Opened

\* The file keeps the text it held, and every editor past its loading screen
\* shows it, as long as none of the four things happens: no interleaving of
\* fetches, welcomes, saves, broken connections and closed tabs loses it
\* otherwise.
THEOREM TextIsShown == Spec => []TextShownUnlessHollow
  BY InductiveInv, ShownFollows, PTL
=============================================================================
