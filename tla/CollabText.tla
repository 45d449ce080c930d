------------------------------ MODULE CollabText ------------------------------
(***************************************************************************)
(* Several people in one text file of luna/web: TextFileEditor.jsx on a      *)
(* shared Yjs document (collabDocSync.js), its socket (collabSocket.js),     *)
(* the frame's unsaved flag (FullscreenEditorFrame.jsx), and the room of     *)
(* lunad's hub that relays their frames (office/collab.rs, api/collab.rs).   *)
(*                                                                           *)
(* People only type; nobody deletes.  So whatever text disappears was        *)
(* removed by the program.                                                   *)
(***************************************************************************)
EXTENDS Integers, Sequences, FiniteSetsExt

CONSTANTS
    Tabs,         \* editors of the one file, each opened at most once
    MaxEdits,     \* bound: insertions typed, all tabs together
    MaxCuts,      \* bound: connections lost after they were made
    MaxEvents,    \* bound: saves, cuts, closed editors, failed connections,
                  \*        refused ops and load time-outs together
    OpBacklog,    \* OP_BACKLOG
    MayLinger     \* may the hub learn of a broken connection later?

ASSUME CollabConstants ==
    /\ IsFiniteSet(Tabs) /\ {MaxEdits, MaxCuts, MaxEvents} \subseteq Nat
    /\ OpBacklog \in Nat \ {0} /\ MayLinger \in BOOLEAN

\* A text is the number of times it holds the file's first text (0) and each
\* insertion; the order Yjs gives them is the same everywhere and left out.
Tokens == 0 .. MaxEdits
Empty == [x \in Tokens |-> 0]
Only(x) == [Empty EXCEPT ![x] = 1]
NoText == [x \in Tokens |-> -1]

\* Peer ids, in the order the hub gives them out: one per connection.
Ids == 1 .. (Cardinality(Tabs) + MaxCuts)

VARIABLES
    tab,          \* tab[t]: the editor, its CollabDocSync and its Y.Doc
    structs,      \* structs[t]: the texts t inserted, in the order of its clock
    peers,        \* hub: the room's peers
    next,         \* hub: the next peer id
    backlog,      \* hub: the room's last ops
    down,         \* down[p]: frames on their way from the hub to peer p's tab
    file,         \* the file on the drive
    past,         \* history: every text the file has held
    used,         \* how much of each bound is used
    blame,        \* history: what the program did that a lost text may come from
    unasked       \* history: newcomers no peer will ask for what they have

drive == <<file, past>>
vars == <<tab, structs, peers, next, backlog, down, drive, used, blame, unasked>>
hub == <<peers, next, backlog>>

Idle == [at |-> "none", body |-> NoText]

NoTab ==
    [closed |-> FALSE, loading |-> TRUE, fetched |-> FALSE, baseline |-> NoText, pending |-> NoText,
     link |-> 0, cut |-> FALSE, me |-> 0, peers |-> {}, welcomed |-> FALSE, offline |-> FALSE,
     seeded |-> FALSE, seedText |-> NoText, synced |-> FALSE,
     got |-> {}, dead |-> {},
     retry |-> 0, fallback |-> 0, save |-> Idle, unsaved |-> FALSE]

Init ==
    /\ tab = [t \in Tabs |-> NoTab]
    /\ structs = [t \in Tabs |-> << >>]
    /\ peers = {} /\ next = 1 /\ backlog = << >>
    /\ down = [p \in Ids |-> << >>]
    /\ file = Only(0) /\ past = {file}
    /\ used = [edits |-> 0, cuts |-> 0, events |-> 0]
    /\ blame = {} /\ unasked = {}

\* One more of the bounded events.
Event == used.events < MaxEvents
Counted == [used EXCEPT !.events = @ + 1]

----------------------------------------------------------------------------
(* The Y.Doc of a tab: the insertions it got, <<c, n>> for the n-th of tab   *)
(* c, and the deleted ones.                                                  *)

\* Integrated: what has no gap before it.  Yjs parks the rest.  As a state
\* vector this set is the number of insertions it has of each tab.  (Yjs also
\* parks an insertion made next to one of a third tab that has not arrived; with
\* two tabs there is none, since a document has all of its own.)
Held(d) == {s \in d.got : \A j \in 1 .. s[2] : <<s[1], j>> \in d.got}

\* serialize(): the text of document d, one copy of a token per insertion that
\* holds it.
TextOf(d, st) ==
    LET alive     == Held(d) \ d.dead
        copies(x) == UNION {{k} \X (1 .. st[k[1]][k[2]][x]) : k \in alive}
    IN  [x \in Tokens |-> Cardinality(copies(x))]

IsEmpty(d, st) == TextOf(d, st) = Empty

\* Y.applyUpdate.
Apply(d, new, dead) == [d EXCEPT !.got = @ \cup new, !.dead = @ \cup dead]

\* Y.encodeStateAsUpdate: what a peer with state vector sv is missing.
Missing(d, sv) == d.got \ sv

----------------------------------------------------------------------------
(* CollabDocSync.  A handler works on s: the tab, the insertions, the frame  *)
(* it sends, the bounds it uses and what it is to blame for.                 *)

NoFrame == [k |-> "none"]
Now(t) == [d |-> tab[t], st |-> structs, out |-> NoFrame, used |-> used, blame |-> blame]

\* sendOp, sendPresence, sendSaved: nothing without an open socket.
Send(s, m) == IF s.d.link = 0 THEN s ELSE [s EXCEPT !.out = m]

\* A local insertion and the `update` handler.
Insert(s, t, text) ==
    LET n == Len(s.st[t]) + 1
    IN  Send([s EXCEPT !.st[t] = Append(@, text), !.d.got = @ \cup {<<t, n>>}],
             [k |-> "op", s |-> <<t, n>>])

HydratedOnceFetched(d, st) == d.fetched

Hydrated(d, st) == d.seeded \/ d.synced \/ ~IsEmpty(d, st)

SyncRequest(s) == Send(s, [k |-> "s1", sv |-> Held(s.d)])

\* _maybeSeed(force).  Once the file's text is used a fallback timer does
\* nothing when it fires, and is off from here.
MaybeSeed(s, t, force) ==
    LET d     == s.d
        alone == d.peers \ {d.me} = {}
    IN  IF \/ ~IsEmpty(d, s.st) \/ ~(d.welcomed \/ d.offline)
           \/ ~(alone \/ force) \/ d.pending = NoText
        THEN s
        ELSE LET s2 == [s EXCEPT !.d.pending = NoText, !.d.seeded = TRUE,
                                 !.d.seedText = d.pending, !.d.fallback = 0]
             IN  IF d.pending = Empty THEN s2 ELSE Insert(s2, t, d.pending)

\* _onOp, and the s2 branch of _onPresence: whatever arrives makes the tab
\* synced, if it brings the file's text or not.  A synced tab's retry timer
\* does nothing when it fires, and is off from here.
Synced(s, new, dead) ==
    LET d == [Apply(s.d, new, dead) EXCEPT !.synced = TRUE, !.retry = 0]
    IN  [s EXCEPT !.d = d, !.blame = IF TextOf(d, s.st)[0] = 0 THEN @ \cup {"hollow"} ELSE @]

\* A seed nobody typed past is dropped by every peer but the lowest.
DropsSeed(s) ==
    /\ s.d.seeded /\ TextOf(s.d, s.st) = s.d.seedText
    /\ s.d.me # Min(s.d.peers)

DropSeed(s) ==
    IF DropsSeed(s)
    THEN [s EXCEPT !.d.dead = @ \cup Held(s.d), !.d.seeded = FALSE,
                   !.blame = @ \cup {"seed dropped"}]
    ELSE s

Spent(d) == d.fetched /\ d.pending = NoText

OnWelcome(s0, t, m) ==
    LET s1 == [s0 EXCEPT !.d.welcomed = TRUE, !.d.me = m.me, !.d.peers = m.peers]
        s2 == IF m.ops = {} THEN s1 ELSE Synced(s1, m.ops, {})
    IN  IF m.peers # {m.me}
        THEN [SyncRequest(DropSeed(s2)) EXCEPT !.d.retry = IF s2.d.synced THEN 0 ELSE @ + 1,
                                                !.d.fallback = IF Spent(s2.d) THEN 0 ELSE @ + 1]
        ELSE MaybeSeed(s2, t, FALSE)

OnJoinSilent(s, m) == [s EXCEPT !.d.peers = @ \cup {m.p}]

\* peer_join: the lowest peer asks the newcomer for what it typed offline.
OnJoin(s, m) ==
    LET s2 == [s EXCEPT !.d.peers = @ \cup {m.p}]
    IN  IF s2.d.me = Min(s2.d.peers) THEN SyncRequest(s2) ELSE s2

\* _onMessage.  Of the saved broadcast TextFileEditor makes its baseline.
OnMessage(s, t, m) ==
    CASE m.k = "welcome" -> OnWelcome(s, t, m)
      [] m.k = "join"    -> OnJoin(s, m)
      [] m.k = "leave"   -> [s EXCEPT !.d.peers = @ \ {m.p}]
      [] m.k = "s1"      -> Send(s, [k |-> "s2", new |-> Missing(s.d, m.sv), dead |-> s.d.dead])
      [] m.k = "s2"      -> Synced(s, m.new, m.dead)
      [] m.k = "op"      -> Synced(s, {m.s}, {})
      [] m.k = "saved"   -> [s EXCEPT !.d.baseline = TextOf(s.d, s.st)]

----------------------------------------------------------------------------
(* The hub's room *)

Live(p) == \E t \in Tabs : tab[t].link = p /\ ~tab[t].cut

\* The peer that is to ask a newcomer for its state.
Lowest(p) == p \in peers /\ \A q \in peers : p <= q

\* Newcomers that p, which goes, has not asked yet although it was the one to;
\* with a third peer there to miss what they have.
Forsaken(p) ==
    {r \in peers \ {p} : /\ Lowest(p) /\ Live(r)
                         /\ \E i \in DOMAIN down[p] : down[p][i] = [k |-> "join", p |-> r]
                         /\ \E u \in peers \ {p, r} : Live(u)}

\* room.tx.send: behind the frames in q, to every peer but the sender.
Broadcast(q, from, m) ==
    [p \in Ids |-> IF p \in peers \ {from} /\ Live(p) THEN Append(q[p], m) ELSE q[p]]

PushBacklog(s) ==
    IF Len(backlog) = OpBacklog THEN Append(Tail(backlog), s) ELSE Append(backlog, s)

\* handle(): the hub takes the frame a tab sent, an op unless it is too large
\* or its sender may no longer write.
Relay(s, q) ==
    LET m == s.out
    IN  \/ /\ m # NoFrame /\ ~s.d.cut
           /\ down' = Broadcast(q, s.d.link, m)
           /\ backlog' = IF m.k = "op" THEN PushBacklog(m.s) ELSE backlog
           /\ used' = s.used /\ blame' = s.blame
        \/ /\ m = NoFrame \/ s.d.cut
           /\ down' = q /\ used' = s.used /\ blame' = s.blame /\ UNCHANGED backlog
        \/ /\ m.k = "op" /\ ~s.d.cut /\ s.used.events < MaxEvents
           /\ down' = q /\ used' = [s.used EXCEPT !.events = @ + 1]
           /\ blame' = s.blame \cup {"op refused"} /\ UNCHANGED backlog

----------------------------------------------------------------------------
(* TextFileEditor and its frame *)

IsDirty(d, st) == Hydrated(d, st) /\ d.baseline # NoText /\ TextOf(d, st) # d.baseline

\* The handler is over.  The loading screen goes once the fetched document is
\* hydrated; the frame hears of dirt when isDirty turns true.
Does(t, s, q) ==
    /\ tab' = [tab EXCEPT ![t] =
                 [s.d EXCEPT !.loading = @ /\ ~(s.d.fetched /\ Hydrated(s.d, s.st)),
                             !.unsaved = @ \/ (/\ IsDirty(s.d, s.st)
                                               /\ ~IsDirty(tab[t], structs))]]
    /\ structs' = s.st
    /\ Relay(s, q)
    /\ UNCHANGED <<peers, next, unasked>>

\* The editor is mounted: it connects and fetches, and one of them got somewhere.
Begun(t) == tab[t].fetched \/ tab[t].link # 0

\* The file's text arrives; adoptContent.  lunad read it some time after the editor
\* was mounted: it is a text the file has held, not always the one it holds now.
Fetched(t) ==
    /\ ~tab[t].closed /\ ~tab[t].fetched
    /\ \E body \in past :
          Does(t, MaybeSeed([Now(t) EXCEPT !.d = [@ EXCEPT !.fetched = TRUE, !.baseline = body,
                                                          !.pending = body]], t, FALSE), down)
    /\ UNCHANGED drive

\* HYDRATE_TIMEOUT_MS: the loading screen goes although the document is empty.
HydrateTimeout(t) ==
    /\ ~tab[t].closed /\ tab[t].loading /\ tab[t].fetched /\ Event
    /\ Does(t, [Now(t) EXCEPT !.d.loading = FALSE, !.used = Counted,
                              !.blame = @ \cup {"not hydrated"}], down)
    /\ UNCHANGED drive

Type(t) ==
    /\ ~tab[t].closed /\ ~tab[t].loading /\ used.edits < MaxEdits
    /\ Does(t, Insert([Now(t) EXCEPT !.used.edits = @ + 1], t, Only(used.edits + 1)), down)
    /\ UNCHANGED drive

\* save(), by the autosave tick or the frame's button, up to its await.
Save(t) ==
    LET d == tab[t]
    IN  /\ ~d.closed /\ ~d.loading /\ d.save = Idle /\ Hydrated(d, structs)
        /\ IsDirty(d, structs) \/ d.unsaved
        /\ Event
        /\ Does(t, [Now(t) EXCEPT !.used = Counted,
                      !.d.save = [at |-> "sent", body |-> TextOf(d, structs)]], down)
        /\ UNCHANGED drive

SaveWritten(t) ==
    /\ tab[t].save.at = "sent"
    /\ file' = tab[t].save.body /\ past' = past \cup {file'}
    /\ tab' = [tab EXCEPT ![t].save.at = "written"]
    /\ UNCHANGED <<structs, hub, down, used, blame, unasked>>

SaveReturns(t) ==
    /\ ~tab[t].closed /\ tab[t].save.at = "written"
    /\ LET s == [Now(t) EXCEPT !.d = [@ EXCEPT !.baseline = tab[t].save.body, !.save = Idle,
                                               !.unsaved = FALSE]]
       IN  Does(t, Send(s, [k |-> "saved"]), down)
    /\ UNCHANGED drive

SaveFails(t) ==
    /\ ~tab[t].closed /\ tab[t].save # Idle
    /\ Does(t, [Now(t) EXCEPT !.d.save = Idle], down)
    /\ UNCHANGED drive

\* SYNC_RETRY_MS and SEED_FALLBACK_MS after a welcome.
SyncRetry(t) ==
    /\ ~tab[t].closed /\ tab[t].retry > 0
    /\ Does(t, SyncRequest([Now(t) EXCEPT !.d.retry = @ - 1]), down)
    /\ UNCHANGED drive

SeedFallback(t) ==
    /\ ~tab[t].closed /\ tab[t].fallback > 0 /\ tab[t].retry < tab[t].fallback
    /\ Does(t, MaybeSeed([Now(t) EXCEPT !.d.fallback = @ - 1], t, TRUE), down)
    /\ UNCHANGED drive

\* A frame reaches the tab.
TabTakes(t) ==
    LET p == tab[t].link
    IN  /\ ~tab[t].closed /\ p # 0 /\ down[p] # << >>
        /\ Does(t, OnMessage(Now(t), t, Head(down[p])), [down EXCEPT ![p] = Tail(@)])
        /\ UNCHANGED drive

----------------------------------------------------------------------------
(* Connections *)

\* CollabSocket.connect succeeds: join, and the welcome is on its way.
Connect(t) ==
    /\ ~tab[t].closed /\ tab[t].link = 0 /\ next \in Ids
    /\ tab' = [tab EXCEPT ![t].link = next]
    /\ peers' = peers \cup {next} /\ next' = next + 1
    /\ down' = [Broadcast(down, next, [k |-> "join", p |-> next]) EXCEPT
                  ![next] = <<[k |-> "welcome", me |-> next, peers |-> peers',
                               ops |-> {backlog[i] : i \in DOMAIN backlog}]>>]
    /\ unasked' = IF (\E p \in peers : Live(p)) /\ ~(\E p \in peers : Lowest(p) /\ Live(p))
                  THEN unasked \cup {next} ELSE unasked
    /\ UNCHANGED <<structs, backlog, drive, used, blame>>

\* onStatus("closed") without a welcome: work offline.
Unreachable(s, t) == IF s.d.welcomed THEN s ELSE MaybeSeed([s EXCEPT !.d.offline = TRUE], t, FALSE)

ConnectFails(t) ==
    /\ ~tab[t].closed /\ tab[t].link = 0 /\ ~tab[t].welcomed /\ Event
    /\ Does(t, Unreachable([Now(t) EXCEPT !.used = Counted], t), down)
    /\ UNCHANGED drive

\* The connection breaks, not seen by the tab at first: what is under way is
\* lost, and what the tab sends goes nowhere.  The hub's session() ends with
\* it, or lingers until its own end of the socket fails.
Cut(t) ==
    LET p == tab[t].link
    IN  /\ ~tab[t].closed /\ p # 0 /\ ~tab[t].cut
        /\ Event /\ used.cuts < MaxCuts /\ used' = [Counted EXCEPT !.cuts = @ + 1]
        /\ tab' = [tab EXCEPT ![t].cut = TRUE]
        /\ \/ /\ peers' = peers \ {p}
              /\ down' = [Broadcast(down, p, [k |-> "leave", p |-> p]) EXCEPT ![p] = << >>]
           \/ MayLinger /\ down' = [down EXCEPT ![p] = << >>] /\ UNCHANGED peers
        /\ unasked' = unasked \cup Forsaken(p)
        /\ UNCHANGED <<structs, next, backlog, drive, blame>>

\* The `close` event.
Dropped(t) ==
    /\ ~tab[t].closed /\ tab[t].cut
    /\ Does(t, Unreachable([Now(t) EXCEPT !.d.link = 0, !.d.cut = FALSE], t), down)
    /\ UNCHANGED drive

\* The hub's session() of a peer that is gone or closed ends: leave.
Leave(p) ==
    /\ p \in peers /\ ~Live(p)
    /\ peers' = peers \ {p}
    /\ down' = Broadcast(down, p, [k |-> "leave", p |-> p])
    /\ UNCHANGED <<tab, structs, next, backlog, drive, used, blame, unasked>>

\* The editor is closed.
Close(t) ==
    /\ Begun(t) /\ ~tab[t].closed
    /\ Event /\ used' = Counted
    /\ tab' = [tab EXCEPT ![t] = [@ EXCEPT !.closed = TRUE, !.link = 0, !.cut = FALSE]]
    /\ down' = IF tab[t].link = 0 THEN down ELSE [down EXCEPT ![tab[t].link] = << >>]
    /\ unasked' = unasked \cup Forsaken(tab[t].link)
    /\ UNCHANGED <<structs, hub, drive, blame>>

\* evict_idle.
EvictIdle ==
    /\ peers = {} /\ backlog # << >>
    /\ backlog' = << >>
    /\ UNCHANGED <<tab, structs, peers, next, down, drive, used, blame, unasked>>

----------------------------------------------------------------------------
Next ==
    \/ \E t \in Tabs :
          \/ Fetched(t) \/ HydrateTimeout(t) \/ Type(t) \/ Close(t)
          \/ Save(t) \/ SaveWritten(t) \/ SaveReturns(t) \/ SaveFails(t)
          \/ SyncRetry(t) \/ SeedFallback(t)
          \/ Connect(t) \/ ConnectFails(t) \/ Cut(t) \/ Dropped(t) \/ TabTakes(t)
    \/ \E p \in Ids : Leave(p)
    \/ EvictIdle

Spec == Init /\ [][Next]_vars

----------------------------------------------------------------------------
(* Properties *)

Text == [Tokens -> Nat]
Made == UNION {{c} \X (1 .. Len(structs[c])) : c \in Tabs}
Doc(t) == TextOf(tab[t], structs)
Connected(t) == tab[t].link # 0 /\ ~tab[t].cut
Opened == {t \in Tabs : Begun(t) /\ ~tab[t].closed}

\* Types: a document has only insertions that were made, its own among them,
\* and no tab makes two insertions that bear the file's first text.
TypeOK ==
    /\ \A t \in Tabs :
          /\ {tab[t].baseline, tab[t].pending, tab[t].seedText, tab[t].save.body}
                 \subseteq Text \cup {NoText}
          /\ {tab[t].link, tab[t].me} \subseteq Ids \cup {0} /\ tab[t].peers \subseteq Ids
          /\ {k \in Made : k[1] = t} \subseteq Held(tab[t])
          /\ tab[t].got \cup tab[t].dead \subseteq Made
          /\ tab[t].save.at \in {"none", "sent", "written"}
    /\ \A t \in Tabs :
          /\ structs[t] \in Seq(Text)
          /\ \A i, j \in DOMAIN structs[t] : structs[t][i][0] >= 1 /\ structs[t][j][0] >= 1 => i = j
    /\ peers \subseteq Ids /\ next \in 1 .. Cardinality(Ids) + 1
    /\ Len(backlog) <= OpBacklog
    /\ file \in past /\ past \subseteq Text /\ used.edits \in 0 .. MaxEdits

\* Nothing is on its way and no timer is running.
Quiet ==
    /\ \A p \in Ids : down[p] = << >>
    /\ \A p \in peers : Live(p)
    /\ \A t \in Opened : tab[t].retry = 0 /\ tab[t].fallback = 0 /\ tab[t].save = Idle
                         /\ tab[t].fetched

\* Editors that are connected and have received everything show one text.
Converges ==
    Quiet => \A t, u \in Opened : Connected(t) /\ Connected(u) => Doc(t) = Doc(u)

\* So it is unless the hub refused an op, which leaves a gap in its author's
\* insertions that nothing fills, or nobody asked a newcomer for what it had.
ConvergesUnlessUnheard == "op refused" \in blame \/ unasked # {} \/ Converges

\* The text the file held is in the file for ever: nobody deleted it.
TextKept == file[0] >= 1

\* An editor past its loading screen shows the text the file held, and saves it
\* back, unless one of four things happened: a tab called a document without that
\* text synced, a tab dropped its seed on a welcome (private or shared already),
\* the loading screen gave up, or the hub refused an op.
TextShownUnlessHollow ==
    \/ blame # {}
    \/ TextKept /\ \A t \in Opened : ~tab[t].loading => Doc(t)[0] >= 1

\* At rest, with no editor dirty, the file holds what every editor shows.
RestMeansSaved ==
    (Quiet /\ \A t \in Opened : Connected(t) /\ ~IsDirty(tab[t], structs)) =>
        \A t \in Opened : Doc(t) = file

\* An editor that is dirty asks before it is closed.
DirtyIsGuarded ==
    \A t \in Opened : ~tab[t].loading /\ IsDirty(tab[t], structs) => tab[t].unsaved
=============================================================================
