--------------------------- MODULE FileOpsUploads ---------------------------
(***************************************************************************)
(* Uploads in one browser tab of luna/web: the folder walk, the name check,  *)
(* the pool of the upload runner (lib/fileOps/uploadRunner.js) on the file   *)
(* operation store, and uploadFile / completeUpload (lib/fileSource.jsx)     *)
(* with their session on lunad.  Every await is a place where the person     *)
(* may cancel, close the page or answer a question, where somebody else may  *)
(* save under the same name, and where an answer may be lost.                *)
(***************************************************************************)
EXTENDS FileOpsStore, Integers, Sequences

CONSTANTS
    NItems,       \* items one drop holds, in the order the walk finds them
    Kind,         \* Kind[i]: "small" (one request), "big" (chunked), "dir" (empty folder)
    Parallel,     \* UPLOAD_PARALLEL
    MaxRetries,   \* bound: items sent again by Try again or the online event
    MaxFaults     \* bound: lost or refused requests and names taken by others together

Items == 1 .. NItems
\* The sessions an item may open: one per attempt.
Sids == Items \X (1 .. (MaxRetries + 1))
NoSid == <<0, 0>>

ASSUME UploadConstants ==
    /\ NItems \in Nat \ {0} /\ Kind \in [Items -> {"small", "big", "dir"}]
    /\ Parallel \in Nat \ {0} /\ {MaxRetries, MaxFaults} \subseteq Nat

VARIABLES
    op,           \* the operation (FileOpsStore)
    walking,      \* op.walking
    walk,         \* the item the walk reads next; 0 when no walk is going
    item,         \* item[i]: its fields that decide control
    listing,      \* rt(op).nameMaps: the promise of the folder's names
    co,           \* co[i]: the await at which i's coroutine stands
    net,          \* net[i]: the request it waits for
    ready,        \* ready: items that may enter the pool
    closed,       \* the page is gone
    taken,        \* lunad: what holds item i's name
    open,         \* lunad: upload sessions that exist
    copies,       \* lunad: files made out of item i
    asked,        \* history: items for which "replace" was chosen
    adrift,       \* history: sessions whose id or whose DELETE was lost
    used          \* how much of each bound is used

lunad == <<taken, open, copies>>
vars == <<op, walking, walk, item, listing, co, net, ready, closed, lunad, asked, adrift, used>>

Taken == {"none", "file", "dir", "own"}
NoItemRecord == [st |-> "none", shown |-> FALSE, dec |-> "none", again |-> FALSE, off |-> FALSE,
                 conflict |-> "none", sid |-> NoSid, only |-> FALSE]
ItemRecord == [st : ItemState, shown : BOOLEAN, dec : {"none", "file", "dir"},
               again : BOOLEAN, off : BOOLEAN,
               conflict : {"none", "replace", "keep_both"},
               sid : Sids \cup {NoSid},       \* uploadId
               only : BOOLEAN]                \* completeOnly

\* The awaits of a file's coroutine inside the pool, and those of a folder's.
Pooled == {"multipart", "create", "chunk", "complete", "recomplete"}
\* An empty folder has a level above it, which it asks for first.
Making == {"mkdir", "stat1", "mkdir2", "stat"}
Await == Pooled \cup Making \cup {"idle", "names"}
\* "busy" is a status of errors.js's RETRYABLE_STATUS, "refused" any other.
Answer == {"idle", "sent", "ok", "file", "dir", "lost", "busy", "refused", "aborted"}

\* A tab that does nothing.
NoItems == [i \in Items |-> NoItemRecord]
NoListing == [at |-> "unasked", names |-> [i \in Items |-> "none"]]
AllIdle == [i \in Items |-> "idle"]

Init ==
    /\ op = NoOp /\ walking = FALSE /\ walk = 0
    /\ item = NoItems /\ listing = NoListing
    /\ co = AllIdle /\ net = AllIdle
    /\ ready = << >> /\ closed = FALSE
    /\ taken \in [Items -> {"none", "file", "dir"}]
    /\ open = {} /\ copies = [i \in Items |-> 0]
    /\ asked = {} /\ adrift = {}
    /\ used = [retries |-> 0, faults |-> 0]

Fault == used.faults < MaxFaults /\ used' = [used EXCEPT !.faults = @ + 1]

----------------------------------------------------------------------------
(* The store and the pool *)

\* The tab's state, as the synchronous code of a handler passes it on.
Now == [op |-> op, walking |-> walking, item |-> item, co |-> co, net |-> net, ready |-> ready]

\* env.settle(op).  A folder counts as no file.
Settle(s) ==
    LET shown == {i \in Items : s.item[i].shown}
    IN  [s EXCEPT !.op = Settled(s.op, {s.item[i].st : i \in shown},
                                 \E i \in shown : s.item[i].st = "done" /\ Kind[i] # "dir",
                                 s.walking, FALSE)]

InPool(s) == {i \in Items : s.co[i] \in Pooled}

\* The positions of `ready` that pump starts; run() sends its first request.
Startable(s) == {p \in DOMAIN s.ready : s.item[s.ready[p]].st = "queued" /\ s.op.listed}

\* Of those, the ones among the first k entries of `ready`.
Started(s, k) == {p \in Startable(s) : p <= k}

\* pump's loop shifts exactly k entries: it goes on until the pool is full or
\* `ready` is empty.
Shifts(s, k) ==
    LET room == Parallel - Cardinality(InPool(s))
    IN  /\ k = Len(s.ready) \/ Cardinality(Started(s, k)) >= room
        /\ \A m \in 0 .. k - 1 : Cardinality(Started(s, m)) < room

Sent(s, k) ==
    LET who == {s.ready[p] : p \in Started(s, k)}
        first(i) == IF s.item[i].only THEN "recomplete"
                    ELSE IF Kind[i] = "small" THEN "multipart" ELSE "create"
    IN  [s EXCEPT
           !.ready = SubSeq(@, k + 1, Len(@)),
           !.item = [i \in Items |->
                       IF i \in who
                       THEN [@[i] EXCEPT !.st = IF s.item[i].only THEN "finishing"
                                                ELSE "uploading"]
                       ELSE @[i]],
           !.co  = [i \in Items |-> IF i \in who THEN first(i) ELSE @[i]],
           !.net = [i \in Items |-> IF i \in who THEN "sent" ELSE @[i]]]

\* The handler is over: this is the tab now.  (The \E has TLC compute it once.)
Becomes(s) ==
    \E n \in {s} :
        /\ op' = n.op /\ walking' = n.walking /\ item' = n.item
        /\ co' = n.co /\ net' = n.net /\ ready' = n.ready

\* The handler ends with pump().
Pump(s) == \E k \in 0 .. Len(s.ready) : Shifts(s, k) /\ Becomes(Sent(s, k))

Enqueue(s, i) == Pump([s EXCEPT !.ready = Append(@, i)])

\* DELETE of upload sessions, sent and forgotten.
SendDelete(S) ==
    \/ open' = open \ S /\ UNCHANGED <<adrift, used>>
    \/ S \cap open # {} /\ Fault /\ adrift' = adrift \cup S /\ UNCHANGED open

----------------------------------------------------------------------------
(* Name clashes *)

AppliedUnqueued(s, q, choice) ==
    [s EXCEPT !.item = [i \in Items |->
        IF \E n \in DOMAIN q : q[n] = i
        THEN [@[i] EXCEPT !.st = IF choice = "skip" THEN "skipped" ELSE "queued", !.dec = "none"]
        ELSE @[i]]]

AppliedSkipAsDone(s, q, choice) ==
    [s EXCEPT !.item = [i \in Items |->
        IF \E n \in DOMAIN q : q[n] = i THEN [@[i] EXCEPT !.st = "done", !.dec = "none"]
        ELSE @[i]]]

\* apply(op, item, choice) to the items of q in turn, up to its settle (skip) or
\* pump, its endSession's request aside.
Applied(s, q, choice) ==
    LET to(r) == IF choice = "skip"
                 THEN [r EXCEPT !.st = "skipped", !.dec = "none", !.sid = NoSid, !.only = FALSE]
                 ELSE [r EXCEPT !.st = "queued", !.dec = "none", !.conflict = choice]
    IN  [s EXCEPT !.item = [i \in Items |-> IF \E n \in DOMAIN q : q[n] = i THEN to(@[i]) ELSE @[i]],
                  !.ready = IF choice = "skip" THEN @ ELSE @ \o q]

\* The whole apply: it ends in settle, or in pump.
Apply(s, q, choice) ==
    IF choice = "skip" THEN Becomes(Settle(Applied(s, q, choice)))
    ELSE Pump(Applied(s, q, choice))

\* endSession: the sessions it deletes.
Unwanted(s, i) == IF s.item[i].only THEN {s.item[i].sid} \ {NoSid} ELSE {}

PolicyAnswersAll(kind) == op.policy # "none"

PolicyAnswers(kind) == op.policy \in Options(kind)

\* clash(op, item, kind): the policy answers, or the item waits for the person.
\* Settle and pump are left to the caller.
Clash(s, i, kind) ==
    IF PolicyAnswers(kind)
    THEN Applied(s, <<i>>, op.policy)
    ELSE [s EXCEPT !.item[i] = [@ EXCEPT !.st = "needs-decision", !.dec = kind]]

Skipped(s, i, kind) == IF PolicyAnswers(kind) /\ op.policy = "skip" THEN Unwanted(s, i) ELSE {}
AskedBy(i, kind) == IF PolicyAnswers(kind) /\ op.policy = "replace" THEN asked \cup {i} ELSE asked

----------------------------------------------------------------------------
(* Starting, and the walk over what was dropped *)

\* addFile up to prepare's await, addFolder up to makeFolders' first request,
\* for the items of T.
Added(s, T) ==
    Settle([s EXCEPT
       !.item = [i \in Items |->
                   IF i \in T
                   THEN [NoItemRecord EXCEPT !.shown = TRUE,
                                             !.st = IF Kind[i] = "dir" THEN "running" ELSE "queued"]
                   ELSE @[i]],
       !.co = [i \in Items |-> IF i \notin T THEN @[i]
                               ELSE IF Kind[i] = "dir" THEN "mkdir" ELSE "names"],
       !.net = [i \in Items |-> IF i \notin T THEN @[i]
                                ELSE IF Kind[i] = "dir" THEN "sent" ELSE "idle"]])

AskNames(is) ==
    listing' = IF listing.at = "unasked" /\ \E i \in is : Kind[i] # "dir"
               THEN [listing EXCEPT !.at = "asked"] ELSE listing

NotStarted == ~closed /\ op = NoOp

\* startUpload with picked files.
StartFiles ==
    /\ NotStarted /\ \A i \in Items : Kind[i] # "dir"
    /\ Becomes(Added([Now EXCEPT !.op = NewOp("preparing")], Items))
    /\ AskNames(Items)
    /\ UNCHANGED <<walk, closed, lunad, asked, adrift, used>>

\* startUpload with a drop: the walk begins.
StartDrop ==
    /\ NotStarted
    /\ Becomes([Now EXCEPT !.op = NewOp("preparing"), !.walking = TRUE])
    /\ walk' = 1
    /\ UNCHANGED <<listing, closed, lunad, asked, adrift, used>>

\* onFile, onDir.
WalkFinds ==
    /\ walk \in Items /\ ~op.cancelled
    /\ Becomes(Added(Now, {walk}))
    /\ AskNames({walk})
    /\ walk' = walk + 1
    /\ UNCHANGED <<closed, lunad, asked, adrift, used>>

\* onError: the entry cannot be read.  Unlike the others it does not look at the
\* abort signal; the entries after it do.
WalkError ==
    /\ walk \in Items
    /\ Fault
    /\ Becomes([Now EXCEPT !.item[walk] = [NoItemRecord EXCEPT !.shown = TRUE, !.st = "failed"]])
    /\ walk' = IF op.cancelled THEN NItems + 1 ELSE walk + 1
    /\ UNCHANGED <<listing, closed, lunad, asked, adrift>>

\* The walk returns: it has seen everything or was aborted.
WalkEnds ==
    /\ walk # 0 /\ (walk > NItems \/ op.cancelled)
    /\ Becomes(Settle([Now EXCEPT !.walking = FALSE]))
    /\ walk' = 0
    /\ UNCHANGED <<listing, closed, lunad, asked, adrift, used>>

\* knownNames: lunad lists the folder, or the listing fails.
Listed ==
    /\ listing.at = "asked"
    /\ \/ listing' = [at |-> "known", names |-> taken] /\ UNCHANGED used
       \/ listing' = [listing EXCEPT !.at = "failed"] /\ Fault
    /\ UNCHANGED <<op, walking, walk, item, co, net, ready, closed, lunad, asked, adrift>>

\* prepare after its await: a clash the listing shows, or into the pool.
Prepared(i) ==
    LET hit == IF listing.at = "known" THEN listing.names[i] ELSE "none"
        s   == [Now EXCEPT !.co[i] = "idle"]
    IN  /\ co[i] = "names" /\ listing.at \in {"known", "failed"}
        /\ IF item[i].st # "queued" THEN Becomes(s)
           ELSE IF hit = "none" THEN Enqueue(s, i)
           ELSE IF PolicyAnswers(hit) THEN Apply(s, <<i>>, op.policy)
           ELSE Becomes(Settle(Clash(s, i, hit)))
        /\ asked' = IF item[i].st = "queued" /\ hit # "none" THEN AskedBy(i, hit) ELSE asked
        /\ UNCHANGED <<walk, listing, closed, lunad, adrift, used>>

----------------------------------------------------------------------------
(* lunad and the network *)

HeldByRaw(t) == t

HeldBy(t) == IF t = "dir" THEN "dir" ELSE "file"
\* The id lunad gives a new session of item i.
FreshSid(i, d) == /\ d[1] = i /\ d \notin open
                  /\ \A e \in Sids : e[1] = i /\ e[2] < d[2] => e \in open
MayInstall(i) == taken[i] = "none" \/ item[i].conflict # "none"

\* The file is installed: over what was there, beside it, or under its own name.
Install(i) ==
    /\ copies' = [copies EXCEPT ![i] = IF taken[i] = "own" /\ item[i].conflict = "replace"
                                       THEN @ ELSE @ + 1]
    /\ taken' = [taken EXCEPT ![i] = IF @ = "none" \/ item[i].conflict = "replace" THEN "own" ELSE @]

\* lunad answers the request i's coroutine waits for.  A folder's name that is
\* taken answers 409, here "file" whatever holds it; the level above item i may
\* be new, a folder, or a file.
Serve(i) ==
    /\ net[i] = "sent"
    /\ CASE co[i] \in {"multipart", "create"} /\ ~MayInstall(i) ->
               net' = [net EXCEPT ![i] = HeldBy(taken[i])] /\ UNCHANGED lunad
         [] co[i] = "multipart" /\ MayInstall(i) ->
               net' = [net EXCEPT ![i] = "ok"] /\ Install(i) /\ UNCHANGED open
         [] co[i] = "create" /\ MayInstall(i) ->
               /\ net' = [net EXCEPT ![i] = "ok"]
               /\ \E d \in Sids : FreshSid(i, d) /\ open' = open \cup {d}
               /\ UNCHANGED <<taken, copies>>
         [] co[i] = "chunk" ->
               /\ net' = [net EXCEPT ![i] = IF item[i].sid \in open THEN "ok" ELSE "refused"]
               /\ UNCHANGED lunad
         [] co[i] \in {"complete", "recomplete"} ->
               IF item[i].sid \notin open
               THEN net' = [net EXCEPT ![i] = "refused"] /\ UNCHANGED lunad
               ELSE IF MayInstall(i)
               THEN /\ net' = [net EXCEPT ![i] = "ok"]
                    /\ Install(i) /\ open' = open \ {item[i].sid}
               ELSE net' = [net EXCEPT ![i] = HeldBy(taken[i])] /\ UNCHANGED lunad
         [] co[i] = "mkdir" ->
               \E a \in {"ok", "file"} : net' = [net EXCEPT ![i] = a] /\ UNCHANGED lunad
         [] co[i] = "stat1" ->
               \E a \in {"file", "dir"} : net' = [net EXCEPT ![i] = a] /\ UNCHANGED lunad
         [] co[i] = "mkdir2" ->
               IF taken[i] = "none"
               THEN net' = [net EXCEPT ![i] = "ok"] /\ Install(i) /\ UNCHANGED open
               ELSE net' = [net EXCEPT ![i] = "file"] /\ UNCHANGED lunad
         [] co[i] = "stat" ->
               /\ net' = [net EXCEPT ![i] = IF taken[i] = "file" THEN "file" ELSE "dir"]
               /\ UNCHANGED lunad
    /\ UNCHANGED <<op, walking, walk, item, listing, co, ready, closed, asked, adrift, used>>

\* Sessions whose id is in an answer that has not arrived.
Hidden(T) == {d \in open \ adrift : d[1] \in T /\ co[d[1]] = "create" /\ net[d[1]] = "ok"}

\* The request or its answer is lost, a server on the way says it is busy, or
\* lunad refuses it.
Trouble(i, a) ==
    /\ \/ a \in {"lost", "busy"} /\ net[i] \in {"sent", "ok"}
       \/ a = "refused" /\ net[i] = "sent"
    /\ Fault
    /\ net' = [net EXCEPT ![i] = a]
    /\ adrift' = adrift \cup Hidden({i})
    /\ UNCHANGED <<op, walking, walk, item, listing, co, ready, closed, lunad, asked>>

\* Somebody saves a file under item i's name.
SomeoneSaves(i) ==
    /\ ~closed /\ taken[i] = "none" /\ Fault
    /\ taken' = [taken EXCEPT ![i] = "file"]
    /\ UNCHANGED <<op, walking, walk, item, listing, co, net, ready, closed, open, copies, asked, adrift>>

----------------------------------------------------------------------------
(* The coroutine of a file: run, uploadFile, completeUpload, handleError *)

Left(s, i) == [s EXCEPT !.co[i] = "idle", !.net[i] = "idle"]

RunEndsNoPump(s, i) == Becomes(Settle(Left(s, i)))

\* run()'s end: settle, leave the pool, pump.
RunEnds(s, i) == Pump(Settle(Left(s, i)))

\* An await of uploadFile returned and the next request goes out.
Proceeds(i) ==
    /\ net[i] = "ok"
    /\ \/ /\ co[i] = "create"
          /\ \E d \in open \ adrift :
                d[1] = i /\ Becomes([Now EXCEPT !.item[i].sid = d,
                                                !.co[i] = "chunk", !.net[i] = "sent"])
       \/ /\ co[i] = "chunk"
          /\ Becomes([Now EXCEPT !.item[i].st = IF @ = "uploading" THEN "finishing" ELSE @,
                                 !.co[i] = "complete", !.net[i] = "sent"])
    /\ UNCHANGED <<walk, listing, closed, lunad, asked, adrift, used>>

\* sendChunkWithRetry: a chunk without an answer, or met by a busy server, is
\* sent again.
ChunkAgain(i) ==
    /\ co[i] = "chunk" /\ net[i] \in {"lost", "busy"}
    /\ net' = [net EXCEPT ![i] = "sent"]
    /\ UNCHANGED <<op, walking, walk, item, listing, co, ready, closed, lunad, asked, adrift, used>>

\* The file is on Luna, whatever became of the row meanwhile.
Uploaded(i) ==
    /\ co[i] \in {"multipart", "complete", "recomplete"} /\ net[i] = "ok"
    /\ RunEnds([Now EXCEPT !.item[i] = [@ EXCEPT !.st = "done", !.sid = NoSid, !.only = FALSE]], i)
    /\ UNCHANGED <<walk, listing, closed, lunad, asked, adrift, used>>

\* A name clash: at /complete the session is kept for the answer.
Clashed(i) ==
    LET kind == net[i]
        only == co[i] \in {"complete", "recomplete"}
        s    == [Left(Now, i) EXCEPT !.item[i].only = @ \/ only]
    IN  /\ co[i] \in Pooled /\ kind \in {"file", "dir"}
        /\ IF item[i].st = "cancelled"
           THEN /\ RunEnds(Now, i)
                /\ UNCHANGED <<open, asked, adrift, used>>
           ELSE /\ Pump(Settle(Clash(s, i, kind)))
                /\ SendDelete(Skipped(s, i, kind))
                /\ asked' = AskedBy(i, kind)
        /\ UNCHANGED <<walk, listing, closed, taken, copies>>

\* Any other error: the session, if there is one, is given up.
Failed(i) ==
    /\ co[i] \in Pooled /\ net[i] \in {"lost", "busy", "refused", "aborted"}
    /\ SendDelete(IF co[i] \in {"chunk", "complete", "recomplete"} THEN {item[i].sid} ELSE {})
    /\ RunEnds(IF item[i].st = "cancelled" THEN Now
               ELSE [Now EXCEPT !.item[i] = [@ EXCEPT !.st = "failed",
                                                      !.again = (net[i] \in {"lost", "busy"}),
                                                      !.off = (net[i] = "lost")]], i)
    /\ UNCHANGED <<walk, listing, closed, taken, copies, asked>>

----------------------------------------------------------------------------
(* The coroutine of an empty folder: makeFolders *)

Stopped(s, i) == Settle(Left([s EXCEPT !.item[i].st = "cancelled"], i))

FolderStepSilent(i) ==
    /\ co[i] \in Making /\ net[i] \notin {"idle", "sent"}
    /\ Becomes(Settle(Left(Now, i)))
    /\ UNCHANGED <<walk, listing, closed, lunad, asked, adrift, used>>

FolderStep(i) ==
    LET gone   == item[i].st = "cancelled"
        fails(r, off) == Settle(Left([Now EXCEPT !.item[i] = [@ EXCEPT !.st = "failed", !.again = r,
                                                                      !.off = off]], i))
    IN  /\ co[i] \in Making /\ net[i] \notin {"idle", "sent"}
        /\ Becomes(
             CASE net[i] \in {"lost", "busy", "refused"} /\ co[i] \in {"mkdir", "mkdir2"} ->
                    IF gone THEN Stopped(Now, i)
                    ELSE fails(net[i] \in {"lost", "busy"}, net[i] = "lost")
               [] co[i] \in {"mkdir", "mkdir2"} /\ net[i] = "file" ->
                    [Now EXCEPT !.co[i] = IF @ = "mkdir" THEN "stat1" ELSE "stat", !.net[i] = "sent"]
               [] co[i] \in {"stat1", "stat"} /\ net[i] = "file" -> fails(TRUE, FALSE)
               [] (co[i] = "mkdir" /\ net[i] = "ok") \/ (co[i] = "stat1" /\ net[i] # "file") ->
                    IF gone THEN Stopped(Now, i)
                    ELSE [Now EXCEPT !.co[i] = "mkdir2", !.net[i] = "sent"]
               [] OTHER ->
                    IF gone THEN Stopped(Now, i)
                    ELSE Settle(Left([Now EXCEPT !.item[i].st = "done"], i)))
        /\ UNCHANGED <<walk, listing, closed, lunad, asked, adrift, used>>

----------------------------------------------------------------------------
(* The person, the dock and the page *)

Here(i) == item[i].shown /\ op.listed

\* decide, decideAll.
Decide(i, choice) ==
    /\ Here(i) /\ item[i].st = "needs-decision" /\ choice \in Options(item[i].dec)
    /\ Apply(Now, <<i>>, choice)
    /\ SendDelete(IF choice = "skip" THEN Unwanted(Now, i) ELSE {})
    /\ asked' = IF choice = "replace" THEN asked \cup {i} ELSE asked
    /\ UNCHANGED <<walk, listing, closed, taken, copies>>

DecideAll(choice) ==
    LET T == {i \in Items : /\ Here(i) /\ item[i].st = "needs-decision"
                            /\ AllowedForAll(item[i].dec, choice)}
    IN  /\ T # {}
        /\ \E q \in InOrder(T) : Apply([Now EXCEPT !.op.policy = choice], q, choice)
        /\ SendDelete(IF choice = "skip" THEN UNION {Unwanted(Now, i) : i \in T} ELSE {})
        /\ asked' = IF choice = "replace" THEN asked \cup T ELSE asked
        /\ UNCHANGED <<walk, listing, closed, taken, copies>>

Retryable(i) == Here(i) /\ item[i].st = "failed" /\ item[i].again

\* retry, retryOffline.
RetryItems(T) ==
    LET dirs == {i \in T : Kind[i] = "dir"}
        again(q) ==
            [Now EXCEPT
               !.item = [i \in Items |->
                           IF i \in dirs THEN [@[i] EXCEPT !.st = "running", !.off = FALSE]
                           ELSE IF i \in T
                           THEN [@[i] EXCEPT !.st = "queued", !.off = FALSE, !.sid = NoSid, !.only = FALSE]
                           ELSE @[i]],
               !.co = [i \in Items |-> IF i \in dirs THEN "mkdir" ELSE @[i]],
               !.net = [i \in Items |-> IF i \in dirs THEN "sent" ELSE @[i]],
               !.ready = @ \o q]
    IN  /\ T # {} /\ \A i \in T : Retryable(i)
        /\ used.retries + Cardinality(T) <= MaxRetries
        /\ used' = [used EXCEPT !.retries = @ + Cardinality(T)]
        /\ \E q \in InOrder(T \ dirs) : Pump(Settle(again(q)))
        /\ UNCHANGED <<walk, listing, closed, lunad, asked, adrift>>

Retry == \/ \E i \in Items : RetryItems({i})
         \/ RetryItems({i \in Items : Retryable(i)})
RetryOffline == RetryItems({i \in Items : Retryable(i) /\ item[i].off})

\* cancel's stop() for the items of T: the signal reaches every request but
\* completeUpload's, which has none.
StopItems(s, T) ==
    [s EXCEPT
       !.item = [i \in Items |->
                   IF i \in T /\ @[i].st \in {"queued", "uploading", "finishing", "running"}
                   THEN [@[i] EXCEPT !.st = "cancelled"]
                   ELSE IF i \in T /\ @[i].st = "needs-decision"
                   THEN [@[i] EXCEPT !.st = "cancelled", !.dec = "none", !.sid = NoSid, !.only = FALSE]
                   ELSE IF i \in T /\ @[i].st = "failed"
                   THEN [@[i] EXCEPT !.sid = NoSid, !.only = FALSE]
                   ELSE @[i]],
       !.net = [i \in Items |-> IF i \in T /\ s.co[i] \in Pooled \ {"recomplete"}
                                           /\ s.item[i].st \in {"uploading", "finishing"}
                                THEN "aborted" ELSE @[i]]]

\* What stop()'s endSession deletes.
Given(T) == UNION {Unwanted(Now, i) : i \in {k \in T : item[k].st \in Problem}}

Cancel(T, s) ==
    /\ Becomes(Settle(StopItems(s, T)))
    /\ \/ open' = open \ Given(T) /\ adrift' = adrift \cup Hidden(T) /\ UNCHANGED used
       \/ Given(T) \cap open # {} /\ Fault /\ adrift' = adrift \cup Hidden(T) \cup Given(T) /\ UNCHANGED open
    /\ UNCHANGED <<walk, listing, closed, taken, copies, asked>>

\* The operation's Cancel button; the X of a file being sent.
CancelOp ==
    /\ op.listed /\ op.phase \in {"preparing", "running"}
    /\ Cancel({i \in Items : item[i].shown},
              [Now EXCEPT !.op.cancelled = TRUE, !.walking = FALSE])

CancelItem(i) ==
    /\ Here(i) /\ item[i].st \in {"uploading", "finishing"}
    /\ Cancel({i}, Now)

\* Remove on a failed row; Clear failed.
RemoveItem(i) ==
    /\ Here(i) /\ item[i].st = "failed"
    /\ Cancel({i}, [Now EXCEPT !.item[i].shown = FALSE])

ClearFailed ==
    LET T == {i \in Items : Here(i) /\ item[i].st = "failed"}
    IN  /\ T # {}
        /\ Becomes(Settle([Now EXCEPT !.item = [i \in Items |->
                             IF i \in T THEN [@[i] EXCEPT !.shown = FALSE] ELSE @[i]]]))
        /\ UNCHANGED <<walk, listing, closed, lunad, asked, adrift, used>>

HasProblem == \E i \in Items : item[i].shown /\ item[i].st \in Problem

Leave ==
    /\ op.listed
    /\ \/ op.phase \notin {"preparing", "running", "waiting"} /\ HasProblem  \* Clear: dismiss
       \/ op.clear /\ op.ended /\ ~HasProblem                                \* the auto-clear timer
    /\ Becomes([Now EXCEPT !.op.listed = FALSE, !.op.clear = FALSE])
    /\ UNCHANGED <<walk, listing, closed, lunad, asked, adrift, used>>

\* pagehide: sessions() are deleted, and the page is gone with all it knew.
Sessions == {item[i].sid : i \in {k \in Items : /\ Here(k) /\ item[k].sid # NoSid
                                                /\ item[k].st \in {"uploading", "finishing", "needs-decision"}}}
ClosePage ==
    /\ ~closed /\ closed' = TRUE
    /\ open' = open \ Sessions
    /\ adrift' = adrift \cup Hidden(Items)
    /\ op' = NoOp /\ walking' = FALSE /\ walk' = 0
    /\ item' = NoItems /\ listing' = NoListing
    /\ co' = AllIdle /\ net' = AllIdle /\ ready' = << >>
    /\ UNCHANGED <<taken, copies, asked, used>>

----------------------------------------------------------------------------
Tab ==
    \/ WalkFinds \/ WalkError \/ WalkEnds
    \/ \E i \in Items : \/ Prepared(i) \/ Proceeds(i) \/ ChunkAgain(i) \/ Uploaded(i)
                        \/ Clashed(i) \/ Failed(i) \/ FolderStep(i)

Person ==
    \/ StartFiles \/ StartDrop \/ CancelOp \/ ClearFailed \/ Leave \/ ClosePage
    \/ Retry \/ RetryOffline
    \/ \E i \in Items : CancelItem(i) \/ RemoveItem(i)
    \/ \E i \in Items, c \in {"replace", "keep_both", "skip"} : Decide(i, c)
    \/ \E c \in {"replace", "keep_both", "skip"} : DecideAll(c)

Outside ==
    \/ Listed
    \/ \E i \in Items : Serve(i) \/ SomeoneSaves(i)
    \/ \E i \in Items, a \in {"lost", "busy", "refused"} : Trouble(i, a)

Next == Tab \/ Person \/ Outside

Spec == Init /\ [][Next]_vars

\* As long as the walk can go on, lunad can answer or a coroutine can run, the
\* browser's event loop gets some of them done.
Working ==
    \/ Listed \/ \E i \in Items : Serve(i) \/ ChunkAgain(i) \/ Proceeds(i)
    \/ WalkEnds \/ WalkFinds
    \/ \E i \in Items : Prepared(i) \/ Uploaded(i) \/ Clashed(i) \/ Failed(i) \/ FolderStep(i)

FairSpec == Spec /\ WF_vars(Working)

----------------------------------------------------------------------------
(* Properties *)

\* Types: only a name's holder that lunad reports is ever asked about, and a file
\* is made at most once per attempt.
TypeOK ==
    /\ op \in OpRecord /\ walking \in BOOLEAN /\ walk \in 0 .. NItems + 1
    /\ item \in [Items -> ItemRecord]
    /\ listing \in [at : {"unasked", "asked", "known", "failed"}, names : [Items -> Taken]]
    /\ co \in [Items -> Await] /\ net \in [Items -> Answer]
    /\ ready \in Seq(Items) /\ closed \in BOOLEAN
    /\ taken \in [Items -> Taken] /\ open \subseteq Sids /\ copies \in [Items -> 0 .. MaxRetries + 1]
    /\ asked \subseteq Items /\ adrift \subseteq Sids
    /\ used \in [retries : 0 .. MaxRetries, faults : 0 .. MaxFaults]

\* The pool is never over its limit, never idle while a file could go, and
\* never about to start a file whose previous attempt is still going.
PoolExact ==
    /\ Cardinality(InPool(Now)) <= Parallel
    /\ Startable(Now) = {} \/ Cardinality(InPool(Now)) = Parallel
    /\ \A p \in Startable(Now) : co[ready[p]] = "idle"

\* A row that says it is queued, sending or being made really is on its way.
NothingStranded ==
    \A i \in Items : Here(i) =>
        /\ item[i].st = "queued" => co[i] = "names" \/ \E p \in DOMAIN ready : ready[p] = i
        /\ item[i].st \in {"uploading", "finishing"} => co[i] \in Pooled
        /\ item[i].st = "running" => co[i] \in Making

\* "Done" is only said of a file that is on Luna, and a second copy of it only
\* comes of a lost answer and a Try again.
DoneTruthful ==
    \A i \in Items :
        /\ item[i].st = "done" /\ Kind[i] # "dir" => copies[i] >= 1
        /\ copies[i] > 1 => used.retries > 0 /\ used.faults > 0

\* A file somebody else saved is only overwritten if the person, or the policy
\* the person set, said Replace for it; a folder never is.
ReplacedOnlyIfAsked ==
    [][\A i \in Items : (taken[i] \in {"file", "dir"} /\ taken'[i] # taken[i]) =>
            taken[i] = "file" /\ i \in asked]_vars

\* An operation shown as ended has nothing going on but requests of items that
\* were cancelled, and its walk reports no further file.
EndedIsOver ==
    op.listed /\ op.ended =>
        /\ ~walking
        /\ \A i \in Items : item[i].shown /\ co[i] # "idle" => item[i].st = "cancelled"

\* Every session lunad still holds, whose id the tab learnt, is one some item
\* will complete or give up; closing the page gives all of them up.
SessionKept(d) ==
    LET i == d[1]
    IN  /\ item[i].sid = d
        /\ \/ co[i] \in {"chunk", "complete", "recomplete"}
           \/ item[i].only /\ item[i].st \in {"queued", "needs-decision"}

NoSessionLeft == \A d \in open \ adrift : SessionKept(d) \/ d \in Hidden(Items)

\* The row of something the person cancelled never turns into a question or a
\* failure: it stays cancelled, or the file turns out to be there.
CancelledStays ==
    [][\A i \in Items : item[i].st = "cancelled" /\ ~closed' =>
            item'[i].st \in {"cancelled", "done"}]_vars

\* Once the operation is cancelled its walk reports nothing more.
NothingReportedAfterCancel ==
    [][op.cancelled => \A i \in Items : item'[i].shown => item[i].shown]_vars

\* Every row a person sees at work comes to rest while the page is open.
EveryItemSettles ==
    \A i \in Items : (Here(i) /\ item[i].st \in Active)
                        ~> ~(Here(i) /\ item[i].st \in Active)
=============================================================================
