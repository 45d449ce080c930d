---------------------------- MODULE FileOpsJobs -----------------------------
(***************************************************************************)
(* Copy and move in one browser tab of luna/web: the job runner             *)
(* (lib/fileOps/jobRunner.js) on the file operation store (store.js),       *)
(* composed with what lunad promises about jobs (JobLifecycle).  A POST, a   *)
(* poll and its GETs are each split where the code awaits, so every answer   *)
(* may arrive after a click, after a later answer, or never; lunad may       *)
(* restart and the tab may be reloaded at any point.                         *)
(***************************************************************************)
EXTENDS FileOpsStore, Integers, Sequences

CONSTANTS
    NItems,       \* items are numbered; an operation's items keep their order
    Ops,          \* operations of the dock
    OpOf,         \* OpOf[i]: the operation item i belongs to
    Parallel,     \* JOB_PARALLEL
    Refusals,     \* the answers other than a job that POST may get
    MaxRetries,   \* bound: items sent again by Try again or the online event
    MaxFaults,    \* bound: lost messages, full queues, restarts and reloads together
    MaxPolls      \* bound: polls awaiting an answer at once

Items == 1 .. NItems
\* Every POST is numbered; the number is the job's id once lunad accepts it.
Jobs == 1 .. (NItems + MaxRetries)
Slots == 1 .. MaxPolls
NoItem == 0
NoJob == 0

ASSUME ConstantsAssumption ==
    /\ NItems \in Nat \ {0} /\ OpOf \in [Items -> Ops]
    /\ Parallel \in Nat \ {0}
    /\ Refusals \subseteq {"full", "file", "dir", "broadens", "busy", "denied"}
    /\ {MaxRetries, MaxFaults} \subseteq Nat
    /\ MaxPolls \in Nat \ {0}

VARIABLES
    row,          \* lunad's job rows (JobLifecycle)
    trimmed,      \* rows deleted when lunad started again
    deleted,      \* jobs whose DELETE reached lunad
    item,         \* item[i]: the item's fields that decide control
    op,           \* op[o]: the operation (FileOpsStore)
    queue,        \* queue: items waiting to be sent
    blocked,      \* now < blockedUntil
    timer,        \* retryTimer is armed
    post,         \* post[j]: the POST numbered j on its way
    accepted,     \* keys of the accepted map
    owner,        \* owner[j]: the item of the entry accepted maps j to
    stored,       \* job ids in sessionStorage
    armed,        \* pollTimer is armed
    poll,         \* poll[p]: a poll() awaiting its list or its GETs
    trashing,     \* items whose Replace is moving the old file to Trash
    used,         \* how much of each bound is used
    raced,        \* history: items hit by one of the two late answers below
    adrift        \* history: jobs this page does not know of, or whose DELETE was lost

lunad == <<row, trimmed, deleted>>
tab == <<item, op, queue, blocked, timer, accepted, owner, stored, armed, poll, trashing>>
vars == <<lunad, tab, post, used, raced, adrift>>

Lunad == INSTANCE JobLifecycle WITH Jobs <- Jobs, row <- row

----------------------------------------------------------------------------
(* State *)

ItemRecord == [st : ItemState, shown : BOOLEAN,
               dec : {"none", "file", "dir", "broadens"},
               again : BOOLEAN,      \* retryable
               off : BOOLEAN,        \* offline
               keep : BOOLEAN,       \* extra.on_conflict = "keep_both"
               conf : BOOLEAN,       \* extra.confirm_broaden
               job : Jobs \cup {NoJob}]

NoItemRecord == [st |-> "none", shown |-> FALSE, dec |-> "none", again |-> FALSE,
                 off |-> FALSE, keep |-> FALSE, conf |-> FALSE, job |-> NoJob]

\* live: the page that sent it is still open.
Post == [item : Items \cup {NoItem}, live : BOOLEAN,
         at : {"free", "sent", "accepted", "lost", "full", "file", "dir", "broadens",
               "busy", "denied"}]
NoPost == [item |-> NoItem, live |-> FALSE, at |-> "free"]

Poll == [at : {"idle", "asked", "listed", "getting"},
         list : [Jobs -> Lunad!RowState], gets : SUBSET Jobs]
NoPoll == [at |-> "idle", list |-> [j \in Jobs |-> "none"], gets |-> {}]

Init ==
    /\ Lunad!Init
    /\ trimmed = {} /\ deleted = {}
    /\ item = [i \in Items |-> NoItemRecord]
    /\ op = [o \in Ops |-> NoOp]
    /\ queue = << >> /\ blocked = FALSE /\ timer = FALSE
    /\ post = [j \in Jobs |-> NoPost]
    /\ accepted = {} /\ owner = [j \in Jobs |-> NoItem] /\ stored = {}
    /\ armed = FALSE /\ poll = [p \in Slots |-> NoPoll]
    /\ trashing = {}
    /\ used = [retries |-> 0, faults |-> 0]
    /\ raced = {} /\ adrift = {}

Fault == used.faults < MaxFaults /\ used' = [used EXCEPT !.faults = @ + 1]

ItemsOf(o) == {i \in Items : OpOf[i] = o}

\* The runner's own state, as the synchronous code of a handler passes it on.
Now == [item |-> item, op |-> op, queue |-> queue, acc |-> accepted, post |-> post,
        blocked |-> blocked, timer |-> timer]

\* env.settle for the operations in os.
Settle(s, os) ==
    LET states(o) == {s.item[i].st : i \in {k \in ItemsOf(o) : s.item[k].shown}}
    IN  [s EXCEPT !.op = [o \in Ops |->
            IF o \in os
            THEN Settled(s.op[o], states(o), "done" \in states(o), FALSE, FALSE)
            ELSE s.op[o]]]

InFlight(ps) == {j \in Jobs : ps[j].at # "free" /\ ps[j].live}
SlotsUsed(s) == Cardinality(s.acc) + Cardinality(InFlight(s.post))

----------------------------------------------------------------------------
(* Sending: pump and submit *)

\* The positions of the queue that pump would send.
Sendable(s) ==
    {p \in DOMAIN s.queue : /\ s.item[s.queue[p]].st \in {"queued", "submitting"}
                            /\ s.op[OpOf[s.queue[p]]].listed}


Sends(s, k) == {p \in Sendable(s) : p <= k}

ShiftsUncounted(s, k) ==
    LET room == Parallel - Cardinality(s.acc)
    IN  /\ k = Len(s.queue) \/ Cardinality(Sends(s, k)) >= room
        /\ \A m \in 0 .. k - 1 : Cardinality(Sends(s, m)) < room

\* pump's loop shifts exactly k entries: it goes on until the slots are used up
\* or the queue is empty.
Shifts(s, k) ==
    LET room == Parallel - SlotsUsed(s)
    IN  /\ k = Len(s.queue) \/ Cardinality(Sends(s, k)) >= room
        /\ \A m \in 0 .. k - 1 : Cardinality(Sends(s, m)) < room

\* The POSTs get the lowest numbers that no POST on its way and no job has, in
\* the order they are sent (one function).
Unused(s) == {j \in Jobs : row[j] = "none" /\ s.post[j].at = "free"}
Numbers(s, k) ==
    {f \in [Sends(s, k) -> Unused(s)] :
        /\ \A p, r \in Sends(s, k) : p < r => f[p] < f[r]
        /\ \A p \in Sends(s, k) : \A j \in Unused(s) : j < f[p] => \E r \in Sends(s, k) : f[r] = j}

\* The tab after these turns, submit()'s part before its await included.
Sent(s, k, f) ==
    LET who(j) == {p \in Sends(s, k) : f[p] = j}
    IN  [s EXCEPT
           !.queue = SubSeq(@, k + 1, Len(@)),
           !.item = [i \in Items |-> IF \E p \in Sends(s, k) : s.queue[p] = i
                                     THEN [@[i] EXCEPT !.st = "submitting"] ELSE @[i]],
           !.post = [j \in Jobs |->
                       IF who(j) = {} THEN @[j]
                       ELSE [item |-> s.queue[CHOOSE p \in who(j) : TRUE],
                             live |-> TRUE, at |-> "sent"]]]

\* A step ends without a pump, or with one.  (The \E has TLC compute the state once.)
Keep(s) ==
    \E n \in {s} :
        /\ op' = n.op /\ accepted' = n.acc /\ blocked' = n.blocked /\ timer' = n.timer
        /\ item' = n.item /\ queue' = n.queue /\ post' = n.post

Pump(s) ==
    \/ s.blocked /\ Keep([s EXCEPT !.timer = TRUE])
    \/ ~s.blocked /\ \E k \in 0 .. Len(s.queue) :
                        Shifts(s, k) /\ \E f \in Numbers(s, k) : Keep(Sent(s, k, f))

\* armRetry's timer.
RetryTimer ==
    /\ timer
    /\ Pump([Now EXCEPT !.timer = FALSE, !.blocked = FALSE])
    /\ UNCHANGED <<lunad, owner, stored, armed, poll, trashing, used, raced, adrift>>

\* startJobs: the operation is listed as running, its items are queued and pumped.
StartJobs(o) ==
    /\ ItemsOf(o) # {}
    /\ \A i \in ItemsOf(o) : item[i].st = "none"
    /\ \E q \in InOrder(ItemsOf(o)) :
          Pump([Now EXCEPT
                  !.item = [i \in Items |->
                              IF OpOf[i] = o
                              THEN [NoItemRecord EXCEPT !.st = "queued", !.shown = TRUE]
                              ELSE @[i]],
                  !.op[o] = NewOp("running"),
                  !.queue = @ \o q])
    /\ UNCHANGED <<lunad, owner, stored, armed, poll, trashing, used, raced, adrift>>

----------------------------------------------------------------------------
(* lunad, and the network between *)

\* lunad accepts the POST; the page that sent it may be gone by now.
LunadAccepts(j) ==
    /\ post[j].at = "sent"
    /\ Lunad!Accept(j)
    /\ post' = [post EXCEPT ![j] = IF @.live THEN [@ EXCEPT !.at = "accepted"] ELSE NoPost]
    /\ adrift' = IF post[j].live THEN adrift ELSE adrift \cup {j}
    /\ UNCHANGED <<trimmed, deleted, tab, used, raced>>

\* lunad refuses it.  A name clash or a widening is not refused once the
\* request carries the person's answer to it.
LunadRefuses(j, a) ==
    /\ post[j].at = "sent"
    /\ a \in {"file", "dir"} => ~item[post[j].item].keep
    /\ a = "broadens" => ~item[post[j].item].conf
    /\ IF a = "full" THEN Fault ELSE UNCHANGED used
    /\ post' = [post EXCEPT ![j] = IF @.live THEN [@ EXCEPT !.at = a] ELSE NoPost]
    /\ UNCHANGED <<lunad, tab, raced, adrift>>

\* The request or its answer never arrives.
Lose(j) ==
    /\ post[j].at \in {"sent", "accepted"} /\ post[j].live
    /\ Fault
    /\ post' = [post EXCEPT ![j].at = "lost"]
    /\ adrift' = IF post[j].at = "accepted" THEN adrift \cup {j} ELSE adrift
    /\ UNCHANGED <<lunad, tab, raced>>

\* A worker writes how a job ended; "cancelled" only after a DELETE.
LunadSettles(j, s) ==
    /\ s = "cancelled" => j \in deleted
    /\ Lunad!Settle(j, s)
    /\ UNCHANGED <<trimmed, deleted, tab, post, used, raced, adrift>>

\* lunad starts again: running rows are interrupted, old settled rows trimmed.
LunadRestarts(T) ==
    /\ Fault
    /\ T \subseteq {j \in Jobs : row[j] \in Lunad!EndState}
    /\ Lunad!Interrupt
    /\ trimmed' = trimmed \cup T
    /\ UNCHANGED <<deleted, tab, post, raced, adrift>>

\* DELETE /api/v1/jobs/{id} for js, sent and forgotten: it may not get there.
SendDelete(js) ==
    \/ deleted' = deleted \cup js /\ UNCHANGED <<used, adrift>>
    \/ js # {} /\ Fault /\ adrift' = adrift \cup js /\ UNCHANGED deleted

----------------------------------------------------------------------------
(* The answer to a POST: the rest of submit *)

RequeuesConfirmed(choice) == choice = "confirm"

\* The answers that send the item again at once.
Requeues(choice) == choice \in {"confirm", "keep_both"}

\* What an answer makes of an item.
Answered(r, choice) ==
    CASE choice = "skip"      -> [r EXCEPT !.st = "skipped", !.dec = "none"]
      [] choice = "confirm"   -> [r EXCEPT !.st = "queued", !.dec = "none", !.conf = TRUE]
      [] choice = "keep_both" -> [r EXCEPT !.st = "queued", !.dec = "none", !.keep = TRUE]
      [] choice = "replace"   -> [r EXCEPT !.st = "submitting", !.dec = "none"]

\* decide(op, item, choice) for the items of T, which q lists, up to its pump or
\* its settle; "replace" also starts the removal.
Decided(s, T, q, choice) ==
    LET n == [s EXCEPT !.item = [i \in Items |-> IF i \in T THEN Answered(@[i], choice) ELSE @[i]],
                       !.queue = IF Requeues(choice) THEN @ \o q ELSE @]
    IN  IF choice = "skip" THEN Settle(n, {OpOf[i] : i \in T}) ELSE n

PolicyAnswers(o, a) == a \in {"file", "dir"} /\ op[o].policy \in Options(a)

SubmitErrorAsks(s, i, a) ==
    [s EXCEPT !.item[i].st = "needs-decision", !.item[i].dec = a]

\* onSubmitError, for an item that was not cancelled meanwhile.
SubmitError(s, i, a) ==
    CASE a = "full" ->
            [s EXCEPT !.item[i].st = "submitting", !.queue = <<i>> \o @,
                      !.blocked = TRUE, !.timer = TRUE]
      [] a \in {"file", "dir", "broadens"} ->
            IF PolicyAnswers(OpOf[i], a)
            THEN Decided(s, {i}, <<i>>, op[OpOf[i]].policy)
            ELSE [s EXCEPT !.item[i].st = "needs-decision", !.item[i].dec = a]
      [] a \in {"lost", "busy", "denied"} ->
            [s EXCEPT !.item[i] = [@ EXCEPT !.st = "failed", !.again = (a # "denied"),
                                            !.off = (a = "lost")]]

PostAcceptedLateIgnored(j) ==
    LET i == post[j].item
    IN  /\ post[j].at = "accepted"
        /\ ~op[OpOf[i]].listed \/ item[i].st = "cancelled"
        /\ Pump(Settle([Now EXCEPT !.post[j] = NoPost], {OpOf[i]}))
        /\ UNCHANGED <<lunad, owner, stored, armed, poll, trashing, used, raced, adrift>>

\* The POST answered with a job: followed, or called off if nobody wants it.
PostAccepted(j) ==
    LET i    == post[j].item
        back == [Now EXCEPT !.post[j] = NoPost]
    IN  /\ post[j].at = "accepted"
        /\ IF ~op[OpOf[i]].listed \/ item[i].st = "cancelled"
           THEN /\ SendDelete({j})
                /\ Pump(Settle(back, {OpOf[i]}))
                /\ UNCHANGED <<owner, stored, armed>>
           ELSE /\ Pump(Settle([back EXCEPT !.item[i] = [@ EXCEPT !.st = "running", !.job = j,
                                                                  !.dec = "none"],
                                            !.acc = @ \cup {j}], {OpOf[i]}))
                /\ owner' = [owner EXCEPT ![j] = i]
                /\ stored' = stored \cup {j}
                /\ armed' = TRUE
                /\ UNCHANGED <<deleted, used, adrift>>
        /\ UNCHANGED <<row, trimmed, poll, trashing, raced>>

\* The POST failed.
PostFailed(j) ==
    LET i    == post[j].item
        a    == post[j].at
        back == [Now EXCEPT !.post[j] = NoPost]
    IN  /\ a \notin {"free", "sent", "accepted"}
        /\ Pump(Settle(IF item[i].st = "cancelled" THEN back ELSE SubmitError(back, i, a),
                       {OpOf[i]}))
        /\ trashing' = IF /\ item[i].st # "cancelled"
                          /\ PolicyAnswers(OpOf[i], a) /\ op[OpOf[i]].policy = "replace"
                       THEN trashing \cup {i} ELSE trashing
        /\ UNCHANGED <<lunad, owner, stored, armed, poll, used, raced, adrift>>

----------------------------------------------------------------------------
(* What the person does: FileOpItemLine, FileOpProblemsModal, FileOpRow *)

Here(i) == item[i].shown /\ op[OpOf[i]].listed

\* decide: one waiting decision; it ends in settle (skip), in pump, or in nothing.
Decide(i, choice) ==
    /\ Here(i) /\ item[i].st = "needs-decision"
    /\ choice \in Options(item[i].dec)
    /\ IF Requeues(choice) THEN Pump(Decided(Now, {i}, <<i>>, choice))
       ELSE Keep(Decided(Now, {i}, <<i>>, choice))
    /\ trashing' = IF choice = "replace" THEN trashing \cup {i} ELSE trashing
    /\ UNCHANGED <<lunad, owner, stored, armed, poll, used, raced, adrift>>

\* decideAll: the operation's policy from now on, and an answer for every
\* waiting decision it fits.
DecideAll(o, choice) ==
    LET T == {i \in ItemsOf(o) : /\ Here(i) /\ item[i].st = "needs-decision"
                                 /\ AllowedForAll(item[i].dec, choice)}
        s == [Now EXCEPT !.op[o].policy = choice]
    IN  /\ T # {}
        /\ \E q \in InOrder(T) : IF Requeues(choice) THEN Pump(Decided(s, T, q, choice))
                                 ELSE Keep(Decided(s, T, q, choice))
        /\ trashing' = IF choice = "replace" THEN trashing \cup T ELSE trashing
        /\ UNCHANGED <<lunad, owner, stored, armed, poll, used, raced, adrift>>

\* The removal a Replace waits for: the item is queued again, whatever became
\* of it meanwhile, or it fails.
TrashAnswers(i, ok) ==
    /\ i \in trashing
    /\ trashing' = trashing \ {i}
    /\ IF ok
       THEN /\ Pump([Now EXCEPT !.item[i].st = "queued", !.item[i].keep = FALSE,
                                !.queue = Append(@, i)])
            /\ raced' = IF item[i].st = "cancelled" THEN raced \cup {i} ELSE raced
       ELSE /\ Keep(Settle([Now EXCEPT !.item[i].st = "failed", !.item[i].again = FALSE],
                           {OpOf[i]}))
            /\ UNCHANGED raced
    /\ UNCHANGED <<lunad, owner, stored, armed, poll, used, adrift>>

Retryable(i) == Here(i) /\ item[i].st = "failed" /\ item[i].again

\* retry, for one item, for every item of an operation, or (the online event)
\* for every item that failed because the connection was down.
RetryItems(T) ==
    /\ T # {} /\ \A i \in T : Retryable(i)
    /\ used.retries + Cardinality(T) <= MaxRetries
    /\ used' = [used EXCEPT !.retries = @ + Cardinality(T)]
    /\ \E q \in InOrder(T) :
          Pump(Settle([Now EXCEPT
                 !.item = [i \in Items |->
                             IF i \in T THEN [@[i] EXCEPT !.st = "queued", !.off = FALSE, !.job = NoJob]
                             ELSE @[i]],
                 !.queue = @ \o q], {OpOf[i] : i \in T}))
    /\ UNCHANGED <<lunad, owner, stored, armed, poll, trashing, raced, adrift>>

Retry ==
    \/ \E i \in Items : RetryItems({i})
    \/ \E o \in Ops : RetryItems({i \in ItemsOf(o) : Retryable(i)})

RetryOffline == RetryItems({i \in Items : Retryable(i) /\ item[i].off})

\* cancel of the whole operation: the row offers it while it runs.
CancelOp(o) ==
    LET running == {item[i].job : i \in {k \in ItemsOf(o) : item[k].shown /\ item[k].st = "running"}}
    IN  /\ op[o].listed /\ op[o].phase = "running"
        /\ SendDelete(running \ {NoJob})
        /\ Keep(Settle([Now EXCEPT
              !.op[o].cancelled = TRUE,
              !.item = [i \in Items |->
                          IF /\ OpOf[i] = o /\ @[i].shown
                             /\ @[i].st \in {"queued", "submitting", "needs-decision"}
                          THEN [@[i] EXCEPT !.st = "cancelled", !.dec = "none"]
                          ELSE @[i]]], {o}))
        /\ UNCHANGED <<row, trimmed, owner, stored, armed, poll, trashing, raced>>

\* cancel of one failed item (Remove) and clearFailed: the rows leave the list.
RemoveFailed(T) ==
    /\ T # {} /\ \A i \in T : Here(i) /\ item[i].st = "failed"
    /\ Keep(Settle([Now EXCEPT !.item = [i \in Items |-> IF i \in T THEN [@[i] EXCEPT !.shown = FALSE]
                                                         ELSE @[i]]],
                   {OpOf[i] : i \in T}))
    /\ UNCHANGED <<lunad, owner, stored, armed, poll, trashing, used, raced, adrift>>

RemoveItem(i) == RemoveFailed({i})
ClearFailed(o) == RemoveFailed({i \in ItemsOf(o) : Here(i) /\ item[i].st = "failed"})

\* removeOp after jobs.forget.
Forget(o) ==
    LET mine == {j \in Jobs : owner[j] # NoItem /\ OpOf[owner[j]] = o}
    IN  /\ Keep([Now EXCEPT !.op[o].listed = FALSE, !.op[o].clear = FALSE, !.acc = @ \ mine])
        /\ stored' = stored \ mine
        /\ UNCHANGED <<lunad, owner, armed, poll, trashing, used, raced, adrift>>

HasProblem(o) == \E i \in ItemsOf(o) : item[i].shown /\ item[i].st \in Problem

\* dismiss: the row offers Clear once it has ended with a problem.
Dismiss(o) ==
    /\ op[o].listed /\ op[o].phase \notin {"preparing", "running", "waiting"} /\ HasProblem(o)
    /\ Forget(o)

\* The auto-clear timer finish() armed.
AutoClear(o) ==
    /\ op[o].listed /\ op[o].clear
    /\ IF op[o].ended /\ ~HasProblem(o)
       THEN Forget(o)
       ELSE /\ Keep([Now EXCEPT !.op[o].clear = FALSE])
            /\ UNCHANGED <<lunad, owner, stored, armed, poll, trashing, used, raced, adrift>>

----------------------------------------------------------------------------
(* Polling *)

EndedAsDone(js, out) ==
    Settle([Now EXCEPT
              !.item = [i \in Items |-> IF \E j \in js : owner[j] = i
                                        THEN [@[i] EXCEPT !.st = "done"] ELSE @[i]],
              !.acc = @ \ js],
           {OpOf[owner[j]] : j \in js})

\* handleJob and gone for the jobs of js, out[j] being the state read ("gone":
\* 404).  A job is not looked up in `accepted` first: js may hold one that a
\* later answer has already settled, and then its item is overwritten.
Ended(js, out) ==
    LET last(i) == {j \in js : owner[j] = i}
        new(i)  == LET j == CHOOSE k \in last(i) : \A m \in last(i) : m <= k
                   IN  CASE out[j] = "done"      -> [item[i] EXCEPT !.st = "done"]
                         [] out[j] = "cancelled" -> [item[i] EXCEPT !.st = "cancelled"]
                         [] out[j] = "gone"      -> [item[i] EXCEPT !.st = "failed", !.again = FALSE]
                         [] OTHER                -> [item[i] EXCEPT !.st = "failed", !.again = TRUE]
    IN  Settle([Now EXCEPT
                  !.item = [i \in Items |-> IF last(i) = {} THEN @[i] ELSE new(i)],
                  !.acc = @ \ js,
                  !.blocked = @ /\ js = {}],
               {OpOf[owner[j]] : j \in js})

ReportKeepsStorage(js, out) ==
    /\ UNCHANGED stored
    /\ raced' = raced \cup {owner[j] : j \in js \ accepted}
    /\ IF js = {} THEN Keep(Now) ELSE Pump(Ended(js, out))

Report(js, out) ==
    /\ stored' = stored \ js
    /\ raced' = raced \cup {owner[j] : j \in js \ accepted}
    /\ IF js = {} THEN Keep(Now) ELSE Pump(Ended(js, out))

\* The poll timer: poll() up to its first await.
PollTimer(p) ==
    /\ armed /\ poll[p].at = "idle"
    /\ armed' = FALSE
    /\ poll' = IF accepted = {} THEN poll ELSE [poll EXCEPT ![p].at = "asked"]
    /\ UNCHANGED <<lunad, item, op, queue, blocked, timer, accepted, owner, stored, trashing,
                   post, used, raced, adrift>>

\* lunad computes GET /api/v1/jobs?limit=200.  (Only the rows of jobs the tab
\* follows or is about to follow are kept: it looks up no other.)
LunadLists(p) ==
    /\ poll[p].at = "asked"
    /\ poll' = [poll EXCEPT ![p] = [@ EXCEPT !.at = "listed",
                    !.list = [j \in Jobs |->
                        IF j \in accepted \/ post[j].at = "accepted"
                        THEN IF j \in trimmed THEN "none" ELSE row[j]
                        ELSE "none"]]]
    /\ UNCHANGED <<lunad, item, op, queue, blocked, timer, accepted, owner, stored, armed,
                   trashing, post, used, raced, adrift>>

PollFailsForGood(p) ==
    /\ poll[p].at \in {"asked", "listed"}
    /\ Fault
    /\ poll' = [poll EXCEPT ![p] = NoPoll]
    /\ UNCHANGED <<lunad, item, op, queue, blocked, timer, accepted, owner, stored, armed, trashing,
                   post, raced, adrift>>

\* The list does not arrive: try again next second.
PollFails(p) ==
    /\ poll[p].at \in {"asked", "listed"}
    /\ Fault
    /\ poll' = [poll EXCEPT ![p] = NoPoll]
    /\ armed' = (armed \/ accepted # {})
    /\ UNCHANGED <<lunad, item, op, queue, blocked, timer, accepted, owner, stored, trashing,
                   post, raced, adrift>>

PollListedOnce(p) ==
    LET out == poll[p].list
    IN  /\ poll[p].at = "listed"
        /\ Report({j \in accepted : out[j] \in Lunad!EndState}, out)
        /\ poll' = [poll EXCEPT ![p] = NoPoll]
        /\ UNCHANGED <<lunad, owner, armed, trashing, used, adrift>>

\* The list arrives: ended jobs are handled, jobs it does not name are asked for.
PollListed(p) ==
    LET out  == poll[p].list
        js   == {j \in accepted : out[j] \in Lunad!EndState}
        miss == {j \in accepted : out[j] = "none"}
    IN  /\ poll[p].at = "listed"
        /\ Report(js, out)
        /\ poll' = [poll EXCEPT ![p] = IF miss = {} THEN NoPoll
                                       ELSE [NoPoll EXCEPT !.at = "getting", !.gets = miss]]
        /\ armed' = (armed \/ (miss = {} /\ accepted' # {}))
        /\ UNCHANGED <<lunad, owner, trashing, used, adrift>>

\* GET /api/v1/jobs/{id} answers, with the row, 404, or not at all.
PollGot(p, j, ans) ==
    LET out == [k \in {j} |-> ans]
        js  == IF ans \in Lunad!EndState \cup {"gone"} THEN {j} ELSE {}
        mine == poll[p].gets \ {j}
    IN  /\ poll[p].at = "getting" /\ j \in poll[p].gets
        /\ IF ans = "lost" THEN Fault
           ELSE /\ ans = IF j \in trimmed THEN "gone" ELSE row[j]
                /\ UNCHANGED used
        /\ Report(js, out)
        /\ poll' = [poll EXCEPT ![p] = IF mine = {} THEN NoPoll ELSE [@ EXCEPT !.gets = mine]]
        /\ armed' = (armed \/ (mine = {} /\ accepted' # {}))
        /\ UNCHANGED <<lunad, owner, trashing, adrift>>

----------------------------------------------------------------------------
(* The tab is reloaded: only sessionStorage survives, restore() reads it.    *)
(* ("cancelled", not shown: an item this page no longer has.)                *)

Reload ==
    LET job(i) == {j \in stored : owner[j] = i}
    IN  /\ Fault
        /\ item' = [i \in Items |->
                      IF job(i) # {}
                      THEN [NoItemRecord EXCEPT !.st = "running", !.shown = TRUE,
                                                !.job = CHOOSE j \in job(i) : TRUE]
                      ELSE IF item[i].st = "none" THEN item[i]
                      ELSE [NoItemRecord EXCEPT !.st = "cancelled"]]
        /\ op' = [o \in Ops |-> IF \E i \in ItemsOf(o) : job(i) # {} THEN NewOp("running") ELSE NoOp]
        /\ post' = [j \in Jobs |-> IF post[j].at = "sent" THEN [post[j] EXCEPT !.live = FALSE]
                                   ELSE NoPost]
        /\ adrift' = adrift \cup {j \in Jobs : post[j].at = "accepted"}
        /\ queue' = << >> /\ blocked' = FALSE /\ timer' = FALSE
        /\ accepted' = stored /\ armed' = (stored # {})
        /\ poll' = [p \in Slots |-> NoPoll]
        /\ trashing' = {}
        /\ UNCHANGED <<lunad, owner, stored, raced>>

----------------------------------------------------------------------------
Tab ==
    \/ RetryTimer
    \/ \E o \in Ops : AutoClear(o)
    \/ \E j \in Jobs : PostAccepted(j) \/ PostFailed(j)
    \/ \E p \in Slots : PollTimer(p) \/ PollListed(p)

Person ==
    \/ \E o \in Ops : StartJobs(o) \/ CancelOp(o) \/ ClearFailed(o) \/ Dismiss(o)
    \/ \E o \in Ops, c \in {"replace", "keep_both", "skip"} : DecideAll(o, c)
    \/ \E i \in Items, c \in {"replace", "keep_both", "skip", "confirm"} : Decide(i, c)
    \/ \E i \in Items : RemoveItem(i)
    \/ Retry \/ RetryOffline
    \/ Reload

Outside ==
    \/ \E j \in Jobs : LunadAccepts(j) \/ Lose(j)
    \/ \E j \in Jobs, a \in Refusals : LunadRefuses(j, a)
    \/ \E j \in Jobs, s \in Lunad!EndState : LunadSettles(j, s)
    \/ \E T \in SUBSET Jobs : LunadRestarts(T)
    \/ \E i \in Items, ok \in BOOLEAN : TrashAnswers(i, ok)
    \/ \E p \in Slots : LunadLists(p) \/ PollFails(p)
    \/ \E p \in Slots, j \in Jobs, ans \in Lunad!RowState \cup {"gone", "lost"} : PollGot(p, j, ans)

Next == Tab \/ Person \/ Outside

Spec == Init /\ [][Next]_vars

\* Timers fire; lunad answers what it is asked and its workers end every job.
\* Nothing is assumed of the person, of restarts or of lost messages.
Fairness ==
    /\ WF_vars(RetryTimer)
    /\ \A j \in Jobs :
          /\ WF_vars(LunadAccepts(j) \/ \E a \in Refusals : LunadRefuses(j, a))
          /\ WF_vars(PostAccepted(j) \/ PostFailed(j))
          /\ WF_vars(\E s \in Lunad!EndState : LunadSettles(j, s))
    /\ \A p \in Slots :
          /\ WF_vars(PollTimer(p)) /\ WF_vars(LunadLists(p)) /\ WF_vars(PollListed(p))
          /\ \A j \in Jobs : WF_vars(\E ans \in Lunad!RowState \cup {"gone"} : PollGot(p, j, ans))

FairSpec == Spec /\ Fairness

----------------------------------------------------------------------------
(* Properties *)

\* Types; and every bound stays within its limit.
TypeOK ==
    /\ row \in [Jobs -> Lunad!RowState] /\ trimmed \subseteq Jobs /\ deleted \subseteq Jobs
    /\ item \in [Items -> ItemRecord] /\ op \in [Ops -> OpRecord]
    /\ queue \in Seq(Items) /\ {blocked, timer, armed} \subseteq BOOLEAN
    /\ post \in [Jobs -> Post]
    /\ accepted \subseteq Jobs /\ owner \in [Jobs -> Items \cup {NoItem}] /\ stored \subseteq Jobs
    /\ poll \in [Slots -> Poll] /\ trashing \subseteq Items
    /\ used \in [retries : 0 .. MaxRetries, faults : 0 .. MaxFaults]
    /\ raced \subseteq Items /\ adrift \subseteq Jobs

\* The tab never has more than JOB_PARALLEL jobs and POSTs going, whichever of
\* the callbacks pumps: an answer, a decision, a retry, the end of a removal, the
\* timer of a full queue, or restore after a reload.
SlotsKept == Cardinality(accepted) + Cardinality(InFlight(post)) <= Parallel

\* What sessionStorage holds, and a reload would pick up, are exactly the jobs the
\* tab follows, after late answers and dismissed operations too.
StorageExact == stored = accepted

\* "No localStorage / sessionStorage": nothing would survive a reload.
StoresNothing == stored = {}

\* A job lunad accepted and told this page about is followed by the tab, or has
\* ended, or was called off: none runs on unseen.
NoUnseenJob ==
    \A j \in Jobs :
        (row[j] = "running" /\ j \notin adrift /\ owner[j] \notin raced) =>
            j \in accepted \cup deleted \/ post[j].at = "accepted"

\* No item is forgotten: one shown as queued, submitting or running is in the
\* queue, on its way, waiting for a removal, or among the jobs being polled.
NothingStranded ==
    \A i \in Items :
        Here(i) /\ i \notin raced =>
            /\ item[i].st = "queued" => \E p \in DOMAIN queue : queue[p] = i
            /\ item[i].st = "submitting" =>
                  \/ \E p \in DOMAIN queue : queue[p] = i
                  \/ \E j \in InFlight(post) : post[j].item = i
                  \/ i \in trashing
            /\ item[i].st = "running" => item[i].job \in accepted

\* Somebody will move it on: followed jobs are polled; and until a late answer
\* hits an item, a slot is free only while nothing can be sent or the queue is
\* held back with a timer armed.  (After one, forget may free a slot: see README.)
NothingStalls ==
    /\ raced = {} =>
          \/ blocked /\ timer
          \/ ~blocked /\ \/ Sendable(Now) = {}
                         \/ Cardinality(accepted) + Cardinality(InFlight(post)) >= Parallel
    /\ accepted # {} => armed \/ \E p \in Slots : poll[p].at # "idle"

\* A row that says an item is done, failed or cancelled tells the truth about
\* the job it last followed.
RowsTruthful ==
    \A i \in Items :
        Here(i) /\ i \notin raced /\ item[i].job # NoJob =>
            /\ item[i].st = "done" => row[item[i].job] = "done"
            /\ item[i].st = "cancelled" => row[item[i].job] \in {"cancelled", "interrupted"}
            /\ item[i].st = "failed" => row[item[i].job] # "running"

\* An operation shown as ended has nothing going on: no job is followed, and only
\* for items the person cancelled is there still an entry in the queue, a POST or a
\* file on its way to Trash.
EndedIsOver ==
    \A o \in Ops : op[o].listed /\ op[o].ended =>
        \A i \in ItemsOf(o) :
            /\ \A j \in accepted : owner[j] # i
            /\ item[i].st # "cancelled" =>
                  /\ \A p \in DOMAIN queue : queue[p] # i
                  /\ \A j \in InFlight(post) : post[j].item # i
                  /\ i \notin trashing

\* The same, but for the items one of the two late answers has hit.
EndedIsOverUnlessRaced == raced = {} => EndedIsOver

\* An operation that has ended with no problem left is about to leave the dock:
\* its auto-clear timer is armed.
FinishedClears ==
    \A o \in Ops : op[o].listed /\ op[o].ended /\ ~HasProblem(o) => op[o].clear

\* Every item a person sees at work leaves that state: it is done, fails, is
\* cancelled, or asks something.  Nothing spins for ever on the card.
EveryItemSettles ==
    \A i \in Items : (Here(i) /\ item[i].st \in Active) ~> ~(Here(i) /\ item[i].st \in Active)
=============================================================================
