---------------------------- MODULE LunaJobQueue ----------------------------
(***************************************************************************)
(* The copy/move job manager of lunad (crates/lunad/src/jobs.rs): admission *)
(* under the database lock, the hand-over from the request handler to the   *)
(* in-memory queue, the pump that moves queued jobs onto worker slots, the  *)
(* cancel flags, and what a restart leaves in the `jobs` table.             *)
(*                                                                          *)
(* A job is worked on by up to three threads in turn: the HTTP handler that *)
(* enqueues it, the blocking-pool worker that runs it, and whoever pumps    *)
(* the queue (an enqueuing handler or a worker that just finished).  Each   *)
(* action is one critical section of one of them.  The copying itself is    *)
(* one step here and a module of its own (LunaTransfer).                    *)
(***************************************************************************)
EXTENDS Integers, Sequences, FiniteSets

CONSTANTS
    Jobs,           \* job ids
    Users,          \* the people who enqueue
    Owner,          \* Owner[j]: who asks for job j
    MaxRunning,     \* MAX_RUNNING_JOBS
    MaxQueued,      \* MAX_QUEUED_JOBS
    MaxPerUser,     \* MAX_QUEUED_PER_USER
    CheckLimit,     \* QUEUE_CHECK_LIMIT
    MaxRestarts,    \* bound: how often lunad restarts in a run
    MayDisconnect,  \* may a client drop its request before the answer?
    DbMayFail       \* may a write to the jobs table fail?

ASSUME ConstantsAssumption ==
    /\ IsFiniteSet(Jobs)
    /\ Owner \in [Jobs -> Users]
    /\ MaxRunning \in Nat \ {0}
    /\ MaxQueued \in Nat
    /\ MaxPerUser \in Nat
    /\ CheckLimit \in Nat
    /\ MaxRestarts \in Nat
    /\ MayDisconnect \in BOOLEAN
    /\ DbMayFail \in BOOLEAN

VARIABLES
    row,        \* jobs table: state column per id, "none" when there is no row
    created,    \* jobs table: ids in order of created_at
    queue,      \* JobManager.queue
    running,    \* JobManager.running
    cancels,    \* ids with an entry in JobManager.cancels
    flag,       \* flag[j]: j's AtomicBool
    stage,      \* stage[j]: how far j has got through handler and worker
    pumps,      \* threads inside the loop of pump_queue
    restarts,   \* restarts so far
    early       \* observation: jobs cancelled before a worker took them

vars == <<row, created, queue, running, cancels, flag, stage, pumps, restarts, early>>

EndState == {"done", "error", "cancelled", "interrupted"}
RowState == {"none", "running"} \cup EndState

\* new: no request yet.  inserted: prepare has written the row, the handler
\* awaits its answer.  stranded: the handler was dropped at that await.
\* registered: its cancel flag is listed.  queued: in the queue.  spawned ..
\* unlisted: on a worker.  ended: no thread works for the job any more.
Stage == {"new", "inserted", "stranded", "registered", "queued", "spawned",
          "transferring", "settled", "unlisted", "ended"}

\* The jobs that occupy a worker slot: popped by a pump, slot not given back.
OnWorker == {"spawned", "transferring", "settled", "unlisted"}
Busy == {j \in Jobs : stage[j] \in OnWorker}

Init ==
    /\ row = [j \in Jobs |-> "none"]
    /\ created = <<>>
    /\ queue = <<>>
    /\ running = 0
    /\ cancels = {}
    /\ flag = [j \in Jobs |-> FALSE]
    /\ stage = [j \in Jobs |-> "new"]
    /\ pumps = {}
    /\ restarts = 0
    /\ early = {}

-----------------------------------------------------------------------------
(* Admission and hand-over: enqueue_on_conflict.                             *)

\* list_jobs(conn, QUEUE_CHECK_LIMIT): the newest rows (created_at counts
\* seconds; rows of one second are taken in insertion order here).
Newest == {created[i] : i \in {n \in DOMAIN created : n + CheckLimit > Len(created)}}
RunningSeen == {j \in Newest : row[j] = "running"}

\* prepare: the depth check and the insert, under one hold of the db lock.
\* A refusal (queue full, name taken, denied) leaves no trace.
Prepare(j) ==
    /\ stage[j] = "new"
    /\ Cardinality(RunningSeen) < MaxQueued
    /\ Cardinality({k \in RunningSeen : Owner[k] = Owner[j]}) < MaxPerUser
    /\ row' = [row EXCEPT ![j] = "running"]
    /\ created' = Append(created, j)
    /\ stage' = [stage EXCEPT ![j] = "inserted"]
    /\ UNCHANGED <<queue, running, cancels, flag, pumps, restarts, early>>

\* The client goes away while the handler awaits the blocking task: the
\* handler future is dropped, the task still commits its row.  Reading the new
\* row back (get_job) may fail with the same effect.
Disconnect(j) ==
    /\ MayDisconnect \/ DbMayFail
    /\ stage[j] = "inserted"
    /\ stage' = [stage EXCEPT ![j] = "stranded"]
    /\ UNCHANGED <<row, created, queue, running, cancels, flag, pumps, restarts, early>>

\* The handler lists the cancel flag (a client that found the row in GET
\* /api/v1/jobs can cancel it from now on), then queues the job and pumps.
Register(j) ==
    /\ stage[j] = "inserted"
    /\ cancels' = cancels \cup {j}
    /\ stage' = [stage EXCEPT ![j] = "registered"]
    /\ UNCHANGED <<row, created, queue, running, flag, pumps, restarts, early>>

Push(j) ==
    /\ stage[j] = "registered"
    /\ queue' = Append(queue, j)
    /\ stage' = [stage EXCEPT ![j] = "queued"]
    /\ pumps' = pumps \cup {<<"handler", j>>}
    /\ UNCHANGED <<row, created, running, cancels, flag, restarts, early>>

\* DELETE /api/v1/jobs/{id}: raises the flag while the job is registered.
Cancel(j) ==
    /\ j \in cancels
    /\ ~flag[j]
    /\ flag' = [flag EXCEPT ![j] = TRUE]
    /\ early' = IF stage[j] \in {"registered", "queued"} THEN early \cup {j} ELSE early
    /\ UNCHANGED <<row, created, queue, running, cancels, stage, pumps, restarts>>

-----------------------------------------------------------------------------
(* pump_queue: every turn of its loop is one hold of the queue lock.         *)

PumpStartIgnoringSlots(t) ==
    /\ t \in pumps
    /\ queue # <<>>
    /\ running' = running + 1
    /\ queue' = Tail(queue)
    /\ stage' = [stage EXCEPT ![Head(queue)] = "spawned"]
    /\ UNCHANGED <<row, created, cancels, flag, pumps, restarts, early>>

PumpStartKeepsHead(t) ==
    /\ t \in pumps
    /\ running < MaxRunning
    /\ queue # <<>>
    /\ running' = running + 1
    /\ stage' = [stage EXCEPT ![Head(queue)] = "spawned"]
    /\ UNCHANGED <<row, created, queue, cancels, flag, pumps, restarts, early>>

\* One turn: a slot is taken and the oldest job goes to a worker.
PumpStart(t) ==
    /\ t \in pumps
    /\ running < MaxRunning
    /\ queue # <<>>
    /\ running' = running + 1
    /\ queue' = Tail(queue)
    /\ stage' = [stage EXCEPT ![Head(queue)] = "spawned"]
    /\ UNCHANGED <<row, created, cancels, flag, pumps, restarts, early>>

\* The loop ends when no slot is free or nothing waits.
PumpStop(t) ==
    /\ t \in pumps
    /\ running >= MaxRunning \/ queue = <<>>
    /\ pumps' = pumps \ {t}
    /\ UNCHANGED <<row, created, queue, running, cancels, flag, stage, restarts, early>>

-----------------------------------------------------------------------------
(* The worker: run_job, then the clean-up of the closure that called it.     *)

\* set_job_state at the end of run_job; its failure is ignored there.
SetJobState(j, s) ==
    \/ row' = [row EXCEPT ![j] = s]
    \/ DbMayFail /\ row' = row

\* "A job cancelled while it waited in the queue never starts at all."
StartCancelled(j) ==
    /\ stage[j] = "spawned"
    /\ flag[j]
    /\ SetJobState(j, "cancelled")
    /\ stage' = [stage EXCEPT ![j] = "settled"]
    /\ UNCHANGED <<created, queue, running, cancels, flag, pumps, restarts, early>>

\* recheck_job_caps refuses: the grant was revoked while the job waited.
StartDenied(j) ==
    /\ stage[j] = "spawned"
    /\ ~flag[j]
    /\ SetJobState(j, "error")
    /\ stage' = [stage EXCEPT ![j] = "settled"]
    /\ UNCHANGED <<created, queue, running, cancels, flag, pumps, restarts, early>>

StartTransferUnchecked(j) ==
    /\ stage[j] = "spawned"
    /\ stage' = [stage EXCEPT ![j] = "transferring"]
    /\ UNCHANGED <<row, created, queue, running, cancels, flag, pumps, restarts, early>>

StartTransfer(j) ==
    /\ stage[j] = "spawned"
    /\ ~flag[j]
    /\ stage' = [stage EXCEPT ![j] = "transferring"]
    /\ UNCHANGED <<row, created, queue, running, cancels, flag, pumps, restarts, early>>

\* The transfer ended.  run_job reports "cancelled" for an I/O error of kind
\* Interrupted, which copy_node raises when it sees the flag.
FinishTransfer(j, s) ==
    /\ stage[j] = "transferring"
    /\ s = "cancelled" => flag[j]
    /\ SetJobState(j, s)
    /\ stage' = [stage EXCEPT ![j] = "settled"]
    /\ UNCHANGED <<created, queue, running, cancels, flag, pumps, restarts, early>>

ForgetNothing(j) ==
    /\ stage[j] = "settled"
    /\ stage' = [stage EXCEPT ![j] = "unlisted"]
    /\ UNCHANGED <<row, created, queue, running, cancels, flag, pumps, restarts, early>>

ForgetCancel(j) ==
    /\ stage[j] = "settled"
    /\ cancels' = cancels \ {j}
    /\ stage' = [stage EXCEPT ![j] = "unlisted"]
    /\ UNCHANGED <<row, created, queue, running, flag, pumps, restarts, early>>

ReleaseSlotTwice(j) ==
    /\ stage[j] = "unlisted"
    /\ running' = running - 2
    /\ stage' = [stage EXCEPT ![j] = "ended"]
    /\ pumps' = pumps \cup {<<"worker", j>>}
    /\ UNCHANGED <<row, created, queue, cancels, flag, restarts, early>>

ReleaseSlotNoPump(j) ==
    /\ stage[j] = "unlisted"
    /\ running' = running - 1
    /\ stage' = [stage EXCEPT ![j] = "ended"]
    /\ UNCHANGED <<row, created, queue, cancels, flag, pumps, restarts, early>>

\* The slot is given back before the worker pumps the queue.
ReleaseSlot(j) ==
    /\ stage[j] = "unlisted"
    /\ running' = running - 1
    /\ stage' = [stage EXCEPT ![j] = "ended"]
    /\ pumps' = pumps \cup {<<"worker", j>>}
    /\ UNCHANGED <<row, created, queue, cancels, flag, restarts, early>>

-----------------------------------------------------------------------------
(* lunad stops at any point and starts again: memory is gone, and            *)
(* JobManager::new marks the rows it finds running.                          *)

LoseMemory ==
    /\ queue' = <<>>
    /\ running' = 0
    /\ cancels' = {}
    /\ flag' = [j \in Jobs |-> FALSE]
    /\ stage' = [j \in Jobs |-> IF stage[j] = "new" THEN "new" ELSE "ended"]
    /\ pumps' = {}

RestartRowsKept ==
    /\ restarts < MaxRestarts
    /\ restarts' = restarts + 1
    /\ LoseMemory
    /\ UNCHANGED <<row, created, early>>

RestartAllRows ==
    /\ restarts < MaxRestarts
    /\ restarts' = restarts + 1
    /\ LoseMemory
    /\ row' = [j \in Jobs |-> IF row[j] # "none" THEN "interrupted" ELSE row[j]]
    /\ UNCHANGED <<created, early>>

Restart ==
    /\ restarts < MaxRestarts
    /\ restarts' = restarts + 1
    /\ LoseMemory
    /\ \/ row' = [j \in Jobs |-> IF row[j] = "running" THEN "interrupted" ELSE row[j]]
       \/ DbMayFail /\ row' = row
    /\ UNCHANGED <<created, early>>

-----------------------------------------------------------------------------
Worker(j) ==
    \/ StartCancelled(j)
    \/ StartDenied(j)
    \/ StartTransfer(j)
    \/ \E s \in EndState \ {"interrupted"} : FinishTransfer(j, s)
    \/ ForgetCancel(j)
    \/ ReleaseSlot(j)

Pump == \E t \in pumps : PumpStart(t) \/ PumpStop(t)

Next ==
    \/ \E j \in Jobs : Prepare(j) \/ Disconnect(j) \/ Register(j) \/ Push(j) \/ Cancel(j)
    \/ \E j \in Jobs : Worker(j)
    \/ Pump
    \/ Restart

Spec == Init /\ [][Next]_vars

\* Handlers and blocking-pool threads that can take a step do so: tokio polls
\* ready tasks and the pool has threads to spare for MAX_RUNNING_JOBS workers.
\* Clients, cancels and restarts owe nothing.
Fairness ==
    /\ \A j \in Jobs : WF_vars(Register(j) \/ Push(j)) /\ WF_vars(Worker(j))
    /\ WF_vars(Pump)

FairSpec == Spec /\ Fairness

-----------------------------------------------------------------------------
(* Properties                                                                *)

\* Every variable keeps to the values its Rust or SQL type and use allow; the
\* worker count in particular never goes below zero (an AtomicUsize would wrap).
TypeOK ==
    /\ row \in [Jobs -> RowState]
    /\ created \in Seq(Jobs)
    /\ queue \in Seq(Jobs)
    /\ running \in Nat
    /\ cancels \subseteq Jobs
    /\ flag \in [Jobs -> BOOLEAN]
    /\ stage \in [Jobs -> Stage]
    /\ pumps \subseteq {"handler", "worker"} \X Jobs
    /\ restarts \in Nat
    /\ early \subseteq Jobs

\* "two pumps can never oversubscribe MAX_RUNNING_JOBS": however many handlers
\* and finishing workers pump at once, the counter counts exactly the jobs on
\* workers and stays within the limit.
SlotsBounded ==
    /\ running = Cardinality(Busy)
    /\ running <= MaxRunning

\* No wake-up is lost: while a job waits and a slot is free, some thread is
\* still inside pump_queue and will look at the queue again.
NoIdleSlot == queue # <<>> /\ running < MaxRunning => pumps # {}

\* The queue holds each waiting job once and nothing else, so no job is run
\* twice or forgotten between the handler and the pump.
QueueExact ==
    /\ \A j \in Jobs : stage[j] = "queued" <=> \E i \in DOMAIN queue : queue[i] = j
    /\ \A a, b \in DOMAIN queue : queue[a] = queue[b] => a = b

\* JobManager.cancels lists exactly the jobs a handler or worker still owns:
\* every waiting or running job can be cancelled, and no entry outlives its job.
CancelsExact ==
    cancels = {j \in Jobs : stage[j] \in {"registered", "queued", "spawned", "transferring", "settled"}}

\* "A job cancelled while it waited in the queue never starts at all": not a
\* byte is moved for it, and its row never says done or error.
CancelledEarlyNeverRuns ==
    \A j \in early :
        /\ stage[j] # "transferring"
        /\ row[j] \in {"running", "cancelled", "interrupted"}

\* A row that says running has a handler or worker that will settle it; no row
\* is left behind to count against the ceilings for ever.
RunningRowOwned ==
    \A j \in Jobs : row[j] = "running" =>
        stage[j] \in {"inserted", "registered", "queued", "spawned", "transferring"}

\* The ceilings prepare enforces on what it can see, for the whole table:
\* nobody has more than MAX_QUEUED_PER_USER rows running, and all together no
\* more than MAX_QUEUED_JOBS.  True while RunningRowsSeen is; the window of the
\* depth check may be shorter than the table, and then neither holds.
CeilingsHold ==
    /\ Cardinality({j \in Jobs : row[j] = "running"}) <= MaxQueued
    /\ \A u \in Users :
           Cardinality({j \in Jobs : row[j] = "running" /\ Owner[j] = u}) <= MaxPerUser

\* QUEUE_CHECK_LIMIT: "comfortably past the queue ceiling, so every
\* still-running row is seen" by the depth check.
RunningRowsSeen == \A j \in Jobs : row[j] = "running" => j \in Newest

\* The table follows the life cycle the clients rely on: a row settles once,
\* and only a row still running is interrupted by a restart.
Lifecycle == INSTANCE JobLifecycle WITH Jobs <- Jobs, row <- row
ImplementsLifecycle == Lifecycle!Spec

\* Every accepted job is settled: no job waits for ever, whatever order the
\* handlers, pumps and workers run in.
EveryJobSettles == \A j \in Jobs : row[j] = "running" ~> row[j] # "running"
=============================================================================
