------------------------- MODULE LunaJobQueueProofs -------------------------
(***************************************************************************)
(* Proofs about LunaJobQueue for any number of jobs, people, slots and      *)
(* restarts.  IndInv is the inductive invariant: the checked properties     *)
(* plus what ties the jobs table and the early cancels to each job's stage. *)
(***************************************************************************)
EXTENDS LunaJobQueue, FiniteSetTheorems, TLAPS

\* A job has a row exactly when prepare has run, and the row says running for
\* as long as nobody has settled it.
RowFollowsStage ==
    \A j \in Jobs :
        /\ stage[j] = "new" <=> row[j] = "none"
        /\ stage[j] \in {"inserted", "stranded", "registered", "queued", "spawned", "transferring"}
              => row[j] = "running"

\* A job cancelled early keeps its raised flag until a worker has read it.
EarlyKeepsFlag ==
    \A j \in early :
        /\ stage[j] \in {"registered", "queued", "spawned"} => flag[j]
        /\ stage[j] \in {"registered", "queued", "spawned", "settled", "unlisted", "ended"}

IndInv ==
    /\ TypeOK
    /\ SlotsBounded
    /\ NoIdleSlot
    /\ QueueExact
    /\ CancelsExact
    /\ RowFollowsStage
    /\ EarlyKeepsFlag
    /\ CancelledEarlyNeverRuns

-----------------------------------------------------------------------------
(* Lemmas                                                                    *)

\* The first job of a non-empty queue is waiting, and taking it off leaves
\* exactly the other waiting jobs (pop_front under the queue lock).
LEMMA PopFront ==
    ASSUME TypeOK, QueueExact, queue # <<>>
    PROVE  /\ Head(queue) \in Jobs
           /\ stage[Head(queue)] = "queued"
           /\ Tail(queue) \in Seq(Jobs)
           /\ DOMAIN Tail(queue) = 1 .. Len(queue) - 1
           /\ \A i \in DOMAIN Tail(queue) : Tail(queue)[i] = queue[i + 1] /\ i + 1 \in DOMAIN queue
           /\ \A i \in DOMAIN queue : queue[i] # Head(queue) => i # 1
  BY DEF TypeOK, QueueExact

\* Putting one more job on a worker raises the count of busy jobs by one.
LEMMA OneMoreBusy ==
    ASSUME TypeOK, NEW j \in Jobs, NEW s \in OnWorker, stage[j] \notin OnWorker,
           stage' = [stage EXCEPT ![j] = s]
    PROVE  /\ Cardinality(Busy') = Cardinality(Busy) + 1
           /\ Cardinality(Busy) \in Nat
  <1>1. IsFiniteSet(Busy)
    BY ConstantsAssumption, FS_Subset DEF Busy
  <1>2. j \notin Busy /\ Busy' = Busy \cup {j}
    BY DEF Busy, TypeOK
  <1> QED BY <1>1, <1>2, FS_AddElement, FS_CardinalityType

\* Taking one off its worker lowers it by one.
LEMMA OneLessBusy ==
    ASSUME TypeOK, NEW j \in Jobs, NEW s, s \notin OnWorker, stage[j] \in OnWorker,
           stage' = [stage EXCEPT ![j] = s]
    PROVE  /\ Cardinality(Busy') = Cardinality(Busy) - 1
           /\ Cardinality(Busy') \in Nat
  <1>1. IsFiniteSet(Busy)
    BY ConstantsAssumption, FS_Subset DEF Busy
  <1>2. j \in Busy /\ Busy' = Busy \ {j}
    BY DEF Busy, TypeOK
  <1>3. IsFiniteSet(Busy')
    BY <1>1, <1>2, FS_Subset
  <1> QED BY <1>1, <1>2, <1>3, FS_RemoveElement, FS_CardinalityType

\* A change of stage that stays on, or stays off, the workers leaves the set alone.
LEMMA SameBusy ==
    ASSUME TypeOK, NEW j \in Jobs, NEW s, (stage[j] \in OnWorker) <=> (s \in OnWorker),
           stage' = [stage EXCEPT ![j] = s]
    PROVE  Busy' = Busy
  BY DEF Busy, TypeOK

-----------------------------------------------------------------------------
(* The invariant is inductive                                                *)

\* The invariant holds when lunad starts for the first time.
LEMMA InitIndInv == Init => IndInv
  <1> SUFFICES ASSUME Init PROVE IndInv
    OBVIOUS
  <1>1. Busy = {}
    BY DEF Init, Busy, OnWorker
  <1>2. SlotsBounded
    BY <1>1, FS_EmptySet, ConstantsAssumption DEF Init, SlotsBounded
  <1>3. TypeOK
    BY DEF Init, TypeOK, RowState, Stage
  <1>4. QueueExact
    BY DEF Init, QueueExact
  <1>5. /\ NoIdleSlot /\ CancelsExact /\ RowFollowsStage /\ EarlyKeepsFlag /\ CancelledEarlyNeverRuns
    BY DEF Init, NoIdleSlot, CancelsExact, RowFollowsStage, EarlyKeepsFlag, CancelledEarlyNeverRuns
  <1> QED BY <1>2, <1>3, <1>4, <1>5 DEF IndInv

\* What every step does to the parts that need no counting.
LEMMA StepTypeOK ==
    ASSUME IndInv, Next PROVE TypeOK'
  <1> USE DEF TypeOK, RowState, EndState, Stage
  <1>1. ASSUME NEW j \in Jobs, Prepare(j) PROVE TypeOK'
    BY <1>1 DEF IndInv, Prepare
  <1>2. ASSUME NEW j \in Jobs, Disconnect(j) \/ Register(j) PROVE TypeOK'
    BY <1>2 DEF IndInv, Disconnect, Register
  <1>11. ASSUME NEW j \in Jobs, Push(j) PROVE TypeOK'
    <2>1. pumps' \subseteq {"handler", "worker"} \X Jobs
      BY <1>11 DEF IndInv, Push
    <2>2. queue' \in Seq(Jobs)
      BY <1>11 DEF IndInv, Push
    <2> QED BY <1>11, <2>1, <2>2 DEF IndInv, Push
  <1>10. ASSUME NEW j \in Jobs, Cancel(j) PROVE TypeOK'
    <2>1. flag' \in [Jobs -> BOOLEAN]
      BY <1>10, Zenon DEF IndInv, Cancel
    <2> QED BY <1>10, <2>1 DEF IndInv, Cancel
  <1>3. ASSUME NEW j \in Jobs, StartCancelled(j) \/ StartDenied(j) \/ StartTransfer(j) PROVE TypeOK'
    BY <1>3 DEF IndInv, StartCancelled, StartDenied, StartTransfer, SetJobState
  <1>4. ASSUME NEW j \in Jobs, NEW s \in EndState \ {"interrupted"}, FinishTransfer(j, s) PROVE TypeOK'
    BY <1>4 DEF IndInv, FinishTransfer, SetJobState
  <1>5. ASSUME NEW j \in Jobs, ForgetCancel(j) PROVE TypeOK'
    BY <1>5 DEF IndInv, ForgetCancel
  <1>6. ASSUME NEW j \in Jobs, ReleaseSlot(j) PROVE TypeOK'
    <2>1. stage[j] \in OnWorker /\ "ended" \notin OnWorker /\ stage' = [stage EXCEPT ![j] = "ended"]
      BY <1>6 DEF ReleaseSlot, OnWorker
    <2>2. running - 1 \in Nat
      BY <2>1, OneLessBusy DEF IndInv, SlotsBounded
    <2> QED BY <1>6, <2>2 DEF IndInv, ReleaseSlot
  <1>7. ASSUME NEW t \in pumps, PumpStart(t) PROVE TypeOK'
    <2>1. Head(queue) \in Jobs /\ Tail(queue) \in Seq(Jobs)
      BY <1>7, PopFront DEF IndInv, PumpStart
    <2> QED BY <1>7, <2>1 DEF IndInv, PumpStart
  <1>8. ASSUME NEW t \in pumps, PumpStop(t) PROVE TypeOK'
    BY <1>8 DEF IndInv, PumpStop
  <1>9. ASSUME Restart PROVE TypeOK'
    BY <1>9 DEF IndInv, Restart, LoseMemory
  <1> QED BY <1>1, <1>2, <1>3, <1>4, <1>5, <1>6, <1>7, <1>8, <1>9, <1>10, <1>11 DEF Next, Worker, Pump

\* No step breaks the count of worker slots.
LEMMA StepSlots ==
    ASSUME IndInv, Next PROVE SlotsBounded'
  <1> USE ConstantsAssumption DEF SlotsBounded
  <1>0. TypeOK /\ QueueExact /\ SlotsBounded
    BY DEF IndInv
  <1>1. ASSUME NEW j \in Jobs, NEW s, running' = running,
               (stage[j] \in OnWorker) <=> (s \in OnWorker), stage' = [stage EXCEPT ![j] = s]
        PROVE  SlotsBounded'
    BY <1>0, <1>1, SameBusy
  <1>2. ASSUME NEW j \in Jobs, Prepare(j) \/ Disconnect(j) \/ Register(j) \/ Push(j) PROVE SlotsBounded'
    BY <1>1, <1>2 DEF Prepare, Disconnect, Register, Push, OnWorker
  <1>3. ASSUME NEW j \in Jobs, Cancel(j) PROVE SlotsBounded'
    BY <1>0, <1>3 DEF Cancel, Busy
  <1>4. ASSUME NEW j \in Jobs, StartCancelled(j) \/ StartDenied(j) \/ StartTransfer(j) \/ ForgetCancel(j)
        PROVE  SlotsBounded'
    BY <1>1, <1>4 DEF StartCancelled, StartDenied, StartTransfer, ForgetCancel, OnWorker
  <1>5. ASSUME NEW j \in Jobs, NEW s \in EndState \ {"interrupted"}, FinishTransfer(j, s) PROVE SlotsBounded'
    BY <1>1, <1>5 DEF FinishTransfer, OnWorker
  <1>6. ASSUME NEW j \in Jobs, ReleaseSlot(j) PROVE SlotsBounded'
    <2>1. stage[j] \in OnWorker /\ "ended" \notin OnWorker /\ stage' = [stage EXCEPT ![j] = "ended"]
      BY <1>6 DEF ReleaseSlot, OnWorker
    <2>2. Cardinality(Busy') = Cardinality(Busy) - 1 /\ Cardinality(Busy') \in Nat
      BY <1>0, <2>1, OneLessBusy
    <2>3. running' = running - 1
      BY <1>6 DEF ReleaseSlot
    <2> QED BY <1>0, <2>2, <2>3 DEF TypeOK
  <1>7. ASSUME NEW t \in pumps, PumpStart(t) PROVE SlotsBounded'
    <2>1. Head(queue) \in Jobs /\ stage[Head(queue)] = "queued"
      BY <1>0, <1>7, PopFront DEF PumpStart
    <2>2. stage[Head(queue)] \notin OnWorker /\ "spawned" \in OnWorker
      BY <2>1 DEF OnWorker
    <2>3. stage' = [stage EXCEPT ![Head(queue)] = "spawned"] /\ running' = running + 1 /\ running < MaxRunning
      BY <1>7 DEF PumpStart
    <2>4. Cardinality(Busy') = Cardinality(Busy) + 1
      BY <1>0, <2>1, <2>2, <2>3, OneMoreBusy
    <2> QED BY <1>0, <2>3, <2>4 DEF TypeOK
  <1>8. ASSUME NEW t \in pumps, PumpStop(t) PROVE SlotsBounded'
    BY <1>0, <1>8 DEF PumpStop, Busy
  <1>9. ASSUME Restart PROVE SlotsBounded'
    <2>1. Busy' = {}
      BY <1>9 DEF Restart, LoseMemory, Busy, OnWorker
    <2> QED BY <1>9, <2>1, FS_EmptySet DEF Restart, LoseMemory
  <1> QED BY <1>2, <1>3, <1>4, <1>5, <1>6, <1>7, <1>8, <1>9 DEF Next, Worker, Pump

\* No step leaves a waiting job and a free slot without a pump.
LEMMA StepNoIdleSlot ==
    ASSUME IndInv, Next PROVE NoIdleSlot'
  <1> USE DEF NoIdleSlot
  <1>1. ASSUME NEW j \in Jobs, Prepare(j) \/ Disconnect(j) \/ Register(j) \/ Push(j) \/ Cancel(j)
        PROVE  NoIdleSlot'
    BY <1>1 DEF IndInv, Prepare, Disconnect, Register, Push, Cancel
  <1>2. ASSUME NEW j \in Jobs, Worker(j) PROVE NoIdleSlot'
    BY <1>2 DEF IndInv, Worker, StartCancelled, StartDenied, StartTransfer, FinishTransfer,
                ForgetCancel, ReleaseSlot
  <1>3. ASSUME NEW t \in pumps, PumpStart(t) \/ PumpStop(t) PROVE NoIdleSlot'
    BY <1>3, ConstantsAssumption DEF IndInv, PumpStart, PumpStop, TypeOK
  <1>4. ASSUME Restart PROVE NoIdleSlot'
    BY <1>4 DEF Restart, LoseMemory
  <1> QED BY <1>1, <1>2, <1>3, <1>4 DEF Next, Pump

\* No step duplicates or drops a waiting job.
LEMMA StepQueueExact ==
    ASSUME IndInv, Next PROVE QueueExact'
  <1>0. TypeOK /\ QueueExact
    BY DEF IndInv
  <1>1. ASSUME NEW j \in Jobs, Prepare(j) \/ Disconnect(j) \/ Register(j) \/ Cancel(j) PROVE QueueExact'
    BY <1>0, <1>1 DEF QueueExact, TypeOK, Prepare, Disconnect, Register, Cancel
  <1>2. ASSUME NEW j \in Jobs, Push(j) PROVE QueueExact'
    <2>1. /\ queue' = Append(queue, j)
          /\ stage[j] = "registered"
          /\ stage' = [stage EXCEPT ![j] = "queued"]
      BY <1>2 DEF Push
    <2>2. /\ DOMAIN queue' = 1 .. Len(queue) + 1
          /\ DOMAIN queue = 1 .. Len(queue)
          /\ \A i \in DOMAIN queue : queue'[i] = queue[i]
          /\ queue'[Len(queue) + 1] = j
          /\ Len(queue) \in Nat
      BY <1>0, <2>1 DEF TypeOK
    <2>3. \A i \in DOMAIN queue : queue[i] # j
      BY <1>0, <2>1 DEF QueueExact, TypeOK
    <2> QED BY <1>0, <2>1, <2>2, <2>3 DEF QueueExact, TypeOK
  <1>3. ASSUME NEW j \in Jobs, Worker(j) PROVE QueueExact'
    BY <1>0, <1>3 DEF QueueExact, TypeOK, Worker, StartCancelled, StartDenied, StartTransfer,
                      FinishTransfer, ForgetCancel, ReleaseSlot
  <1>4. ASSUME NEW t \in pumps, PumpStart(t) PROVE QueueExact'
    <2> DEFINE h == Head(queue)
    <2>1. queue # <<>> /\ queue' = Tail(queue) /\ stage' = [stage EXCEPT ![h] = "spawned"]
      BY <1>4 DEF PumpStart
    <2>2. /\ h \in Jobs
          /\ DOMAIN queue = 1 .. Len(queue)
          /\ DOMAIN queue' = 1 .. Len(queue) - 1
          /\ \A i \in DOMAIN queue' : queue'[i] = queue[i + 1]
          /\ queue[1] = h
          /\ Len(queue) \in Nat \ {0}
      BY <1>0, <2>1, PopFront DEF TypeOK
    <2>3. \A a, b \in DOMAIN queue' : queue'[a] = queue'[b] => a = b
      BY <1>0, <2>2 DEF QueueExact
    <2>4. ASSUME NEW i \in DOMAIN queue' PROVE queue'[i] # h /\ stage[queue'[i]] = "queued"
      <3>1. i + 1 \in DOMAIN queue /\ i + 1 # 1 /\ 1 \in DOMAIN queue /\ queue[i + 1] \in Jobs
        BY <1>0, <2>2 DEF TypeOK
      <3> QED BY <1>0, <2>2, <3>1 DEF QueueExact
    <2>5. ASSUME NEW j \in Jobs, j # h, stage[j] = "queued"
          PROVE  \E i \in DOMAIN queue' : queue'[i] = j
      <3>1. PICK i \in DOMAIN queue : queue[i] = j
        BY <1>0, <2>5 DEF QueueExact
      <3>2. i - 1 \in DOMAIN queue' /\ queue'[i - 1] = j
        BY <2>2, <2>5, <3>1
      <3> QED BY <3>2
    <2> QED BY <1>0, <2>1, <2>2, <2>3, <2>4, <2>5 DEF QueueExact, TypeOK
  <1>5. ASSUME NEW t \in pumps, PumpStop(t) PROVE QueueExact'
    BY <1>0, <1>5 DEF QueueExact, PumpStop
  <1>6. ASSUME Restart PROVE QueueExact'
    BY <1>6 DEF QueueExact, Restart, LoseMemory
  <1> QED BY <1>1, <1>2, <1>3, <1>4, <1>5, <1>6 DEF Next, Pump

\* The parts that only follow one job's stage.
LEMMA StepStages ==
    ASSUME IndInv, Next
    PROVE  CancelsExact' /\ RowFollowsStage' /\ EarlyKeepsFlag' /\ CancelledEarlyNeverRuns'
  <1> DEFINE Goal == CancelsExact /\ RowFollowsStage /\ EarlyKeepsFlag /\ CancelledEarlyNeverRuns
  <1>0. TypeOK /\ Goal
    BY DEF IndInv
  <1> USE DEF TypeOK, CancelsExact, RowFollowsStage, EarlyKeepsFlag, CancelledEarlyNeverRuns
  <1>1. ASSUME NEW j \in Jobs, Prepare(j) PROVE Goal'
    BY <1>0, <1>1 DEF Prepare
  <1>2. ASSUME NEW j \in Jobs, Disconnect(j) PROVE Goal'
    BY <1>0, <1>2 DEF Disconnect
  <1>3. ASSUME NEW j \in Jobs, Register(j) PROVE Goal'
    BY <1>0, <1>3 DEF Register
  <1>4. ASSUME NEW j \in Jobs, Push(j) PROVE Goal'
    BY <1>0, <1>4 DEF Push
  <1>5. ASSUME NEW j \in Jobs, Cancel(j) PROVE Goal'
    BY <1>0, <1>5 DEF Cancel
  <1>6. ASSUME NEW j \in Jobs, StartCancelled(j) PROVE Goal'
    BY <1>0, <1>6 DEF StartCancelled, SetJobState
  <1>7. ASSUME NEW j \in Jobs, StartDenied(j) PROVE Goal'
    BY <1>0, <1>7 DEF StartDenied, SetJobState
  <1>8. ASSUME NEW j \in Jobs, StartTransfer(j) PROVE Goal'
    BY <1>0, <1>8 DEF StartTransfer
  <1>9. ASSUME NEW j \in Jobs, NEW s \in EndState \ {"interrupted"}, FinishTransfer(j, s) PROVE Goal'
    BY <1>0, <1>9 DEF FinishTransfer, SetJobState, EndState
  <1>10. ASSUME NEW j \in Jobs, ForgetCancel(j) \/ ReleaseSlot(j) PROVE Goal'
    BY <1>0, <1>10 DEF ForgetCancel, ReleaseSlot
  <1>11. ASSUME NEW t \in pumps, PumpStart(t) PROVE Goal'
    <2>1. Head(queue) \in Jobs /\ stage[Head(queue)] = "queued"
      BY <1>11, PopFront DEF IndInv, PumpStart
    <2> QED BY <1>0, <1>11, <2>1 DEF PumpStart
  <1>12. ASSUME NEW t \in pumps, PumpStop(t) PROVE Goal'
    BY <1>0, <1>12 DEF PumpStop
  <1>13. ASSUME Restart PROVE Goal'
    BY <1>0, <1>13 DEF Restart, LoseMemory
  <1> QED BY <1>1, <1>2, <1>3, <1>4, <1>5, <1>6, <1>7, <1>8, <1>9, <1>10, <1>11, <1>12, <1>13
          DEF Next, Worker, Pump

\* The parts together: every step keeps the inductive invariant.
LEMMA NextIndInv == IndInv /\ [Next]_vars => IndInv'
  <1>1. ASSUME IndInv, Next PROVE IndInv'
    BY <1>1, StepTypeOK, StepSlots, StepNoIdleSlot, StepQueueExact, StepStages DEF IndInv
  <1>2. ASSUME IndInv, UNCHANGED vars PROVE IndInv'
    BY <1>2 DEF IndInv, vars, TypeOK, SlotsBounded, Busy, NoIdleSlot, QueueExact, CancelsExact,
                RowFollowsStage, EarlyKeepsFlag, CancelledEarlyNeverRuns
  <1> QED BY <1>1, <1>2

\* Hence it holds in every reachable state.
LEMMA Inductive == Spec => []IndInv
  BY InitIndInv, NextIndInv, PTL DEF Spec

-----------------------------------------------------------------------------
(* Theorems                                                                  *)

\* Every variable of the job manager keeps its type, the worker count included.
THEOREM TypeCorrect == Spec => []TypeOK
  <1>1. IndInv => TypeOK
    BY DEF IndInv
  <1> QED BY <1>1, Inductive, PTL

\* However handlers and workers interleave in pump_queue, the counter counts
\* the jobs on workers and never exceeds MAX_RUNNING_JOBS.
THEOREM SlotsNeverOversubscribed == Spec => []SlotsBounded
  <1>1. IndInv => SlotsBounded
    BY DEF IndInv
  <1> QED BY <1>1, Inductive, PTL

\* A waiting job and a free slot always have a thread about to join them.
THEOREM NoLostWakeup == Spec => []NoIdleSlot
  <1>1. IndInv => NoIdleSlot
    BY DEF IndInv
  <1> QED BY <1>1, Inductive, PTL

\* The queue holds every waiting job once and nothing else.
THEOREM QueueIsExact == Spec => []QueueExact
  <1>1. IndInv => QueueExact
    BY DEF IndInv
  <1> QED BY <1>1, Inductive, PTL

\* The cancel registry lists exactly the jobs that can still be cancelled.
THEOREM CancelRegistryExact == Spec => []CancelsExact
  <1>1. IndInv => CancelsExact
    BY DEF IndInv
  <1> QED BY <1>1, Inductive, PTL

\* A job cancelled before a worker took it never transfers anything.
THEOREM EarlyCancelSafe == Spec => []CancelledEarlyNeverRuns
  <1>1. IndInv => CancelledEarlyNeverRuns
    BY DEF IndInv
  <1> QED BY <1>1, Inductive, PTL

-----------------------------------------------------------------------------
(* The jobs table implements JobLifecycle.                                   *)

\* Every step is a step of the abstract life cycle or leaves the rows alone.
LEMMA StepImplements == IndInv /\ [Next]_vars => [Lifecycle!Next]_row
  <1> SUFFICES ASSUME IndInv, [Next]_vars PROVE [Lifecycle!Next]_row
    OBVIOUS
  <1> USE DEF Lifecycle!Next, Lifecycle!Accept, Lifecycle!Settle, Lifecycle!Interrupt, Lifecycle!EndState
  <1>0. TypeOK /\ RowFollowsStage
    BY DEF IndInv
  <1>1. ASSUME NEW j \in Jobs, Prepare(j) PROVE [Lifecycle!Next]_row
    <2>1. Lifecycle!Accept(j)
      BY <1>0, <1>1 DEF Prepare, RowFollowsStage
    <2> QED BY <2>1
  <1>2. ASSUME NEW j \in Jobs, Disconnect(j) \/ Register(j) \/ Push(j) \/ Cancel(j)
        PROVE  [Lifecycle!Next]_row
    BY <1>2 DEF Disconnect, Register, Push, Cancel
  <1>3. ASSUME NEW j \in Jobs, NEW s \in EndState \ {"interrupted"}, row[j] = "running", SetJobState(j, s)
        PROVE  [Lifecycle!Next]_row
    <2>1. CASE row' = [row EXCEPT ![j] = s]
      <3>1. Lifecycle!Settle(j, s)
        BY <1>3, <2>1 DEF EndState
      <3> QED BY <3>1, <1>3 DEF EndState
    <2> QED BY <1>3, <2>1 DEF SetJobState
  <1>4. ASSUME NEW j \in Jobs, StartCancelled(j) \/ StartDenied(j) PROVE [Lifecycle!Next]_row
    BY <1>0, <1>3, <1>4 DEF StartCancelled, StartDenied, RowFollowsStage, EndState
  <1>5. ASSUME NEW j \in Jobs, NEW s \in EndState \ {"interrupted"}, FinishTransfer(j, s)
        PROVE  [Lifecycle!Next]_row
    BY <1>0, <1>3, <1>5 DEF FinishTransfer, RowFollowsStage
  <1>6. ASSUME NEW j \in Jobs, StartTransfer(j) \/ ForgetCancel(j) \/ ReleaseSlot(j)
        PROVE  [Lifecycle!Next]_row
    BY <1>6 DEF StartTransfer, ForgetCancel, ReleaseSlot
  <1>7. ASSUME NEW t \in pumps, PumpStart(t) \/ PumpStop(t) PROVE [Lifecycle!Next]_row
    BY <1>7 DEF PumpStart, PumpStop
  <1>8. ASSUME Restart PROVE [Lifecycle!Next]_row
    BY <1>8 DEF Restart
  <1>9. CASE UNCHANGED vars
    BY <1>9 DEF vars
  <1> QED BY <1>1, <1>2, <1>4, <1>5, <1>6, <1>7, <1>8, <1>9 DEF Next, Worker, Pump

\* Seen through the jobs table the job manager is JobLifecycle: a row settles
\* once and only a row still running is interrupted, for any interleaving,
\* disconnect, failing write or restart.
THEOREM RefinesLifecycle == Spec => ImplementsLifecycle
  <1>1. Init => Lifecycle!Init
    BY DEF Init, Lifecycle!Init
  <1> QED BY <1>1, StepImplements, Inductive, PTL DEF Spec, ImplementsLifecycle, Lifecycle!Spec

-----------------------------------------------------------------------------
(* Without dropped requests and failing writes no row is left behind.        *)

\* Without disconnects and failing writes every step leaves running rows owned.
LEMMA StepOwned ==
    ASSUME ~MayDisconnect, ~DbMayFail, IndInv, RunningRowOwned, [Next]_vars
    PROVE  RunningRowOwned'
  <1>0. TypeOK /\ RowFollowsStage
    BY DEF IndInv
  <1> USE DEF RunningRowOwned, TypeOK
  <1>1. ASSUME NEW j \in Jobs, Prepare(j) \/ Register(j) \/ Push(j) \/ Cancel(j) PROVE RunningRowOwned'
    BY <1>0, <1>1 DEF Prepare, Register, Push, Cancel
  <1>2. ASSUME NEW j \in Jobs, StartCancelled(j) \/ StartDenied(j) PROVE RunningRowOwned'
    BY <1>0, <1>2 DEF StartCancelled, StartDenied, SetJobState
  <1>3. ASSUME NEW j \in Jobs, NEW s \in EndState \ {"interrupted"}, FinishTransfer(j, s)
        PROVE  RunningRowOwned'
    BY <1>0, <1>3 DEF FinishTransfer, SetJobState, EndState
  <1>4. ASSUME NEW j \in Jobs, StartTransfer(j) \/ ForgetCancel(j) \/ ReleaseSlot(j) PROVE RunningRowOwned'
    BY <1>0, <1>4 DEF StartTransfer, ForgetCancel, ReleaseSlot
  <1>5. ASSUME NEW t \in pumps, PumpStart(t) PROVE RunningRowOwned'
    <2>1. Head(queue) \in Jobs /\ stage[Head(queue)] = "queued"
      BY <1>5, PopFront DEF IndInv, PumpStart
    <2> QED BY <1>0, <1>5, <2>1 DEF PumpStart
  <1>6. ASSUME NEW t \in pumps, PumpStop(t) PROVE RunningRowOwned'
    BY <1>6 DEF PumpStop
  <1>7. ASSUME Restart PROVE RunningRowOwned'
    BY <1>0, <1>7 DEF Restart
  <1>8. CASE UNCHANGED vars
    BY <1>8 DEF vars
  <1> QED BY <1>1, <1>2, <1>3, <1>4, <1>5, <1>6, <1>7, <1>8 DEF Next, Worker, Pump, Disconnect

\* While no client drops its request and every write to the table succeeds,
\* each running row has a handler or worker that will settle it.
THEOREM RunningRowsOwned ==
    ASSUME ~MayDisconnect, ~DbMayFail
    PROVE  Spec => []RunningRowOwned
  <1>1. Init => RunningRowOwned
    BY DEF Init, RunningRowOwned
  <1>2. IndInv /\ RunningRowOwned /\ [Next]_vars => RunningRowOwned'
    BY StepOwned
  <1> QED BY <1>1, <1>2, Inductive, PTL DEF Spec

-----------------------------------------------------------------------------
(* The ceilings, while the depth check sees every running row.               *)

RunningRows == {j \in Jobs : row[j] = "running"}
RunningRowsOf(u) == {j \in Jobs : row[j] = "running" /\ Owner[j] = u}

\* When every running row lies in the window, prepare counts exactly those.
LEMMA AllSeen ==
    ASSUME TypeOK, RunningRowsSeen
    PROVE  RunningSeen = RunningRows
  <1>1. \A i \in DOMAIN created : created[i] \in Jobs
    BY DEF TypeOK
  <1>2. Newest \subseteq Jobs
    BY <1>1 DEF Newest
  <1> QED BY <1>2 DEF RunningSeen, RunningRows, RunningRowsSeen

\* A step either accepts a job or leaves the order alone and settles rows.
LEMMA StepRows ==
    ASSUME IndInv, [Next]_vars
    PROVE  \/ \E j \in Jobs : Prepare(j)
           \/ /\ created' = created
              /\ row' \in [Jobs -> RowState]
              /\ \A k \in Jobs : row'[k] = row[k] \/ (row[k] = "running" /\ row'[k] \in EndState)
  <1> DEFINE Settles == /\ created' = created
                        /\ row' \in [Jobs -> RowState]
                        /\ \A k \in Jobs : row'[k] = row[k] \/ (row[k] = "running" /\ row'[k] \in EndState)
  <1>0. row \in [Jobs -> RowState] /\ RowFollowsStage
    BY DEF IndInv, TypeOK
  <1>1. ASSUME created' = created, row' = row PROVE Settles
    BY <1>0, <1>1
  <1>2. ASSUME NEW j \in Jobs, Disconnect(j) \/ Register(j) \/ Push(j) \/ Cancel(j) PROVE Settles
    BY <1>1, <1>2 DEF Disconnect, Register, Push, Cancel
  <1>3. ASSUME NEW j \in Jobs, NEW s \in EndState \ {"interrupted"}, row[j] = "running",
               SetJobState(j, s), created' = created
        PROVE  Settles
    BY <1>0, <1>3 DEF SetJobState, RowState, EndState
  <1>4. ASSUME NEW j \in Jobs, StartCancelled(j) \/ StartDenied(j) PROVE Settles
    BY <1>0, <1>3, <1>4 DEF StartCancelled, StartDenied, RowFollowsStage, EndState
  <1>5. ASSUME NEW j \in Jobs, NEW s \in EndState \ {"interrupted"}, FinishTransfer(j, s) PROVE Settles
    BY <1>0, <1>3, <1>5 DEF FinishTransfer, RowFollowsStage
  <1>6. ASSUME NEW j \in Jobs, StartTransfer(j) \/ ForgetCancel(j) \/ ReleaseSlot(j) PROVE Settles
    BY <1>1, <1>6 DEF StartTransfer, ForgetCancel, ReleaseSlot
  <1>7. ASSUME NEW t \in pumps, PumpStart(t) \/ PumpStop(t) PROVE Settles
    BY <1>1, <1>7 DEF PumpStart, PumpStop
  <1>8. ASSUME Restart PROVE Settles
    BY <1>0, <1>8 DEF Restart, RowState, EndState
  <1>9. CASE UNCHANGED vars
    BY <1>1, <1>9 DEF vars
  <1> QED BY <1>2, <1>4, <1>5, <1>6, <1>7, <1>8, <1>9 DEF Next, Worker, Pump

\* Adding one job to a set raises its size by at most one.
LEMMA AtMostOneMore ==
    ASSUME NEW S, IsFiniteSet(S), NEW x
    PROVE  Cardinality(S \cup {x}) \in Nat /\ Cardinality(S \cup {x}) <= Cardinality(S) + 1
  <1>1. Cardinality(S) \in Nat
    BY FS_CardinalityType
  <1>2. Cardinality(S \cup {x}) = IF x \in S THEN Cardinality(S) ELSE Cardinality(S) + 1
    BY FS_AddElement
  <1> QED BY <1>1, <1>2

\* Whatever prepare does not see, what it sees stays within the ceilings.
RunningSeenOf(u) == {k \in RunningSeen : Owner[k] = u}
SeenCeilings ==
    /\ Cardinality(RunningSeen) <= MaxQueued
    /\ \A u \in Users : Cardinality(RunningSeenOf(u)) <= MaxPerUser

\* What list_jobs returns are jobs, finitely many of them.
LEMMA SeenAreJobs ==
    ASSUME TypeOK
    PROVE  /\ Newest \subseteq Jobs
           /\ IsFiniteSet(RunningSeen)
           /\ Cardinality(RunningSeen) \in Nat
           /\ \A u \in Users : IsFiniteSet(RunningSeenOf(u)) /\ Cardinality(RunningSeenOf(u)) \in Nat
  <1>1. \A i \in DOMAIN created : created[i] \in Jobs
    BY DEF TypeOK
  <1>2. Newest \subseteq Jobs
    BY <1>1 DEF Newest
  <1>3. RunningSeen \subseteq Jobs /\ \A u \in Users : RunningSeenOf(u) \subseteq Jobs
    BY <1>2 DEF RunningSeen, RunningSeenOf
  <1> QED BY <1>2, <1>3, ConstantsAssumption, FS_Subset, FS_CardinalityType

\* No step takes what the depth check sees past the ceilings: a new row may
\* push old ones out of the window, never bring one back.
LEMMA StepSeenCeilings ==
    ASSUME IndInv, SeenCeilings, [Next]_vars
    PROVE  SeenCeilings'
  <1>0. TypeOK
    BY DEF IndInv
  <1>1. /\ Newest \subseteq Jobs
        /\ IsFiniteSet(RunningSeen)
        /\ Cardinality(RunningSeen) \in Nat
        /\ \A u \in Users : IsFiniteSet(RunningSeenOf(u)) /\ Cardinality(RunningSeenOf(u)) \in Nat
    BY <1>0, SeenAreJobs
  <1>2. ASSUME NEW j \in Jobs, Prepare(j) PROVE SeenCeilings'
    <2>1. /\ Cardinality(RunningSeen) < MaxQueued
          /\ Cardinality(RunningSeenOf(Owner[j])) < MaxPerUser
          /\ row' = [row EXCEPT ![j] = "running"]
          /\ created' = Append(created, j)
      BY <1>2 DEF Prepare, RunningSeenOf
    <2>2. Newest' \subseteq Newest \cup {j}
      <3>1. /\ DOMAIN created = 1 .. Len(created)
            /\ DOMAIN created' = 1 .. Len(created) + 1
            /\ Len(created') = Len(created) + 1
            /\ \A i \in DOMAIN created : created'[i] = created[i]
            /\ created'[Len(created) + 1] = j
            /\ Len(created) \in Nat
        BY <1>0, <2>1 DEF TypeOK
      <3>2. ASSUME NEW i \in DOMAIN created', i + CheckLimit > Len(created'), created'[i] # j
            PROVE  created'[i] \in Newest
        <4>1. i \in DOMAIN created /\ i + CheckLimit > Len(created)
          BY <3>1, <3>2, ConstantsAssumption
        <4> QED BY <3>1, <4>1 DEF Newest
      <3> QED BY <3>2 DEF Newest
    <2>3. RunningSeen' \subseteq RunningSeen \cup {j}
      BY <1>0, <1>1, <2>1, <2>2 DEF RunningSeen, TypeOK
    <2>4. Cardinality(RunningSeen') <= MaxQueued
      <3>1. /\ Cardinality(RunningSeen \cup {j}) \in Nat
            /\ Cardinality(RunningSeen \cup {j}) <= Cardinality(RunningSeen) + 1
            /\ IsFiniteSet(RunningSeen \cup {j})
        BY <1>1, AtMostOneMore, FS_AddElement
      <3>2. Cardinality(RunningSeen') <= Cardinality(RunningSeen \cup {j}) /\ Cardinality(RunningSeen') \in Nat
        BY <2>3, <3>1, FS_Subset, FS_CardinalityType
      <3> QED BY <1>1, <2>1, <3>1, <3>2, ConstantsAssumption
    <2>5. ASSUME NEW u \in Users PROVE Cardinality(RunningSeenOf(u)') <= MaxPerUser
      <3>1. CASE u = Owner[j]
        <4>1. RunningSeenOf(u)' \subseteq RunningSeenOf(u) \cup {j}
          BY <2>3 DEF RunningSeenOf
        <4>2. /\ Cardinality(RunningSeenOf(u) \cup {j}) \in Nat
              /\ Cardinality(RunningSeenOf(u) \cup {j}) <= Cardinality(RunningSeenOf(u)) + 1
              /\ IsFiniteSet(RunningSeenOf(u) \cup {j})
          BY <1>1, AtMostOneMore, FS_AddElement
        <4>3. /\ Cardinality(RunningSeenOf(u)') <= Cardinality(RunningSeenOf(u) \cup {j})
              /\ Cardinality(RunningSeenOf(u)') \in Nat
          BY <4>1, <4>2, FS_Subset, FS_CardinalityType
        <4> QED BY <1>1, <2>1, <3>1, <4>2, <4>3, ConstantsAssumption
      <3>2. CASE u # Owner[j]
        <4>1. RunningSeenOf(u)' \subseteq RunningSeenOf(u)
          BY <2>3, <3>2 DEF RunningSeenOf
        <4>2. Cardinality(RunningSeenOf(u)') <= Cardinality(RunningSeenOf(u)) /\ Cardinality(RunningSeenOf(u)') \in Nat
          BY <1>1, <4>1, FS_Subset, FS_CardinalityType
        <4> QED BY <1>1, <4>2, ConstantsAssumption DEF SeenCeilings
      <3> QED BY <3>1, <3>2
    <2> QED BY <2>4, <2>5 DEF SeenCeilings
  <1>3. ASSUME created' = created, \A k \in Jobs : row'[k] = "running" => row[k] = "running"
        PROVE  SeenCeilings'
    <2>1. Newest' = Newest
      BY <1>3 DEF Newest
    <2>2. RunningSeen' \subseteq RunningSeen /\ \A u \in Users : RunningSeenOf(u)' \subseteq RunningSeenOf(u)
      BY <1>1, <1>3, <2>1 DEF RunningSeen, RunningSeenOf
    <2>3. /\ Cardinality(RunningSeen') <= Cardinality(RunningSeen)
          /\ Cardinality(RunningSeen') \in Nat
      BY <1>1, <2>2, FS_Subset, FS_CardinalityType
    <2>4. \A u \in Users : /\ Cardinality(RunningSeenOf(u)') <= Cardinality(RunningSeenOf(u))
                           /\ Cardinality(RunningSeenOf(u)') \in Nat
      BY <1>1, <2>2, FS_Subset, FS_CardinalityType
    <2> QED BY <1>1, <2>3, <2>4, ConstantsAssumption DEF SeenCeilings
  <1> QED BY <1>2, <1>3, StepRows DEF EndState

\* However long the jobs table grows, the running rows among those the depth
\* check reads never exceed MAX_QUEUED_JOBS, nor MAX_QUEUED_PER_USER of one
\* person.  The rows that have left its window are not counted.
THEOREM CeilingsInWindow == Spec => []SeenCeilings
  <1>1. Init => SeenCeilings
    <2>1. ASSUME Init PROVE SeenCeilings
      <3>1. RunningSeen = {} /\ \A u \in Users : RunningSeenOf(u) = {}
        BY <2>1 DEF Init, RunningSeen, RunningSeenOf, Newest
      <3> QED BY <3>1, FS_EmptySet, ConstantsAssumption DEF SeenCeilings
    <2> QED BY <2>1
  <1>2. IndInv /\ SeenCeilings /\ [Next]_vars => SeenCeilings'
    BY StepSeenCeilings
  <1> QED BY <1>1, <1>2, Inductive, PTL DEF Spec

\* Seeing every running row, no step exceeds the ceilings.
LEMMA StepCeilings ==
    ASSUME IndInv, RunningRowsSeen, CeilingsHold, [Next]_vars
    PROVE  CeilingsHold'
  <1>0. TypeOK /\ RunningSeen = RunningRows
    BY AllSeen DEF IndInv
  <1>1. CeilingsHold <=> /\ Cardinality(RunningRows) <= MaxQueued
                         /\ \A u \in Users : Cardinality(RunningRowsOf(u)) <= MaxPerUser
    BY DEF CeilingsHold, RunningRows, RunningRowsOf
  <1>2. CeilingsHold' <=> /\ Cardinality(RunningRows') <= MaxQueued
                          /\ \A u \in Users : Cardinality(RunningRowsOf(u)') <= MaxPerUser
    BY DEF CeilingsHold, RunningRows, RunningRowsOf
  <1>3. /\ IsFiniteSet(RunningRows)
        /\ Cardinality(RunningRows) \in Nat
        /\ \A u \in Users : IsFiniteSet(RunningRowsOf(u)) /\ Cardinality(RunningRowsOf(u)) \in Nat
    BY ConstantsAssumption, FS_Subset, FS_CardinalityType DEF RunningRows, RunningRowsOf
  <1>4. ASSUME NEW j \in Jobs, Prepare(j) PROVE CeilingsHold'
    <2>1. /\ Cardinality(RunningRows) < MaxQueued
          /\ Cardinality(RunningRowsOf(Owner[j])) < MaxPerUser
          /\ row' = [row EXCEPT ![j] = "running"]
      <3>1. RunningRowsOf(Owner[j]) = {k \in RunningSeen : Owner[k] = Owner[j]}
        BY <1>0 DEF RunningRows, RunningRowsOf
      <3> QED BY <1>0, <1>4, <3>1 DEF Prepare
    <2>2. Cardinality(RunningRows') <= MaxQueued
      <3>1. RunningRows' = RunningRows \cup {j}
        BY <1>0, <2>1 DEF RunningRows, TypeOK
      <3>2. Cardinality(RunningRows') <= Cardinality(RunningRows) + 1 /\ Cardinality(RunningRows') \in Nat
        BY <1>3, <3>1, AtMostOneMore
      <3> QED BY <1>3, <2>1, <3>2, ConstantsAssumption
    <2>3. ASSUME NEW u \in Users PROVE Cardinality(RunningRowsOf(u)') <= MaxPerUser
      <3>1. CASE u = Owner[j]
        <4>1. RunningRowsOf(u)' = RunningRowsOf(u) \cup {j}
          BY <1>0, <2>1, <3>1 DEF RunningRowsOf, TypeOK
        <4>2. /\ Cardinality(RunningRowsOf(u)') <= Cardinality(RunningRowsOf(u)) + 1
              /\ Cardinality(RunningRowsOf(u)') \in Nat
          BY <1>3, <4>1, AtMostOneMore
        <4> QED BY <1>3, <2>1, <3>1, <4>2, ConstantsAssumption
      <3>2. CASE u # Owner[j]
        <4>1. RunningRowsOf(u)' = RunningRowsOf(u)
          BY <1>0, <2>1, <3>2 DEF RunningRowsOf, TypeOK
        <4> QED BY <1>1, <4>1
      <3> QED BY <3>1, <3>2
    <2> QED BY <1>2, <2>2, <2>3
  <1>5. ASSUME \A k \in Jobs : row'[k] = "running" => row[k] = "running" PROVE CeilingsHold'
    <2>1. RunningRows' \subseteq RunningRows /\ \A u \in Users : RunningRowsOf(u)' \subseteq RunningRowsOf(u)
      BY <1>5 DEF RunningRows, RunningRowsOf
    <2>2. /\ Cardinality(RunningRows') <= Cardinality(RunningRows)
          /\ Cardinality(RunningRows') \in Nat
      BY <1>3, <2>1, FS_Subset, FS_CardinalityType
    <2>3. \A u \in Users : /\ Cardinality(RunningRowsOf(u)') <= Cardinality(RunningRowsOf(u))
                           /\ Cardinality(RunningRowsOf(u)') \in Nat
      BY <1>3, <2>1, FS_Subset, FS_CardinalityType
    <2> QED BY <1>1, <1>2, <1>3, <2>2, <2>3, ConstantsAssumption
  <1> QED BY <1>4, <1>5, StepRows DEF EndState

\* As long as the depth check sees every running row, nobody holds more than
\* MAX_QUEUED_PER_USER running rows and all together no more than
\* MAX_QUEUED_JOBS.  A table longer than the window may hide
\* some, and then the ceilings do not hold for the whole table.
THEOREM CeilingsWhileSeen == Spec /\ []RunningRowsSeen => []CeilingsHold
  <1>1. Init => CeilingsHold
    <2>1. ASSUME Init PROVE CeilingsHold
      <3>1. RunningRows = {} /\ \A u \in Users : RunningRowsOf(u) = {}
        BY <2>1 DEF Init, RunningRows, RunningRowsOf
      <3> QED BY <3>1, FS_EmptySet, ConstantsAssumption DEF CeilingsHold, RunningRows, RunningRowsOf
    <2> QED BY <2>1
  <1>2. IndInv /\ RunningRowsSeen /\ CeilingsHold /\ [Next]_vars => CeilingsHold'
    BY StepCeilings
  <1> QED BY <1>1, <1>2, Inductive, PTL DEF Spec

-----------------------------------------------------------------------------
(* A table no longer than the window hides no row from the depth check.      *)

\* The table has not outgrown QUEUE_CHECK_LIMIT.
WithinWindow == Len(created) <= CheckLimit

\* Every row is in the table's order of creation.
CreatedCovers == \A j \in Jobs : row[j] # "none" => \E i \in DOMAIN created : created[i] = j

\* Every row of the table is listed in the creation order.
LEMMA StepCreatedCovers ==
    ASSUME IndInv, CreatedCovers, [Next]_vars
    PROVE  CreatedCovers'
  <1>0. TypeOK
    BY DEF IndInv
  <1>1. ASSUME NEW j \in Jobs, Prepare(j) PROVE CreatedCovers'
    <2>1. /\ created' = Append(created, j)
          /\ row' = [row EXCEPT ![j] = "running"]
      BY <1>1 DEF Prepare
    <2>2. /\ DOMAIN created = 1 .. Len(created)
          /\ DOMAIN created' = 1 .. Len(created) + 1
          /\ \A i \in DOMAIN created : created'[i] = created[i]
          /\ created'[Len(created) + 1] = j
          /\ Len(created) \in Nat
      BY <1>0, <2>1 DEF TypeOK
    <2>3. ASSUME NEW k \in Jobs, row'[k] # "none" PROVE \E i \in DOMAIN created' : created'[i] = k
      <3>1. CASE k = j
        BY <2>2, <3>1
      <3>2. CASE k # j
        <4>1. row[k] # "none"
          BY <1>0, <2>1, <2>3, <3>2 DEF TypeOK
        <4>2. PICK i \in DOMAIN created : created[i] = k
          BY <4>1 DEF CreatedCovers
        <4> QED BY <2>2, <4>2
      <3> QED BY <3>1, <3>2
    <2> QED BY <2>3 DEF CreatedCovers
  <1>2. ASSUME created' = created, \A k \in Jobs : row'[k] # "none" => row[k] # "none"
        PROVE  CreatedCovers'
    BY <1>2 DEF CreatedCovers
  <1> QED BY <1>1, <1>2, StepRows

\* As long as the jobs table holds no more rows than list_jobs returns, the
\* depth check sees every running row.
THEOREM SeenWithinWindow == Spec /\ []WithinWindow => []RunningRowsSeen
  <1>1. Init => CreatedCovers
    BY DEF Init, CreatedCovers
  <1>2. IndInv /\ CreatedCovers /\ [Next]_vars => CreatedCovers'
    BY StepCreatedCovers
  <1>3. ASSUME TypeOK, CreatedCovers, WithinWindow PROVE RunningRowsSeen
    <2>1. DOMAIN created = 1 .. Len(created) /\ Len(created) \in Nat
      BY <1>3 DEF TypeOK
    <2>2. Newest = {created[i] : i \in DOMAIN created}
      BY <1>3, <2>1, ConstantsAssumption DEF Newest, WithinWindow
    <2> QED BY <1>3, <2>2 DEF RunningRowsSeen, CreatedCovers
  <1>4. IndInv => TypeOK
    BY DEF IndInv
  <1> QED BY <1>1, <1>2, <1>3, <1>4, Inductive, PTL DEF Spec
=============================================================================
