---------------------------- MODULE JobLifecycle ----------------------------
(***************************************************************************)
(* What lunad promises about a copy/move job row (the `jobs` table), seen   *)
(* from outside: a row appears as "running", it settles once, and a restart *)
(* interrupts every row that had not settled.  The web client relies on     *)
(* this and on nothing else about the queue (fileOps/jobRunner.js).         *)
(* LunaJobQueue is shown to implement it.                                   *)
(***************************************************************************)
EXTENDS Naturals

CONSTANT Jobs          \* job ids (fresh UUIDs: an id is used at most once)

VARIABLE row           \* row[j]: the state column of j's row, "none" if absent

EndState == {"done", "error", "cancelled", "interrupted"}
RowState == {"none", "running"} \cup EndState

Init == row = [j \in Jobs |-> "none"]

\* POST /api/v1/jobs answered with a job id.
Accept(j) ==
    /\ row[j] = "none"
    /\ row' = [row EXCEPT ![j] = "running"]

\* The worker wrote how the job ended.
Settle(j, s) ==
    /\ row[j] = "running"
    /\ s \in EndState \ {"interrupted"}
    /\ row' = [row EXCEPT ![j] = s]

\* lunad restarted: no row is left running.
Interrupt ==
    row' = [j \in Jobs |-> IF row[j] = "running" THEN "interrupted" ELSE row[j]]

Next ==
    \/ \E j \in Jobs : Accept(j)
    \/ \E j \in Jobs, s \in EndState : Settle(j, s)
    \/ Interrupt

Spec == Init /\ [][Next]_row
=============================================================================
