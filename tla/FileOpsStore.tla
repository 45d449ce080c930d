---------------------------- MODULE FileOpsStore ----------------------------
(***************************************************************************)
(* The part of luna/web's file operation store (lib/fileOps/store.js) that  *)
(* the upload, job and request runners share: the states of an item, the    *)
(* choices a decision offers, and settle / finish, which re-derive an       *)
(* operation's state from its items and arm the timer that clears it.       *)
(***************************************************************************)
EXTENDS Naturals, FiniteSets

\* ACTIVE: an item the tab still works on.
Active == {"queued", "uploading", "finishing", "submitting", "running"}

ItemState == Active \cup {"none", "done", "skipped", "needs-decision", "failed", "cancelled"}

OpPhase == {"preparing", "running", "waiting", "done", "partial", "failed", "cancelled"}

\* The fields of an Op that decide control: is it in `ops`, its state, has it
\* endedAt, was it cancelled, its policy, is its auto-clear timer armed.
OpRecord == [listed : BOOLEAN, phase : OpPhase, ended : BOOLEAN, cancelled : BOOLEAN,
             policy : {"none", "replace", "keep_both", "skip"}, clear : BOOLEAN]

NoOp == [listed |-> FALSE, phase |-> "preparing", ended |-> FALSE, cancelled |-> FALSE,
         policy |-> "none", clear |-> FALSE]

\* makeOp + addOp.
NewOp(phase) == [NoOp EXCEPT !.listed = TRUE, !.phase = phase]

\* existsDecision: a folder, or a copy into its own folder, cannot be replaced.
Options(decision) ==
    CASE decision = "file"     -> {"replace", "keep_both", "skip"}
      [] decision = "dir"      -> {"keep_both", "skip"}
      [] decision = "broadens" -> {"confirm", "skip"}

\* decideAll answers a "widens who can open it" warning only with skip.
AllowedForAll(decision, choice) ==
    IF decision = "broadens" THEN choice = "skip" ELSE choice \in Options(decision)

\* The items of T (numbers) in the order of the list: one sequence.
InOrder(T) ==
    {q \in [1 .. Cardinality(T) -> T] :
        /\ \A i \in T : \E n \in DOMAIN q : q[n] = i
        /\ \A m, n \in DOMAIN q : m < n => q[m] < q[n]}

Problem == {"failed", "needs-decision"}

\* What settle calls an operation none of whose items is active or waiting.
\* `states`: the states of its items; `done`: is a file (not a folder) done?
EndPhase(op, states, done, error) ==
    CASE error                       -> "failed"
      [] ~error /\ op.cancelled      -> "cancelled"
      [] ~error /\ ~op.cancelled     -> IF "failed" \notin states THEN "done"
                                        ELSE IF done THEN "partial" ELSE "failed"

SettledEarly(op, states, done, walking, error) ==
    IF ~op.listed \/ walking \/ states \cap {"queued", "running", "needs-decision"} # {} THEN op
    ELSE [op EXCEPT !.phase = EndPhase(op, states, done, error), !.ended = TRUE]

\* settle(op), finish(op) included.
Settled(op, states, done, walking, error) ==
    IF ~op.listed THEN op
    ELSE IF walking \/ states \cap Active # {}
    THEN [op EXCEPT !.phase = IF states = {} THEN "preparing" ELSE "running",
                    !.ended = FALSE,
                    !.clear = @ /\ ~op.ended]
    ELSE IF "needs-decision" \in states
    THEN [op EXCEPT !.phase = "waiting"]
    ELSE LET phase == EndPhase(op, states, done, error)
         IN  [op EXCEPT !.phase = phase,
                        !.ended = TRUE,
                        !.clear = @ \/ (/\ ~op.ended
                                        /\ states \cap Problem = {}
                                        /\ phase # "failed")]
=============================================================================
