--------------------------- MODULE MCLunaJobQueue ---------------------------
(***************************************************************************)
(* Small instances of LunaJobQueue for TLC.                                 *)
(***************************************************************************)
EXTENDS LunaJobQueue, TLC

CONSTANTS j1, j2, j3, j4, ann, bob

TwoJobs == {j1, j2}
ThreeJobs == {j1, j2, j3}
FourJobs == {j1, j2, j3, j4}
TwoUsers == {ann, bob}

\* One person asks for everything: the jobs are interchangeable.
AllAnns == [j \in ThreeJobs |-> ann]
Symmetry == Permutations(ThreeJobs)
OwnerOf2 == [j \in TwoJobs |-> IF j = j1 THEN ann ELSE bob]

\* ann asks for j1 only, bob keeps coming back.
OwnerOf4 == [j \in FourJobs |-> IF j = j1 THEN ann ELSE bob]
=============================================================================
