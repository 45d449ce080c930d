--------------------------- MODULE MCFileOpsJobs ----------------------------
(* Instances of FileOpsJobs for TLC. *)
EXTENDS FileOpsJobs

\* Every item in one operation.
OneOp == [i \in Items |-> CHOOSE o \in Ops : TRUE]
=============================================================================
