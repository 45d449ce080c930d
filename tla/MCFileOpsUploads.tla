-------------------------- MODULE MCFileOpsUploads --------------------------
(* Instances of FileOpsUploads for TLC. *)
EXTENDS FileOpsUploads

\* A chunked and a one-request file; a chunked file and an empty folder.
BigAndSmall == [i \in Items |-> IF i = 1 THEN "big" ELSE "small"]
BigAndFolder == [i \in Items |-> IF i = 1 THEN "big" ELSE "dir"]
=============================================================================
