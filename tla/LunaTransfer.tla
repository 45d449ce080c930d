---------------------------- MODULE LunaTransfer ----------------------------
(***************************************************************************)
(* One copy or move as run_job of lunad carries it out (jobs.rs): rename in *)
(* place where the file system allows it, else copy node by node, carry the *)
(* shares over, trash the source, and on failure take the partial copy      *)
(* away again.  Around it, other people write into both folders, cancel,    *)
(* and lose their grant; the disk and the database fail; lunad stops.       *)
(*                                                                          *)
(* The item is a file (the one name Leaf) or a folder of files 1..N, which  *)
(* copy_node visits in sorted order.  A step is what happens between two    *)
(* points where somebody else can get in: a lock, a system call, a chunk.   *)
(* A private item that must cross drives is copied, so for this module it   *)
(* is an item that cannot be renamed.                                       *)
(***************************************************************************)
EXTENDS Naturals, FiniteSets

CONSTANTS
    N,                  \* files in the source folder
    Skipped,            \* files copy_node passes over: names that are not UTF-8, Luna's temp files
    Shares,             \* grant rows on the item (access_members, access_links)
    OthersEditSource,   \* may others write into the source while the job runs?
    OthersClaimDest,    \* may others create an item under the destination name?
    OthersWriteDest,    \* may others save into the folder the job is filling?
    OthersTakeDest,     \* may others delete or rename what the job has made?
    MayRevoke,          \* may the job's owner lose the grant?
    IoMayFail,          \* may a file system call fail?
    DbMayFail,          \* may a statement on the main database fail?
    MayCrash            \* may lunad stop in the middle?

ASSUME ConstantsAssumption ==
    /\ N \in Nat \ {0}
    /\ Skipped \subseteq 1 .. N
    /\ {OthersEditSource, OthersClaimDest, OthersWriteDest, OthersTakeDest, MayRevoke, IoMayFail,
         DbMayFail, MayCrash} \subseteq BOOLEAN

Names == 1 .. N
Leaf == 1
\* Content as it was when the job was enqueued, written into the source since,
\* or saved at the destination by somebody else.
Content == {"orig", "edited", "theirs"}
None == "none"
Empty == [n \in Names |-> None]

VARIABLES
    job,        \* what was asked: kind, isDir, canRename, fromTrash, and noReplace:
                \* what the destination's file system has to not replace a file
    src, dst, trash,  \* the files of the item at each place
    present,    \* the places where the item exists
    dstBy,      \* who made the item at the destination name
    share,      \* share[s]: where grant row s points
    granted,    \* does has_cap still hold for the job's owner?
    flag,       \* the cancel flag
    row, msg,   \* jobs table: state, and what the error text claims
    pc,         \* where run_job is
    outcome,    \* run_job's local `state`
    listed, todo,     \* entries of read_dir, and those still to visit
    cur, temp,  \* the node being copied, and the content of its temp file
    owned,      \* CopyState.owned_dest
    mishap      \* history: "stuck", a removal failed; "taken", others took what the job made

vars == <<job, src, dst, trash, present, dstBy, share, granted, flag, row, msg, pc, outcome,
          listed, todo, cur, temp, owned, mishap>>
disk == <<src, dst, trash, present, dstBy>>
local == <<outcome, listed, todo, cur, temp, owned>>
world == <<job, granted, flag, mishap>>

\* What prepare accepts.  Only a move cares about the file system and the trash.
JobOk(j) == j.kind = "copy" => ~j.canRename /\ ~j.fromTrash

\* noReplace: renameat2 with RENAME_NOREPLACE, else link, else only a look.
JobType == [kind : {"copy", "move"}, isDir : BOOLEAN, canRename : BOOLEAN, fromTrash : BOOLEAN,
            noReplace : {"rename", "link", "look"}]

Init ==
    /\ job \in {j \in JobType : JobOk(j)}
    /\ src = [n \in Names |-> IF job.isDir \/ n = Leaf THEN "orig" ELSE None]
    /\ dst = Empty
    /\ trash = Empty
    /\ present = {"src"}
    /\ dstBy = "nobody"
    /\ share = [s \in Shares |-> "src"]
    /\ granted = TRUE
    /\ flag = FALSE
    /\ row = "running"
    /\ msg = "silent"
    /\ pc = "start"
    /\ outcome = "none"
    /\ listed = {}
    /\ todo = {}
    /\ cur = Leaf
    /\ temp = None
    /\ owned = FALSE
    /\ mishap = {}

\* set_job_state where run_job ignores its result.
SetJobState(s) ==
    \/ row' = s
    \/ DbMayFail /\ row' = row

\* The closure of run_job returns an error: clean-up follows.
Fail(s) ==
    /\ outcome' = s
    /\ pc' = "settle"

-----------------------------------------------------------------------------
(* run_job up to the rename                                                  *)

EndAtStart(s) ==
    /\ SetJobState(s)
    /\ pc' = "end"
    /\ UNCHANGED <<world, disk, local, share, msg>>

StartCancelled == pc = "start" /\ flag /\ EndAtStart("cancelled")
StartDenied == pc = "start" /\ ~flag /\ ~granted /\ EndAtStart("error")

Start ==
    /\ pc = "start"
    /\ ~flag
    /\ granted
    /\ pc' = IF job.kind = "move" /\ job.canRename THEN "rename" ELSE "copy"
    /\ UNCHANGED <<world, disk, local, share, row, msg>>

\* try_rename_move: never replaces what is there.
RenameRefused ==
    /\ pc = "rename"
    /\ "dst" \in present \/ IoMayFail
    /\ EndAtStart("error")

Renamed ==
    /\ dst' = src
    /\ src' = Empty
    /\ present' = (present \ {"src"}) \cup {"dst"}
    /\ dstBy' = "job"
    /\ pc' = "follow"
    /\ UNCHANGED <<world, trash, local, share, row, msg>>

RenameReplacing ==
    /\ pc = "rename"
    /\ Renamed

RenameLands ==
    /\ pc = "rename"
    /\ job.noReplace = "rename"
    /\ "dst" \notin present
    /\ Renamed

\* Without RENAME_NOREPLACE: look, then rename(2), with no lock held.
RenameLooks ==
    /\ pc = "rename"
    /\ job.noReplace # "rename"
    /\ "dst" \notin present
    /\ pc' = "renaming"
    /\ UNCHANGED <<world, disk, local, share, row, msg>>

\* rename(2) replaces a file, and fails on a folder with something in it.
RenamePlain ==
    /\ pc = "renaming"
    /\ "dst" \in present => ~job.isDir
    /\ Renamed

RenamePlainFails ==
    /\ pc = "renaming"
    /\ "dst" \in present \/ IoMayFail
    /\ EndAtStart("error")

\* repath_subjects_move: one UPDATE per grant row, no transaction around them.
RepathSubject(s) ==
    /\ pc \in {"follow", "retarget"}
    /\ share[s] = "src"
    /\ share' = [share EXCEPT ![s] = "dst"]
    /\ UNCHANGED <<world, disk, local, row, msg, pc>>

FollowDone ==
    /\ pc = "follow"
    /\ \A s \in Shares : share[s] # "src"
    /\ SetJobState("done")
    /\ pc' = "end"
    /\ UNCHANGED <<world, disk, local, share, msg>>

\* A failed UPDATE: rename the tree back, by its path, and report the error.
FollowFails ==
    /\ pc = "follow"
    /\ DbMayFail
    /\ \/ /\ "dst" \in present
          /\ src' = dst
          /\ dst' = Empty
          /\ present' = (present \ {"dst"}) \cup {"src"}
          /\ dstBy' = "nobody"
          /\ UNCHANGED trash
       \/ ("dst" \in present => IoMayFail) /\ UNCHANGED disk
    /\ SetJobState("error")
    /\ pc' = "end"
    /\ UNCHANGED <<world, local, share, msg>>

-----------------------------------------------------------------------------
(* copy_node                                                                 *)

\* The checks at the head of every node: cancel flag, existence, caps.
HeadFails(exists) ==
    \/ flag /\ Fail("cancelled")
    \/ ~flag /\ (~exists \/ ~granted \/ IoMayFail \/ DbMayFail) /\ Fail("error")
HeadPasses(exists) == ~flag /\ exists /\ granted

RootFails ==
    /\ pc = "copy"
    /\ HeadFails("src" \in present)
    /\ UNCHANGED <<world, disk, share, row, msg, listed, todo, cur, temp, owned>>

\* A folder claims its destination with create_dir, which fails on a taken name.
ClaimTaken ==
    /\ pc = "copy"
    /\ HeadPasses("src" \in present)
    /\ job.isDir
    /\ "dst" \in present
    /\ Fail("error")
    /\ UNCHANGED <<world, disk, share, row, msg, listed, todo, cur, temp, owned>>

Claim ==
    /\ pc = "copy"
    /\ HeadPasses("src" \in present)
    /\ job.isDir
    /\ "dst" \notin present
    /\ present' = present \cup {"dst"}
    /\ dstBy' = "job"
    /\ owned' = TRUE
    /\ pc' = "list"
    /\ UNCHANGED <<world, src, dst, trash, share, row, msg, outcome, listed, todo, cur, temp>>

\* read_dir: what is there now is what will be copied, the names the loop
\* passes over left out.
List ==
    /\ pc = "list"
    /\ listed' = {n \in Names \ Skipped : src[n] # None}
    /\ todo' = listed'
    /\ pc' = IF listed' = {} THEN "copied" ELSE "node"
    /\ UNCHANGED <<world, disk, share, row, msg, outcome, cur, temp, owned>>

ListFails ==
    /\ pc = "list"
    /\ IoMayFail
    /\ Fail("error")
    /\ UNCHANGED <<world, disk, share, row, msg, listed, todo, cur, temp, owned>>

\* A single file: the root is the only node.
RootFile ==
    /\ pc = "copy"
    /\ HeadPasses(src[Leaf] # None)
    /\ ~job.isDir
    /\ listed' = {Leaf}
    /\ todo' = {Leaf}
    /\ cur' = Leaf
    /\ temp' = src[Leaf]
    /\ pc' = "bytes"
    /\ UNCHANGED <<world, disk, share, row, msg, outcome, owned>>

NextName(n) == n \in todo /\ \A m \in todo : n <= m

\* ... or the folder to copy into is gone.
NodeFails ==
    /\ pc = "node"
    /\ \E n \in Names : NextName(n) /\ HeadFails(src[n] # None /\ "dst" \in present)
    /\ UNCHANGED <<world, disk, share, row, msg, listed, todo, cur, temp, owned>>

\* open_verified: what the descriptor reads does not change any more, because
\* Luna replaces files by rename.
OpenNode ==
    /\ pc = "node"
    /\ \E n \in Names : NextName(n) /\ HeadPasses(src[n] # None /\ "dst" \in present) /\ cur' = n
    /\ temp' = src[cur']
    /\ pc' = "bytes"
    /\ UNCHANGED <<world, disk, share, row, msg, outcome, listed, todo, owned>>

BytesCancelledKeepTemp ==
    /\ pc = "bytes"
    /\ flag
    /\ Fail("cancelled")
    /\ UNCHANGED <<world, disk, share, row, msg, listed, todo, cur, temp, owned>>

\* A cancel seen between chunks removes the temp file, or tries to.
BytesCancelled ==
    /\ pc = "bytes"
    /\ flag
    /\ \/ temp' = None /\ mishap' = mishap
       \/ IoMayFail /\ temp' = temp /\ mishap' = mishap \cup {"stuck"}
    /\ Fail("cancelled")
    /\ UNCHANGED <<job, granted, flag, disk, share, row, msg, listed, todo, cur, owned>>

\* A failed read, write or sync does not, nor a failed node_allowed.
BytesFail ==
    /\ pc = "bytes"
    /\ IoMayFail \/ DbMayFail
    /\ Fail("error")
    /\ UNCHANGED <<world, disk, share, row, msg, listed, todo, cur, temp, owned>>

BytesDone ==
    /\ pc = "bytes"
    /\ pc' = "install"
    /\ UNCHANGED <<world, disk, local, share, row, msg>>

\* install_temp(.., overwrite = false)
TargetTaken == IF job.isDir THEN dst[cur] # None ELSE "dst" \in present

InstallFails ==
    /\ pc \in {"install", "installing"}
    /\ TargetTaken \/ IoMayFail \/ temp = None
    /\ Fail("error")
    /\ UNCHANGED <<world, disk, share, row, msg, listed, todo, cur, temp, owned>>

InstallLands ==
    /\ temp # None
    /\ dst' = [dst EXCEPT ![cur] = temp]
    /\ present' = present \cup {"dst"}
    /\ dstBy' = IF job.isDir THEN dstBy ELSE "job"
    /\ UNCHANGED <<src, trash, world, share, row, msg, listed, cur>>

\* install_temp returns; rest is still to be copied.
Installed(rest) ==
    /\ InstallLands
    /\ temp' = None
    /\ owned' = TRUE
    /\ todo' = rest
    /\ pc' = IF rest = {} THEN "copied" ELSE "node"
    /\ UNCHANGED outcome

InstallSkipsRest ==
    /\ pc = "install"
    /\ job.noReplace # "look"
    /\ ~TargetTaken
    /\ Installed({})

Install ==
    /\ pc = "install"
    /\ job.noReplace # "look"
    /\ ~TargetTaken
    /\ Installed(todo \ {cur})

\* The file is linked under its name, but the temp file cannot be removed.
InstallLinked ==
    /\ pc = "install"
    /\ job.noReplace = "link"
    /\ IoMayFail
    /\ ~TargetTaken
    /\ InstallLands
    /\ Fail("error")
    /\ UNCHANGED <<todo, temp, owned>>

\* install_by_exclusive_rename: look, then rename(2).
InstallLooks ==
    /\ pc = "install"
    /\ job.noReplace = "look"
    /\ ~TargetTaken
    /\ pc' = "installing"
    /\ UNCHANGED <<world, disk, local, share, row, msg>>

InstallPlain ==
    /\ pc = "installing"
    /\ Installed(todo \ {cur})

-----------------------------------------------------------------------------
(* The end of a move: under the source drive's lock and the database lock,   *)
(* retarget the shares first, then trash the source.                         *)

CopiedNoRetarget ==
    /\ pc = "copied"
    /\ pc' = IF job.kind = "move" THEN "trash" ELSE "commit"
    /\ UNCHANGED <<world, disk, local, share, row, msg>>

Copied ==
    /\ pc = "copied"
    /\ pc' = IF job.kind = "move" THEN "retarget" ELSE "commit"
    /\ UNCHANGED <<world, disk, local, share, row, msg>>

\* copy_form_files of the last node is cancelled or fails.
FormFilesFail ==
    /\ pc = "copied"
    /\ \/ flag /\ Fail("cancelled")
       \/ (IoMayFail \/ DbMayFail) /\ Fail("error")
    /\ UNCHANGED <<world, disk, share, row, msg, listed, todo, cur, temp, owned>>

RetargetDone ==
    /\ pc = "retarget"
    /\ \A s \in Shares : share[s] # "src"
    /\ pc' = "trash"
    /\ UNCHANGED <<world, disk, local, share, row, msg>>

RetargetFails ==
    /\ pc = "retarget"
    /\ DbMayFail
    /\ Fail("error")
    /\ UNCHANGED <<world, disk, share, row, msg, listed, todo, cur, temp, owned>>

\* delete_to_trash also drops the grants still on the old path; purge_trash
\* removes an item that was in the trash already for good.
Removed ==
    /\ src' = Empty
    /\ present' = (present \ {"src"}) \cup (IF job.fromTrash THEN {} ELSE {"trash"})
    /\ trash' = IF job.fromTrash THEN trash ELSE src
    /\ UNCHANGED <<dst, dstBy>>

TrashSource ==
    /\ pc = "trash"
    /\ "src" \in present
    /\ Removed
    /\ share' = [s \in Shares |-> IF share[s] = "src" /\ ~job.fromTrash THEN "dropped" ELSE share[s]]
    /\ pc' = "commit"
    /\ UNCHANGED <<world, local, row, msg>>

\* The clean-up fails before it did anything, after the rename into the trash,
\* or half way through a purge: the copy is kept (owned_dest = false).
TrashFailsRollingBack ==
    /\ pc = "trash"
    /\ IoMayFail \/ DbMayFail
    /\ UNCHANGED disk \/ Removed
    /\ Fail("not_trashed")
    /\ UNCHANGED <<world, share, row, msg, listed, todo, cur, temp, owned>>

TrashFails ==
    /\ pc = "trash"
    /\ IoMayFail \/ DbMayFail
    /\ \/ UNCHANGED disk
       \/ Removed
       \/ /\ job.fromTrash
          /\ \E gone \in SUBSET Names : src' = [n \in Names |-> IF n \in gone THEN None ELSE src[n]]
          /\ UNCHANGED <<dst, trash, present, dstBy>>
    /\ Fail("not_trashed")
    /\ owned' = FALSE
    /\ UNCHANGED <<world, share, row, msg, listed, todo, cur, temp>>

\* The last statement of the closure, whose failure is an error of the job.
Commit ==
    /\ pc = "commit"
    /\ row' = "done"
    /\ Fail("done")
    /\ UNCHANGED <<world, disk, share, msg, listed, todo, cur, temp, owned>>

CommitFails ==
    /\ pc = "commit"
    /\ DbMayFail
    /\ Fail("error")
    /\ UNCHANGED <<world, disk, share, row, msg, listed, todo, cur, temp, owned>>

-----------------------------------------------------------------------------
(* After the closure: the row, then the partial destination.                 *)

\* What the text says about the person's files: SourceNotTrashed,
\* REMOVED_PARTIAL_COPY, NOTHING_MOVED or nothing.
Claimed ==
    CASE outcome = "not_trashed" -> "both_there"
      [] outcome \in {"error", "cancelled"} /\ owned /\ job.kind = "copy" -> "removed_partial"
      [] outcome = "error" /\ owned /\ job.kind = "move" -> "nothing_moved"
      [] OTHER -> "silent"

Settle ==
    /\ pc = "settle"
    /\ \/ /\ row' = IF outcome = "not_trashed" THEN "error" ELSE outcome
          /\ msg' = Claimed
       \/ DbMayFail /\ UNCHANGED <<row, msg>>
    /\ pc' = "rollback"
    /\ UNCHANGED <<world, disk, local, share>>

\* What is at the path of the copy is removed, all of it or what can be.
Rollback ==
    /\ pc = "rollback"
    /\ \/ /\ outcome = "done" \/ ~owned
          /\ UNCHANGED <<dst, present, dstBy, temp, mishap>>
       \/ /\ outcome # "done" /\ owned
          /\ dst' = Empty
          /\ present' = present \ {"dst"}
          /\ dstBy' = "nobody"
          \* the temp file of a folder's child lies inside the folder
          /\ temp' = IF job.isDir THEN None ELSE temp
          /\ UNCHANGED mishap
       \/ /\ outcome # "done" /\ owned
          /\ IoMayFail /\ "dst" \in present
          /\ \E gone \in IF job.isDir THEN SUBSET Names ELSE {{}} :
                dst' = [n \in Names |-> IF n \in gone THEN None ELSE dst[n]]
          /\ mishap' = mishap \cup {"stuck"}
          /\ UNCHANGED <<present, dstBy, temp>>
    /\ pc' = "end"
    /\ UNCHANGED <<job, granted, flag, src, trash, share, row, msg, outcome, listed, todo, cur, owned>>

-----------------------------------------------------------------------------
(* Everybody else                                                            *)

\* Running: run_job has not returned.  While it holds the database lock and
\* the drive lock ("retarget", "trash") nobody else changes source or grants.
Running == pc \notin {"end", "dead"}
Unlocked == pc \notin {"retarget", "trash"}

\* Another person adds or replaces a file in the source folder, once per name.
EditSource(n) ==
    /\ OthersEditSource
    /\ Running /\ Unlocked
    /\ job.isDir
    /\ "src" \in present
    /\ src[n] # "edited"
    /\ src' = [src EXCEPT ![n] = "edited"]
    /\ UNCHANGED <<world, dst, trash, present, dstBy, local, share, row, msg, pc>>

\* ... or takes one away.
DeleteSource(n) ==
    /\ OthersEditSource
    /\ Running /\ Unlocked
    /\ job.isDir
    /\ src[n] = "orig"
    /\ src' = [src EXCEPT ![n] = None]
    /\ UNCHANGED <<world, dst, trash, present, dstBy, local, share, row, msg, pc>>

\* Another person saves something under the destination name first.
OthersClaim ==
    /\ OthersClaimDest
    /\ Running
    /\ "dst" \notin present
    /\ dst' = [Empty EXCEPT ![Leaf] = "theirs"]
    /\ present' = present \cup {"dst"}
    /\ dstBy' = "other"
    /\ UNCHANGED <<world, src, trash, local, share, row, msg, pc>>

\* ... or saves a file into the folder while the job fills it.
OthersSave(n) ==
    /\ OthersWriteDest
    /\ Running
    /\ job.isDir
    /\ "dst" \in present
    /\ dst[n] = None
    /\ dst' = [dst EXCEPT ![n] = "theirs"]
    /\ UNCHANGED <<world, src, trash, present, dstBy, local, share, row, msg, pc>>

\* ... or deletes or renames what the job has made; the name is free again.
OthersTake ==
    /\ OthersTakeDest
    /\ Running
    /\ dstBy = "job"
    /\ dst' = Empty
    /\ present' = present \ {"dst"}
    /\ dstBy' = "nobody"
    /\ temp' = IF job.isDir THEN None ELSE temp
    /\ mishap' = mishap \cup {"taken"}
    /\ UNCHANGED <<job, granted, flag, src, trash, share, row, msg, pc, outcome, listed, todo, cur, owned>>

Cancel ==
    /\ Running
    /\ ~flag
    /\ flag' = TRUE
    /\ UNCHANGED <<job, granted, mishap, disk, local, share, row, msg, pc>>

Revoke ==
    /\ MayRevoke
    /\ Running /\ Unlocked
    /\ granted
    /\ granted' = FALSE
    /\ UNCHANGED <<job, flag, mishap, disk, local, share, row, msg, pc>>

\* lunad stops; JobManager::new finds the row when it starts again.
Crash ==
    /\ MayCrash
    /\ Running
    /\ pc' = "dead"
    /\ row' = IF row = "running" THEN "interrupted" ELSE row
    /\ UNCHANGED <<world, disk, local, share, msg>>

-----------------------------------------------------------------------------
Work ==
    \/ StartCancelled \/ StartDenied \/ Start
    \/ RenameRefused \/ RenameLands \/ RenameLooks \/ RenamePlain \/ RenamePlainFails
    \/ FollowDone \/ FollowFails
    \/ RootFails \/ ClaimTaken \/ Claim \/ List \/ ListFails \/ RootFile
    \/ NodeFails \/ OpenNode \/ BytesCancelled \/ BytesFail \/ BytesDone
    \/ InstallFails \/ Install \/ InstallLinked \/ InstallLooks \/ InstallPlain
    \/ Copied \/ FormFilesFail \/ RetargetDone \/ RetargetFails \/ TrashSource \/ TrashFails
    \/ Commit \/ CommitFails \/ Settle \/ Rollback
    \/ \E s \in Shares : RepathSubject(s)

Others ==
    \/ \E n \in Names : EditSource(n) \/ DeleteSource(n) \/ OthersSave(n)
    \/ OthersClaim \/ OthersTake \/ Cancel \/ Revoke

Next == Work \/ Others \/ Crash

Spec == Init /\ [][Next]_vars

-----------------------------------------------------------------------------
(* Properties                                                                *)

PlaceFiles == [Names -> Content \cup {None}]

\* Every variable keeps its type; the state column only ever holds a state the
\* API and the web client know.
TypeOK ==
    /\ job \in JobType
    /\ src \in PlaceFiles /\ dst \in PlaceFiles /\ trash \in PlaceFiles
    /\ present \subseteq {"src", "dst", "trash"}
    /\ dstBy \in {"nobody", "job", "other"}
    /\ share \in [Shares -> {"src", "dst", "dropped"}]
    /\ granted \in BOOLEAN /\ flag \in BOOLEAN /\ owned \in BOOLEAN
    /\ row \in {"running", "done", "error", "cancelled", "interrupted"}
    /\ msg \in {"silent", "removed_partial", "nothing_moved", "both_there"}
    /\ outcome \in {"none", "done", "error", "cancelled", "not_trashed"}
    /\ listed \subseteq Names /\ todo \subseteq listed /\ cur \in Names
    /\ temp \in Content \cup {None}
    /\ mishap \subseteq {"stuck", "taken"}
    /\ pc \in {"start", "rename", "renaming", "follow", "copy", "list", "node", "bytes", "install",
               "installing", "copied", "retarget", "trash", "commit", "settle", "rollback", "end", "dead"}

\* The files of a folder that copy_node does not see.
PassedOver(n) == job.isDir /\ n \in Skipped

\* "The source is removed only after every byte is verified at the
\* destination": a step that takes the source away, other than the rename,
\* finds each of its files, but those copy_node passes over, at the destination
\* with the same content.
SourceKeptUntilCopied ==
    [][ ("src" \in present /\ "src" \notin present' /\ pc \notin {"rename", "renaming"})
          => \A n \in Names : src[n] # None /\ ~PassedOver(n) => dst[n] = src[n] ]_vars

\* A file of the item is never lost: whatever fails, is cancelled or crashes,
\* every file that was there at the start is at the source, at the destination
\* or in the trash.  The exception: what copy_node passes over is purged with
\* the rest when an item is moved out of the trash to another file system.
NothingLost ==
    \A n \in Names :
        (job.isDir \/ n = Leaf) /\ ~(PassedOver(n) /\ job.fromTrash)
            => "orig" \in {src[n], dst[n], trash[n]}

\* A name somebody else claimed at the destination before the job had it is
\* theirs: neither the copy nor its clean-up touches what they saved there
\* (CopyState.owned_dest).  The exception: the rename(2) that follows a look,
\* on a file system that can do no better.
TheirTreeKept ==
    [][ dstBy = "other" /\ "taken" \notin mishap /\ pc \notin {"renaming", "installing"} =>
          /\ dstBy' = "other"
          /\ \A n \in Names : dst[n] = "theirs" => dst'[n] = "theirs" ]_vars

\* The same without exceptions, which the code does not keep: a look is not a
\* claim, and the clean-up removes by path what others put where the copy was.
TheirsNeverTouched ==
    [][ dstBy = "other" => dstBy' = "other" /\ \A n \in Names : dst[n] = "theirs" => dst'[n] = "theirs" ]_vars

\* Nor does it keep this: no file of the item is lost, whatever its name.
NoNameLost == \A n \in Names : job.isDir \/ n = Leaf => "orig" \in {src[n], dst[n], trash[n]}

\* A finished job did all of it: the files listed are at the destination, if
\* nobody has taken them away since; a copy left the source and its shares
\* alone; a move left nothing at the source and took every share along.
DoneMeansMoved ==
    row = "done" =>
        /\ "taken" \in mishap \/ ("dst" \in present /\ \A n \in listed : dst[n] # None)
        /\ job.kind = "copy" => "src" \in present /\ \A s \in Shares : share[s] = "src"
        /\ job.kind = "move" => "src" \notin present /\ \A s \in Shares : share[s] = "dst"

\* A cancelled job leaves nothing of its own behind, temp file included, unless
\* a removal failed, which run_job ignores.
CancelLeavesNothing ==
    pc = "end" /\ row = "cancelled" /\ "stuck" \notin mishap => temp = None /\ dstBy # "job"

\* Once run_job has returned, every share points at a place where the item is:
\* none is lost on the way and none is left pointing at nothing.
SharesTruthful == pc = "end" => \A s \in Shares : share[s] \in present

\* NOTHING_MOVED: "Nothing was moved. Your files are still where they were."
NothingMovedTruthful == pc = "end" /\ msg = "nothing_moved" => "src" \in present
=============================================================================
