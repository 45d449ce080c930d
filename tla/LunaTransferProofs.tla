------------------------- MODULE LunaTransferProofs -------------------------
(***************************************************************************)
(* Proofs about LunaTransfer, for every number of files in the folder and   *)
(* every set of grant rows on the item.  The first invariants hold whatever  *)
(* fails and whatever other people do; the theorems that need a condition    *)
(* on the world state it.                                                    *)
(***************************************************************************)
EXTENDS LunaTransfer, TLAPS

Early == {"start", "rename", "renaming", "copy", "list"}
Copying == {"node", "bytes", "install", "installing"}
Filling == {"bytes", "install", "installing"}
Removing == {"copied", "retarget", "trash", "commit"}
Closing == {"settle", "rollback"}
Over == {"end", "dead"}

\* The files the item had when the job was accepted.
InItem(n) == job.isDir \/ n = Leaf

\* The shape of the locals at each point: run_job has no verdict before its
\* closure returns, a node is left while nodes are visited, and a temp file is
\* there only while one is copied, after an error or when it cannot be removed.
Shape ==
    /\ pc \notin Closing \cup Over => outcome = "none" /\ row = "running"
    /\ pc \in Closing => outcome # "none"
    /\ pc \in {"rename", "renaming", "follow", "retarget", "trash"} => job.kind = "move"
    /\ pc = "list" => job.isDir
    /\ pc \in Early \cup {"follow"} => listed = {} /\ todo = {}
    /\ pc \in {"start", "rename", "renaming", "copy", "follow"} => ~owned
    /\ pc = "node" => todo # {}
    /\ pc \in Removing => todo = {}
    /\ pc \in Filling => cur \in todo /\ (temp # None \/ "taken" \in mishap)
    /\ pc \notin Filling \cup Closing \cup Over => temp = None
    /\ pc \in Closing /\ outcome # "error" => temp = None \/ "stuck" \in mishap
    /\ ~job.isDir => listed \subseteq {Leaf}

TypeInv == TypeOK /\ Shape

\* A file is a place with the one name Leaf; nothing at all is a place too.
LEMMA PlaceFacts == Leaf \in Names /\ Empty \in PlaceFiles
BY ConstantsAssumption DEF Leaf, Names, Empty, PlaceFiles

\* No step changes what was asked.
LEMMA JobKept == [Next]_vars => job' = job
BY DEF Next, Work, Others, vars, world, disk, local, StartCancelled, StartDenied, EndAtStart, Start, RenameRefused,
    RenameLands, RenameLooks, RenamePlain, RenamePlainFails, Renamed, InstallLinked, InstallLooks, InstallPlain,
    InstallLands, Installed, OthersTake, FollowDone, FollowFails, RootFails, ClaimTaken, Claim, List, ListFails,
    RootFile, NodeFails,
    OpenNode, BytesCancelled, BytesFail, BytesDone, InstallFails, Install, Copied, FormFilesFail, RetargetDone,
    RetargetFails, TrashSource, TrashFails, Commit, CommitFails, Settle, Rollback, RepathSubject, EditSource,
    DeleteSource, OthersSave, OthersClaim, Cancel, Revoke, Crash

\* The initial state is well typed.
LEMMA InitTypeInv == Init => TypeInv
<1> SUFFICES ASSUME Init PROVE TypeInv
    OBVIOUS
<1>1. src \in PlaceFiles /\ dst \in PlaceFiles /\ trash \in PlaceFiles
    BY DEF Init, PlaceFiles, Empty, Content
<1>2. job \in JobType
    BY DEF Init
<1>3. TypeOK
    BY <1>1, <1>2, PlaceFacts DEF Init, TypeOK
<1>4. Shape
    BY DEF Init, Shape, Early, Copying, Filling, Removing, Closing, Over
<1> QED BY <1>3, <1>4 DEF TypeInv

\* Every step of the job, of the other people and of lunad keeps the types.
LEMMA NextTypeOK == TypeInv /\ [Next]_vars => TypeOK'
<1> SUFFICES ASSUME TypeOK, Shape, [Next]_vars PROVE TypeOK'
    BY DEF TypeInv
<1> USE DEF TypeOK, world, disk, local
<1>1. CASE StartCancelled
    BY <1>1 DEF StartCancelled, EndAtStart, SetJobState
<1>2. CASE StartDenied
    BY <1>2 DEF StartDenied, EndAtStart, SetJobState
<1>3. CASE Start
    BY <1>3 DEF Start
<1>4. CASE RenameRefused
    BY <1>4 DEF RenameRefused, EndAtStart, SetJobState
<1>5. CASE RenameLands
    BY <1>5, PlaceFacts DEF RenameLands, Renamed
<1>6. CASE FollowDone
    BY <1>6 DEF FollowDone, SetJobState
<1>7. CASE FollowFails
    <2>1. src' \in PlaceFiles /\ dst' \in PlaceFiles
          /\ present' \subseteq {"src", "dst", "trash"} /\ dstBy' \in {"nobody", "job", "other"}
          /\ trash' = trash /\ row' \in {"running", "done", "error", "cancelled", "interrupted"}
        BY <1>7, PlaceFacts DEF FollowFails, SetJobState
    <2> QED BY <1>7, <2>1 DEF FollowFails
<1>8. CASE RootFails
    BY <1>8 DEF RootFails, HeadFails, Fail
<1>9. CASE ClaimTaken
    BY <1>9 DEF ClaimTaken, Fail
<1>10. CASE Claim
    BY <1>10 DEF Claim
<1>11. CASE List
    BY <1>11 DEF List
<1>12. CASE ListFails
    BY <1>12 DEF ListFails, Fail
<1>13. CASE RootFile
    BY <1>13, PlaceFacts DEF RootFile, HeadPasses, PlaceFiles
<1>14. CASE NodeFails
    BY <1>14 DEF NodeFails, HeadFails, Fail
<1>15. CASE OpenNode
    BY <1>15 DEF OpenNode, NextName, HeadPasses, PlaceFiles
<1>16. CASE BytesCancelled
    BY <1>16 DEF BytesCancelled, Fail
<1>17. CASE BytesFail
    BY <1>17 DEF BytesFail, Fail
<1>18. CASE BytesDone
    BY <1>18 DEF BytesDone
<1>19. CASE InstallFails
    BY <1>19 DEF InstallFails, Fail
<1>20. CASE Install
    BY <1>20 DEF Install, Installed, InstallLands, PlaceFiles
<1>21. CASE Copied
    BY <1>21 DEF Copied
<1>22. CASE FormFilesFail
    BY <1>22 DEF FormFilesFail, Fail
<1>23. CASE RetargetDone
    BY <1>23 DEF RetargetDone
<1>24. CASE RetargetFails
    BY <1>24 DEF RetargetFails, Fail
<1>25. CASE TrashSource
    BY <1>25, PlaceFacts DEF TrashSource, Removed
<1>26. CASE TrashFails
    <2>1. src' \in PlaceFiles /\ trash' \in PlaceFiles /\ dst' = dst
          /\ present' \subseteq {"src", "dst", "trash"} /\ dstBy' = dstBy
        BY <1>26, PlaceFacts DEF TrashFails, Removed, PlaceFiles
    <2>2. owned' \in BOOLEAN /\ outcome' = "not_trashed" /\ pc' = "settle"
          /\ UNCHANGED <<world, share, row, msg, listed, todo, cur, temp>>
        BY <1>26 DEF TrashFails, Fail
    <2> QED BY <2>1, <2>2
<1>27. CASE Commit
    BY <1>27 DEF Commit, Fail
<1>28. CASE CommitFails
    BY <1>28 DEF CommitFails, Fail
<1>29. CASE Settle
    <2>1. /\ row' \in {"running", "done", "error", "cancelled", "interrupted"}
          /\ msg' \in {"silent", "removed_partial", "nothing_moved", "both_there"}
        BY <1>29 DEF Settle, Claimed, Shape, Closing
    <2> QED BY <1>29, <2>1 DEF Settle
<1>30. CASE Rollback
    <2>1. dst' \in PlaceFiles /\ present' \subseteq {"src", "dst", "trash"} /\ dstBy' \in {"nobody", "job", "other"}
          /\ temp' \in Content \cup {None} /\ mishap' \subseteq {"stuck", "taken"}
        BY <1>30, PlaceFacts DEF Rollback, PlaceFiles
    <2> QED BY <1>30, <2>1 DEF Rollback
<1>31. CASE \E s \in Shares : RepathSubject(s)
    BY <1>31 DEF RepathSubject
<1>32. CASE \E n \in Names : EditSource(n)
    <2>1. src' \in PlaceFiles
        BY <1>32 DEF EditSource, PlaceFiles, Content
    <2> QED BY <1>32, <2>1 DEF EditSource
<1>33. CASE \E n \in Names : DeleteSource(n)
    <2>1. src' \in PlaceFiles
        BY <1>33 DEF DeleteSource, PlaceFiles
    <2> QED BY <1>33, <2>1 DEF DeleteSource
<1>34. CASE \E n \in Names : OthersSave(n)
    BY <1>34 DEF OthersSave, PlaceFiles, Content
<1>35. CASE OthersClaim
    BY <1>35, PlaceFacts DEF OthersClaim, PlaceFiles, Content
<1>36. CASE Cancel
    BY <1>36 DEF Cancel
<1>37. CASE Revoke
    <2>1. granted' \in BOOLEAN /\ UNCHANGED <<job, flag, mishap, disk, local, share, row, msg, pc>>
        BY <1>37 DEF Revoke
    <2> QED BY <2>1
<1>38. CASE Crash
    BY <1>38 DEF Crash, Running
<1>39. CASE UNCHANGED vars
    BY <1>39 DEF vars
<1>40. CASE RenameLooks
    BY <1>40 DEF RenameLooks
<1>41. CASE RenamePlain
    BY <1>41, PlaceFacts DEF RenamePlain, Renamed
<1>42. CASE RenamePlainFails
    BY <1>42 DEF RenamePlainFails, EndAtStart, SetJobState
<1>43. CASE InstallLinked
    BY <1>43 DEF InstallLinked, InstallLands, TargetTaken, Fail, PlaceFiles
<1>44. CASE InstallLooks
    BY <1>44 DEF InstallLooks
<1>45. CASE InstallPlain
    BY <1>45 DEF InstallPlain, Installed, InstallLands, PlaceFiles
<1>46. CASE OthersTake
    BY <1>46, PlaceFacts DEF OthersTake, Running
<1> QED BY <1>1, <1>2, <1>3, <1>4, <1>5, <1>6, <1>7, <1>8, <1>9, <1>10, <1>11, <1>12, <1>13, <1>14, <1>15,
         <1>16, <1>17, <1>18, <1>19, <1>20, <1>21, <1>22, <1>23, <1>24, <1>25, <1>26, <1>27, <1>28, <1>29,
         <1>30, <1>31, <1>32, <1>33, <1>34, <1>35, <1>36, <1>37, <1>38, <1>39,
         <1>40, <1>41, <1>42, <1>43, <1>44, <1>45, <1>46
    DEF Next, Work, Others

\* ... and the shape of the locals.
LEMMA NextShape == TypeInv /\ [Next]_vars => Shape'
<1> SUFFICES ASSUME TypeOK, Shape, job' = job, [Next]_vars PROVE Shape'
    BY JobKept DEF TypeInv
<1> USE DEF Shape, Early, Copying, Filling, Removing, Closing, Over, world, disk, local
<1>1. CASE StartCancelled \/ StartDenied
    BY <1>1 DEF StartCancelled, StartDenied, EndAtStart, SetJobState
<1>2. CASE Start
    BY <1>2 DEF Start
<1>3. CASE RenameRefused \/ FollowDone
    BY <1>3 DEF RenameRefused, FollowDone, EndAtStart, SetJobState
<1>4. CASE RenameLands
    BY <1>4 DEF RenameLands, Renamed
<1>5. CASE FollowFails
    BY <1>5 DEF FollowFails, SetJobState
<1>6. CASE RootFails
    BY <1>6 DEF RootFails, HeadFails, Fail
<1>7. CASE ClaimTaken \/ ListFails \/ InstallFails
    BY <1>7 DEF ClaimTaken, ListFails, InstallFails, Fail
<1>8. CASE Claim
    BY <1>8 DEF Claim
<1>9. CASE List
    BY <1>9 DEF List
<1>10. CASE RootFile
    BY <1>10 DEF RootFile, HeadPasses
<1>11. CASE NodeFails
    BY <1>11 DEF NodeFails, HeadFails, Fail
<1>12. CASE OpenNode
    BY <1>12 DEF OpenNode, NextName, HeadPasses
<1>13. CASE BytesCancelled
    BY <1>13 DEF BytesCancelled, Fail
<1>14. CASE BytesFail \/ BytesDone
    BY <1>14 DEF BytesFail, BytesDone, Fail
<1>15. CASE Install
    BY <1>15 DEF Install, Installed, InstallLands
<1>16. CASE Copied \/ RetargetDone
    BY <1>16 DEF Copied, RetargetDone
<1>17. CASE FormFilesFail \/ RetargetFails
    BY <1>17 DEF FormFilesFail, RetargetFails, Fail
<1>18. CASE TrashSource
    BY <1>18 DEF TrashSource, Removed
<1>19. CASE TrashFails
    BY <1>19 DEF TrashFails, Removed, Fail
<1>20. CASE Commit \/ CommitFails
    BY <1>20 DEF Commit, CommitFails, Fail
<1>21. CASE Settle
    BY <1>21 DEF Settle, Claimed
<1>22. CASE Rollback
    BY <1>22 DEF Rollback
<1>23. CASE \E s \in Shares : RepathSubject(s)
    BY <1>23 DEF RepathSubject
<1>24. CASE \E n \in Names : EditSource(n) \/ DeleteSource(n)
    BY <1>24 DEF EditSource, DeleteSource
<1>25. CASE \E n \in Names : OthersSave(n)
    BY <1>25 DEF OthersSave
<1>26. CASE OthersClaim
    BY <1>26 DEF OthersClaim
<1>27. CASE Cancel \/ Revoke
    BY <1>27 DEF Cancel, Revoke
<1>28. CASE Crash
    BY <1>28 DEF Crash, Running
<1>29. CASE UNCHANGED vars
    BY <1>29 DEF vars
<1>30. CASE RenameLooks
    BY <1>30 DEF RenameLooks
<1>31. CASE RenamePlain
    BY <1>31 DEF RenamePlain, Renamed
<1>32. CASE RenamePlainFails
    BY <1>32 DEF RenamePlainFails, EndAtStart, SetJobState
<1>33. CASE InstallLinked
    BY <1>33 DEF InstallLinked, InstallLands, TargetTaken, Fail, TypeOK, PlaceFiles
<1>34. CASE InstallLooks
    BY <1>34 DEF InstallLooks
<1>35. CASE InstallPlain
    BY <1>35 DEF InstallPlain, Installed, InstallLands, TypeOK, PlaceFiles
<1>36. CASE OthersTake
    BY <1>36 DEF OthersTake, Running
<1> QED BY <1>1, <1>2, <1>3, <1>4, <1>5, <1>6, <1>7, <1>8, <1>9, <1>10, <1>11, <1>12, <1>13, <1>14, <1>15,
             <1>16, <1>17, <1>18, <1>19, <1>20, <1>21, <1>22, <1>23, <1>24, <1>25, <1>26, <1>27, <1>28, <1>29,
         <1>30, <1>31, <1>32, <1>33, <1>34, <1>35, <1>36
    DEF Next, Work, Others

\* The type invariant holds, for every number of files and every set of shares.
THEOREM TypeCorrect == Spec => []TypeOK
<1>1. TypeInv /\ [Next]_vars => TypeInv'
    BY NextTypeOK, NextShape DEF TypeInv
<1>2. TypeInv => TypeOK
    BY DEF TypeInv
<1> QED BY <1>1, <1>2, InitTypeInv, PTL DEF Spec

-----------------------------------------------------------------------------
\* Whose the destination is: there is an owner exactly when something is there,
\* and CopyState.owned_dest is only up while it is the job's or was taken away.
DestInv ==
    /\ "dst" \notin present => dst = Empty
    /\ dstBy = "nobody" <=> "dst" \notin present
    /\ "taken" \in mishap => OthersTakeDest
    /\ owned /\ pc \notin Over => dstBy = "job" \/ "taken" \in mishap
    /\ pc = "follow" => dstBy = "job" \/ "taken" \in mishap
    /\ job.isDir /\ pc \in {"list"} \cup Copying => owned
    /\ job.isDir /\ pc \in Filling /\ temp # None => "dst" \in present
    /\ pc \in Removing => owned
    /\ pc \in Closing /\ outcome = "not_trashed" => ~owned
    /\ dstBy = "job" /\ pc \notin {"follow"} \cup Over => owned \/ outcome \in {"not_trashed", "error"}

\* Nobody owns a destination that is not there.
LEMMA InitDestInv == Init => DestInv
BY DEF Init, DestInv, Early, Copying, Filling, Removing, Closing, Over

\* Each step keeps the owner and the flag in accord.
LEMMA NextDestInv == TypeInv /\ DestInv /\ [Next]_vars => DestInv'
<1> SUFFICES ASSUME TypeOK, Shape, DestInv, job' = job, [Next]_vars PROVE DestInv'
    BY JobKept DEF TypeInv
<1> USE DEF Shape, DestInv, Early, Copying, Filling, Removing, Closing, Over, world, disk, local
<1>1. CASE StartCancelled \/ StartDenied \/ Start \/ RenameRefused
    BY <1>1 DEF StartCancelled, EndAtStart, SetJobState, StartDenied, Start, RenameRefused
<1>2. CASE RenameLands
    BY <1>2 DEF RenameLands, Renamed
<1>3. CASE FollowDone
    BY <1>3 DEF FollowDone, SetJobState
<1>4. CASE FollowFails
    BY <1>4 DEF FollowFails, SetJobState
<1>5. CASE RootFails \/ NodeFails
    BY <1>5 DEF RootFails, HeadFails, Fail, NodeFails
<1>6. CASE ClaimTaken \/ ListFails \/ InstallFails
    BY <1>6 DEF ClaimTaken, Fail, ListFails, InstallFails
<1>7. CASE Claim
    BY <1>7 DEF Claim, HeadPasses
<1>8. CASE List
    BY <1>8 DEF List
<1>9. CASE RootFile
    BY <1>9 DEF RootFile, HeadPasses
<1>10. CASE OpenNode
    BY <1>10 DEF OpenNode, NextName, HeadPasses
<1>11. CASE BytesCancelled \/ BytesFail \/ BytesDone
    BY <1>11 DEF BytesCancelled, Fail, BytesFail, BytesDone
<1>12. CASE Install
    BY <1>12 DEF Install, Installed, InstallLands, TargetTaken, TypeOK
<1>13. CASE Copied \/ RetargetDone
    BY <1>13 DEF Copied, RetargetDone
<1>14. CASE FormFilesFail \/ RetargetFails
    BY <1>14 DEF FormFilesFail, Fail, RetargetFails
<1>15. CASE TrashSource
    BY <1>15 DEF TrashSource, Removed
<1>16. CASE TrashFails
    BY <1>16 DEF TrashFails, Removed, Fail
<1>17. CASE Commit \/ CommitFails
    BY <1>17 DEF Commit, Fail, CommitFails
<1>18. CASE Settle
    BY <1>18 DEF Settle
<1>19. CASE Rollback
    BY <1>19 DEF Rollback
<1>20. CASE (\E s \in Shares : RepathSubject(s)) \/ (\E n \in Names : EditSource(n))
             \/ (\E n \in Names : DeleteSource(n))
    BY <1>20 DEF RepathSubject, EditSource, DeleteSource
<1>21. CASE \E n \in Names : OthersSave(n)
    BY <1>21 DEF OthersSave
<1>22. CASE OthersClaim
    BY <1>22 DEF OthersClaim
<1>23. CASE Cancel \/ Revoke
    BY <1>23 DEF Cancel, Revoke
<1>24. CASE Crash
    BY <1>24 DEF Crash, Running
<1>25. CASE UNCHANGED vars
    BY <1>25 DEF vars
<1>26. CASE RenameLooks
    BY <1>26 DEF RenameLooks
<1>27. CASE RenamePlain
    BY <1>27 DEF RenamePlain, Renamed
<1>28. CASE RenamePlainFails
    BY <1>28 DEF RenamePlainFails, EndAtStart, SetJobState
<1>29. CASE InstallLinked
    BY <1>29 DEF InstallLinked, InstallLands, TargetTaken, Fail, TypeOK, PlaceFiles
<1>30. CASE InstallLooks
    BY <1>30 DEF InstallLooks
<1>31. CASE InstallPlain
    BY <1>31 DEF InstallPlain, Installed, InstallLands, TypeOK, PlaceFiles
<1>32. CASE OthersTake
    BY <1>32 DEF OthersTake, Running
<1> QED BY <1>1, <1>2, <1>3, <1>4, <1>5, <1>6, <1>7, <1>8, <1>9, <1>10, <1>11, <1>12, <1>13, <1>14, <1>15,
         <1>16, <1>17, <1>18, <1>19, <1>20, <1>21, <1>22, <1>23, <1>24, <1>25,
         <1>26, <1>27, <1>28, <1>29, <1>30, <1>31, <1>32
    DEF Next, Work, Others

\* The types, the locals and the owner of the destination, together.
BaseInv == TypeInv /\ DestInv

LEMMA BaseInvHolds == Spec => []BaseInv
<1>1. Init => BaseInv
    BY InitTypeInv, InitDestInv DEF BaseInv
<1>2. BaseInv /\ [Next]_vars => BaseInv'
    BY NextTypeOK, NextShape, NextDestInv DEF BaseInv, TypeInv
<1> QED BY <1>1, <1>2, PTL DEF Spec

\* What somebody else saved under the destination name before the job had it
\* stays theirs, whatever the job does next: it writes where nothing is, and
\* takes away what it made (install_temp without overwrite, create_dir,
\* owned_dest).  Two cases are not covered: the rename(2) after a look, and a
\* copy of the job's that others took away and replaced by their own.
THEOREM OthersKeepTheirTree == Spec => TheirTreeKept
<1> DEFINE Kept == dstBy = "other" /\ "taken" \notin mishap /\ pc \notin {"renaming", "installing"} =>
                     /\ dstBy' = "other"
                     /\ \A n \in Names : dst[n] = "theirs" => dst'[n] = "theirs"
<1>1. ASSUME TypeOK, Shape, DestInv, [Next]_vars PROVE Kept
    <2> USE DEF Shape, DestInv, Early, Copying, Filling, Removing, Closing, Over, world, disk, local
    <2>1. CASE RenameLands \/ FollowFails
        BY <1>1, <2>1 DEF RenameLands, Renamed, FollowFails
    <2>2. CASE Claim \/ Rollback
        BY <1>1, <2>2 DEF Claim, Rollback
    <2>3. CASE Install \/ InstallLinked
        BY <1>1, <2>3 DEF Install, InstallLinked, Installed, InstallLands, TargetTaken, TypeOK, PlaceFiles
    <2>4. CASE \E n \in Names : OthersSave(n)
        BY <1>1, <2>4 DEF OthersSave, TypeOK, PlaceFiles, None
    <2>5. CASE OthersClaim \/ OthersTake \/ RenamePlain \/ InstallPlain
        BY <1>1, <2>5 DEF OthersClaim, OthersTake, RenamePlain, InstallPlain
    <2>6. (dst' = dst /\ dstBy' = dstBy) \/ RenameLands \/ FollowFails \/ Claim \/ Rollback \/ Install
             \/ InstallLinked \/ (\E n \in Names : OthersSave(n)) \/ OthersClaim \/ OthersTake
             \/ RenamePlain \/ InstallPlain
        BY <1>1 DEF RenameLooks, RenamePlainFails, InstallLooks, Next, Work, Others, vars, StartCancelled,
             StartDenied, EndAtStart, Start, RenameRefused,
            FollowDone, RootFails, ClaimTaken, List, ListFails, RootFile, NodeFails, OpenNode, BytesCancelled,
            BytesFail, BytesDone, InstallFails, Copied, FormFilesFail, RetargetDone, RetargetFails, TrashSource,
            TrashFails, Removed, Commit, CommitFails, Settle, RepathSubject, EditSource, DeleteSource, Cancel,
            Revoke, Crash
    <2> QED BY <2>1, <2>2, <2>3, <2>4, <2>5, <2>6
<1>2. BaseInv /\ [Next]_vars => [Kept]_vars
    BY <1>1 DEF BaseInv, TypeInv
<1> QED BY <1>2, BaseInvHolds, PTL DEF Spec, TheirTreeKept

-----------------------------------------------------------------------------
\* What a finished job rests on: the files visited are at the destination, a
\* copy touches neither source nor shares, and a move takes the source away
\* only when no share points at it any more.
Moved ==
    /\ "taken" \in mishap \/ ("dst" \in present /\ \A n \in listed : dst[n] # None)
    /\ job.kind = "copy" => "src" \in present /\ \A s \in Shares : share[s] = "src"
    /\ job.kind = "move" => "src" \notin present /\ \A s \in Shares : share[s] = "dst"

DoneInv ==
    /\ \A s \in Shares : share[s] # "dropped"
    /\ job.kind = "copy" => "src" \in present /\ \A s \in Shares : share[s] = "src"
    /\ pc \in {"trash", "commit"} /\ job.kind = "move" => \A s \in Shares : share[s] = "dst"
    /\ pc \in Copying \cup Removing => "taken" \in mishap \/ \A n \in listed \ todo : dst[n] # None
    /\ pc \in {"follow", "commit"} /\ job.kind = "move" => "src" \notin present
    /\ pc \in Closing /\ row = "done" => outcome = "done"
    /\ pc \in Closing /\ outcome = "done" => Moved
    /\ row = "done" => Moved

\* At the start nothing is done.
LEMMA InitDoneInv == Init => DoneInv
BY DEF Init, DoneInv, Early, Copying, Filling, Removing, Closing, Over

\* Each step keeps it: only Install shortens the list, only RepathSubject moves
\* a share, and only a rename or the trash takes the source away.
LEMMA NextDoneInv == BaseInv /\ DoneInv /\ [Next]_vars => DoneInv'
<1> SUFFICES ASSUME TypeOK, Shape, DestInv, DoneInv, job' = job, [Next]_vars PROVE DoneInv'
    BY JobKept DEF BaseInv, TypeInv
<1> USE DEF Shape, DestInv, DoneInv, Moved, Early, Copying, Filling, Removing, Closing, Over, world, disk, local
<1>1. CASE StartCancelled
    BY <1>1 DEF StartCancelled, EndAtStart, SetJobState
<1>2. CASE StartDenied
    BY <1>2 DEF StartDenied, EndAtStart, SetJobState
<1>3. CASE Start
    BY <1>3 DEF Start
<1>4. CASE RenameRefused
    BY <1>4 DEF RenameRefused, EndAtStart, SetJobState
<1>5. CASE RenameLands
    BY <1>5 DEF RenameLands, Renamed
<1>6. CASE FollowDone
    BY <1>6 DEF FollowDone, SetJobState, TypeOK
<1>7. CASE FollowFails
    BY <1>7 DEF FollowFails, SetJobState
<1>8. CASE RootFails
    BY <1>8 DEF RootFails, HeadFails, Fail
<1>9. CASE ClaimTaken
    BY <1>9 DEF ClaimTaken, Fail
<1>10. CASE Claim
    BY <1>10 DEF Claim
<1>11. CASE List
    BY <1>11 DEF List
<1>12. CASE ListFails
    BY <1>12 DEF ListFails, Fail
<1>13. CASE RootFile
    BY <1>13 DEF RootFile, HeadPasses
<1>14. CASE NodeFails
    BY <1>14 DEF NodeFails, HeadFails, Fail
<1>15. CASE OpenNode
    BY <1>15 DEF OpenNode, NextName, HeadPasses
<1>16. CASE BytesCancelled
    BY <1>16 DEF BytesCancelled, Fail
<1>17. CASE BytesFail
    BY <1>17 DEF BytesFail, Fail
<1>18. CASE BytesDone
    BY <1>18 DEF BytesDone
<1>19. CASE InstallFails
    BY <1>19 DEF InstallFails, Fail
<1>20. CASE Install
    BY <1>20 DEF Install, Installed, InstallLands, TypeOK, PlaceFiles
<1>21. CASE Copied
    BY <1>21 DEF Copied
<1>22. CASE FormFilesFail
    BY <1>22 DEF FormFilesFail, Fail
<1>23. CASE RetargetDone
    BY <1>23 DEF RetargetDone, TypeOK
<1>24. CASE RetargetFails
    BY <1>24 DEF RetargetFails, Fail
<1>25. CASE TrashSource
    BY <1>25 DEF TrashSource, Removed, TypeOK
<1>26. CASE TrashFails
    BY <1>26 DEF TrashFails, Removed, Fail, TypeOK
<1>27. CASE Commit
    BY <1>27 DEF Commit, Fail
<1>28. CASE CommitFails
    BY <1>28 DEF CommitFails, Fail
<1>29. CASE Settle
    BY <1>29 DEF Settle
<1>30. CASE Rollback
    BY <1>30 DEF Rollback
<1>31. CASE \E s \in Shares : RepathSubject(s)
    BY <1>31 DEF RepathSubject, TypeOK
<1>32. CASE \E n \in Names : EditSource(n)
    BY <1>32 DEF EditSource
<1>33. CASE \E n \in Names : DeleteSource(n)
    BY <1>33 DEF DeleteSource
<1>34. CASE \E n \in Names : OthersSave(n)
    BY <1>34 DEF OthersSave, TypeOK, PlaceFiles, None
<1>35. CASE OthersClaim
    <2>1. pc \in Copying \cup Removing /\ "taken" \notin mishap => ~job.isDir /\ pc \in Copying
        BY <1>35 DEF OthersClaim
    <2>2. pc \in Copying \cup Removing /\ "taken" \notin mishap => listed \ todo = {}
        BY <2>1 DEF TypeOK
    <2> QED BY <1>35, <2>2 DEF OthersClaim
<1>36. CASE Cancel
    BY <1>36 DEF Cancel
<1>37. CASE Revoke
    BY <1>37 DEF Revoke
<1>38. CASE Crash
    BY <1>38 DEF Crash, Running
<1>39. CASE UNCHANGED vars
    BY <1>39 DEF vars
<1>40. CASE RenameLooks
    BY <1>40 DEF RenameLooks
<1>41. CASE RenamePlain
    BY <1>41, PlaceFacts DEF RenamePlain, Renamed, Empty
<1>42. CASE RenamePlainFails
    BY <1>42 DEF RenamePlainFails, EndAtStart, SetJobState
<1>43. CASE InstallLinked
    BY <1>43 DEF InstallLinked, InstallLands, TargetTaken, Fail, TypeOK, PlaceFiles
<1>44. CASE InstallLooks
    BY <1>44 DEF InstallLooks
<1>45. CASE InstallPlain
    BY <1>45 DEF InstallPlain, Installed, InstallLands, TypeOK, PlaceFiles
<1>46. CASE OthersTake
    BY <1>46, PlaceFacts DEF OthersTake, Running, Empty
<1> QED BY <1>1, <1>2, <1>3, <1>4, <1>5, <1>6, <1>7, <1>8, <1>9, <1>10, <1>11, <1>12, <1>13, <1>14, <1>15,
         <1>16, <1>17, <1>18, <1>19, <1>20, <1>21, <1>22, <1>23, <1>24, <1>25, <1>26, <1>27, <1>28, <1>29,
         <1>30, <1>31, <1>32, <1>33, <1>34, <1>35, <1>36, <1>37, <1>38, <1>39,
         <1>40, <1>41, <1>42, <1>43, <1>44, <1>45, <1>46
    DEF Next, Work, Others

\* A row that says "done" tells the truth: every file listed is at the
\* destination, if nobody took it away since, a copy left source and shares
\* alone, and a move took the source and every share along, whatever failed and
\* whoever interfered.
THEOREM DoneIsMoved == Spec => []DoneMeansMoved
<1>1. DoneInv => DoneMeansMoved
    BY DEF DoneInv, DoneMeansMoved, Moved
<1> QED BY <1>1, BaseInvHolds, InitDoneInv, NextDoneInv, PTL DEF Spec

\* A row says "cancelled" before run_job has returned only while the partial
\* copy waits to be taken away.
CancelInv ==
    /\ row = "cancelled" /\ pc \notin Over => pc = "rollback" /\ outcome = "cancelled"
    /\ CancelLeavesNothing

\* At the start no row says "cancelled".
LEMMA InitCancelInv == Init => CancelInv
BY DEF Init, CancelInv, CancelLeavesNothing, Over

\* Each step keeps it.
LEMMA NextCancelInv == BaseInv /\ CancelInv /\ [Next]_vars => CancelInv'
<1> SUFFICES ASSUME TypeOK, Shape, DestInv, CancelInv, job' = job, [Next]_vars PROVE CancelInv'
    BY JobKept DEF BaseInv, TypeInv
<1> USE DEF Shape, DestInv, CancelInv, CancelLeavesNothing, Early, Copying, Filling, Removing, Closing, Over, world,
         disk,
        local
<1>1. CASE StartCancelled
    BY <1>1 DEF StartCancelled, EndAtStart, SetJobState
<1>2. CASE StartDenied
    BY <1>2 DEF StartDenied, EndAtStart, SetJobState
<1>3. CASE Start
    BY <1>3 DEF Start
<1>4. CASE RenameRefused
    BY <1>4 DEF RenameRefused, EndAtStart, SetJobState
<1>5. CASE RenameLands
    BY <1>5 DEF RenameLands, Renamed
<1>6. CASE FollowDone
    BY <1>6 DEF FollowDone, SetJobState
<1>7. CASE FollowFails
    BY <1>7 DEF FollowFails, SetJobState
<1>8. CASE RootFails
    BY <1>8 DEF RootFails, HeadFails, Fail
<1>9. CASE ClaimTaken
    BY <1>9 DEF ClaimTaken, Fail
<1>10. CASE Claim
    BY <1>10 DEF Claim
<1>11. CASE List
    BY <1>11 DEF List
<1>12. CASE ListFails
    BY <1>12 DEF ListFails, Fail
<1>13. CASE RootFile
    BY <1>13 DEF RootFile, HeadPasses
<1>14. CASE NodeFails
    BY <1>14 DEF NodeFails, HeadFails, Fail
<1>15. CASE OpenNode
    BY <1>15 DEF OpenNode, NextName, HeadPasses
<1>16. CASE BytesCancelled
    BY <1>16 DEF BytesCancelled, Fail
<1>17. CASE BytesFail
    BY <1>17 DEF BytesFail, Fail
<1>18. CASE BytesDone
    BY <1>18 DEF BytesDone
<1>19. CASE InstallFails
    BY <1>19 DEF InstallFails, Fail
<1>20. CASE Install
    BY <1>20 DEF Install, Installed, InstallLands
<1>21. CASE Copied
    BY <1>21 DEF Copied
<1>22. CASE FormFilesFail
    BY <1>22 DEF FormFilesFail, Fail
<1>23. CASE RetargetDone
    BY <1>23 DEF RetargetDone
<1>24. CASE RetargetFails
    BY <1>24 DEF RetargetFails, Fail
<1>25. CASE TrashSource
    BY <1>25 DEF TrashSource, Removed
<1>26. CASE TrashFails
    BY <1>26 DEF TrashFails, Removed, Fail
<1>27. CASE Commit
    BY <1>27 DEF Commit, Fail
<1>28. CASE CommitFails
    BY <1>28 DEF CommitFails, Fail
<1>29. CASE Settle
    BY <1>29 DEF Settle, Claimed
<1>30. CASE Rollback
    BY <1>30 DEF Rollback
<1>31. CASE \E s \in Shares : RepathSubject(s)
    BY <1>31 DEF RepathSubject
<1>32. CASE \E n \in Names : EditSource(n)
    BY <1>32 DEF EditSource, Running
<1>33. CASE \E n \in Names : DeleteSource(n)
    BY <1>33 DEF DeleteSource, Running
<1>34. CASE \E n \in Names : OthersSave(n)
    BY <1>34 DEF OthersSave, Running
<1>35. CASE OthersClaim
    BY <1>35 DEF OthersClaim, Running
<1>36. CASE Cancel
    BY <1>36 DEF Cancel, Running
<1>37. CASE Revoke
    BY <1>37 DEF Revoke, Running
<1>38. CASE Crash
    BY <1>38 DEF Crash, Running
<1>39. CASE UNCHANGED vars
    BY <1>39 DEF vars
<1>40. CASE RenameLooks
    BY <1>40 DEF RenameLooks
<1>41. CASE RenamePlain
    BY <1>41 DEF RenamePlain, Renamed
<1>42. CASE RenamePlainFails
    BY <1>42 DEF RenamePlainFails, EndAtStart, SetJobState
<1>43. CASE InstallLinked
    BY <1>43 DEF InstallLinked, InstallLands, TargetTaken, Fail, TypeOK, PlaceFiles
<1>44. CASE InstallLooks
    BY <1>44 DEF InstallLooks
<1>45. CASE InstallPlain
    BY <1>45 DEF InstallPlain, Installed, InstallLands, TypeOK, PlaceFiles
<1>46. CASE OthersTake
    BY <1>46 DEF OthersTake, Running
<1> QED BY <1>1, <1>2, <1>3, <1>4, <1>5, <1>6, <1>7, <1>8, <1>9, <1>10, <1>11, <1>12, <1>13, <1>14, <1>15,
         <1>16, <1>17, <1>18, <1>19, <1>20, <1>21, <1>22, <1>23, <1>24, <1>25, <1>26, <1>27, <1>28, <1>29,
         <1>30, <1>31, <1>32, <1>33, <1>34, <1>35, <1>36, <1>37, <1>38, <1>39,
         <1>40, <1>41, <1>42, <1>43, <1>44, <1>45, <1>46
    DEF Next, Work, Others

\* A cancelled job leaves neither a temp file nor a copy of its own, unless a
\* removal failed: the destination is empty or somebody else's.
THEOREM CancelledLeavesNothing == Spec => []CancelLeavesNothing
<1>1. CancelInv => CancelLeavesNothing
    BY DEF CancelInv
<1> QED BY <1>1, BaseInvHolds, InitCancelInv, NextCancelInv, PTL DEF Spec

\* Where the shares point, when the database does not fail: at the source
\* until the copy is complete, never at a place where the item is not.
ShareInv ==
    /\ pc \notin {"follow"} \cup Removing \cup Closing \cup Over => \A s \in Shares : share[s] = "src"
    /\ pc = "copied" => \A s \in Shares : share[s] = "src"
    /\ pc \in Closing /\ outcome \in {"error", "cancelled"} => \A s \in Shares : share[s] = "src"
    /\ pc \notin {"follow"} \cup Over => \A s \in Shares : share[s] \in present
    /\ pc = "follow" => \A s \in Shares : share[s] \in {"src", "dst"}
    /\ SharesTruthful

\* At the start every share points at the source.
LEMMA InitShareInv == Init => ShareInv
BY DEF Init, ShareInv, SharesTruthful, Early, Copying, Filling, Removing, Closing, Over

\* Each step keeps it, because retargeting comes first and trashing last.
LEMMA NextShareInv ==
    ASSUME ~DbMayFail, ~OthersTakeDest
    PROVE  BaseInv /\ DoneInv /\ ShareInv /\ [Next]_vars => ShareInv'
<1> SUFFICES ASSUME TypeOK, Shape, DestInv, DoneInv, ShareInv, job' = job, [Next]_vars PROVE ShareInv'
    BY JobKept DEF BaseInv, TypeInv
<1> USE ~DbMayFail, ~OthersTakeDest DEF Shape, DestInv, DoneInv, Moved, ShareInv, SharesTruthful, Early, Copying,
         Filling, Removing, Closing,
        Over, world, disk, local
<1>1. CASE StartCancelled
    BY <1>1 DEF StartCancelled, EndAtStart, SetJobState
<1>2. CASE StartDenied
    BY <1>2 DEF StartDenied, EndAtStart, SetJobState
<1>3. CASE Start
    BY <1>3 DEF Start
<1>4. CASE RenameRefused
    BY <1>4 DEF RenameRefused, EndAtStart, SetJobState
<1>5. CASE RenameLands
    BY <1>5 DEF RenameLands, Renamed, TypeOK
<1>6. CASE FollowDone
    BY <1>6 DEF FollowDone, SetJobState, TypeOK
<1>7. CASE FollowFails
    BY <1>7 DEF FollowFails, SetJobState
<1>8. CASE RootFails
    BY <1>8 DEF RootFails, HeadFails, Fail
<1>9. CASE ClaimTaken
    BY <1>9 DEF ClaimTaken, Fail
<1>10. CASE Claim
    BY <1>10 DEF Claim
<1>11. CASE List
    BY <1>11 DEF List
<1>12. CASE ListFails
    BY <1>12 DEF ListFails, Fail
<1>13. CASE RootFile
    BY <1>13 DEF RootFile, HeadPasses
<1>14. CASE NodeFails
    BY <1>14 DEF NodeFails, HeadFails, Fail
<1>15. CASE OpenNode
    BY <1>15 DEF OpenNode, NextName, HeadPasses
<1>16. CASE BytesCancelled
    BY <1>16 DEF BytesCancelled, Fail
<1>17. CASE BytesFail
    BY <1>17 DEF BytesFail, Fail
<1>18. CASE BytesDone
    BY <1>18 DEF BytesDone
<1>19. CASE InstallFails
    BY <1>19 DEF InstallFails, Fail
<1>20. CASE Install
    BY <1>20 DEF Install, Installed, InstallLands
<1>21. CASE Copied
    BY <1>21 DEF Copied
<1>22. CASE FormFilesFail
    BY <1>22 DEF FormFilesFail, Fail
<1>23. CASE RetargetDone
    BY <1>23 DEF RetargetDone, TypeOK
<1>24. CASE RetargetFails
    BY <1>24 DEF RetargetFails, Fail
<1>25. CASE TrashSource
    BY <1>25 DEF TrashSource, Removed, TypeOK
<1>26. CASE TrashFails
    BY <1>26 DEF TrashFails, Removed, Fail, TypeOK
<1>27. CASE Commit
    BY <1>27 DEF Commit, Fail
<1>28. CASE CommitFails
    BY <1>28 DEF CommitFails, Fail
<1>29. CASE Settle
    BY <1>29 DEF Settle
<1>30. CASE Rollback
    BY <1>30 DEF Rollback, TypeOK
<1>31. CASE \E s \in Shares : RepathSubject(s)
    BY <1>31 DEF RepathSubject, TypeOK
<1>32. CASE \E n \in Names : EditSource(n)
    BY <1>32 DEF EditSource, Running
<1>33. CASE \E n \in Names : DeleteSource(n)
    BY <1>33 DEF DeleteSource, Running
<1>34. CASE \E n \in Names : OthersSave(n)
    BY <1>34 DEF OthersSave, Running
<1>35. CASE OthersClaim
    BY <1>35 DEF OthersClaim, Running
<1>36. CASE Cancel
    BY <1>36 DEF Cancel, Running
<1>37. CASE Revoke
    BY <1>37 DEF Revoke, Running
<1>38. CASE Crash
    BY <1>38 DEF Crash, Running
<1>39. CASE UNCHANGED vars
    BY <1>39 DEF vars
<1>40. CASE RenameLooks
    BY <1>40 DEF RenameLooks
<1>41. CASE RenamePlain
    BY <1>41 DEF RenamePlain, Renamed
<1>42. CASE RenamePlainFails
    BY <1>42 DEF RenamePlainFails, EndAtStart, SetJobState
<1>43. CASE InstallLinked
    BY <1>43 DEF InstallLinked, InstallLands, TargetTaken, Fail, TypeOK, PlaceFiles
<1>44. CASE InstallLooks
    BY <1>44 DEF InstallLooks
<1>45. CASE InstallPlain
    BY <1>45 DEF InstallPlain, Installed, InstallLands, TypeOK, PlaceFiles
<1>46. CASE OthersTake
    BY <1>46 DEF OthersTake, Running
<1> QED BY <1>1, <1>2, <1>3, <1>4, <1>5, <1>6, <1>7, <1>8, <1>9, <1>10, <1>11, <1>12, <1>13, <1>14, <1>15,
         <1>16, <1>17, <1>18, <1>19, <1>20, <1>21, <1>22, <1>23, <1>24, <1>25, <1>26, <1>27, <1>28, <1>29,
         <1>30, <1>31, <1>32, <1>33, <1>34, <1>35, <1>36, <1>37, <1>38, <1>39,
         <1>40, <1>41, <1>42, <1>43, <1>44, <1>45, <1>46
    DEF Next, Work, Others

\* Once run_job has returned, every share points at a place where the item is,
\* as long as the database does not fail and nobody takes the copy away: the
\* file system may fail, people may interfere and cancel, and grants may be
\* revoked.
THEOREM SharesStayTruthful ==
    ASSUME ~DbMayFail, ~OthersTakeDest
    PROVE  Spec => []SharesTruthful
<1>1. BaseInv /\ DoneInv /\ ShareInv /\ [Next]_vars => ShareInv'
    BY NextShareInv
<1>2. ShareInv => SharesTruthful
    BY DEF ShareInv
<1> QED BY <1>1, <1>2, BaseInvHolds, InitDoneInv, NextDoneInv, InitShareInv, PTL DEF Spec

-----------------------------------------------------------------------------
\* What the copy holds, when nobody else writes into the source: all that was
\* listed is all there is, and each file visited has the source's content.
CopyInv ==
    /\ \A n \in Names : ~InItem(n) => src[n] = None /\ (pc = "follow" => dst[n] = None)
    /\ pc \in Copying \cup {"copied", "retarget", "trash"} => listed = {n \in Names : src[n] # None /\ ~PassedOver(n)}
    /\ pc \in Filling => temp = src[cur]
    /\ pc \in Copying \cup {"copied", "retarget", "trash"} => \A n \in listed \ todo : dst[n] = src[n]

\* At the start nothing is copied.
LEMMA InitCopyInv == Init => CopyInv
BY DEF Init, CopyInv, InItem, Leaf, Early, Copying, Filling, Removing, Closing, Over

\* Each step keeps it: the descriptor is opened on the file listed, and what
\* it reads is what is installed.
LEMMA NextCopyInv ==
    ASSUME ~OthersEditSource, ~OthersTakeDest
    PROVE  BaseInv /\ CopyInv /\ [Next]_vars => CopyInv'
<1> SUFFICES ASSUME TypeOK, Shape, DestInv, CopyInv, job' = job, [Next]_vars PROVE CopyInv'
    BY JobKept DEF BaseInv, TypeInv
<1> USE ~OthersEditSource, ~OthersTakeDest DEF Shape, DestInv, CopyInv, InItem, PassedOver, Early, Copying, Filling,
         Removing, Closing, Over,
        world, disk, local
<1>1. CASE StartCancelled
    BY <1>1 DEF StartCancelled, EndAtStart, SetJobState
<1>2. CASE StartDenied
    BY <1>2 DEF StartDenied, EndAtStart, SetJobState
<1>3. CASE Start
    BY <1>3 DEF Start
<1>4. CASE RenameRefused
    BY <1>4 DEF RenameRefused, EndAtStart, SetJobState
<1>5. CASE RenameLands
    BY <1>5 DEF RenameLands, Renamed, Empty
<1>6. CASE FollowDone
    BY <1>6 DEF FollowDone, SetJobState
<1>7. CASE FollowFails
    BY <1>7 DEF FollowFails, SetJobState, Empty
<1>8. CASE RootFails
    BY <1>8 DEF RootFails, HeadFails, Fail
<1>9. CASE ClaimTaken
    BY <1>9 DEF ClaimTaken, Fail
<1>10. CASE Claim
    BY <1>10 DEF Claim
<1>11. CASE List
    BY <1>11 DEF List, TypeOK
<1>12. CASE ListFails
    BY <1>12 DEF ListFails, Fail
<1>13. CASE RootFile
    <2>1. {Leaf} = {n \in Names : src[n] # None /\ ~PassedOver(n)}
        BY <1>13, PlaceFacts DEF RootFile, HeadPasses
    <2> QED BY <1>13, <2>1 DEF RootFile, HeadPasses
<1>14. CASE NodeFails
    BY <1>14 DEF NodeFails, HeadFails, Fail
<1>15. CASE OpenNode
    BY <1>15 DEF OpenNode, NextName, HeadPasses, TypeOK
<1>16. CASE BytesCancelled
    BY <1>16 DEF BytesCancelled, Fail
<1>17. CASE BytesFail
    BY <1>17 DEF BytesFail, Fail
<1>18. CASE BytesDone
    BY <1>18 DEF BytesDone
<1>19. CASE InstallFails
    BY <1>19 DEF InstallFails, Fail
<1>20. CASE Install
    BY <1>20 DEF Install, Installed, InstallLands, TypeOK, PlaceFiles, TargetTaken
<1>21. CASE Copied
    BY <1>21 DEF Copied
<1>22. CASE FormFilesFail
    BY <1>22 DEF FormFilesFail, Fail
<1>23. CASE RetargetDone
    BY <1>23 DEF RetargetDone
<1>24. CASE RetargetFails
    BY <1>24 DEF RetargetFails, Fail
<1>25. CASE TrashSource
    BY <1>25 DEF TrashSource, Removed, Empty
<1>26. CASE TrashFails
    BY <1>26 DEF TrashFails, Removed, Fail, Empty, TypeOK
<1>27. CASE Commit
    BY <1>27 DEF Commit, Fail
<1>28. CASE CommitFails
    BY <1>28 DEF CommitFails, Fail
<1>29. CASE Settle
    BY <1>29 DEF Settle
<1>30. CASE Rollback
    BY <1>30 DEF Rollback
<1>31. CASE \E s \in Shares : RepathSubject(s)
    BY <1>31 DEF RepathSubject
<1>32. CASE \E n \in Names : EditSource(n)
    BY <1>32 DEF EditSource
<1>33. CASE \E n \in Names : DeleteSource(n)
    BY <1>33 DEF DeleteSource
<1>34. CASE \E n \in Names : OthersSave(n)
    BY <1>34 DEF OthersSave, TypeOK, PlaceFiles, None
<1>35. CASE OthersClaim
    <2>1. pc \in Copying \cup Removing => ~job.isDir /\ pc \in Copying
        BY <1>35 DEF OthersClaim
    <2>2. pc \in Copying \cup Removing => listed \ todo = {}
        BY <2>1 DEF TypeOK
    <2> QED BY <1>35, <2>2 DEF OthersClaim
<1>36. CASE Cancel
    BY <1>36 DEF Cancel
<1>37. CASE Revoke
    BY <1>37 DEF Revoke
<1>38. CASE Crash
    BY <1>38 DEF Crash, Running
<1>39. CASE UNCHANGED vars
    BY <1>39 DEF vars
<1>40. CASE RenameLooks
    BY <1>40 DEF RenameLooks
<1>41. CASE RenamePlain
    BY <1>41, PlaceFacts DEF RenamePlain, Renamed, Empty
<1>42. CASE RenamePlainFails
    BY <1>42 DEF RenamePlainFails, EndAtStart, SetJobState
<1>43. CASE InstallLinked
    BY <1>43 DEF InstallLinked, InstallLands, TargetTaken, Fail, TypeOK, PlaceFiles
<1>44. CASE InstallLooks
    BY <1>44 DEF InstallLooks
<1>45. CASE InstallPlain
    BY <1>45 DEF InstallPlain, Installed, InstallLands, TypeOK, PlaceFiles
<1>46. CASE OthersTake
    BY <1>46, PlaceFacts DEF OthersTake, Running, Empty
<1> QED BY <1>1, <1>2, <1>3, <1>4, <1>5, <1>6, <1>7, <1>8, <1>9, <1>10, <1>11, <1>12, <1>13, <1>14, <1>15,
         <1>16, <1>17, <1>18, <1>19, <1>20, <1>21, <1>22, <1>23, <1>24, <1>25, <1>26, <1>27, <1>28, <1>29,
         <1>30, <1>31, <1>32, <1>33, <1>34, <1>35, <1>36, <1>37, <1>38, <1>39,
         <1>40, <1>41, <1>42, <1>43, <1>44, <1>45, <1>46
    DEF Next, Work, Others

\* A move removes the source only when each file of it, but those copy_node
\* passes over, is at the destination with the same content, as long as nobody
\* else writes into the source or takes the copy away: the disk and the database
\* may fail and lunad may stop.
THEOREM SourceOutlivesCopy ==
    ASSUME ~OthersEditSource, ~OthersTakeDest
    PROVE  Spec => SourceKeptUntilCopied
<1> DEFINE Kept == ("src" \in present /\ "src" \notin present' /\ pc \notin {"rename", "renaming"})
                     => \A n \in Names : src[n] # None /\ ~PassedOver(n) => dst[n] = src[n]
<1>1. ASSUME TypeOK, Shape, CopyInv, [Next]_vars PROVE Kept
    <2> SUFFICES ASSUME "src" \in present, "src" \notin present', pc \notin {"rename", "renaming"}
                 PROVE  \A n \in Names : src[n] # None /\ ~PassedOver(n) => dst[n] = src[n]
        OBVIOUS
    <2>1. pc = "trash"
        BY <1>1 DEF Next, Work, Others, vars, world, disk, local, StartCancelled, StartDenied, EndAtStart, Start,
            RenameRefused, RenameLands, RenameLooks, RenamePlain, RenamePlainFails, Renamed, InstallLinked,
            InstallLooks, InstallPlain, InstallLands, Installed, OthersTake, FollowDone, FollowFails, RootFails,
            ClaimTaken, Claim, List, ListFails,
            RootFile, NodeFails, OpenNode, BytesCancelled, BytesFail, BytesDone, InstallFails, Install, Copied,
            FormFilesFail, RetargetDone, RetargetFails, TrashSource, TrashFails, Removed, Commit, CommitFails,
            Settle, Rollback, RepathSubject, EditSource, DeleteSource, OthersSave, OthersClaim, Cancel, Revoke, Crash
    <2> QED BY <1>1, <2>1 DEF Shape, CopyInv, Removing
<1>2. BaseInv /\ CopyInv /\ [Next]_vars => [Kept]_vars
    BY <1>1 DEF BaseInv, TypeInv
<1>3. BaseInv /\ CopyInv /\ [Next]_vars => CopyInv'
    BY NextCopyInv
<1> QED BY <1>2, <1>3, BaseInvHolds, InitCopyInv, PTL DEF Spec, SourceKeptUntilCopied

\* The place that has every file of the item.
Whole(files) == \A n \in Names : InItem(n) => files[n] = "orig"

\* A move out of the trash purges its source before the row is written, so a
\* database that fails then makes the clean-up take the only copy away.
Spared == ~DbMayFail \/ ~job.fromTrash

\* Every file copy_node sees is at the destination, and the whole item still is
\* somewhere unless its source was purged.
Arrived(files) == \A n \in Names : InItem(n) /\ ~PassedOver(n) => files[n] = "orig"
Settled == Arrived(dst) /\ (job.fromTrash \/ Whole(src) \/ Whole(trash))

KeptInv ==
    Spared =>
        /\ pc \in Early \cup Copying \cup {"copied", "retarget", "trash"} => Whole(src)
        /\ pc = "follow" => Whole(dst)
        /\ pc = "commit" => Settled
        /\ pc \in Closing /\ outcome \in {"error", "cancelled"} => Whole(src) \/ Whole(trash)
        /\ pc \in Closing /\ outcome \in {"done", "not_trashed"} => Settled
        /\ NothingLost

\* When every node is visited, every file of a whole source has arrived, but
\* those copy_node passes over.
LEMMA CopiedWhole ==
    ASSUME Shape, CopyInv, pc \in {"copied", "retarget", "trash"}, Whole(src)
    PROVE  Arrived(dst)
BY DEF Shape, CopyInv, Whole, Arrived, Removing, None

\* A whole item is there.
LEMMA WholeIsThere ==
    ASSUME DestInv, Whole(dst)
    PROVE  "dst" \in present
BY PlaceFacts DEF DestInv, Whole, InItem, Empty, None

\* At the start the source has every file.
LEMMA InitKeptInv == Init => KeptInv
BY DEF Init, KeptInv, NothingLost, Whole, Arrived, Settled, InItem, Early, Copying, Filling, Removing, Closing, Over

\* Each step keeps it.
LEMMA NextKeptInv ==
    ASSUME ~OthersEditSource, ~OthersTakeDest
    PROVE  BaseInv /\ CopyInv /\ KeptInv /\ [Next]_vars => KeptInv'
<1> SUFFICES ASSUME TypeOK, Shape, DestInv, CopyInv, KeptInv, job' = job, [Next]_vars, Spared PROVE KeptInv'
    BY JobKept DEF BaseInv, TypeInv, KeptInv, Spared
<1> USE ~OthersEditSource, ~OthersTakeDest DEF Shape, DestInv, CopyInv, KeptInv, NothingLost, Whole, Arrived,
         Settled, InItem, PassedOver, Spared, Early, Copying,
        Filling, Removing, Closing, Over, world, disk, local
<1>1. CASE StartCancelled
    BY <1>1 DEF StartCancelled, EndAtStart, SetJobState
<1>2. CASE StartDenied
    BY <1>2 DEF StartDenied, EndAtStart, SetJobState
<1>3. CASE Start
    BY <1>3 DEF Start
<1>4. CASE RenameRefused
    BY <1>4 DEF RenameRefused, EndAtStart, SetJobState
<1>5. CASE RenameLands
    BY <1>5 DEF RenameLands, Renamed, Empty
<1>6. CASE FollowDone
    BY <1>6 DEF FollowDone, SetJobState
<1>7. CASE FollowFails
    BY <1>7 DEF FollowFails, SetJobState, Empty
<1>8. CASE RootFails
    BY <1>8 DEF RootFails, HeadFails, Fail
<1>9. CASE ClaimTaken
    BY <1>9 DEF ClaimTaken, Fail
<1>10. CASE Claim
    BY <1>10 DEF Claim
<1>11. CASE List
    BY <1>11 DEF List
<1>12. CASE ListFails
    BY <1>12 DEF ListFails, Fail
<1>13. CASE RootFile
    BY <1>13 DEF RootFile, HeadPasses
<1>14. CASE NodeFails
    BY <1>14 DEF NodeFails, HeadFails, Fail
<1>15. CASE OpenNode
    BY <1>15 DEF OpenNode, NextName, HeadPasses
<1>16. CASE BytesCancelled
    BY <1>16 DEF BytesCancelled, Fail
<1>17. CASE BytesFail
    BY <1>17 DEF BytesFail, Fail
<1>18. CASE BytesDone
    BY <1>18 DEF BytesDone
<1>19. CASE InstallFails
    BY <1>19 DEF InstallFails, Fail
<1>20. CASE Install
    BY <1>20 DEF Install, Installed, InstallLands, TypeOK, PlaceFiles, TargetTaken
<1>21. CASE Copied
    BY <1>21, CopiedWhole DEF Copied
<1>22. CASE FormFilesFail
    BY <1>22 DEF FormFilesFail, Fail
<1>23. CASE RetargetDone
    BY <1>23 DEF RetargetDone
<1>24. CASE RetargetFails
    BY <1>24 DEF RetargetFails, Fail
<1>25. CASE TrashSource
    <2>1. Arrived(dst)
        BY <1>25, CopiedWhole DEF TrashSource
    <2> QED BY <1>25, <2>1 DEF TrashSource, Removed, Empty
<1>26. CASE TrashFails
    <2>1. Arrived(dst) /\ dst' = dst
        BY <1>26, CopiedWhole DEF TrashFails, Removed
    <2>2. pc' = "settle" /\ outcome' = "not_trashed"
        BY <1>26 DEF TrashFails, Fail
    <2>3. job.fromTrash \/ Whole(src)' \/ Whole(trash)'
        BY <1>26 DEF TrashFails, Removed
    <2> QED BY <2>1, <2>2, <2>3
<1>27. CASE Commit
    BY <1>27 DEF Commit, Fail
<1>28. CASE CommitFails
    BY <1>28 DEF CommitFails, Fail
<1>29. CASE Settle
    BY <1>29 DEF Settle
<1>30. CASE Rollback
    <2>1. pc' = "end" /\ src' = src /\ trash' = trash
        BY <1>30 DEF Rollback
    <2>2. Whole(src) \/ Whole(trash) \/ (Settled /\ dst' = dst)
        BY <1>30 DEF Rollback, TypeOK
    <2> QED BY <2>1, <2>2
<1>31. CASE \E s \in Shares : RepathSubject(s)
    BY <1>31 DEF RepathSubject
<1>32. CASE \E n \in Names : EditSource(n)
    BY <1>32 DEF EditSource, Running
<1>33. CASE \E n \in Names : DeleteSource(n)
    BY <1>33 DEF DeleteSource, Running
<1>34. CASE \E n \in Names : OthersSave(n)
    BY <1>34 DEF OthersSave, TypeOK, PlaceFiles, None, Running
<1>35. CASE OthersClaim
    <2>1. ~Whole(dst) /\ \A n \in Names : dst[n] = None
        BY <1>35, WholeIsThere DEF OthersClaim, Empty
    <2>2. Arrived(dst) => \A n \in Names : InItem(n) => PassedOver(n)
        BY <2>1 DEF None
    <2>3. Arrived(dst) => Arrived(dst)'
        BY <2>2
    <2>4. NothingLost'
        BY <1>35, <2>1 DEF OthersClaim, None
    <2> QED BY <1>35, <2>1, <2>3, <2>4 DEF OthersClaim, Running, TypeOK
<1>36. CASE Cancel
    BY <1>36 DEF Cancel, Running
<1>37. CASE Revoke
    BY <1>37 DEF Revoke, Running
<1>38. CASE Crash
    BY <1>38 DEF Crash, Running
<1>39. CASE UNCHANGED vars
    BY <1>39 DEF vars
<1>40. CASE RenameLooks
    BY <1>40 DEF RenameLooks
<1>41. CASE RenamePlain
    BY <1>41, PlaceFacts DEF RenamePlain, Renamed, Empty
<1>42. CASE RenamePlainFails
    BY <1>42 DEF RenamePlainFails, EndAtStart, SetJobState
<1>43. CASE InstallLinked
    BY <1>43 DEF InstallLinked, InstallLands, TargetTaken, Fail, TypeOK, PlaceFiles
<1>44. CASE InstallLooks
    BY <1>44 DEF InstallLooks
<1>45. CASE InstallPlain
    BY <1>45 DEF InstallPlain, Installed, InstallLands, TypeOK, PlaceFiles
<1>46. CASE OthersTake
    BY <1>46, PlaceFacts DEF OthersTake, Running, Empty
<1> QED BY <1>1, <1>2, <1>3, <1>4, <1>5, <1>6, <1>7, <1>8, <1>9, <1>10, <1>11, <1>12, <1>13, <1>14, <1>15,
         <1>16, <1>17, <1>18, <1>19, <1>20, <1>21, <1>22, <1>23, <1>24, <1>25, <1>26, <1>27, <1>28, <1>29,
         <1>30, <1>31, <1>32, <1>33, <1>34, <1>35, <1>36, <1>37, <1>38, <1>39,
         <1>40, <1>41, <1>42, <1>43, <1>44, <1>45, <1>46
    DEF Next, Work, Others

\* No file of the item is lost, whatever fails, is cancelled or crashes, as
\* long as nobody else writes into the source or takes the copy away, and the
\* database does not fail under a move out of the trash (whose source is purged,
\* not trashed, before the row is written).  The files copy_node passes over are
\* among them, except in a move out of the trash, which purges them.
THEOREM NothingIsLost ==
    ASSUME ~OthersEditSource, ~OthersTakeDest
    PROVE  Spec => [](Spared => NothingLost)
<1>1. BaseInv /\ CopyInv /\ [Next]_vars => CopyInv'
    BY NextCopyInv
<1>2. BaseInv /\ CopyInv /\ KeptInv /\ [Next]_vars => KeptInv'
    BY NextKeptInv
<1>3. KeptInv => (Spared => NothingLost)
    BY DEF KeptInv
<1> QED BY <1>1, <1>2, <1>3, BaseInvHolds, InitCopyInv, InitKeptInv, PTL DEF Spec
=============================================================================
