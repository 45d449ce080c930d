------------------------- MODULE LunaUploadsProofs -------------------------
(***************************************************************************)
(* Proofs about LunaUploads, for every file size, every number of chunk     *)
(* requests and every set of ranges clients may send.                       *)
(***************************************************************************)
EXTENDS LunaUploads, TLAPS

\* A range clients send lies within the file and is not empty.
LEMMA RangeFacts ==
    ASSUME NEW g \in Ranges
    PROVE  /\ g[1] \in 0 .. Size /\ g[2] \in 0 .. Size
           /\ g[1] < g[2] /\ g[1] \in Blocks
BY ConstantsAssumption DEF Blocks

-----------------------------------------------------------------------------
(* Type correctness.  A request's range is one clients send and its next     *)
(* block lies within it, for as long as the request is at work; without this *)
(* the written blocks and the recorded ranges would not stay in the file.    *)

AtWork == {"found", "writing", "written", "flushing"}
PutTyped ==
    \A r \in Puts :
        /\ stage[r] \in AtWork => range[r] \in Ranges
        /\ stage[r] = "writing" => range[r][1] <= pos[r] /\ pos[r] < range[r][2]

TypeInv == TypeOK /\ PutTyped

\* The initial state is well typed.
LEMMA InitTypeInv == Init => TypeInv
<1> SUFFICES ASSUME Init PROVE TypeInv
    OBVIOUS
<1>1. NoChunks \in [Blocks -> 0 .. Size] /\ 0 \in 0 .. Size /\ 0 \in Names
    BY ConstantsAssumption DEF NoChunks, Names
<1>2. theirs \subseteq Names
    BY <1>1 DEF Init
<1>3. principal \in {"user", "link"}
    BY ConstantsAssumption DEF Init
<1>4. PutTyped
    BY DEF Init, PutTyped, AtWork
<1>5. /\ stage \in [Puts -> {"idle", "found", "writing", "written", "flushing", "acked", "failed"}]
      /\ range \in [Puts -> Ranges \cup {<<0, 0>>}]
      /\ pos \in [Puts -> 0 .. Size]
    BY <1>1 DEF Init
<1>6. chunks \in [Blocks -> 0 .. Size] /\ pending \in [Blocks -> 0 .. Size]
    BY <1>1 DEF Init
<1>7. ask \in [overwrite : BOOLEAN, rename : BOOLEAN]
    BY DEF Init
<1> QED BY <1>1, <1>2, <1>3, <1>4, <1>5, <1>6, <1>7 DEF Init, TypeInv, TypeOK

\* Every step of every actor keeps it so.
LEMMA NextTypeInv == TypeInv /\ [Next]_vars => TypeInv'
<1> SUFFICES ASSUME TypeInv, [Next]_vars PROVE TypeInv'
    OBVIOUS
<1> USE DEF TypeInv
<1>1. CASE CreateTemp \/ CreateRow \/ CreateRowFails
    BY <1>1 DEF TypeOK, PutTyped, CreateTemp, CreateRow, CreateRowFails, access, table, folder, disk, puts, finish,
         removal
<1>2. ASSUME NEW r \in Puts, Put(r) PROVE TypeInv'
    <2>1. CASE \E g \in Ranges : PutLookup(r, g)
        BY <2>1 DEF TypeOK, PutTyped, AtWork, PutLookup, SetStage, access, table, folder, disk, puts, finish, removal
    <2>2. CASE PutOpen(r)
        <3>1. range[r] \in Ranges
            BY <2>2 DEF PutTyped, AtWork, PutOpen
        <3>2. range[r][1] \in 0 .. Size /\ range[r][1] < range[r][2]
            BY <3>1, RangeFacts
        <3> QED BY <2>2, <3>1, <3>2 DEF TypeOK, PutTyped, AtWork, PutOpen, SetStage, access, table, folder, disk,
                 puts, finish, removal
    <2>3. CASE PutOpenFails(r) \/ PutWriteFails(r)
        BY <2>3 DEF TypeOK, PutTyped, AtWork, PutOpenFails, PutWriteFails, SetStage, access, table, folder, disk,
             puts, finish, removal
    <2>4. CASE PutBlock(r)
        <3>1. range[r] \in Ranges /\ range[r][1] <= pos[r] /\ pos[r] < range[r][2]
            BY <2>4 DEF PutTyped, AtWork, PutBlock
        <3>2. range[r][1] \in 0 .. Size /\ range[r][2] \in 0 .. Size
            BY <3>1, RangeFacts
        <3>3. pos[r] \in Blocks /\ pos[r] + 1 \in 0 .. Size
            BY <3>1, <3>2, ConstantsAssumption DEF TypeOK, Blocks
        <3>4. TypeOK'
            BY <2>4, <3>3 DEF TypeOK, PutBlock, SetStage, access, table, folder, disk, puts, finish, removal
        <3>5. PutTyped'
            BY <2>4, <3>1, <3>2, <3>3 DEF TypeOK, PutTyped, AtWork, PutBlock, SetStage
        <3> QED BY <3>4, <3>5
    <2>5. CASE \E next \in {"flushing", "acked"} : PutRecord(r, next)
        <3> PICK next \in {"flushing", "acked"} : PutRecord(r, next)
            BY <2>5
        <3>1. range[r] \in Ranges
            BY DEF PutTyped, AtWork, PutRecord
        <3>2. range[r][1] \in Blocks /\ range[r][2] \in 0 .. Size
            BY <3>1, RangeFacts
        <3> QED BY <3>1, <3>2 DEF TypeOK, PutTyped, AtWork, PutRecord, SetStage, access, table, folder, disk, puts,
                 finish, removal
    <2>6. CASE PutFlush(r) \/ PutFlushGone(r) \/ PutFlushFails(r)
        BY <2>6, ConstantsAssumption DEF TypeOK, PutTyped, AtWork, PutFlush, PutFlushGone, PutFlushFails,
             FlushPending, Upserted, NoChunks, SetStage, access, table, folder, disk, puts, finish, removal
    <2> QED BY <1>2, <2>1, <2>2, <2>3, <2>4, <2>5, <2>6 DEF Put
<1>3. CASE Complete
    <2>0. PutTyped'
        BY <1>3 DEF PutTyped, AtWork, Complete, CompleteAsk, CompleteGone, CompleteFlushFails, CompleteTurnedAway,
             CompleteShort, CompleteBegin, ScanChunk, ScanGap, HashDiffers, SyncFile, SyncFails, DecideDenied,
             DecideInPlace, DecideRename, DecideClash, InstallOver, Install, InstallLinked, InstallLooks,
             InstallPlain, Landed, Has, InstallFails, CompleteDropRow,
             CompleteDropChunks, CompleteDropFails, puts
    <2>1. CASE \E ow, ren \in BOOLEAN : CompleteAsk(ow, ren)
        BY <2>0, <2>1 DEF TypeOK, CompleteAsk, access, table, folder, disk, puts, finish, removal
    <2>2. CASE CompleteGone \/ CompleteFlushFails \/ CompleteTurnedAway \/ CompleteShort \/ CompleteBegin
        BY <2>0, <2>2, ConstantsAssumption DEF TypeOK, CompleteGone, CompleteFlushFails, CompleteTurnedAway,
             CompleteShort, CompleteBegin, SetError, FlushPending, Upserted, NoChunks, access, table, folder, disk,
             puts, finish, removal
    <2>3. CASE \E s \in Blocks : ScanChunk(s)
        BY <2>0, <2>3, ConstantsAssumption DEF TypeOK, ScanChunk, Blocks, access, table, folder, disk, puts, finish,
             removal
    <2>4. CASE ScanGap \/ HashDiffers \/ SyncFile \/ SyncFails
        BY <2>0, <2>4 DEF TypeOK, ScanGap, HashDiffers, SyncFile, SyncFails, SetError, access, table, folder, disk,
             puts, finish, removal
    <2>5. CASE DecideDenied \/ DecideClash
        BY <2>0, <2>5 DEF TypeOK, DecideDenied, DecideClash, SetError, access, table, folder, disk, puts, finish,
             removal
    <2>6. CASE DecideInPlace
        BY <2>0, <2>6 DEF TypeOK, DecideInPlace, MayOverwrite, Taken, access, table, folder, disk, puts, finish,
             removal
    <2>7. CASE \E n \in Names : DecideRename(n)
        <3>1. /\ name' \in Names /\ may' \in BOOLEAN /\ comp' = "decided"
              /\ UNCHANGED <<access, made, row, chunks, pending, disk, puts, ask, covered, cursor, removal, restarts>>
            BY <2>7 DEF DecideRename
        <3> QED BY <2>0, <3>1 DEF TypeOK, access, folder, disk, puts, removal
    <2>8. CASE InstallOver \/ Install \/ InstallLinked \/ InstallLooks \/ InstallPlain
             \/ InstallFails
        BY <2>0, <2>8 DEF TypeOK, InstallOver, Install, InstallLinked, InstallLooks, InstallPlain, Landed, Has,
             InstallFails, access, table, folder, disk, puts, finish, removal
    <2>9. CASE CompleteDropRow \/ CompleteDropChunks \/ CompleteDropFails
        BY <2>0, <2>9, ConstantsAssumption DEF TypeOK, CompleteDropRow, CompleteDropChunks, CompleteDropFails,
             NoChunks,
             access, table, folder, disk, puts, finish, removal
    <2> QED BY <1>3, <2>1, <2>2, <2>3, <2>4, <2>5, <2>6, <2>7, <2>8, <2>9 DEF Complete
<1>4. CASE Cancel
    BY <1>4, ConstantsAssumption DEF TypeOK, PutTyped, Cancel, CancelAsk, CancelGone, CancelUnlink, CancelDropRow,
         CancelDropChunks, CancelDropFails, Unlink, NoChunks, access, table, folder, disk, puts, finish, removal
<1>5. CASE SweepOrphans
    BY <1>5, ConstantsAssumption DEF TypeOK, PutTyped, SweepOrphans, SweepUnlink, SweepDropRow, SweepDropChunks,
         Unlink, NoChunks, access, table, folder, disk, puts, finish, removal
<1>6. CASE (\E n \in Names : OthersSave(n)) \/ OthersTrashFolder \/ RevokeUpload \/ RevokeEdit
    <2>1. CASE \E n \in Names : OthersSave(n)
        <3>1. theirs' \subseteq Names
            BY <2>1 DEF TypeOK, OthersSave
        <3> QED BY <2>1, <3>1 DEF TypeOK, PutTyped, OthersSave, access, table, folder, disk, puts, finish, removal
    <2>2. CASE OthersTrashFolder
        BY <2>2 DEF TypeOK, PutTyped, OthersTrashFolder, access, table, folder, disk, puts, finish, removal
    <2>3. CASE RevokeUpload \/ RevokeEdit
        <3>1. canUpload' \in BOOLEAN /\ canEdit' \in BOOLEAN
            BY <2>3 DEF TypeOK, RevokeUpload, RevokeEdit
        <3>2. UNCHANGED <<principal, made, table, pending, disk, puts, finish, removal, restarts>>
            BY <2>3 DEF RevokeUpload, RevokeEdit
        <3> QED BY <3>1, <3>2 DEF TypeOK, PutTyped, table, folder, disk, puts, finish, removal
    <2> QED BY <1>6, <2>1, <2>2, <2>3
<1>7. CASE Restart
    <2>1. file' \subseteq Blocks
        BY <1>7 DEF TypeOK, Restart
    <2>2. TypeOK'
        BY <1>7, <2>1, ConstantsAssumption DEF TypeOK, Restart, NoChunks, access, table, folder, disk, puts, finish,
             removal
    <2>3. PutTyped'
        BY <1>7 DEF TypeOK, PutTyped, AtWork, Restart
    <2> QED BY <2>2, <2>3
<1>8. CASE UNCHANGED vars
    BY <1>8 DEF TypeOK, PutTyped, vars, access, table, folder, disk, puts, finish, removal
<1> QED BY <1>1, <1>2, <1>3, <1>4, <1>5, <1>6, <1>7, <1>8 DEF Next

\* Every reachable state of an upload session is well typed; in particular no
\* request writes or records a byte outside the promised size.
THEOREM TypeCorrect == Spec => []TypeOK
<1>1. Spec => []TypeInv
    BY InitTypeInv, NextTypeInv, PTL DEF Spec
<1> QED BY <1>1, PTL DEF TypeInv

-----------------------------------------------------------------------------
(* No file with holes is installed.  What a request has written so far, what *)
(* is on record and what the scan of complete has passed are all on disk;    *)
(* only a power cut could take a block away again.                           *)

WriterSound ==
    \A r \in Puts, b \in Blocks :
        /\ range[r][1] <= b
        /\ \/ stage[r] = "writing" /\ b < pos[r]
           \/ stage[r] = "written" /\ b < range[r][2]
        => b \in file

ScanSound ==
    /\ comp = "scan" => \A b \in Blocks : b < covered => b \in file
    /\ comp \in {"checked", "decided", "looked", "installed", "rowgone"} => file = Blocks

CoverInv == TypeInv /\ CoverageSound /\ WriterSound /\ ScanSound /\ InstalledWhole

\* Without a power cut, a written block stays written.
LEMMA FileGrows ==
    ASSUME TypeInv, ~MayLosePower, [Next]_vars
    PROVE  file \subseteq file'
<1>1. ASSUME NEW r \in Puts, Put(r) PROVE file \subseteq file'
    BY <1>1 DEF Put, PutLookup, PutOpen, PutOpenFails, PutBlock, PutWriteFails, PutRecord, PutFlush, PutFlushGone,
         PutFlushFails, disk, folder
<1>2. CASE Complete
    BY <1>2 DEF Complete, CompleteAsk, CompleteGone, CompleteFlushFails, CompleteTurnedAway,
         CompleteShort, CompleteBegin, ScanChunk, ScanGap, HashDiffers, SyncFile, SyncFails, DecideDenied,
         DecideInPlace, DecideRename, DecideClash, InstallOver, Install, InstallLinked, InstallLooks, InstallPlain,
         Landed, Has, InstallFails, CompleteDropRow,
         CompleteDropChunks, CompleteDropFails, disk, folder
<1>3. CASE Cancel \/ SweepOrphans
    BY <1>3 DEF Cancel, CancelAsk, CancelGone, CancelUnlink, CancelDropRow, CancelDropChunks, CancelDropFails,
         SweepOrphans, SweepUnlink, SweepDropRow, SweepDropChunks, disk, folder
<1>4. CASE CreateTemp \/ CreateRow \/ CreateRowFails \/ (\E n \in Names : OthersSave(n)) \/ OthersTrashFolder
             \/ RevokeUpload \/ RevokeEdit
    BY <1>4 DEF CreateTemp, CreateRow, CreateRowFails, OthersSave, OthersTrashFolder, RevokeUpload, RevokeEdit, disk,
         folder
<1>5. CASE Restart
    BY <1>5 DEF Restart
<1>6. CASE UNCHANGED vars
    BY <1>6 DEF vars, disk, folder
<1> QED BY <1>1, <1>2, <1>3, <1>4, <1>5, <1>6 DEF Next

\* A flush records nothing that was not on record or pending before.
LEMMA FlushSound ==
    ASSUME TypeOK, CoverageSound, FlushPending, file' = file
    PROVE  CoverageSound'
<1> SUFFICES ASSUME NEW s \in Blocks, NEW b \in Blocks, s <= b, b < chunks'[s] \/ b < pending'[s]
             PROVE  b \in file
    BY DEF CoverageSound
<1>1. pending'[s] = 0 /\ b \in Int /\ ~(b < 0)
    BY DEF FlushPending, NoChunks, Blocks
<1>2. chunks'[s] \in {chunks[s], pending[s]}
    BY DEF FlushPending, Upserted
<1> QED BY <1>1, <1>2 DEF CoverageSound

\* Dropping what is pending leaves the rows as they were.
LEMMA DropSound ==
    ASSUME TypeOK, CoverageSound, pending' = NoChunks, chunks' = chunks, file' = file
    PROVE  CoverageSound'
<1> SUFFICES ASSUME NEW s \in Blocks, NEW b \in Blocks, s <= b, b < chunks'[s] \/ b < pending'[s]
             PROVE  b \in file
    BY DEF CoverageSound
<1>1. pending'[s] = 0 /\ b \in Int /\ ~(b < 0)
    BY DEF NoChunks, Blocks
<1> QED BY <1>1 DEF CoverageSound

\* The steps of requests keep the invariant.
LEMMA PutCover ==
    ASSUME CoverInv, file \subseteq file', TypeInv', NEW r \in Puts, Put(r)
    PROVE  CoverInv'
<1> USE DEF CoverInv
<1>1. CASE \E g \in Ranges : PutLookup(r, g)
    BY <1>1 DEF CoverageSound, WriterSound, ScanSound, InstalledWhole, TypeInv, TypeOK, PutLookup, SetStage,
         access, table, folder, disk, puts, finish, removal
<1>2. CASE PutOpen(r)
    <2>1. range[r] \in Ranges
        BY <1>2 DEF TypeInv, PutTyped, AtWork, PutOpen
    <2>2. range[r][1] \in Int
        BY <2>1, RangeFacts
    <2> QED BY <1>2, <2>2 DEF CoverageSound, WriterSound, ScanSound, InstalledWhole, TypeInv, TypeOK, PutOpen,
             SetStage,
              Blocks, access, table, folder, disk, puts, finish, removal
<1>3. CASE PutOpenFails(r) \/ PutWriteFails(r) \/ PutFlushGone(r)
    BY <1>3 DEF CoverageSound, WriterSound, ScanSound, InstalledWhole, TypeInv, TypeOK, PutOpenFails, PutWriteFails,
         PutFlushGone, SetStage, access, table, folder, disk, puts, finish, removal
<1>4. CASE PutBlock(r)
    <2>1. range[r] \in Ranges /\ range[r][1] <= pos[r] /\ pos[r] < range[r][2]
        BY <1>4 DEF TypeInv, PutTyped, AtWork, PutBlock
    <2>2. range[r][1] \in Int /\ range[r][2] \in Int /\ pos[r] \in Int
        BY <2>1, RangeFacts DEF TypeInv, TypeOK
    <2>3. CoverageSound' /\ InstalledWhole'
        BY <1>4 DEF CoverageSound, InstalledWhole, PutBlock, TypeInv, TypeOK, table, folder
    <2>4. ScanSound'
        BY <1>4 DEF ScanSound, PutBlock, TypeInv, TypeOK, finish
    <2>5. ASSUME NEW q \in Puts, NEW b \in Blocks,
                 range'[q][1] <= b,
                 \/ stage'[q] = "writing" /\ b < pos'[q]
                 \/ stage'[q] = "written" /\ b < range'[q][2]
          PROVE  b \in file'
        <3>1. CASE q # r
            BY <1>4, <2>5, <3>1 DEF WriterSound, PutBlock, SetStage, TypeInv, TypeOK
        <3>2. CASE q = r
            <4>1. range' = range /\ pos'[r] = pos[r] + 1 /\ stage[r] = "writing" /\ file' = file \cup {pos[r]}
                BY <1>4 DEF PutBlock, TypeInv, TypeOK
            <4>2. stage'[r] = "written" => pos[r] + 1 = range[r][2]
                BY <1>4 DEF PutBlock, SetStage, TypeInv, TypeOK
            <4>3. b < pos[r] + 1
                BY <2>5, <3>2, <4>1, <4>2
            <4>4. b \in Int
                BY DEF Blocks
            <4>5. CASE b = pos[r]
                BY <4>1, <4>5
            <4>6. CASE b < pos[r]
                BY <2>5, <3>2, <4>1, <4>6 DEF WriterSound
            <4> QED BY <4>3, <4>4, <4>5, <4>6, <2>2
        <3> QED BY <3>1, <3>2
    <2> QED BY <2>3, <2>4, <2>5 DEF WriterSound
<1>5. CASE \E next \in {"flushing", "acked"} : PutRecord(r, next)
    <2> PICK next \in {"flushing", "acked"} : PutRecord(r, next)
        BY <1>5
    <2>1. range[r] \in Ranges
        BY DEF TypeInv, PutTyped, AtWork, PutRecord
    <2>2. range[r][1] \in Blocks
        BY <2>1, RangeFacts
    <2>3. CoverageSound'
        BY <2>2 DEF CoverageSound, WriterSound, PutRecord, TypeInv, TypeOK, table, disk, folder
    <2>4. WriterSound'
        BY DEF WriterSound, PutRecord, SetStage, TypeInv, TypeOK, disk, folder
    <2> QED BY <2>3, <2>4 DEF ScanSound, InstalledWhole, PutRecord, disk, folder, finish
<1>6. CASE PutFlush(r) \/ PutFlushFails(r)
    <2>1. CoverageSound'
        BY <1>6, FlushSound, DropSound DEF PutFlush, PutFlushFails, TypeInv, table, disk, folder
    <2>2. WriterSound'
        BY <1>6 DEF WriterSound, PutFlush, PutFlushFails, SetStage, TypeInv, TypeOK, disk, folder
    <2> QED BY <1>6, <2>1, <2>2 DEF ScanSound, InstalledWhole, PutFlush, PutFlushFails, disk, folder, finish
<1> QED BY <1>1, <1>2, <1>3, <1>4, <1>5, <1>6 DEF Put

\* So do the steps of complete: the scan passes only over blocks on record.
LEMMA CompleteCover ==
    ASSUME CoverInv, TypeInv', Complete
    PROVE  CoverInv'
<1> USE DEF CoverInv
<1>1. file' = file
    BY DEF Complete, CompleteAsk, CompleteGone, CompleteFlushFails, CompleteTurnedAway,
         CompleteShort, CompleteBegin, ScanChunk, ScanGap, HashDiffers, SyncFile, SyncFails, DecideDenied,
         DecideInPlace, DecideRename, DecideClash, InstallOver, Install, InstallLinked, InstallLooks, InstallPlain,
         Landed, Has, InstallFails, CompleteDropRow,
         CompleteDropChunks, CompleteDropFails, disk, folder
<1>2. WriterSound'
    BY <1>1 DEF WriterSound, Complete, CompleteAsk, CompleteGone, CompleteFlushFails, CompleteTurnedAway,
         CompleteShort, CompleteBegin, ScanChunk, ScanGap, HashDiffers, SyncFile, SyncFails, DecideDenied,
         DecideInPlace, DecideRename, DecideClash, InstallOver, Install, InstallLinked, InstallLooks, InstallPlain,
         Landed, Has, InstallFails, CompleteDropRow,
         CompleteDropChunks, CompleteDropFails, puts
<1>3. CASE (\E ow, ren \in BOOLEAN : CompleteAsk(ow, ren)) \/ CompleteGone
    BY <1>1, <1>2, <1>3 DEF CoverageSound, ScanSound, InstalledWhole, CompleteAsk, CompleteGone, table, disk, folder,
         finish
<1>4. CASE CompleteFlushFails \/ CompleteTurnedAway \/ CompleteShort \/ CompleteBegin
    <2>1. CoverageSound'
        BY <1>1, <1>4, FlushSound, DropSound DEF CompleteFlushFails, CompleteTurnedAway, CompleteShort, CompleteBegin,
             TypeInv, table
    <2>2. ScanSound'
        BY <1>1, <1>4 DEF ScanSound, CompleteFlushFails, CompleteTurnedAway, CompleteShort, CompleteBegin, Blocks
    <2> QED BY <1>1, <1>2, <1>4, <2>1, <2>2 DEF InstalledWhole, CompleteFlushFails, CompleteTurnedAway, CompleteShort,
              CompleteBegin, disk, folder
<1>5. ASSUME NEW s \in Blocks, ScanChunk(s) PROVE CoverInv'
    <2>1. CoverageSound' /\ InstalledWhole'
        BY <1>1, <1>5 DEF CoverageSound, InstalledWhole, ScanChunk, table, disk, folder
    <2>2. \A b \in Blocks : b < covered' => b \in file'
        BY <1>1, <1>5 DEF CoverageSound, ScanSound, ScanChunk, Blocks, TypeInv, TypeOK
    <2> QED BY <1>2, <1>5, <2>1, <2>2 DEF ScanSound, ScanChunk
<1>6. CASE ScanGap \/ HashDiffers \/ SyncFails
    BY <1>1, <1>2, <1>6 DEF CoverageSound, ScanSound, InstalledWhole, ScanGap, HashDiffers, SyncFails, table, disk,
         folder
<1>7. CASE SyncFile
    <2>1. \A b \in Blocks : b < covered
        BY <1>7, ConstantsAssumption DEF SyncFile, Blocks, TypeInv, TypeOK
    <2>2. file = Blocks
        BY <1>7, <2>1 DEF SyncFile, ScanSound, TypeInv, TypeOK
    <2> QED BY <1>1, <1>2, <1>7, <2>2 DEF CoverageSound, ScanSound, InstalledWhole, SyncFile, table
<1>8. CASE DecideDenied \/ DecideInPlace \/ DecideClash \/ (\E n \in Names : DecideRename(n)) \/ InstallFails
    BY <1>1, <1>2, <1>8 DEF CoverageSound, ScanSound, InstalledWhole, DecideDenied, DecideInPlace, DecideClash,
         DecideRename, InstallFails, table, disk, folder
<1>9. CASE InstallOver \/ Install \/ InstallLinked \/ InstallLooks \/ InstallPlain
    BY <1>1, <1>2, <1>9 DEF CoverageSound, ScanSound, InstalledWhole, InstallOver, Install, InstallLinked,
         InstallLooks,
         InstallPlain, Landed, Has, table
<1>10. CASE CompleteDropRow \/ CompleteDropChunks \/ CompleteDropFails
    <2>1. CoverageSound'
        BY <1>1, <1>10 DEF CoverageSound, CompleteDropRow, CompleteDropChunks, CompleteDropFails, NoChunks, Blocks,
             TypeInv, TypeOK, table
    <2> QED BY <1>1, <1>2, <1>10, <2>1 DEF ScanSound, InstalledWhole, CompleteDropRow, CompleteDropChunks,
              CompleteDropFails, disk, folder
<1> QED BY <1>3, <1>4, <1>5, <1>6, <1>7, <1>8, <1>9, <1>10 DEF Complete

\* Every step keeps the invariant, as long as the power stays on.
LEMMA NextCoverInv ==
    ASSUME ~MayLosePower
    PROVE  CoverInv /\ [Next]_vars => CoverInv'
<1> SUFFICES ASSUME CoverInv, [Next]_vars PROVE CoverInv'
    OBVIOUS
<1>1. TypeInv'
    BY NextTypeInv DEF CoverInv
<1>2. file \subseteq file'
    BY FileGrows DEF CoverInv
<1>3. ASSUME NEW r \in Puts, Put(r) PROVE CoverInv'
    BY <1>1, <1>2, <1>3, PutCover
<1>4. CASE Complete
    BY <1>1, <1>4, CompleteCover
<1> USE <1>1 DEF CoverInv
<1>5. CASE Cancel \/ SweepOrphans
    <2>1. file' = file /\ UNCHANGED <<puts, finish>>
        BY <1>5 DEF Cancel, CancelAsk, CancelGone, CancelUnlink, CancelDropRow, CancelDropChunks, CancelDropFails,
             SweepOrphans, SweepUnlink, SweepDropRow, SweepDropChunks, disk, folder
    <2>2. \A s \in Blocks : chunks'[s] \in {chunks[s], 0} /\ pending'[s] \in {pending[s], 0}
        BY <1>5 DEF Cancel, CancelAsk, CancelGone, CancelUnlink, CancelDropRow, CancelDropChunks, CancelDropFails,
             SweepOrphans, SweepUnlink, SweepDropRow, SweepDropChunks, NoChunks, table
    <2>3. linked' \subseteq linked /\ (place' = "dest" => place = "dest")
        BY <1>5 DEF Cancel, CancelAsk, CancelGone, CancelUnlink, CancelDropRow, CancelDropChunks, CancelDropFails,
             SweepOrphans, SweepUnlink, SweepDropRow, SweepDropChunks, Unlink, disk, folder
    <2>4. CoverageSound'
        BY <2>1, <2>2 DEF CoverageSound, Blocks
    <2> QED BY <2>1, <2>3, <2>4 DEF WriterSound, ScanSound, InstalledWhole, puts, finish
<1>6. CASE CreateTemp \/ CreateRow \/ CreateRowFails \/ (\E n \in Names : OthersSave(n)) \/ OthersTrashFolder
             \/ RevokeUpload \/ RevokeEdit
    <2>1. file' = file /\ chunks' = chunks /\ UNCHANGED <<pending, puts, finish>>
        BY <1>6 DEF CreateTemp, CreateRow, CreateRowFails, OthersSave, OthersTrashFolder, RevokeUpload, RevokeEdit,
             table, disk, folder
    <2>2. linked' \subseteq linked /\ (place' = "dest" => place = "dest")
        BY <1>6 DEF CreateTemp, CreateRow, CreateRowFails, OthersSave, OthersTrashFolder, RevokeUpload, RevokeEdit,
             disk, folder
    <2> QED BY <2>1, <2>2 DEF CoverageSound, WriterSound, ScanSound, InstalledWhole, puts, finish
<1>7. CASE Restart
    <2>1. file' = file /\ comp' = "idle"
        BY <1>7 DEF Restart
    <2>2. CoverageSound'
        BY <1>7, <2>1 DEF Restart, CoverageSound, NoChunks, Blocks, table
    <2>3. WriterSound'
        BY <1>7, <2>1 DEF Restart, WriterSound, TypeInv, TypeOK
    <2> QED BY <1>7, <2>1, <2>2, <2>3 DEF Restart, ScanSound, InstalledWhole, folder
<1>8. CASE UNCHANGED vars
    BY <1>8 DEF CoverageSound, WriterSound, ScanSound, InstalledWhole, vars, table, folder, disk, puts, finish,
         removal
<1> QED BY <1>3, <1>4, <1>5, <1>6, <1>7, <1>8 DEF Next

\* As long as the power stays on, what is on record is on disk and the file a
\* session installs is whole: whatever ranges arrive, in whatever order and
\* however many at once, and wherever lunad stops and starts again.
THEOREM InstallsOnlyWholeFiles ==
    ASSUME ~MayLosePower
    PROVE  Spec => [](CoverageSound /\ InstalledWhole)
<1>1. Init => CoverInv
    BY InitTypeInv, ConstantsAssumption DEF Init, CoverInv, CoverageSound, WriterSound, ScanSound, InstalledWhole,
         NoChunks, Blocks
<1>2. CoverInv /\ [Next]_vars => CoverInv'
    BY NextCoverInv
<1>3. CoverInv => CoverageSound /\ InstalledWhole
    BY DEF CoverInv
<1> QED BY <1>1, <1>2, <1>3, PTL DEF Spec

-----------------------------------------------------------------------------
(* Nobody's file is replaced without the right to.  The decision is taken    *)
(* under the database lock and used under the same hold of it, so the grant  *)
(* it rests on is still there when the file is renamed.  What the lock does  *)
(* not cover is the name: others may take it after a look.                   *)

DecisionHolds ==
    /\ comp \in {"idle", "asked", "scan", "checked", "decided", "looked", "installed", "rowgone"}
    /\ comp = "looked" => noReplace = "look"
    /\ comp = "decided" /\ may => principal = "user" /\ ask.overwrite /\ canEdit

\* Every step keeps the decision valid while it is used.
LEMMA NextDecision == DecisionHolds /\ [Next]_vars => DecisionHolds'
<1> SUFFICES ASSUME DecisionHolds, [Next]_vars PROVE DecisionHolds'
    OBVIOUS
<1> USE DEF DecisionHolds, access, finish, disk, folder
<1>1. CASE CreateTemp \/ CreateRow \/ CreateRowFails \/ SweepOrphans \/ (\E n \in Names : OthersSave(n))
             \/ OthersTrashFolder
    BY <1>1 DEF CreateTemp, CreateRow, CreateRowFails, SweepOrphans, SweepUnlink, SweepDropRow, SweepDropChunks,
         OthersSave, OthersTrashFolder
<1>2. ASSUME NEW r \in Puts, Put(r) PROVE DecisionHolds'
    BY <1>2 DEF Put, PutLookup, PutOpen, PutOpenFails, PutBlock, PutWriteFails, PutRecord, PutFlush, PutFlushGone,
         PutFlushFails
<1>3. CASE Complete
    <2>1. CASE DecideInPlace
        BY <2>1 DEF DecideInPlace, MayOverwrite
    <2>2. CASE \E n \in Names : DecideRename(n)
        BY <2>2 DEF DecideRename
    <2>3. CASE (\E ow, ren \in BOOLEAN : CompleteAsk(ow, ren)) \/ (\E s \in Blocks : ScanChunk(s))
        BY <2>3 DEF CompleteAsk, ScanChunk
    <2>4. CASE ~(DecideInPlace \/ (\E n \in Names : DecideRename(n))
                  \/ (\E ow, ren \in BOOLEAN : CompleteAsk(ow, ren)) \/ (\E s \in Blocks : ScanChunk(s)))
        BY <1>3, <2>4 DEF Complete, CompleteGone, CompleteFlushFails, CompleteTurnedAway, CompleteShort,
             CompleteBegin,
             ScanGap, HashDiffers, SyncFile, SyncFails, DecideDenied, DecideClash, InstallOver, Install,
             InstallLinked, InstallLooks, InstallPlain, Landed, Has, InstallFails,
             CompleteDropRow, CompleteDropChunks, CompleteDropFails
    <2> QED BY <2>1, <2>2, <2>3, <2>4
<1>4. CASE Cancel
    BY <1>4 DEF Cancel, CancelAsk, CancelGone, CancelUnlink, CancelDropRow, CancelDropChunks, CancelDropFails
<1>5. CASE RevokeUpload \/ RevokeEdit
    BY <1>5 DEF RevokeUpload, RevokeEdit, Locked
<1>6. CASE Restart
    BY <1>6 DEF Restart
<1>7. CASE UNCHANGED vars
    BY <1>7 DEF vars
<1> QED BY <1>1, <1>2, <1>3, <1>4, <1>5, <1>6, <1>7 DEF Next

\* A step that installs the upload over a file somebody has there is one of a
\* member who asked to overwrite and holds EDIT at that moment, whatever was
\* revoked, saved or trashed since the API layer looked; or the rename(2) after
\* a look, on a drive that has nothing better.
THEOREM NeverClobbers == Spec => NoClobber
<1>1. Init => DecisionHolds
    BY DEF Init, DecisionHolds
<1>2. DecisionHolds /\ [Next]_vars =>
        [place # "dest" /\ place' = "dest" /\ theirs' # theirs
           => (principal = "user" /\ ask.overwrite /\ canEdit) \/ (comp = "looked" /\ noReplace = "look")]_vars
    <2> SUFFICES ASSUME DecisionHolds, [Next]_vars, place # "dest", place' = "dest", theirs' # theirs
                 PROVE  (principal = "user" /\ ask.overwrite /\ canEdit) \/ (comp = "looked" /\ noReplace = "look")
        OBVIOUS
    <2>1. ~UNCHANGED vars
        BY DEF vars, disk, folder
    <2>2. ASSUME NEW r \in Puts, Put(r) PROVE FALSE
        BY <2>2 DEF Put, PutLookup, PutOpen, PutOpenFails, PutBlock, PutWriteFails, PutRecord, PutFlush, PutFlushGone,
             PutFlushFails, disk, folder
    <2>3. CASE Complete
        <3>1. InstallOver \/ Install \/ InstallPlain
            BY <2>3 DEF Complete, CompleteAsk, CompleteGone, CompleteFlushFails, CompleteTurnedAway,
                 CompleteShort, CompleteBegin, ScanChunk, ScanGap, HashDiffers, SyncFile, SyncFails, DecideDenied,
                 DecideInPlace, DecideRename, DecideClash, InstallLinked, InstallLooks, InstallFails,
                 CompleteDropRow, CompleteDropChunks, CompleteDropFails, disk, folder
        <3>2. name \in theirs
            BY <3>1 DEF InstallOver, Install, InstallPlain, Landed
        <3> QED BY <3>1, <3>2 DEF InstallOver, Install, InstallPlain, Taken, DecisionHolds
    <2>4. ~(Cancel \/ SweepOrphans)
        BY DEF Cancel, CancelAsk, CancelGone, CancelUnlink, CancelDropRow, CancelDropChunks, CancelDropFails,
             SweepOrphans, SweepUnlink, SweepDropRow, SweepDropChunks, disk, folder
    <2>5. ~(CreateTemp \/ CreateRow \/ CreateRowFails \/ (\E n \in Names : OthersSave(n)) \/ OthersTrashFolder
              \/ RevokeUpload \/ RevokeEdit \/ Restart)
        BY DEF CreateTemp, CreateRow, CreateRowFails, OthersSave, OthersTrashFolder, RevokeUpload, RevokeEdit,
             Restart, disk, folder
    <2> QED BY <2>1, <2>2, <2>3, <2>4, <2>5 DEF Next
<1> QED BY <1>1, <1>2, NextDecision, PTL DEF Spec, NoClobber

-----------------------------------------------------------------------------
(* No temp file without a row, once create_scoped is over.                   *)

RowOrder ==
    /\ made \in {"no", "temp"} => row = "none" /\ comp = "idle" /\ canc = "idle" /\ sweep = "idle"
    /\ linked = {}
    /\ comp = "installed" => place = "dest"
    /\ canc = "unlinked" \/ sweep = "unlinked" => place # "temp"
    /\ TempHasRow

\* The order of the steps keeps it, if unlinking does not fail unnoticed.
LEMMA NextRowOrder ==
    ASSUME ~IoMayFail
    PROVE  RowOrder /\ [Next]_vars => RowOrder'
<1> SUFFICES ASSUME RowOrder, [Next]_vars PROVE RowOrder'
    OBVIOUS
<1> USE DEF RowOrder, TempHasRow, table, disk, folder, finish, removal
<1>1. CASE CreateTemp \/ CreateRow \/ CreateRowFails
    BY <1>1 DEF CreateTemp, CreateRow, CreateRowFails
<1>2. ASSUME NEW r \in Puts, Put(r) PROVE RowOrder'
    BY <1>2 DEF Put, PutLookup, PutOpen, PutOpenFails, PutBlock, PutWriteFails, PutRecord, PutFlush, PutFlushGone,
         PutFlushFails
<1>3. CASE Complete
    <2>1. CASE (\E ow, ren \in BOOLEAN : CompleteAsk(ow, ren)) \/ (\E s \in Blocks : ScanChunk(s))
                 \/ (\E n \in Names : DecideRename(n))
        BY <2>1 DEF CompleteAsk, ScanChunk, DecideRename
    <2>2. CASE CompleteGone \/ CompleteFlushFails \/ CompleteTurnedAway \/ CompleteBegin
        BY <2>2 DEF CompleteGone, CompleteFlushFails, CompleteTurnedAway, CompleteBegin
    <2>3. CASE CompleteShort \/ ScanGap \/ HashDiffers \/ DecideDenied \/ DecideClash
        BY <2>3 DEF CompleteShort, ScanGap, HashDiffers, DecideDenied, DecideClash, SetError
    <2>4. CASE SyncFile \/ SyncFails \/ DecideInPlace \/ InstallOver \/ Install \/ InstallLinked \/ InstallLooks
                 \/ InstallPlain
             \/ InstallFails
        BY <2>4 DEF SyncFile, SyncFails, DecideInPlace, InstallOver, Install, InstallLinked, InstallLooks,
             InstallPlain, Landed, Has, InstallFails
    <2>5. CASE CompleteDropRow \/ CompleteDropChunks \/ CompleteDropFails
        BY <2>5 DEF CompleteDropRow, CompleteDropChunks, CompleteDropFails
    <2> QED BY <1>3, <2>1, <2>2, <2>3, <2>4, <2>5 DEF Complete
<1>4. CASE Cancel \/ SweepOrphans
    BY <1>4 DEF Cancel, CancelAsk, CancelGone, CancelUnlink, CancelDropRow, CancelDropChunks, CancelDropFails,
         SweepOrphans, SweepUnlink, SweepDropRow, SweepDropChunks, Unlink, Locked
<1>5. CASE (\E n \in Names : OthersSave(n)) \/ OthersTrashFolder \/ RevokeUpload \/ RevokeEdit \/ Restart
    BY <1>5 DEF OthersSave, OthersTrashFolder, RevokeUpload, RevokeEdit, Restart, Locked
<1>6. CASE UNCHANGED vars
    BY <1>6 DEF vars
<1> QED BY <1>1, <1>2, <1>3, <1>4, <1>5, <1>6 DEF Next

\* However lunad is stopped between two steps of complete, cancel or the sweep,
\* and whatever statement fails, a session whose row is gone has no temp file.
THEOREM NoTempOutlivesItsRow ==
    ASSUME ~IoMayFail
    PROVE  Spec => []TempHasRow
<1>1. Init => RowOrder
    BY DEF Init, RowOrder, TempHasRow
<1>2. RowOrder /\ [Next]_vars => RowOrder'
    BY NextRowOrder
<1>3. RowOrder => TempHasRow
    BY DEF RowOrder
<1> QED BY <1>1, <1>2, <1>3, PTL DEF Spec

-----------------------------------------------------------------------------
(* No chunk rows without a session.  Rows are only added while the session's *)
(* row is there, and the two deletes happen under one hold of the lock.      *)

\* Every step keeps it, if no statement fails between the two deletes.
LEMMA NextNoOrphans ==
    ASSUME ~DbMayFail
    PROVE  TypeInv /\ NoOrphanChunks /\ [Next]_vars => NoOrphanChunks'
<1> SUFFICES ASSUME TypeOK, NoOrphanChunks, [Next]_vars PROVE NoOrphanChunks'
    BY DEF TypeInv
<1> USE ~DbMayFail DEF NoOrphanChunks, table, finish, removal
<1>1. CASE CreateTemp \/ CreateRow \/ CreateRowFails
    BY <1>1 DEF CreateTemp, CreateRow, CreateRowFails
<1>2. ASSUME NEW r \in Puts, Put(r) PROVE NoOrphanChunks'
    BY <1>2 DEF Put, PutLookup, PutOpen, PutOpenFails, PutBlock, PutWriteFails, PutRecord, PutFlush, PutFlushGone,
         PutFlushFails
<1>3. CASE Complete
    <2>1. CASE (\E ow, ren \in BOOLEAN : CompleteAsk(ow, ren)) \/ (\E s \in Blocks : ScanChunk(s))
                 \/ (\E n \in Names : DecideRename(n))
        BY <2>1 DEF CompleteAsk, ScanChunk, DecideRename
    <2>2. CASE CompleteGone \/ CompleteFlushFails \/ CompleteTurnedAway \/ CompleteBegin
        BY <2>2 DEF CompleteGone, CompleteFlushFails, CompleteTurnedAway, CompleteBegin
    <2>3. CASE CompleteShort \/ ScanGap \/ HashDiffers \/ DecideDenied \/ DecideClash
        BY <2>3 DEF CompleteShort, ScanGap, HashDiffers, DecideDenied, DecideClash, SetError
    <2>4. CASE SyncFile \/ SyncFails \/ DecideInPlace \/ InstallOver \/ Install \/ InstallLinked \/ InstallLooks
                 \/ InstallPlain
             \/ InstallFails
        BY <2>4 DEF SyncFile, SyncFails, DecideInPlace, InstallOver, Install, InstallLinked, InstallLooks,
             InstallPlain, Landed, Has, InstallFails
    <2>5. CASE CompleteDropRow \/ CompleteDropChunks \/ CompleteDropFails
        BY <2>5 DEF CompleteDropRow, CompleteDropChunks, CompleteDropFails
    <2> QED BY <1>3, <2>1, <2>2, <2>3, <2>4, <2>5 DEF Complete
<1>4. CASE Cancel \/ SweepOrphans
    BY <1>4 DEF Cancel, CancelAsk, CancelGone, CancelUnlink, CancelDropRow, CancelDropChunks, CancelDropFails,
         SweepOrphans, SweepUnlink, SweepDropRow, SweepDropChunks
<1>5. CASE (\E n \in Names : OthersSave(n)) \/ OthersTrashFolder \/ RevokeUpload \/ RevokeEdit
    BY <1>5 DEF OthersSave, OthersTrashFolder, RevokeUpload, RevokeEdit
<1>6. CASE Restart
    BY <1>6 DEF Restart, TypeOK
<1>7. CASE UNCHANGED vars
    BY <1>7 DEF vars
<1> QED BY <1>1, <1>2, <1>3, <1>4, <1>5, <1>6, <1>7 DEF Next

\* A chunk that lands while its session is completed, cancelled or swept brings
\* no chunk row back: until lunad is restarted, a session that is gone has none.
THEOREM NoChunksWithoutSession ==
    ASSUME ~DbMayFail
    PROVE  Spec => []NoOrphanChunks
<1>1. Init => TypeInv /\ NoOrphanChunks
    BY InitTypeInv DEF Init, NoOrphanChunks
<1>2. TypeInv /\ NoOrphanChunks /\ [Next]_vars => TypeInv' /\ NoOrphanChunks'
    BY NextTypeInv, NextNoOrphans
<1> QED BY <1>1, <1>2, PTL DEF Spec

-----------------------------------------------------------------------------
(* What was acknowledged stays on record.                                    *)

\* Clients send one length per start: upsert_upload_chunk keeps one end.
OneEndPerStart == \A g, h \in Ranges : g[1] = h[1] => g[2] = h[2]

\* The database lock is held by one at a time, and whoever holds it has found
\* the session's row.
LockInv ==
    /\ made \in {"no", "temp"} =>
          row = "none" /\ comp = "idle" /\ canc = "idle" /\ sweep = "idle" /\ \A r \in Puts : stage[r] = "idle"
    /\ canc \in {"unlinked", "rowgone"} => comp \in {"idle", "asked"}
    /\ sweep # "idle" => comp \in {"idle", "asked"} /\ canc \in {"idle", "cleared"}
    /\ comp \in {"scan", "checked", "decided", "looked", "installed"} => row # "none"
    /\ comp = "rowgone" \/ canc = "rowgone" \/ (sweep = "rowgone" /\ ~DbMayFail) => row = "none"

\* A request's range is on record under its start, to its very end.
Recorded(r) == range[r][2] \in {chunks[range[r][1]], pending[range[r][1]]}

AckInv ==
    /\ \A s \in Blocks : pending[s] # 0 => \E g \in Ranges : g[1] = s /\ g[2] = pending[s]
    /\ \A r \in Puts : stage[r] = "acked" => range[r] \in Ranges
    /\ restarts = 0 /\ row # "none" /\ canc = "idle" =>
          \A r \in Puts : stage[r] \in {"flushing", "acked"} => Recorded(r)

\* Each step keeps the lock's discipline.
LEMMA NextLockInv == TypeInv /\ LockInv /\ [Next]_vars => LockInv'
<1> SUFFICES ASSUME TypeOK, LockInv, [Next]_vars PROVE LockInv'
    BY DEF TypeInv
<1> USE DEF LockInv, Locked, table, finish, puts, removal
<1>1. CASE CreateTemp \/ CreateRow \/ CreateRowFails
    BY <1>1 DEF CreateTemp, CreateRow, CreateRowFails
<1>2. ASSUME NEW r \in Puts, Put(r) PROVE LockInv'
    <2>1. made \notin {"no", "temp"}
        BY <1>2 DEF Put, PutLookup, PutOpen, PutOpenFails, PutBlock, PutWriteFails, PutRecord, PutFlush, PutFlushGone,
             PutFlushFails
    <2>2. made' = made /\ row' = row /\ comp' = comp /\ canc' = canc /\ sweep' = sweep
        BY <1>2 DEF Put, PutLookup, PutOpen, PutOpenFails, PutBlock, PutWriteFails, PutRecord, PutFlush, PutFlushGone,
             PutFlushFails
    <2> QED BY <2>1, <2>2
<1>3. CASE Complete
    <2>1. CASE (\E ow, ren \in BOOLEAN : CompleteAsk(ow, ren)) \/ (\E s \in Blocks : ScanChunk(s))
                 \/ (\E n \in Names : DecideRename(n))
        BY <2>1 DEF CompleteAsk, ScanChunk, DecideRename
    <2>2. CASE CompleteGone \/ CompleteFlushFails \/ CompleteTurnedAway \/ CompleteBegin
        BY <2>2 DEF CompleteGone, CompleteFlushFails, CompleteTurnedAway, CompleteBegin
    <2>3. CASE CompleteShort \/ ScanGap \/ HashDiffers \/ DecideDenied \/ DecideClash
        BY <2>3 DEF CompleteShort, ScanGap, HashDiffers, DecideDenied, DecideClash, SetError
    <2>4. CASE SyncFile \/ SyncFails \/ DecideInPlace \/ InstallOver \/ Install \/ InstallLinked \/ InstallLooks
                 \/ InstallPlain
             \/ InstallFails
        BY <2>4 DEF SyncFile, SyncFails, DecideInPlace, InstallOver, Install, InstallLinked, InstallLooks,
             InstallPlain, Landed, Has, InstallFails
    <2>5. CASE CompleteDropRow \/ CompleteDropChunks \/ CompleteDropFails
        BY <2>5 DEF CompleteDropRow, CompleteDropChunks, CompleteDropFails
    <2> QED BY <1>3, <2>1, <2>2, <2>3, <2>4, <2>5 DEF Complete
<1>4. CASE Cancel
    BY <1>4 DEF Cancel, CancelAsk, CancelGone, CancelUnlink, CancelDropRow, CancelDropChunks, CancelDropFails, TypeOK
<1>5. CASE SweepOrphans
    BY <1>5 DEF SweepOrphans, SweepUnlink, SweepDropRow, SweepDropChunks, TypeOK
<1>6. CASE (\E n \in Names : OthersSave(n)) \/ OthersTrashFolder \/ RevokeUpload \/ RevokeEdit
    BY <1>6 DEF OthersSave, OthersTrashFolder, RevokeUpload, RevokeEdit
<1>7. CASE Restart
    BY <1>7 DEF Restart, TypeOK
<1>8. CASE UNCHANGED vars
    BY <1>8 DEF vars
<1> QED BY <1>1, <1>2, <1>3, <1>4, <1>5, <1>6, <1>7, <1>8 DEF Next

\* A flush keeps every range that is on record there: a pending range with the
\* same start has the same end.
LEMMA FlushKeepsRecord ==
    ASSUME OneEndPerStart, TypeOK, AckInv, FlushPending, NEW r \in Puts, range[r] \in Ranges, Recorded(r), range' = range
    PROVE  Recorded(r)'
<1> DEFINE s == range[r][1]
           e == range[r][2]
<1>1. s \in Blocks /\ e # 0
    BY RangeFacts, ConstantsAssumption
<1>2. chunks'[s] = IF pending[s] # 0 THEN pending[s] ELSE chunks[s]
    BY <1>1 DEF FlushPending, Upserted
<1>3. pending[s] # 0 => pending[s] = e
    BY <1>1 DEF AckInv, OneEndPerStart
<1> QED BY <1>1, <1>2, <1>3 DEF Recorded

\* The steps of requests keep the record.
LEMMA PutAck ==
    ASSUME ~DbMayFail, OneEndPerStart, TypeInv, LockInv, AckInv, NEW r \in Puts, Put(r)
    PROVE  AckInv'
<1> USE DEF TypeInv
<1>1. CASE \E g \in Ranges : PutLookup(r, g)
    <2>1. UNCHANGED <<pending, table, canc, restarts>>
        BY <1>1 DEF PutLookup, removal
    <2>2. \A q \in Puts : stage'[q] \in {"flushing", "acked"} => stage'[q] = stage[q] /\ range'[q] = range[q]
        BY <1>1 DEF PutLookup, SetStage, TypeOK
    <2> QED BY <2>1, <2>2 DEF AckInv, Recorded, table, removal
<1>2. CASE PutOpen(r) \/ PutOpenFails(r) \/ PutBlock(r) \/ PutWriteFails(r) \/ PutFlushGone(r)
    <2>1. UNCHANGED <<pending, table, canc, restarts, range>>
        BY <1>2 DEF PutOpen, PutOpenFails, PutBlock, PutWriteFails, PutFlushGone, removal
    <2>2. \A q \in Puts : stage'[q] \in {"flushing", "acked"} => stage'[q] = stage[q]
        BY <1>2 DEF PutOpen, PutOpenFails, PutBlock, PutWriteFails, PutFlushGone, SetStage, TypeOK
    <2> QED BY <2>1, <2>2 DEF AckInv, Recorded, table, removal
<1>3. CASE \E next \in {"flushing", "acked"} : PutRecord(r, next)
    <2> PICK next \in {"flushing", "acked"} : PutRecord(r, next)
        BY <1>3
    <2>1. range[r] \in Ranges
        BY DEF PutTyped, AtWork, PutRecord
    <2>2. range[r][1] \in Blocks
        BY <2>1, RangeFacts
    <2>3. UNCHANGED <<table, canc, restarts, range>> /\ pending' = [pending EXCEPT ![range[r][1]] = range[r][2]]
          /\ stage' = [stage EXCEPT ![r] = next]
        BY DEF PutRecord, SetStage, removal
    <2>4. \A s \in Blocks : pending'[s] # 0 => \E g \in Ranges : g[1] = s /\ g[2] = pending'[s]
        BY <2>1, <2>2, <2>3 DEF AckInv, TypeOK
    <2>5. \A q \in Puts : stage'[q] = "acked" => range'[q] \in Ranges
        BY <2>1, <2>3 DEF AckInv, TypeOK
    <2>6. ASSUME restarts' = 0, row' # "none", canc' = "idle", NEW q \in Puts, stage'[q] \in {"flushing", "acked"}
          PROVE  Recorded(q)'
        <3>1. CASE q = r
            BY <2>2, <2>3, <3>1 DEF Recorded, TypeOK
        <3>2. CASE q # r
            <4>1. Recorded(q) /\ stage[q] \in {"flushing", "acked"}
                BY <2>3, <2>6, <3>2 DEF AckInv, TypeOK, table, removal
            <4>2. range[q] \in Ranges
                BY <4>1 DEF AckInv, PutTyped, AtWork
            <4>3. range[q][1] = range[r][1] => range[q][2] = range[r][2]
                BY <2>1, <4>2 DEF OneEndPerStart
            <4>4. range[q][1] \in Blocks
                BY <4>2, RangeFacts
            <4> QED BY <2>2, <2>3, <4>1, <4>3, <4>4 DEF Recorded, TypeOK, table, removal
        <3> QED BY <3>1, <3>2
    <2> QED BY <2>4, <2>5, <2>6 DEF AckInv
<1>4. CASE PutFlush(r)
    <2>1. FlushPending /\ UNCHANGED <<row, canc, restarts, range>> /\ stage' = [stage EXCEPT ![r] = "acked"]
          /\ stage[r] = "flushing"
        BY <1>4 DEF PutFlush, SetStage, removal
    <2>2. \A s \in Blocks : pending'[s] = 0
        BY <2>1 DEF FlushPending, NoChunks
    <2>3. \A q \in Puts : stage'[q] \in {"flushing", "acked"} => range[q] \in Ranges /\ stage[q] \in {"flushing", "acked"}
        BY <2>1 DEF AckInv, PutTyped, AtWork, TypeOK
    <2>4. ASSUME restarts' = 0, row' # "none", canc' = "idle", NEW q \in Puts, stage'[q] \in {"flushing", "acked"}
          PROVE  Recorded(q)'
        BY <2>1, <2>3, <2>4, FlushKeepsRecord DEF AckInv
    <2> QED BY <2>1, <2>2, <2>3, <2>4 DEF AckInv
<1> QED BY <1>1, <1>2, <1>3, <1>4 DEF Put, PutFlushFails

\* Every step keeps the record, as long as no statement fails.
LEMMA NextAckInv ==
    ASSUME ~DbMayFail, OneEndPerStart
    PROVE  TypeInv /\ LockInv /\ AckInv /\ [Next]_vars => AckInv'
<1> SUFFICES ASSUME TypeInv, LockInv, AckInv, [Next]_vars PROVE AckInv'
    OBVIOUS
<1>1. ASSUME NEW r \in Puts, Put(r) PROVE AckInv'
    BY <1>1, PutAck
<1>2. CASE CreateTemp \/ CreateRow
    BY <1>2 DEF CreateTemp, CreateRow, LockInv, AckInv, Recorded, table, puts, removal
<1>3. CASE CompleteTurnedAway \/ CompleteShort \/ CompleteBegin
    <2>1. FlushPending /\ UNCHANGED <<canc, restarts, stage, range>> /\ row # "none"
        BY <1>3 DEF CompleteTurnedAway, CompleteShort, CompleteBegin, puts, removal
    <2>2. \A s \in Blocks : pending'[s] = 0
        BY <2>1 DEF FlushPending, NoChunks
    <2>3. \A q \in Puts : stage[q] \in {"flushing", "acked"} => range[q] \in Ranges
        BY DEF AckInv, TypeInv, PutTyped, AtWork
    <2>4. ASSUME restarts' = 0, canc' = "idle", NEW q \in Puts, stage'[q] \in {"flushing", "acked"}
          PROVE  Recorded(q)'
        BY <2>1, <2>3, <2>4, FlushKeepsRecord DEF AckInv, TypeInv
    <2> QED BY <2>1, <2>2, <2>3, <2>4 DEF AckInv
<1>4. CASE (\E ow, ren \in BOOLEAN : CompleteAsk(ow, ren)) \/ CompleteGone \/ (\E s \in Blocks : ScanChunk(s))
             \/ SyncFile \/ SyncFails \/ DecideInPlace \/ (\E n \in Names : DecideRename(n))
             \/ InstallOver \/ Install \/ InstallLinked \/ InstallLooks \/ InstallPlain
             \/ InstallFails
    <2>1. UNCHANGED <<row, chunks, pending, canc, restarts, stage, range>>
        BY <1>4 DEF CompleteAsk, CompleteGone, ScanChunk, SyncFile, SyncFails, DecideInPlace, DecideRename, Install,
             InstallOver, InstallLinked, InstallLooks, InstallPlain, Landed, Has, InstallFails, table, puts, removal
    <2> QED BY <2>1 DEF AckInv, Recorded
<1>5. CASE ScanGap \/ HashDiffers \/ DecideDenied \/ DecideClash
    <2>1. UNCHANGED <<chunks, pending, canc, restarts, stage, range>> /\ row # "none"
        BY <1>5 DEF ScanGap, HashDiffers, DecideDenied, DecideClash, LockInv, puts, removal
    <2> QED BY <2>1 DEF AckInv, Recorded
<1>6. CASE CompleteDropRow \/ CompleteDropChunks
    <2>1. row' = "none" /\ UNCHANGED <<pending, stage, range>>
        BY <1>6 DEF CompleteDropRow, CompleteDropChunks, LockInv, puts, removal
    <2> QED BY <2>1 DEF AckInv
<1>7. CASE Cancel
    <2>1. UNCHANGED <<stage, range>> /\ \A s \in Blocks : pending'[s] \in {0, pending[s]}
        BY <1>7 DEF Cancel, CancelAsk, CancelGone, CancelUnlink, CancelDropRow, CancelDropChunks, CancelDropFails,
             puts,
             NoChunks
    <2>2. canc' # "idle" \/ row' = "none"
        BY <1>7 DEF Cancel, CancelAsk, CancelGone, CancelUnlink, CancelDropRow, CancelDropChunks, CancelDropFails,
             LockInv, table, removal
    <2> QED BY <2>1, <2>2 DEF AckInv
<1>8. CASE SweepOrphans
    BY <1>8 DEF SweepOrphans, SweepUnlink, SweepDropRow, SweepDropChunks, LockInv, AckInv, Recorded, table, puts,
         removal
<1>9. CASE (\E n \in Names : OthersSave(n)) \/ OthersTrashFolder \/ RevokeUpload \/ RevokeEdit \/ UNCHANGED vars
    <2>1. UNCHANGED <<row, chunks, pending, canc, restarts, stage, range>>
        BY <1>9 DEF OthersSave, OthersTrashFolder, RevokeUpload, RevokeEdit, vars, table, puts, removal
    <2> QED BY <2>1 DEF AckInv, Recorded
<1>10. CASE Restart
    <2>1. restarts' # 0 /\ range' = range /\ \A s \in Blocks : pending'[s] = 0
        BY <1>10 DEF Restart, NoChunks, TypeInv, TypeOK
    <2>2. \A r \in Puts : stage'[r] = "acked" => stage[r] = "acked"
        BY <1>10 DEF Restart
    <2> QED BY <2>1, <2>2 DEF AckInv
<1> QED BY <1>1, <1>2, <1>3, <1>4, <1>5, <1>6, <1>7, <1>8, <1>9, <1>10
    DEF Next, Complete, CreateRowFails, CompleteFlushFails, CompleteDropFails

\* A range the client was told has arrived stays on record, whatever is
\* recorded, flushed, completed or swept at the same time, until a restart or
\* a cancel; for clients that send one length per start.
THEOREM AcknowledgedStaysCovered ==
    ASSUME ~DbMayFail, OneEndPerStart
    PROVE  Spec => []AckedIsCovered
<1>1. Init => TypeInv /\ LockInv /\ AckInv
    BY InitTypeInv DEF Init, LockInv, AckInv, NoChunks
<1>2. TypeInv /\ LockInv /\ AckInv /\ [Next]_vars => TypeInv' /\ LockInv' /\ AckInv'
    BY NextTypeInv, NextLockInv, NextAckInv
<1>3. AckInv => AckedIsCovered
    <2> SUFFICES ASSUME AckInv, restarts = 0, row # "none", canc = "idle", NEW r \in Puts, stage[r] = "acked",
                        NEW b \in range[r][1] .. range[r][2] - 1
                 PROVE  Covers(b)
        BY DEF AckedIsCovered
    <2>1. range[r] \in Ranges /\ Recorded(r)
        BY DEF AckInv
    <2>2. range[r][1] \in Blocks /\ range[r][1] \in Int /\ range[r][2] \in Int
        BY <2>1, RangeFacts
    <2>3. range[r][1] <= b /\ b < range[r][2]
        BY <2>2
    <2> QED BY <2>1, <2>2, <2>3 DEF Covers, Recorded
<1> QED BY <1>1, <1>2, <1>3, PTL DEF Spec
=============================================================================
