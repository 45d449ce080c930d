---------------------------- MODULE LunaUploads ----------------------------
(***************************************************************************)
(* One resumable upload session of lunad (crates/lunad/src/files/uploads.rs *)
(* and its callers api/uploads.rs and api/access/access_public.rs): PUT     *)
(* requests write byte ranges of a temp file in any order and at the same   *)
(* time, the ranges are noted in memory and now and then flushed to the     *)
(* drive's database, and `complete` installs the file when the recorded     *)
(* ranges cover it.  Around it: cancel, the orphan sweep, revoked grants,   *)
(* other people at the destination, failing disks, restarts, power loss.    *)
(*                                                                          *)
(* The file is Size blocks; a block is written or a hole, since clients     *)
(* send the same bytes for a block whenever they send it.  `received` only  *)
(* decides when to flush and what the progress bar says, so a flush is a    *)
(* free choice here.  create, complete, cancel and the sweep hold the       *)
(* database lock from first to last step; chunk writes do not hold it.      *)
(***************************************************************************)
EXTENDS Integers

CONSTANTS
    Size,           \* the promised size, in blocks
    Puts,           \* PUT requests that may arrive
    Ranges,         \* the byte ranges <<start, end>> clients send, end exclusive
    MaxName,        \* bound: names 0 (the one asked for) .. MaxName ("name (n)")
    MaxRestarts,    \* bound: restarts of lunad in a run
    Principals,     \* who may open the session: "user" and/or "link"
    HashSent,       \* does the client send a hash with complete?
    IoMayFail,      \* may a file system call fail?
    DbMayFail,      \* may a statement on the drive's database fail?
    MayLosePower    \* may a restart lose what was not synced?

ASSUME ConstantsAssumption ==
    /\ Size \in Nat
    /\ Ranges \subseteq {g \in (0 .. Size) \X (0 .. Size) : g[1] < g[2]}
    /\ MaxName \in Nat
    /\ MaxRestarts \in Nat
    /\ Principals \subseteq {"user", "link"}
    /\ {HashSent, IoMayFail, DbMayFail, MayLosePower} \subseteq BOOLEAN

Blocks == 0 .. Size - 1
Names == 0 .. MaxName
NoChunks == [s \in Blocks |-> 0]

VARIABLES
    principal,      \* UploadRow.principal: user or link
    canUpload, canEdit,  \* what has_cap, or the link's caps, answer now
    made,           \* create_scoped: no, temp (file made), open (row made), failed
    row,            \* uploads table: state, "none" when there is no row
    name,           \* uploads table: name
    chunks,         \* upload_chunks: chunks[start] = end, 0 when there is no row
    pending,        \* PendingProgress.chunks: pending[start] = end, the last one sent
    place,          \* where the session's file is: none, temp, dest, gone
    file, synced,   \* its blocks that are written, and that survive a power cut
    theirs,         \* destination names at which somebody else has a file
    linked,         \* ... and at which an install left a link to the temp file
    noReplace,      \* how the drive can install without replacing: "untried", or
                    \* "rename" (RENAME_NOREPLACE), "link", "look" (and rename)
    stage, range, pos,   \* each PUT: how far, its range, next block to write
    comp,           \* where complete is
    ask,            \* its overwrite and rename_on_conflict
    covered, cursor,     \* upload_fully_covered: covered_end, and the loop's place
    may,            \* its may_overwrite
    canc, sweep,    \* where cancel is, and sweep_orphans
    restarts

access == <<principal, canUpload, canEdit>>
table == <<row, name, chunks>>
folder == <<theirs, linked, noReplace>>
disk == <<place, file, synced, folder>>
puts == <<stage, range, pos>>
finish == <<comp, ask, covered, cursor, may>>
removal == <<canc, sweep>>
vars == <<access, made, table, pending, disk, puts, finish, removal, restarts>>

Init ==
    /\ principal \in Principals
    /\ canUpload = TRUE
    /\ canEdit \in BOOLEAN
    /\ made = "no"
    /\ row = "none" /\ name = 0 /\ chunks = NoChunks
    /\ pending = NoChunks
    /\ place = "none" /\ file = {} /\ synced = {}
    /\ theirs \in {{}, {0}} /\ linked = {} /\ noReplace = "untried"
    /\ stage = [r \in Puts |-> "idle"]
    /\ range = [r \in Puts |-> <<0, 0>>]
    /\ pos = [r \in Puts |-> 0]
    /\ comp = "idle"
    /\ ask = [overwrite |-> FALSE, rename |-> FALSE]
    /\ covered = 0 /\ cursor = 0
    /\ may = FALSE
    /\ canc = "idle" /\ sweep = "idle"
    /\ restarts = 0

\* Somebody is between two steps of a hold of the database lock.
Locked ==
    \/ made = "temp"
    \/ comp \in {"scan", "checked", "decided", "looked", "installed", "rowgone"}
    \/ canc \in {"unlinked", "rowgone"}
    \/ sweep # "idle"

-----------------------------------------------------------------------------
(* create_scoped                                                             *)

CreateTemp ==
    /\ made = "no"
    /\ canUpload
    /\ made' = "temp"
    /\ place' = "temp"
    /\ UNCHANGED <<access, table, pending, file, synced, folder, puts, finish, removal, restarts>>

CreateRow ==
    /\ made = "temp"
    /\ made' = "open"
    /\ row' = "active"
    /\ UNCHANGED <<access, name, chunks, pending, disk, puts, finish, removal, restarts>>

\* insert_upload fails: the error is returned, the file stays.
CreateRowFails ==
    /\ made = "temp"
    /\ DbMayFail
    /\ made' = "failed"
    /\ UNCHANGED <<access, table, pending, disk, puts, finish, removal, restarts>>

-----------------------------------------------------------------------------
(* write_chunk                                                               *)

SetStage(r, s) == stage' = [stage EXCEPT ![r] = s]

\* check_upload_access and the session lookup: two holds of the lock that only
\* read, taken as one.
PutLookup(r, g) ==
    /\ stage[r] = "idle"
    /\ ~Locked
    /\ canUpload
    /\ row = "active"
    /\ SetStage(r, "found")
    /\ range' = [range EXCEPT ![r] = g]
    /\ UNCHANGED <<access, made, table, pending, disk, pos, finish, removal, restarts>>

\* The temp file is opened by its path, with no lock held.
PutOpen(r) ==
    /\ stage[r] = "found"
    /\ place = "temp"
    /\ SetStage(r, "writing")
    /\ pos' = [pos EXCEPT ![r] = range[r][1]]
    /\ UNCHANGED <<access, made, table, pending, disk, range, finish, removal, restarts>>

PutOpenFails(r) ==
    /\ stage[r] = "found"
    /\ place # "temp" \/ IoMayFail
    /\ SetStage(r, "failed")
    /\ UNCHANGED <<access, made, table, pending, disk, range, pos, finish, removal, restarts>>

PutBlockPastEnd(r) ==
    /\ stage[r] = "writing"
    /\ file' = file \cup {pos[r]}
    /\ pos' = [pos EXCEPT ![r] = pos[r] + 1]
    /\ SetStage(r, IF pos[r] = range[r][2] THEN "written" ELSE "writing")
    /\ UNCHANGED <<access, made, table, pending, place, synced, folder, range, finish, removal, restarts>>

\* An open descriptor writes into the file wherever it is by now.
PutBlock(r) ==
    /\ stage[r] = "writing"
    /\ file' = file \cup {pos[r]}
    /\ pos' = [pos EXCEPT ![r] = pos[r] + 1]
    /\ SetStage(r, IF pos[r] + 1 = range[r][2] THEN "written" ELSE "writing")
    /\ UNCHANGED <<access, made, table, pending, place, synced, folder, range, finish, removal, restarts>>

PutWriteFails(r) ==
    /\ stage[r] = "writing"
    /\ IoMayFail
    /\ SetStage(r, "failed")
    /\ UNCHANGED <<access, made, table, pending, disk, range, pos, finish, removal, restarts>>

PutRecordReplacing(r, next) ==
    /\ stage[r] = "written"
    /\ pending' = [NoChunks EXCEPT ![range[r][1]] = range[r][2]]
    /\ SetStage(r, next)
    /\ UNCHANGED <<access, made, table, disk, range, pos, finish, removal, restarts>>

\* The range joins the pending ones, under the map's lock alone; should_flush
\* decides whether the request answers now ("acked") or flushes first.
PutRecord(r, next) ==
    /\ stage[r] = "written"
    /\ pending' = [pending EXCEPT ![range[r][1]] = range[r][2]]
    /\ SetStage(r, next)
    /\ UNCHANGED <<access, made, table, disk, range, pos, finish, removal, restarts>>

\* upsert_upload_chunk of every pending range, in order: one row per start, so
\* of two ranges with one start the later replaces the earlier.
Upserted(c, p) == [s \in Blocks |-> IF p[s] # 0 THEN p[s] ELSE c[s]]

\* flush_pending: the entry leaves the map first, then one transaction.
FlushPending ==
    /\ pending' = NoChunks
    /\ chunks' = Upserted(chunks, pending)

PutFlushUnfound(r) ==
    /\ stage[r] = "flushing"
    /\ ~Locked
    /\ FlushPending
    /\ SetStage(r, "acked")
    /\ UNCHANGED <<access, made, row, name, disk, range, pos, finish, removal, restarts>>

PutFlush(r) ==
    /\ stage[r] = "flushing"
    /\ ~Locked
    /\ row # "none"
    /\ FlushPending
    /\ SetStage(r, "acked")
    /\ UNCHANGED <<access, made, row, name, disk, range, pos, finish, removal, restarts>>

\* find_upload no longer knows the session: the entry stays in the map.
PutFlushGone(r) ==
    /\ stage[r] = "flushing"
    /\ ~Locked
    /\ row = "none"
    /\ SetStage(r, "failed")
    /\ UNCHANGED <<access, made, table, pending, disk, range, pos, finish, removal, restarts>>

\* The transaction fails: every pending range is dropped.
PutFlushFails(r) ==
    /\ stage[r] = "flushing"
    /\ ~Locked
    /\ row # "none"
    /\ DbMayFail
    /\ pending' = NoChunks
    /\ SetStage(r, "failed")
    /\ UNCHANGED <<access, made, table, disk, range, pos, finish, removal, restarts>>

Put(r) ==
    \/ \E g \in Ranges : PutLookup(r, g)
    \/ PutOpen(r) \/ PutOpenFails(r) \/ PutBlock(r) \/ PutWriteFails(r)
    \/ \E next \in {"flushing", "acked"} : PutRecord(r, next)
    \/ PutFlush(r) \/ PutFlushGone(r) \/ PutFlushFails(r)

-----------------------------------------------------------------------------
(* complete                                                                  *)

Taken(n) == n \in theirs \cup linked

\* set_upload_state(.., "error", ..); a failure of it is the caller's answer.
SetError == row' = "error" \/ (DbMayFail /\ row' = row)

\* The API layer.  A member who asks to overwrite a file that is there must
\* hold EDIT on it; a link's overwrite counts only with EDIT in its caps.
CompleteAsk(ow, ren) ==
    /\ comp = "idle"
    /\ ~Locked
    /\ row # "none"
    /\ canUpload
    /\ principal = "user" => ~(ow /\ ren) /\ (ow /\ Taken(name) => canEdit)
    /\ principal = "link" /\ ow => canEdit
    /\ comp' = "asked"
    /\ ask' = [overwrite |-> ow, rename |-> ren]
    /\ UNCHANGED <<access, made, table, pending, disk, puts, covered, cursor, may, removal, restarts>>

\* complete() takes the lock and does not find the session.
CompleteGone ==
    /\ comp = "asked"
    /\ ~Locked
    /\ row = "none"
    /\ comp' = "idle"
    /\ UNCHANGED <<access, made, table, pending, disk, puts, ask, covered, cursor, may, removal, restarts>>

CompleteFlushFails ==
    /\ comp = "asked"
    /\ ~Locked
    /\ row # "none"
    /\ DbMayFail
    /\ pending' = NoChunks
    /\ comp' = "idle"
    /\ UNCHANGED <<access, made, table, disk, puts, ask, covered, cursor, may, removal, restarts>>

\* Pending ranges are flushed; then the session is not active, or its file is
\* not where it should be.
CompleteTurnedAway ==
    /\ comp = "asked"
    /\ ~Locked
    /\ row # "none"
    /\ FlushPending
    /\ row # "active" \/ place # "temp"
    /\ comp' = "idle"
    /\ UNCHANGED <<access, made, row, name, disk, puts, ask, covered, cursor, may, removal, restarts>>

\* metadata().len() of a sparse file: one past its last written block.
FullLength == Size = 0 \/ Size - 1 \in file

CompleteShort ==
    /\ comp = "asked"
    /\ ~Locked
    /\ row = "active" /\ place = "temp"
    /\ ~FullLength
    /\ FlushPending
    /\ SetError
    /\ comp' = "idle"
    /\ UNCHANGED <<access, made, name, disk, puts, ask, covered, cursor, may, removal, restarts>>

CompleteBegin ==
    /\ comp = "asked"
    /\ ~Locked
    /\ row = "active" /\ place = "temp"
    /\ FullLength
    /\ FlushPending
    /\ comp' = "scan"
    /\ covered' = 0
    /\ cursor' = 0
    /\ UNCHANGED <<access, made, row, name, disk, puts, ask, may, removal, restarts>>

\* upload_fully_covered: the rows in order of start, one per turn of its loop.
RowsLeft == {s \in Blocks : s >= cursor /\ chunks[s] # 0}
IsNextRow(s) == s \in RowsLeft /\ \A t \in RowsLeft : s <= t

ScanChunkSkippingGaps(s) ==
    /\ comp = "scan"
    /\ covered < Size
    /\ IsNextRow(s)
    /\ covered' = IF chunks[s] > covered THEN chunks[s] ELSE covered
    /\ cursor' = s + 1
    /\ UNCHANGED <<access, made, table, pending, disk, puts, comp, ask, may, removal, restarts>>

ScanChunk(s) ==
    /\ comp = "scan"
    /\ covered < Size
    /\ IsNextRow(s)
    /\ s <= covered
    /\ covered' = IF chunks[s] > covered THEN chunks[s] ELSE covered
    /\ cursor' = s + 1
    /\ UNCHANGED <<access, made, table, pending, disk, puts, comp, ask, may, removal, restarts>>

ScanGap ==
    /\ comp = "scan"
    /\ covered < Size
    /\ RowsLeft = {} \/ \E s \in RowsLeft : IsNextRow(s) /\ s > covered
    /\ SetError
    /\ comp' = "idle"
    /\ UNCHANGED <<access, made, name, chunks, pending, disk, puts, ask, covered, cursor, may, removal, restarts>>

\* Everything is covered; a hash, if one was sent, must match the content.
HashDiffers ==
    /\ comp = "scan"
    /\ covered >= Size
    /\ HashSent
    /\ file # Blocks
    /\ SetError
    /\ comp' = "idle"
    /\ UNCHANGED <<access, made, name, chunks, pending, disk, puts, ask, covered, cursor, may, removal, restarts>>

SyncFileUnhashed ==
    /\ comp = "scan"
    /\ covered >= Size
    /\ synced' = file
    /\ comp' = "checked"
    /\ UNCHANGED <<access, made, table, pending, place, file, folder, puts, ask, covered, cursor, may, removal,
                   restarts>>

\* "One fsync for the whole file".
SyncFile ==
    /\ comp = "scan"
    /\ covered >= Size
    /\ HashSent => file = Blocks
    /\ synced' = file
    /\ comp' = "checked"
    /\ UNCHANGED <<access, made, table, pending, place, file, folder, puts, ask, covered, cursor, may, removal,
                   restarts>>

SyncFails ==
    /\ comp = "scan"
    /\ covered >= Size
    /\ IoMayFail
    /\ comp' = "idle"
    /\ UNCHANGED <<access, made, table, pending, disk, puts, ask, covered, cursor, may, removal, restarts>>

\* install_rights: asked again now, for the session's own principal.
MayOverwrite == principal = "user" /\ ask.overwrite /\ Taken(name) /\ canEdit

DecideDenied ==
    /\ comp = "checked"
    /\ principal = "user" /\ ~canUpload
    /\ SetError
    /\ comp' = "idle"
    /\ UNCHANGED <<access, made, name, chunks, pending, disk, puts, ask, covered, cursor, may, removal, restarts>>

DecideInPlaceByFlag ==
    /\ comp = "checked"
    /\ principal = "user" => canUpload
    /\ ~Taken(name) \/ ask.overwrite
    /\ may' = ask.overwrite
    /\ comp' = "decided"
    /\ UNCHANGED <<access, made, table, pending, disk, puts, ask, covered, cursor, removal, restarts>>

DecideInPlace ==
    /\ comp = "checked"
    /\ principal = "user" => canUpload
    /\ ~Taken(name) \/ MayOverwrite
    /\ may' = MayOverwrite
    /\ comp' = "decided"
    /\ UNCHANGED <<access, made, table, pending, disk, puts, ask, covered, cursor, removal, restarts>>

\* find_free_name, and the row takes the new name.
DecideRename(n) ==
    /\ comp = "checked"
    /\ principal = "user" => canUpload
    /\ Taken(name) /\ ~MayOverwrite
    /\ ask.rename
    /\ n > name /\ ~Taken(n) /\ \A m \in name .. n - 1 : Taken(m)
    /\ name' = n
    /\ may' = FALSE
    /\ comp' = "decided"
    /\ UNCHANGED <<access, made, row, chunks, pending, disk, puts, ask, covered, cursor, removal, restarts>>

\* A name clash: an unwarranted overwrite ends the session, else the client may
\* complete again with a decision.
DecideClash ==
    /\ comp = "checked"
    /\ principal = "user" => canUpload
    /\ Taken(name) /\ ~MayOverwrite
    /\ ~ask.rename
    /\ IF ask.overwrite THEN SetError ELSE UNCHANGED row
    /\ comp' = "idle"
    /\ UNCHANGED <<access, made, name, chunks, pending, disk, puts, ask, covered, cursor, may, removal, restarts>>

\* install_temp ends: the file has its name, and what was there has not.  Of
\* two links to one file rename(2) drops neither.
Landed ==
    /\ place' = IF name \in linked THEN place ELSE "dest"
    /\ theirs' = theirs \ {name}
    /\ comp' = "installed"
    /\ UNCHANGED <<access, made, table, pending, file, synced, linked, puts, ask, covered, cursor, may, removal,
                   restarts>>

\* The first install finds out what the file system has.
Has(means) == noReplace \in {means, "untried"} /\ noReplace' = means

InstallOver ==
    /\ comp = "decided"
    /\ may
    /\ Landed
    /\ UNCHANGED noReplace

\* install_no_overwrite: a rename or a link that never replaces.
Install ==
    /\ comp = "decided"
    /\ ~may /\ ~Taken(name)
    /\ Has("rename") \/ Has("link")
    /\ Landed

\* The link is made, but the temp file cannot be removed.
InstallLinked ==
    /\ comp = "decided"
    /\ ~may /\ ~Taken(name)
    /\ IoMayFail
    /\ Has("link")
    /\ linked' = linked \cup {name}
    /\ comp' = "idle"
    /\ UNCHANGED <<access, made, table, pending, place, file, synced, theirs, puts, ask, covered, cursor, may,
                   removal, restarts>>

\* install_by_exclusive_rename: look, then rename(2), which replaces.
InstallLooks ==
    /\ comp = "decided"
    /\ ~may /\ ~Taken(name)
    /\ Has("look")
    /\ comp' = "looked"
    /\ UNCHANGED <<access, made, table, pending, place, file, synced, theirs, linked, puts, ask, covered, cursor, may,
                   removal, restarts>>

InstallPlain ==
    /\ comp = "looked"
    /\ Landed
    /\ UNCHANGED noReplace

InstallFails ==
    /\ comp \in {"decided", "looked"}
    /\ (comp = "decided" /\ ~may /\ Taken(name)) \/ IoMayFail
    /\ comp' = "idle"
    /\ UNCHANGED <<access, made, table, pending, disk, puts, ask, covered, cursor, may, removal, restarts>>

\* delete_upload, then delete_upload_chunks: two statements.
CompleteDropRow ==
    /\ comp = "installed"
    /\ row' = "none"
    /\ comp' = "rowgone"
    /\ UNCHANGED <<access, made, name, chunks, pending, disk, puts, ask, covered, cursor, may, removal, restarts>>

CompleteDropChunks ==
    /\ comp = "rowgone"
    /\ chunks' = NoChunks
    /\ comp' = "idle"
    /\ UNCHANGED <<access, made, row, name, pending, disk, puts, ask, covered, cursor, may, removal, restarts>>

CompleteDropFails ==
    /\ comp \in {"installed", "rowgone"}
    /\ DbMayFail
    /\ comp' = "idle"
    /\ UNCHANGED <<access, made, table, pending, disk, puts, ask, covered, cursor, may, removal, restarts>>

Complete ==
    \/ \E ow, ren \in BOOLEAN : CompleteAsk(ow, ren)
    \/ CompleteGone \/ CompleteFlushFails \/ CompleteTurnedAway \/ CompleteShort \/ CompleteBegin
    \/ \E s \in Blocks : ScanChunk(s)
    \/ ScanGap \/ HashDiffers \/ SyncFile \/ SyncFails
    \/ DecideDenied \/ DecideInPlace \/ DecideClash
    \/ \E n \in Names : DecideRename(n)
    \/ InstallOver \/ Install \/ InstallLinked \/ InstallLooks \/ InstallPlain \/ InstallFails
    \/ CompleteDropRow \/ CompleteDropChunks \/ CompleteDropFails

-----------------------------------------------------------------------------
(* cancel and sweep_orphans                                                  *)

\* remove_file(temp), its failure ignored.
Unlink ==
    \/ place' = IF place = "temp" THEN "gone" ELSE place
    \/ IoMayFail /\ place' = place

\* check_upload_access, then clear_pending before the lock is taken.
CancelAsk ==
    /\ canc = "idle"
    /\ ~Locked
    /\ row # "none"
    /\ canUpload
    /\ pending' = NoChunks
    /\ canc' = "cleared"
    /\ UNCHANGED <<access, made, table, disk, puts, finish, sweep, restarts>>

CancelGone ==
    /\ canc = "cleared"
    /\ ~Locked
    /\ row = "none"
    /\ canc' = "idle"
    /\ UNCHANGED <<access, made, table, pending, disk, puts, finish, sweep, restarts>>

CancelRowFirst ==
    /\ canc = "cleared"
    /\ ~Locked
    /\ row # "none"
    /\ row' = "none"
    /\ canc' = "unlinked"
    /\ UNCHANGED <<access, made, name, chunks, pending, disk, puts, finish, sweep, restarts>>

CancelUnlink ==
    /\ canc = "cleared"
    /\ ~Locked
    /\ row # "none"
    /\ Unlink
    /\ canc' = "unlinked"
    /\ UNCHANGED <<access, made, table, pending, file, synced, folder, puts, finish, sweep, restarts>>

CancelDropRow ==
    /\ canc = "unlinked"
    /\ row' = "none"
    /\ canc' = "rowgone"
    /\ UNCHANGED <<access, made, name, chunks, pending, disk, puts, finish, sweep, restarts>>

CancelDropChunks ==
    /\ canc = "rowgone"
    /\ chunks' = NoChunks
    /\ canc' = "idle"
    /\ UNCHANGED <<access, made, row, name, pending, disk, puts, finish, sweep, restarts>>

CancelDropFails ==
    /\ canc \in {"unlinked", "rowgone"}
    /\ DbMayFail
    /\ canc' = "idle"
    /\ UNCHANGED <<access, made, table, pending, disk, puts, finish, sweep, restarts>>

Cancel ==
    \/ CancelAsk \/ CancelGone \/ CancelUnlink
    \/ CancelDropRow \/ CancelDropChunks \/ CancelDropFails

\* At boot and every hour: a session with no flush for a day is removed.  Time
\* is not modelled, so any session may be idle.  Each step ignores its failure.
SweepUnlink ==
    /\ ~Locked
    /\ row # "none"
    /\ Unlink
    /\ sweep' = "unlinked"
    /\ UNCHANGED <<access, made, table, pending, file, synced, folder, puts, finish, canc, restarts>>

SweepDropRow ==
    /\ sweep = "unlinked"
    /\ row' = "none" \/ (DbMayFail /\ row' = row)
    /\ sweep' = "rowgone"
    /\ UNCHANGED <<access, made, name, chunks, pending, disk, puts, finish, canc, restarts>>

SweepDropChunks ==
    /\ sweep = "rowgone"
    /\ chunks' = NoChunks \/ (DbMayFail /\ chunks' = chunks)
    /\ sweep' = "idle"
    /\ UNCHANGED <<access, made, row, name, pending, disk, puts, finish, canc, restarts>>

SweepOrphans == SweepUnlink \/ SweepDropRow \/ SweepDropChunks

-----------------------------------------------------------------------------
(* Everybody else                                                            *)

\* Somebody saves a file under a name of the destination folder, lock or no
\* lock; the last name is left free so that a free one exists.
OthersSave(n) ==
    /\ n < MaxName
    /\ ~Taken(n)
    /\ theirs' = theirs \cup {n}
    /\ UNCHANGED <<access, made, table, pending, place, file, synced, linked, noReplace, puts, finish, removal,
                   restarts>>

\* The destination folder is trashed, with the temp file in it.
OthersTrashFolder ==
    /\ ~Locked
    /\ place = "temp"
    /\ place' = "gone"
    /\ theirs' = {} /\ linked' = {}
    /\ UNCHANGED <<access, made, table, pending, file, synced, noReplace, puts, finish, removal, restarts>>

RevokeUpload ==
    /\ ~Locked
    /\ canUpload
    /\ canUpload' = FALSE
    /\ UNCHANGED <<principal, canEdit, made, table, pending, disk, puts, finish, removal, restarts>>

RevokeEdit ==
    /\ ~Locked
    /\ canEdit
    /\ canEdit' = FALSE
    /\ UNCHANGED <<principal, canUpload, made, table, pending, disk, puts, finish, removal, restarts>>

\* lunad stops and starts again.  Without a power cut the page cache survives;
\* with one, any block that was not synced may be a hole again.
Restart ==
    /\ restarts < MaxRestarts
    /\ restarts' = restarts + 1
    /\ pending' = NoChunks
    /\ stage' = [r \in Puts |-> IF stage[r] \in {"idle", "acked"} THEN stage[r] ELSE "failed"]
    /\ made' = IF made = "temp" THEN "failed" ELSE made
    /\ comp' = "idle"
    /\ canc' = "idle" /\ sweep' = "idle"
    /\ \/ file' = file
       \/ MayLosePower /\ \E kept \in SUBSET (file \ synced) : file' = (file \cap synced) \cup kept
    /\ UNCHANGED <<access, table, place, synced, folder, range, pos, ask, covered, cursor, may>>

-----------------------------------------------------------------------------
Next ==
    \/ CreateTemp \/ CreateRow \/ CreateRowFails
    \/ \E r \in Puts : Put(r)
    \/ Complete
    \/ Cancel
    \/ SweepOrphans
    \/ \E n \in Names : OthersSave(n)
    \/ OthersTrashFolder \/ RevokeUpload \/ RevokeEdit
    \/ Restart

Spec == Init /\ [][Next]_vars

-----------------------------------------------------------------------------
(* Properties                                                                *)

\* Every variable keeps the type its Rust or SQL counterpart has.
TypeOK ==
    /\ principal \in {"user", "link"} /\ canUpload \in BOOLEAN /\ canEdit \in BOOLEAN
    /\ made \in {"no", "temp", "open", "failed"}
    /\ row \in {"none", "active", "error"} /\ name \in Names
    /\ chunks \in [Blocks -> 0 .. Size]
    /\ pending \in [Blocks -> 0 .. Size]
    /\ place \in {"none", "temp", "dest", "gone"}
    /\ file \subseteq Blocks /\ synced \subseteq Blocks
    /\ theirs \subseteq Names /\ linked \subseteq Names
    /\ noReplace \in {"untried", "rename", "link", "look"}
    /\ stage \in [Puts -> {"idle", "found", "writing", "written", "flushing", "acked", "failed"}]
    /\ range \in [Puts -> Ranges \cup {<<0, 0>>}]
    /\ pos \in [Puts -> 0 .. Size]
    /\ comp \in {"idle", "asked", "scan", "checked", "decided", "looked", "installed", "rowgone"}
    /\ ask \in [overwrite : BOOLEAN, rename : BOOLEAN]
    /\ covered \in 0 .. Size /\ cursor \in 0 .. Size
    /\ may \in BOOLEAN
    /\ canc \in {"idle", "cleared", "unlinked", "rowgone"} /\ sweep \in {"idle", "unlinked", "rowgone"}
    /\ restarts \in Nat

\* What Luna has on record is on the disk: every range in the upload_chunks
\* table or pending was written in full, whatever requests ran at the same time.
CoverageSound ==
    \A s, b \in Blocks : s <= b /\ (b < chunks[s] \/ b < pending[s]) => b \in file

\* No file with holes is installed: "every byte must be covered contiguously
\* from 0, otherwise a resumable client that lost earlier chunks would install
\* a file full of zero holes" (complete).
InstalledWhole == place = "dest" \/ linked # {} => file = Blocks

Covers(b) == \E s \in Blocks : s <= b /\ (b < chunks[s] \/ b < pending[s])

\* A range the client was told has arrived stays on record, so a client that
\* has sent everything is not told "incomplete", whatever its concurrent
\* requests record and flush (write_chunk), until a restart forgets what was
\* pending.  For clients that send one length per start: upsert_upload_chunk
\* keeps the last end for a start.
AckedIsCovered ==
    restarts = 0 /\ row # "none" /\ canc = "idle" =>
        \A r \in Puts : stage[r] = "acked" =>
            \A b \in range[r][1] .. range[r][2] - 1 : Covers(b)

\* "Only a principal still holding UPLOAD on the folder -- and EDIT on the
\* destination file -- may install over something existing": the install
\* replaces somebody's file only for a member who asked for it and may edit.
\* The exception: a name taken between the look and the rename(2), on a file
\* system that has neither RENAME_NOREPLACE nor links.
NoClobber ==
    [][ place # "dest" /\ place' = "dest" /\ theirs' # theirs
          => (principal = "user" /\ ask.overwrite /\ canEdit) \/ (comp = "looked" /\ noReplace = "look") ]_vars

\* "upload-only sessions land on install_temp's atomic no-overwrite path even if
\* a destination raced into existence after the check" (complete), which the
\* code does not keep on such a file system.
NeverReplaced ==
    [][ place # "dest" /\ place' = "dest" /\ theirs' # theirs
          => principal = "user" /\ ask.overwrite /\ canEdit ]_vars

\* Cancel, complete and the sweep take the temp file away before the row that
\* names it, so no crash between two steps leaves a temp file without a row.
TempHasRow == made = "open" /\ row = "none" => place # "temp"

\* A chunk that lands while the session is completed or cancelled brings no
\* rows back: once a session is gone, none of its chunk rows are left, unless
\* lunad stopped between the two deletes.
NoOrphanChunks ==
    restarts = 0 /\ row = "none" /\ "rowgone" \notin {comp, canc, sweep} => chunks = NoChunks

\* public_upload_complete: "Full-access links may overwrite (that's how
\* 'replace this file' works)": a link that may edit is not refused for it.
LinkMayReplace ==
    [][ principal = "link" /\ canEdit /\ ask.overwrite /\ comp = "checked"
          => row' # "error" ]_vars
=============================================================================
