# Formal models of LibreServ

TLA+ specifications of the parts of LibreServ where several requests, worker
threads, failures and restarts meet the same files and rows, with TLC runs on
small instances and TLAPS proofs for all instances. Paths below are relative to
the repository; `lunad` stands for `luna/crates/lunad/src`.

## 1. Inventory of the system

LibreServ is a monorepo of two products. **Luna** is a file box for a home:
`lunad` (Rust) owns the drives and the HTTP API, a React application runs in the
browser, a desktop program backs folders up, an Android app wraps the web, and
Luna Connect (Go) is the hosted service for remote access and cloud storage.
**Sol** is an older home server (Go) with its own Connect service; the
repository calls its development stalled. The core logic that is alive is
Luna's, so the models are of Luna: two of lunad's services, the two browser runners
that talk to them, and the shared text editor.

| Part | State it keeps | Operations | Talks to | What is hard |
|---|---|---|---|---|
| Job queue (`lunad/jobs.rs`, `api/jobs.rs`) | `jobs` table; in memory the queue, the count of busy workers, the cancel flags | enqueue, cancel, pump, run, boot clean-up | handlers, blocking pool, database lock | two pumps at once, cancel against start, dropped requests, restart |
| Transfer (`run_job`, `copy_node` in `jobs.rs`) | files at source, destination and trash; grant rows; the job's row | rename, copy per node, retarget shares, trash, roll back | files service, access control, everybody who uses the folders | hours of copying with no lock held; failure after each of a dozen steps |
| Resumable uploads (`lunad/files/uploads.rs`, `api/uploads.rs`, `access_public.rs`) | per-drive `uploads` and `upload_chunks` tables, an in-memory map of unflushed ranges, the temp file | create, write chunk, complete, cancel, sweep | web, desktop, guests with a link | chunks written at the same time without the lock, partial flushes, crash and power cut |
| Web copy and move (`luna/web/src/lib/fileOps/store.js`, `jobRunner.js`) | operations and items of the dock, a queue, accepted jobs, job ids in sessionStorage, timers | start, decide, retry, cancel, clear, poll, reload | job API | answers that arrive after the item changed; full queue; reload |
| Web uploads (`uploadRunner.js`, `fileSource.jsx`, `collectUploadFiles.js`, `uploadRetry.js`) | operations and items, the pool, a listing of names, one session per big file | walk, name check, send, complete, decide, retry, cancel, close page | upload and files API | clashes found at three moments; lost answers; cancels during awaits |
| Access control and private items (`access.rs`, `auth.rs`, `private.rs`) | grants, links, private rows | grant, revoke, move with the file | all of the above | row-by-row updates next to renames |
| Drives (`drives/`) | mounts, LUKS, scrub state, RAM write cache | adopt, mount, flush, scrub | kernel, udev | unplugging; cache write-back |
| Backups (`backup/`) | snapshots, packs, manifests | back up, prune, restore | drives, object storage | retention against readers, partial uploads |
| Updates (`system/updates.rs`) | staged release, trial marker | check, stage, switch, roll back | release feed, systemd | power cut between switch and confirmation |
| Text co-editing (`collabDocSync.js`, `collabSocket.js`, `TextFileEditor.jsx`, `lunad/office/collab.rs`) | a room with peers and an op backlog; per tab a Yjs document, a baseline, seed and sync flags | join, seed, sync, type, save, reconnect | hub, files API | who seeds; empty documents; broken connections; saves against typing |
| Office documents, forms, diagrams (`office/`, `components/files/office`) | rooms, save election, leases | join, edit, save | browser clients, EuroOffice | save election, op compaction |
| Gallery, search, rate limits, budgets | derived indexes and counters | index, query, admit | files service | little: rebuilt or sequential |
| Luna Connect (`luna/connect`) | accounts, subscriptions, storage, leader lock | billing hooks, purge, background jobs | payment provider, Postgres | two leaders, repeated web hooks |
| Desktop (`luna/desktop`) | sync index, session | scan, upload | lunad | interruption in mid-sync |
| Sol job queue (`sol/server/backend/internal/jobqueue`) | `jobs` table, in-flight map, worker pools | enqueue, poll, retry, recover | certificate handlers, web hooks | poll loop against enqueue; stale in-flight entries |
| Other Sol services, OS image, CI | configuration, services | | | outside the scope of these models |

What makes the modelled parts correct:

* queue: no more workers than slots, no job forgotten, run twice or left waiting
  beside a free slot; a cancel that came in time prevents the work; a row settles
  once; after a restart nothing pretends to be running;
* transfer: whatever fails, no file is lost, other people's files are not touched,
  shares follow the item, and the row and its text tell the truth;
* uploads: no file with holes is ever installed, nobody's file is replaced without
  the right to, acknowledged bytes stay on record, nothing is left behind;
* copy and move in a tab: every job Luna accepted is followed or called off, no item is
  forgotten, what a row says is true of the job, every row comes to rest;
* uploads in a tab: the pool is neither overrun nor idle, "done" means the file is on Luna,
  nothing is overwritten without being asked, every row comes to rest;
* text co-editing: everybody who is connected ends up with one text, and the text
  the file held does not vanish.

`PROJECT.json` lists the hazards behind these properties line by line.

## 2. Plan

Items 1 to 7 are done; the rest is the order of further work.

1. `JobLifecycle` (abstract) and `LunaJobQueue` (detailed), refinement, proofs.
2. `LunaTransfer`, the step that `LunaJobQueue` treats as one action.
3. `LunaUploads` and its proofs.
4. `FileOpsStore` and `FileOpsJobs`: `jobRunner.js` composed with `JobLifecycle` through a
   network that delays and loses answers. The composition is the reason
   `JobLifecycle` is kept so small.
5. `FileOpsUploads`: `uploadRunner.js` and `fileSource.jsx` against one upload session each, of
   which only what `LunaUploads` promises is used (a session exists or not, complete installs
   the whole file once).
6. `CollabText`: text co-editing, tabs and hub together.
7. Proofs for the modules of items 2 to 6: every property of their runs but the liveness ones.
8. The save election of the office editors on the same hub; `SolJobQueue` (enqueue, poll loop,
   in-flight map, retry); `ConnectLeader` (the advisory lock and what happens when its
   connection goes); backup retention, the RAM cache, updates, desktop sync.

Abstract specifications: the life cycle of a job (`JobLifecycle`, implemented by
`LunaJobQueue`, relied upon by `FileOpsJobs`). A candidate is an upload session as a set
of received blocks and one install, between `LunaUploads` and `FileOpsUploads`.

## 3. Modules

| Module | Role |
|---|---|
| `JobLifecycle` | what clients may rely on about one job row; abstract |
| `LunaJobQueue` | the job manager; implements `JobLifecycle` |
| `LunaJobQueueProofs` | theorems about `LunaJobQueue` |
| `LunaTransfer` | one run of `run_job` |
| `LunaTransferProofs` | theorems about `LunaTransfer` |
| `LunaUploads` | one upload session with all its requests |
| `LunaUploadsProofs` | theorems about `LunaUploads` |
| `FileOpsStore` | item and operation states, `settle` and `finish`: shared by the two runners |
| `FileOpsStoreProofs` | what `settle` does, as lemmas for the runners' proofs |
| `FileOpsJobs` | copy and move in one tab, instantiates `JobLifecycle` for lunad |
| `FileOpsJobsProofs` | theorems about `FileOpsJobs` |
| `FileOpsUploads` | uploads in one tab, with lunad's side of each session |
| `FileOpsUploadsProofs` | theorems about `FileOpsUploads` |
| `CollabText` | one text file open in several tabs, and the hub's room |
| `CollabTextProofs` | theorems about `CollabText`: types, and the file's text |
| `CollabConvergenceProofs` | theorem about `CollabText`: editors converge |
| `MC...` | instances for TLC |

Operators named like a definition with a suffix (`PumpStartIgnoringSlots`,
`PutRecordReplacing`, `ReportKeepsStorage`, ...) are wrong variants of it. No specification uses
them; each is a plausible mistake that the property named in `PROJECT.json` has to detect.

### 3.1 LunaJobQueue

`row` and `created` are the `jobs` table, `queue`, `running` and `cancels` the fields of
`JobManager`, `flag[j]` the `AtomicBool` of a job. `stage[j]` is the program counter of
whoever works for job `j`; `pumps` holds the threads inside `pump_queue`. `early` is
an observation only: which jobs were cancelled before a worker had them.

One action is one critical section. `Prepare` is the whole of `prepare` under the
database lock: depth check and insert. A refused request changes nothing and is
therefore not an action. `Register` and `Push` are the two lock scopes that follow the
`await`, `Disconnect` is the handler future dropped at that `await` (or `get_job`
failing), after which the row stays and nobody will queue it. `PumpStart` and
`PumpStop` are one turn of the pump's loop. A worker goes through `StartCancelled`,
`StartDenied` or `StartTransfer`, `FinishTransfer`, `ForgetCancel`, `ReleaseSlot` and then
pumps. `Restart` can happen anywhere: memory is gone and the rows that said running
are marked interrupted, unless that UPDATE fails, which the code ignores.

`created_at` counts seconds; rows of one second are taken in insertion order. An I/O
error of kind `Interrupted` that is not a cancel is not modelled.

### 3.2 LunaTransfer

One job, of every kind that `prepare` accepts: copy or move, file or folder, on one
file system or across, out of the trash or not. `src`, `dst` and `trash` map the names
of the item's files to their content (original, edited since, somebody else's), `present`
says at which places the item exists, `dstBy` who made the destination. `pc` follows
`run_job` and `copy_node`; `outcome`, `listed`, `todo`, `cur`, `temp` and `owned` are its
locals. `share` is where each grant row points. `Skipped` are the names `copy_node` passes over
(not UTF-8, or Luna's own temp files): they stay where they are and go wherever the source goes.

`job.noReplace` is what the destination's file system offers for "do not replace": `renameat2` with
`RENAME_NOREPLACE`, only hard links, or neither. Where it has the call, `RenameLands` and `Install` are one step.
Where it has not, the code looks and then calls `rename(2)` with no lock held: `RenameLooks` and
`RenamePlain`, `InstallLooks` and `InstallPlain`, with everybody else in between. A link may
land and the temp file then fail to go (`InstallLinked`).

The clean-up removes by path, and ignores a removal that fails or gets half way: `Rollback` and
`BytesCancelled` have these outcomes too. `mishap` is an observation only: "stuck", such a
removal failed; "taken", somebody deleted or renamed what the job had made (`OthersTake`), after which
the name is free for others (`OthersClaim`) and what the job believes to own is not its own.

A step ends where somebody else can get in: at a system call, a lock, a chunk
boundary. Other people (`EditSource`, `DeleteSource`, `OthersClaim`, `OthersSave`,
`OthersTake`, `Revoke`) are constrained only by the locks the job holds: none while it copies, the drive
lock and the database lock while it retargets and trashes. Each of these is switched
by a constant so that a run can say which of them a property survives.

Left out: the rows of private items, a form's hidden files folder (only that
copying it may fail or be cancelled), nested folders (a folder is one level of files, which `copy_node`
treats like any deeper level), progress numbers, gallery notifications, and the
wording of messages except for what they claim.

### 3.3 LunaUploads

One session. `file` is the set of written blocks of the session's file, wherever `place`
says it is; `synced` are the blocks that survive a power cut. `chunks` is the
`upload_chunks` table and `pending` the in-memory map, both as a function from a start to
the last end recorded for it, because the table has one row per start. Each PUT request
has a `stage`, a `range` and a position; `comp` and `canc` are where complete and cancel are.
`theirs` are the names others hold in the folder, `linked` those at which an install left a second link to the temp
file. `noReplace` is what the drive can do to install without replacing, as in `LunaTransfer`; nobody
knows before the first install has tried ("untried"). Where it is only a look, `InstallLooks`
and `InstallPlain` are two steps, and somebody may save under the name between them.

Chunk writers take the database lock only for look-up and flush, so their steps
interleave with everything. `create_scoped`, `complete`, `cancel` and `sweep_orphans` hold it
throughout: `Locked` keeps other lock holders out between their steps, and yet every
step of theirs is an action of its own, because a restart, a failing statement, a chunk
writer or somebody else's save can come in between. `ScanChunk` and `ScanGap` are the
loop of `upload_fully_covered`; `SweepUnlink`, `SweepDropRow` and `SweepDropChunks` are the three calls of the
sweep, of which each may fail and the next be made all the same.

`received` is left out: it feeds the progress bar and decides when a chunk request
flushes, so whether to flush is a free choice. Time is left out: any session may be old
enough for the sweep. Clients send the same bytes for a block whenever they send it,
so a block is written or it is a hole. A drive that is unmounted in between
is not modelled.

### 3.4 FileOpsStore and FileOpsJobs

`item[i]` holds the fields of an `Item` that decide control: state, whether it is still in the
list, its decision, retryable, offline, the two answers a request may carry, its job. `op[o]` is
the `Op` (listed, state, ended, cancelled, policy, auto-clear timer). `queue`, `accepted`
(with `owner` for its values), `blocked`/`timer` (`blockedUntil`, `retryTimer`), `armed`
(`pollTimer`) and `stored` (sessionStorage) are the runner's variables. `post[j]` is the POST
numbered `j` and where it has got to; `poll[p]` a `poll()` waiting for its list or its
single GETs.

One action is one synchronous stretch of the runner, from an event or the return of an
`await` to the next `await`, with everything it calls: `Settle` and `Pump` are applied to the
state inside the action (`Now` carries it through, `Pump` or `Keep` ends it). lunad is `JobLifecycle`
with two additions the tab can see: rows trimmed at a restart and DELETEs that arrived. The list
of a poll is a snapshot taken in `LunadLists` and used in `PollListed`, so it can be stale.

A pump is stated by its result: how many entries of the queue its loop shifts (`Shifts`), which of
them it sends (`Sends`), and which numbers their POSTs get (`Numbers`: the lowest that neither a job nor a
POST on its way has, in order); `Sent` is the tab after that. An item is sent once, and once more for each
retry, unless lunad refuses it, which frees the number: the `NItems + MaxRetries` numbers are
enough for every POST.

Two late answers overwrite an item without looking at it: the removal a Replace waits for
(`TrashAnswers`) and the GET of a job that a later poll has settled. `raced` records the
items they hit; properties that the code keeps otherwise except them by name. `adrift` records the
jobs the page cannot know of (the answer to their POST, or their DELETE, was lost or a reload came
first).

Left out: progress numbers, wording, toasts, query invalidation, `waitingForQueue`, the
600 ms rule for showing a card, storage that is blocked or full. More than one operation is
supported by the module; the runs have one.

### 3.5 FileOpsUploads

One upload operation of a tab, from picked files or from a drop that is walked entry by entry.
`co[i]` is the `await` at which the coroutine of item `i` stands (`names` in `prepare`; `multipart`,
`create`, `chunk`, `complete` in `uploadFile`; `recomplete` in `completeUpload`; `mkdir`, `stat1`,
`mkdir2`, `stat` in `makeFolders` and `kindAt`) and `net[i]` the state of the request it waits for. lunad's side is
what the requests meet: `taken` (what holds the name), `open` (sessions), `copies`. A chunked
file is one chunk long in the model: the loop over chunks adds no control beyond the retry.
An empty folder has two levels, so that a cancel can come between levels. The level above is made
(or is there already), or its name is held by a folder or a file, which `mkdir` answers with a 409 and
`stat1` tells apart; the folder's own name likewise with `mkdir2` and `stat`. A request may also be turned away for the
moment ("busy": one of the `RETRYABLE_STATUS` codes), which a chunk tries again and every other
request shows as a failure with "Try again", or be refused for good. `Serve` is the answer of lunad as `LunaUploads` and `api/files.rs` give it: create refuses a taken
name, complete checks it again. `pump`'s loop is stated by where it stops: `Shifts(s, k)` says that it takes
exactly `k` entries off `ready`, `Sent(s, k)` is the state after these turns, entries that were
cancelled while waiting being dropped on the way.

Left out: links that stand for a single file, nested destination folders (the listing is
that of one folder), the hash. The upload size limit below which one request is used is `Kind`.

### 3.6 CollabText

Tabs are editors of one file, each opened once. A text is a bag: how often it holds the
file's first text (token 0) and each insertion. People only insert, so a token can vanish only by
the program's doing, and a token twice is a doubled seed. Of Yjs the module takes what the code
relies on: insertions of one tab are numbered, what arrives with a gap before it is kept (`got`) but
not shown (`Held`; Yjs also holds back an insertion whose neighbours, typed in another tab, are missing,
which takes a third tab), a reply to a state vector holds what is missing and all deletions, applying is
idempotent. A text counts the insertions that hold a token, which is a size of a set and not a
recursive sum, so that it can be proved about.

A tab's record has `CollabDocSync`'s fields (`peers`, `welcomed`, `offline`, `seeded`, `synced`,
`pending`, its two timers) and the editor's (`fetched`, `baseline`, `loading`, `save`, `unsaved`); a
peer's save may set `baseline` before the fetch has landed. The fetch reads the file at one moment and lands
at a later one, so `Fetched` takes any text the file has held (`past`). `down[p]` is
the ordered stream from the hub to peer `p`; the way up is immediate, because the hub orders
frames by when it takes them. `Cut` breaks a connection: what is under way is lost, the tab
notices later (`Dropped`), and the hub at once or, with `MayLinger`, later. `blame` records the
four things the code does that can lose text or make texts differ: a document without the file's
text called synced (empty, or holding only later insertions), a seed dropped in favour of a lower peer's (any such drop, whether or not that peer holds the text), the loading time-out, an op refused by the hub.
`unasked` records the newcomers that nobody will ask for what they typed offline. When a peer joins, the
one that sees itself as the lowest of the room asks it (`peer_join` in `_onMessage`). Nobody does if the lowest peer
of the hub's room is one whose connection is gone (`Connect`), or if the lowest goes with the frame that
tells it of the newcomer still on its way, and a third peer is there to miss the answer (`Forsaken`,
in `Cut` and `Close`, which is the unmount's `disconnect`). Both are observations only: no guard reads them.

Left out: awareness (cursors), viewers without write permission, lagging receivers (the broadcast
channel's 512 frames), deletion by people, guests (who have no hub).

## 4. Runs

All bounds are constants in the `.cfg` files. Deadlock is not checked: each model is of
finitely many requests, clicks or edits, and after the last one the system rests.

| Run | Instance | Result |
|---|---|---|
| `job_queue_faults` | 3 jobs of one person, 2 slots, ceilings 3 and 2, 1 restart, dropped requests, failing writes; jobs are symmetric | `TypeOK`, `SlotsBounded`, `NoIdleSlot`, `QueueExact`, `CancelsExact`, `CancelledEarlyNeverRuns`, `ImplementsLifecycle` hold (1.0 million states) |
| `job_queue_steady` | 2 jobs of two people, 1 slot, 1 restart, fairness, nothing dropped or failing | `RunningRowOwned`, `EveryJobSettles` hold |
| `transfer_faults` | file or folder of 4, one of them passed over, two shares; every kind of file system, I/O errors (in the clean-up too), cancel, revoke, claimed name, crash | `NothingLost`, `CancelLeavesNothing`, `SharesTruthful`, `SourceKeptUntilCopied` hold (11 thousand states) |
| `transfer_everything` | folder of 3, one of them passed over, all of it at once; failing database, edits in both folders and a destination taken away too | `DoneMeansMoved`, `TheirTreeKept` hold (3.5 million states) |
| `uploads_faults` | 3 blocks, pieces of 2 and 1, 2 requests, 1 restart, failing disk and database, member or link | `TypeOK`, `InstalledWhole`, `NoClobber` hold (6.2 million states) |
| `uploads_concurrent` | 2 blocks, 3 requests, 1 restart or power cut, client sends a hash | `AckedIsCovered`, `NoOrphanChunks`, `TempHasRow`, `InstalledWhole` hold (6.0 million states) |
| `file_ops_jobs` | 2 items of one operation, both may be sent at once, name clashes and denials, 1 fault | `TypeOK`, `StorageExact`, `NoUnseenJob`, `NothingStranded`, `NothingStalls`, `RowsTruthful`, `EndedIsOverUnlessRaced` hold (2.0 million states) |
| `file_ops_retries` | 2 items, 1 slot, full queue, widening question, 1 retry, 1 fault, fairness | `SlotsKept`, `EveryItemSettles` hold |
| `file_ops_uploads` | a big and a small file, pool of 1, 1 retry, 2 faults | `TypeOK`, `PoolExact`, `NothingStranded`, `DoneTruthful`, `EndedIsOver`, `ReplacedOnlyIfAsked` hold (1.6 million states) |
| `file_ops_uploads_settle` | a big file and an empty folder, pool of 1, 1 retry, 1 fault, fairness | `EveryItemSettles` holds |
| `collab_peers` | 2 tabs, a backlog of 1, 1 insertion, 1 event of any kind, peers may linger; tabs are symmetric | `ConvergesUnlessUnheard`, `TextShownUnlessHollow` hold (2.8 million states) |
| `collab_emptied` | 2 tabs, no typing, 1 save | `TextKept` violated |

A *fault* of the browser runs is one lost message, refused, failed or turned-away request, full queue,
restart of lunad, reload, or name taken by somebody else; an *event* of the collaboration runs is a
save, a broken connection, a closed editor, a failed connection, a refused op or a time-out.

Why these bounds are enough to be interesting. With three jobs and two slots there is a
moment when one job waits, one is giving its slot back and a third is on a worker, which is
the pattern a lost wake-up or an oversubscribed slot needs; a second restart adds nothing,
since the first one already hits every intermediate state. A folder of
two files that are copied is the smallest where a copy can be half done, three allow a failure in the
middle; one more that `copy_node` passes over lies among them. Two blocks and two requests give every overlap of two writers, complete and
cancel; the uneven pieces in `uploads_faults` give a writer that is in the middle of a
range; three requests let two flush while a third writes. Two items are one more than a slot, so
that one waits while the other ends, fails or is asked about; with one poll at a time every
list can be stale by any number of steps; one retry is what a second attempt beside a late answer
needs; the second fault of `file_ops_uploads` lets a name be taken and an answer be lost in
one behaviour. Two tabs are the smallest room; an insertion overflows the backlog of one
that holds the seed, so a late joiner needs a peer's state. With 2 insertions and a backlog
of 2, without lingering peers, both properties hold as well (1.4 million states). A third tab is left to the
proofs, which hold for any number. The passing runs keep to the conditions under which each property
is meant to hold.

### What the code does not keep

`collab_emptied` is the one disagreement kept as a run: two people open a file at the same
moment. The second is told of the first and asks it for its state; the first, whose own fetch
has not come back, answers with an empty document; the second takes any answer for a
sync, is hydrated with nothing, finds that it differs from the fetched text, and the
autosave writes the empty text. The finding in `PROJECT.json` quotes the comments that say this must
not happen.

The modules also define properties that a comment or document promises, or that one would like,
and that TLC finds violated. They are not runs of the project; each can be reproduced by listing
it in the named configuration with the change given.

| Property | Configuration | What the code does | Who says otherwise |
|---|---|---|---|
| `RunningRowsSeen` | `LunaJobQueue_faults`, with `FourJobs`, `OwnerOf4`, no `SYMMETRY`, ceilings 4 and 4 | the depth check reads the newest 256 rows of any state (3 in the model), so a long job drops out of sight while short ones pass it | `jobs.rs:39-40` |
| `CeilingsHold` | `LunaJobQueue_faults`, with `FourJobs`, `OwnerOf4`, no `SYMMETRY`, ceilings 2 and 2, `CheckLimit = 2`, nothing dropped, failing or restarted | the ceilings bind only what the depth check sees, so a third job is accepted past a ceiling of two | `jobs.rs:39-40` |
| `SourceKeptUntilCopied` | `LunaTransfer_everything` | a file added to the source after `read_dir` goes to the trash uncopied | `jobs.rs:8-11` |
| `NothingMovedTruthful` | `LunaTransfer_everything` | if the last status write of a move fails, the finished copy is removed while the source is in the trash, and the text says nothing was moved (the files survive in the trash, unless the move was out of the trash, when the source was purged) | `jobs.rs:95` |
| `NoNameLost` | `LunaTransfer_faults` | a move out of the trash to another file system purges its source with the names `copy_node` passed over (`jobs.rs:1045-1051`, `808-812`) | `jobs.rs:8-11` |
| `TheirsNeverTouched` | `LunaTransfer_everything` | a file saved between the look and the `rename(2)` is replaced where the file system has no better (`files/mod.rs:1466-1487`); what others put where the copy was is removed with it (`jobs.rs:879-880`) | `jobs.rs:570-574` |
| `InstalledWhole` | `LunaUploads_concurrent` with `HashSent = FALSE` | recorded chunks are durable before their bytes are, so a power cut followed by a complete without hash installs zeros | `uploads.rs:359-361` |
| `NeverReplaced` | `LunaUploads_faults` | the no-overwrite install falls back to a look and a `rename(2)` (`files/mod.rs:1573-1584`), so a name taken in between is replaced | `uploads.rs:432-434` |
| `LinkMayReplace` | `LunaUploads_faults` | "replace this file" over a full-access link is refused when the upload is installed | `access_public.rs:876-877` |
| `StoresNothing` | `FileOpsJobs_faults` | accepted jobs are kept in sessionStorage and followed again after a reload (`jobRunner.js:6-9`, `383-418`); `StorageExact` checks what is kept | `file-operations.md:62`, `72` |
| `EndedIsOver` (`FileOpsJobs`) | `FileOpsJobs_faults` | an item cancelled while the old file is on its way to Trash is sent after all, and its operation, shown as cancelled, goes on | `file-operations.md:172` |
| `NothingStalls` without its `raced = {}` | three operations of one item each (`Ops = {1, 2, 3}`, item `i` in operation `i`), `Parallel = 2`, `MaxRetries = 1`, `MaxPolls = 2` | a late GET marks an item as failed while its second job runs, so its operation ends; clearing it makes `forget` drop that job, which frees a slot without a pump: a third operation waits until some other event pumps | nobody; it is why the property excepts `raced` |
| `FinishedClears` | `FileOpsJobs_faults` | an operation whose failed rows are removed after its end gets no auto-clear timer and stays | `file-operations.md:121`, `271-274` |
| `CancelledStays` | `FileOpsUploads_settle` | a folder cancelled while `stat` is asked turns into a failure | `file-operations.md:215` |
| `NoSessionLeft` | `FileOpsUploads_faults` | a name clash answered after the cancel leaves its session on lunad until the sweep | `uploadRunner.js:479`, `FileOpsContext.jsx:29` |
| `NothingReportedAfterCancel` | `FileOpsUploads_settle` | an entry that cannot be read is reported after the abort | `collectUploadFiles.js:174-175` |
| `ConvergesUnlessUnheard` without its `unasked # {}` | `CollabText_peers`, or 3 tabs with `MayLinger = FALSE`, 2 cuts and 2 events | a peer whose connection broke, or whose editor was closed a moment ago, still is the lowest of the room and asks nobody, and nobody else does: what a newcomer typed offline stays with it | `collabDocSync.js:309-310` |
| `RestMeansSaved` | `CollabText_peers` | a peer's save makes this tab's text the baseline, with what was typed since: no editor is dirty and the file lacks it | `TextFileEditor.jsx:86` |
| `DirtyIsGuarded` | `CollabText_peers` | the frame hears of dirt only when `isDirty` turns true, so typing during a save is not guarded | `FullscreenEditorFrame.jsx:169` |

### Conditions of the passing runs

The models contain these behaviours too; they are why some properties are checked under
narrower conditions. The hazard list gives their lines.

* A request dropped at the `await` in `enqueue_on_conflict` leaves a running row
  without an owner until the next boot: `RunningRowOwned` is checked without it.
* A grant revoked after the last node does not stop the removal of the source.
* A failure half way through retargeting leaves shares split between two places:
  `SharesTruthful` is checked without failing statements.
* The clean-up of a failed copy removes what others saved into the new folder; only
  names claimed before the copy are protected, which is what `TheirTreeKept` says. It excepts the
  `rename(2)` after a look, and a name that is theirs because they took away what the job had made.
* Names `copy_node` passes over are not at the destination when the source goes:
  `SourceKeptUntilCopied` leaves them out, and `NothingLost` finds them in the trash unless the
  move was out of the trash.
* A removal that fails in the clean-up is ignored, and then a cancelled job does leave
  something behind: `CancelLeavesNothing` excepts "stuck".
* On a file system with neither `RENAME_NOREPLACE` nor links an install can replace a file saved a
  moment ago: `NoClobber` excepts that one step.
* Others may take away what the job has just made: `NothingLost`, `SourceKeptUntilCopied` and
  `SharesTruthful` are checked without it, since then it was not the job that lost the file; after it `DoneMeansMoved`
  claims only what concerns the source and the shares.
* A shorter range sent again from the same start shrinks the record: `AckedIsCovered` is
  checked for clients that cut a file in fixed pieces, as those in the repository do.
* `pending` is in memory only, so a restart forgets acknowledged ranges that were not flushed, and a
  chunk row written after it may outlive its session: `AckedIsCovered` and `NoOrphanChunks` speak of
  the time before the first restart.
* A crash while a session is created leaves a temp file that no sweep finds:
  `TempHasRow` is about sessions that were opened.
* The two late answers of section 3.4 are excepted by `raced`, and jobs the page cannot
  know of by `adrift`.
* An op the hub refuses stays in its author's document and every later op of that tab
  has a gap before it, and what a newcomer typed offline stays with it if the peer that is to ask it
  is gone: `ConvergesUnlessUnheard` excepts these two, and `EditorsConverge` proves that there is no third.
  `TextShownUnlessHollow` excepts the mistakes in
  `blame`, of which `collab_emptied` shows the worst. The mistake of a hollow sync is defined by the missing
  text, not by an empty document: with three tabs and a full backlog the welcome brings the last op
  only. (There Yjs would hold that op back until its neighbours come, and the model, which knows only gaps within one
  tab, shows it; both call the document synced without the file's text.)

### Known and not in the hazard list

`PROJECT.json` lists the hazards the properties are about. Smaller ones, met while modelling:
a panic in `run_job` keeps its slot until a restart (`jobs.rs:1247`); an `EINTR` would be
reported as the person's cancel (`jobs.rs:835`); a range recorded after its session was removed stays
in memory (`uploads.rs:326`), and `received` may go backwards, which only the progress bar shows
(`uploads.rs:311`); a client that completes with a chunk in flight has to start over
(`uploads.rs:364`); a late error of the folder walk adds a row to a cancelled operation
(`collectUploadFiles.js:218`). Not modelled yet: in Sol's queue the row exists before it is marked in
flight (`jobqueue/queue.go:196`), and Luna Connect's leader takes a session lock on a pooled
connection and never looks at it again (`jobs/leader.go:49`).

## 5. Fairness

`job_queue_steady` assumes weak fairness of the handler steps after the
insert (tokio polls a task that is ready), of each worker's steps and of the pumps
(they run on the blocking pool, whose limit is far above `MAX_RUNNING_JOBS`, and the copy loop
ends because the source is finite). Nothing is assumed of clients, cancels and restarts.
`Disconnect` and failing writes are off in that run: with them a row can stay
running for ever.

`file_ops_retries` assumes weak fairness of the tab's timers and of its promise callbacks (the
browser's event loop runs what is due), of lunad's answers to a POST, a list or a GET, and of the
end of every accepted job, which is `EveryJobSettles` of `LunaJobQueue`. Faults need no fairness:
there are finitely many, and each ends in an error the tab sees. The removal a Replace
waits for is not assumed to answer; that run has no Replace.

`file_ops_uploads_settle` assumes one weak fairness, of `Working`: as long as the walk can go on, lunad
can answer or a coroutine can run, one of these happens. That is less than fairness of each of
them, and enough, because each item takes finitely many steps. Nothing is assumed of the person.

## 6. Proofs

TLAPS proves, for every number of jobs, people, slots, files, shares, blocks, requests, items, retries,
faults and restarts, what follows. Each inductive invariant was checked by TLC on the
module's runs before it was proved.

**LunaJobQueueProofs.** `IndInv` is the conjunction of the checked invariants with two facts
that make it inductive: `RowFollowsStage` (a job without a row has not been prepared, and
its row says running until somebody settles it) and `EarlyKeepsFlag` (a job cancelled
early keeps its flag up until a worker has read it). `SlotsBounded` alone is not
inductive, because `ReleaseSlot` would not be known to find the counter above zero,
nor `PumpStart` to take a job that is not on a worker already: that needs `QueueExact`, which
says that the queue holds exactly the waiting jobs, each once. `NoIdleSlot` needs
`SlotsBounded` for the step in which a pump stops. From `IndInv` follow `TypeCorrect`,
`SlotsNeverOversubscribed`, `NoLostWakeup`, `QueueIsExact`, `CancelRegistryExact` and
`EarlyCancelSafe`. `RefinesLifecycle` shows that every step is a step of `JobLifecycle` on
`row` or leaves it alone: initial states first, then one case for each action, where the worker's
actions need `RowFollowsStage` to know that the row they settle was running.
`RunningRowsOwned` is proved under the assumption that no request is dropped and no
write fails. The ceilings take three theorems, because the depth check sees only the newest rows:
`CeilingsInWindow` proves, of every behaviour, that among the rows of the window no more are running than the ceilings
allow; `CeilingsWhileSeen` that the whole table keeps them while no running row is
out of the window; and `SeenWithinWindow` that none is as long as the table is no longer than the
window. The counterexamples to `RunningRowsSeen` and `CeilingsHold` (section 4) show that this is all the code keeps.

**LunaUploadsProofs.** `TypeInv` adds to `TypeOK` that a writer's position stays inside its range.
`CoverInv` is the argument for whole files: what is recorded was written (`CoverageSound`),
a writer past a position has written everything before it (`WriterSound`), the scan's
covered prefix was written (`ScanSound`), hence what is installed is whole. It is inductive
because no step of a run without power cuts takes blocks away; `InstallsOnlyWholeFiles`
therefore assumes there is none; section 4 tells what a power cut does.
`NeverClobbers` rests on `DecisionHolds`: between the decision and the rename the database
lock is held, so the right that was checked is still there; and on `noReplace`: an install without that right
finds the name free in the step that takes it, unless the drive can only look, which is the one step the property
excepts. `NoTempOutlivesItsRow` rests on
`RowOrder`, the order of removal in cancel, complete and the sweep, and assumes that
removing a file does not fail, since the code ignores it when it does.

`NoChunksWithoutSession` and `AcknowledgedStaysCovered` speak of the time before the first restart,
as their properties do. The first needs that a flush looks for the session's row in the
transaction that writes the ranges. The second says that an acknowledged range is in the table, in
memory, or among the ranges a flush has taken out of memory and not yet written or put back;
it assumes that statements do not fail and that clients send one length per
start (`OneEndPerStart`), which is how the clients in the repository cut a file.

**LunaTransferProofs.** `Shape` ties the locals of `run_job` to its program counter; without it hardly any
step is known to be well typed. `DestInv` says who made the destination and
that the job made what it would clean up, or somebody has taken it away since; with it `OthersKeepTheirTree` is proved as an action property,
with everything switched on and on every kind of file system. On that base stand one invariant per theorem: `DoneInv`
(`DoneIsMoved`: every file listed is at the destination or still to be copied, and a move that has come
past the retargeting has its shares there), `CancelInv` (`CancelledLeavesNothing`), `ShareInv`
(`SharesStayTruthful`), `CopyInv` (`SourceOutlivesCopy`: what `copy_node` is through
with equals the source, for all names it does not pass over) and `KeptInv` (`NothingIsLost`: at each
stage before the removal the source holds the whole item; after it everything copied has `Arrived` and the
whole item is at the source or in the trash, unless it was purged out of the trash: `Settled`). Only the last three
assume anything, and section 4 shows that they have to: `SharesStayTruthful` that the database does not fail,
`SourceOutlivesCopy` and `NothingIsLost` that nobody else writes into the source, `NothingIsLost` also that the
database does not fail under a move out of the trash (`Spared`), and all three that nobody takes away what the
job has made. Clean-up that fails, names passed over, and looks in place of claims are in every theorem.

**FileOpsStoreProofs** has the lemmas on `settle` (and on the order of a list, `InOrder`): it changes nothing of an operation but its
phase, its end and its timer; and it leaves one ended only if nothing is going on.

**FileOpsUploadsProofs.** `Inv` has six parts. `Sound` is what each handler keeps of the record
it passes on: types; `InStep`, which `await` a coroutine can be at for each state of its row; `ReadyOnce`,
`ready` holds an item once and only while its coroutine is idle; `Waiting`, a queued row is being checked for
its name or is in `ready`. `PoolOK` is the property's first half and is not kept by handlers, only
by the pump that ends them (`PumpFillsPool`), which is why it is apart. `Over` and `Untouched` are about
operations that have ended or not begun. `ItemsInv` relates one item of the tab to lunad:
`UnlistedAt`, no file is past the name check before the listing is there; `ReplacingAt`, whatever can
lead to overwriting was asked for by the person, at each of the three moments a clash is found;
`CopyingAt`, lunad has made at most one copy for each attempt, and a second attempt after a
copy takes a lost or turned-away answer. That each of these looks at one item only makes most steps a matter of
one row: `RowEnds` proves once what every handler that changes one row has to show, `HandlerEnds` and
`EndsFacts` lift it over `settle` and `pump`. From `Inv` follow `TypeCorrect`, `PoolStaysExact`,
`NoRowIsStranded`, `DoneIsTrue` and `EndIsTheEnd`; `ReplacesOnlyIfAsked` is proved for each step that
changes what holds a name. `PoolStaysExact` needs `ReadyOnce`: an entry that were in `ready` twice would be
counted once in the pool and sent twice.

**FileOpsJobsProofs** is laid out the same way: `Good` is what each handler keeps of the record
it passes on, `SettleGood` and `PumpLands` lift it over `settle` and `pump`, and one lemma per action shows the
rest. `Numbered` says what a POST's number stands for: a number is never
free for `Numbers` while a job or a POST has it, and an answer other than a job means that there is no row.
`Placed` is the heart: at most one of a queue entry, a POST, a removal and a followed job works for an
item, each at most once, and the item's row says which. `NothingStranded` alone is not inductive: a queue
that named an item twice would send it twice, and the second answer would overwrite the first.
`Told` relates a row to lunad's row of the job it last followed. `Phased` and `Over` are about
operations that go on and that have ended; without `Phased` a person could dismiss an operation that
still works. `SlotsUsed(Now) <= Parallel` is kept by every handler and filled up by the pump that ends
it (`PumpFills`), which gives `Busy`; handlers that do not pump free no slot, with one exception, `forget`,
which is why `Busy` is claimed only while `raced` is empty (section 4 has the counterexample). `Polls` says that
what a poll has read of an ended job is still so, because lunad never changes a settled row: this is
where the proof uses `JobLifecycle`, which `RefinesLifecycle` proves of the job queue. From `Inv` follow
`TypeCorrect`, `SlotsAreKept`, `StorageIsExact`, `NoJobUnseen`, `NothingIsStranded`, `RowsAreTruthful`,
`EndedIsOverHolds` and `NothingIsStalled`, for any number of items, operations, polls at once, retries,
reloads and restarts.

**CollabTextProofs.** `Inv` has a part that always holds and one that holds until the first mistake. The first
says that documents, frames and the backlog name only insertions that were made, that a tab has
all of its own (`Owns`), and that at most one insertion of a tab bears the file's first text: while the tab may
still seed, none of them does. The second (`Safe`) is the argument for the file's text. Nothing is
deleted; a text that waits to be inserted or written bears token 0; and a document that is not
empty, or counts as seeded or synced, or is past the loading screen, bears it too (`Bears`). The
last clause is why the property is not inductive by itself: a person types into a document past the
loading screen, which makes it hydrated whatever it holds. Handlers are functions of a record,
so each has one lemma (`MaybeSeedKeeps`, `SyncedKeeps`, `OnWelcomeKeeps`, ...) that it keeps `Sound`,
and `DoesKeeps` carries that over to the state; insertions are only appended (`Grown`), so a
handler of one tab changes no other document (`GrownText`). `TypeCorrect` and `TextIsShown` follow,
for any number of tabs, with a hub that learns of a broken connection at once or later.

**CollabConvergenceProofs** proves `EditorsConverge`. The property speaks of rest, when all streams are empty; what
leads there is about frames on their way. `Conv` says it for a *thing* (an insertion, or a deletion):

* `Spread`: if a connected tab has a thing or will get it from its stream, then every other connected tab has or
  will get it too, or will ask everybody for what it lacks (its welcome is still to come), or the
  first tab has a request in its stream that it will answer with the thing, or the lowest peer will ask for
  it (`Due`) when it takes the frame about the first tab's joining. `Due` has to look at what that
  peer will have by then: its request names what it holds, so a thing it gets before is not in the answer.
* `Greeted`: a tab whose welcome is on its way may drop its seed when it takes it, and deletions travel only in
  answers; so somebody must be about to ask it then, or must itself be about to ask everybody.
* `Kept`: whatever is in the backlog is had by, or on its way to, every connected tab. Without
  it a newcomer could get from the hub what nobody else will hear of.
* `RoomOK`: what a tab believes about who is in the room, corrected by the joins and leaves in its
  stream, agrees with the hub about every lower peer (`LineOK`). This is why the peer that will see
  itself as the lowest (`LowAt`) is the hub's lowest, and why there is one.

`ConvInv` claims `Conv` until the hub refuses an op or somebody is in `unasked`; with `Linked` (a link is an id
that was given out) and the `Inv` above it is inductive. In a quiet state every stream is empty, so that three of the four ways
in `Spread` are gone and connected tabs have the same things, hence the same text. The 17 actions come down to few
kinds of steps, each with one lemma about `Conv`: a tab says something (`Speaks`), takes a frame and perhaps
answers (`Takes`), nothing changes that anybody notices (`Alike`), a tab goes (`Goes`), the hub notes it and tells
the others (`Noted`), and a newcomer enters (`Enters`).
The attempt to prove this is what led to `unasked`: the property used to be checked without lingering peers and for two tabs,
and is not inductive, nor true, beyond that unless a peer that goes before it has asked is taken into account.

The assumptions on constants are the named assumption of each module: finite set of
jobs, natural bounds, at least one slot, and for uploads that a range is not empty and
ends within the promised size, which `write_chunk` enforces.

Only model-checked:

* the liveness properties (`EveryJobSettles` and both `EveryItemSettles`), which are out of the prover's reach.

Every safety property of a passing run is thus stated by a theorem, under the assumptions named above.

## 7. Not modelled

The parts listed as `not_modelled` in `PROJECT.json`, each with its reason; of the modelled
parts, what section 3 leaves out. Panics in a worker (after which its slot would
stay taken), poisoned locks and unplugged drives are not modelled either.

Most of the repository's JavaScript by line count is pages, forms, dialogs and style (the gallery,
the file browser, the form builder, onboarding and set-up pages): React views over queries, whose
state is what is on the screen and whose steps are renderings. They have no protocol to check, and
a model of them would only repeat the code. The share of JavaScript these modules stand for is
therefore small, a few per cent of what the front ends hold, while it is most of
the code in the web application that keeps state across awaits; the other half of the models is of
lunad, which is Rust.

## 8. Running

    tlc -workers 2 -config LunaJobQueue_faults.cfg MCLunaJobQueue
    tlapm LunaJobQueueProofs.tla

and likewise for the other configurations (`PROJECT.json` lists module and file of each run). The
longest run takes about three minutes on two cores, the longest proof (`FileOpsUploadsProofs`) about
five.
