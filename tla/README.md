# Formal model of Agent Filesystem

Agent Filesystem keeps a shared file tree (a *workspace*) in Redis. Clients
mount or synchronise it; a control plane creates, checkpoints, restores and
deletes it. There is no server process between a client and the tree: clients
run Lua scripts and `WATCH` transactions against Redis, and every guarantee
about the tree comes from what those scripts and transactions compare. This
directory models that protocol in TLA+, model-checks it on small instances with
TLC, and proves the main facts about it with TLAPS for all instances.

Paths below are relative to `src/`.

## 1. The system

| part | code | state | operations |
|---|---|---|---|
| file publication | `mount/internal/client/publication.go` | directory entries, inode hashes, content keys, staged keys, receipts, counters, `root_dirty`, change journal, query dirty set | create, overwrite, delta upload, metadata update, delete |
| generations | `internal/controlplane/generation.go`, `mount/internal/client/generation_client.go` | the generation key: open `g_...`, `fencing:...`, `restoring:...`, `deleted` | fence, claim, open; every client mutation is bound to one value |
| root replacement | `workspace_root.go`, `import_lock.go`, `service.go` (restore), `import_local.go` | import lock with TTL, metadata with `HeadSavepoint`, inode keys, `info`, `root_dirty`, `root_head` | create, restore, delete |
| checkpoints | `service.go` (`saveCheckpoint*`), `checkpoint_publication.go`, `workspace_root_manifest.go` | savepoints (manifests), clean marker | capture of the live tree, upload of a client's manifest, restore's safety checkpoint |
| namespace operations | `native_core.go`, `native_helpers.go` | directories, links, rename | optimistic transactions, 16 attempts |
| range reads and writes | `native_range.go` | content of one inode | stage, compare and publish, 32 attempts |
| native sessions | `native_session.go` | a lease with TTL, count of active requests | admit, barrier, renew, close |
| byte-range locks | `native_locks.go` | lock records per inode and owner | set, test, unlock, split and merge |
| invalidation feed | `invalidate.go`, `native_core.go`, `cmd/afs/sync_full_reconciler.go` | Pub/Sub channel, change stream, replay cursor, event queue | publish, subscribe, reconnect, replay, full sweep |
| sync daemon | `cmd/afs/sync_*.go` | local tree, saved state per path, upload and download queues, echo suppression | watch, upload, download, apply results, full sweep |
| explicit save | `cmd/afs/sync_save_*.go` | save barrier over the sync daemon | save |
| file versions | `internal/controlplane/file_versions.go` | version history, retention | record, restore, trim |
| database manager, catalog, HTTP, MCP, authentication, FUSE and NFS front ends, search and query indexes, command line | | registries, request decoding, derived data | |

**Interactions.** Clients and the control plane share nothing but Redis keys.
Client scripts read the generation key that the control plane writes; the
control plane reads the journal that client scripts append to; a checkpoint is
valid only if that journal did not grow while it read the tree. The import lock
excludes control-plane workers from one another, and because it can expire
under a paused worker each later write also compares the lock's token and the
generation. Publication and Pub/Sub messages connect clients with one another.

**What is hard.** Replies get lost and go-redis sends scripts again; copies of a
script that a client gave up on may still reach Redis; a restore reuses inode
numbers and absent revisions, so an old observation can match a new tree;
workers die between batches; locks, leases and staged keys expire; a tree is
read key by key while it changes; deletion and restore are not atomic. The list
with source lines is `hazards` in `PROJECT.json`.

**What makes each part correct.**

* Publication: a call commits at most once, only over the version it observed,
  in its own generation, and its answer is true; entries, inodes, contents,
  counters and journal agree.
* Generations and replacement: an open workspace shows exactly what was
  published; nobody destroys what is not saved; an interrupted replacement can
  be finished; work of an earlier generation never lands in a later one.
* Checkpoints: a savepoint of the live tree is the tree of one moment; the clean
  marker is true.
* Deletion: nothing reappears afterwards.
* Sessions and locks: a barrier ends, nobody holds a conflicting lock after a
  lease is lost.
* Feed and sync: every change is eventually noticed; an edit that the daemon has
  looked at is never lost to a remote observation.

## 2. Plan

| order | module | status |
|---|---|---|
| 1 | `FilePublication`, abstract `FileStore`, proofs `FilePublicationProofs`, `FilePublicationStore` | done |
| 2 | `RootReplacement`, abstract `PublishedTree`, proofs `RootReplacementProofs` | done |
| 3 | `RemoteFeed`: publisher, Pub/Sub, stream with trimming, subscription pump, event queue, reconciler; each change is eventually noticed; proofs `RemoteFeedProofs` | done |
| 4 | `NativeLocks`: sessions (gate, barrier, renewal, close) and the byte-range locks of one file, with `ByteRanges` (record arithmetic) and the abstract `LockTable`; proofs `ByteRangesProofs`, `NativeLocksProofs`, `NativeLocksTable` | done |
| 5 | `SyncPath`: one file of the sync daemon, local edits against remote events, results out of order, sweeps, crash with an old saved state; proofs `SyncPathProofs` | done |
| 6 | `Namespace`: directories, rename and its checks outside the transaction; the tree stays a tree | not written |
| 7 | `RangeWrites`: read, stage, publish against a moving revision | not written |
| 8 | explicit save over the sync daemon, file versions | not written |

Abstract specifications: `FileStore` (a directory of files with at-most-once
conditional operations), `PublishedTree` (a tree that is replaced only while
closed and only by a savepoint), `LockTable` (a mode per owner and byte).

Runs have two or three concurrent calls, the smallest trees that can be torn
(a root and two nodes) and two contents. Every invariant, action property and
refinement that a passing run checks is also a theorem (section 8); progress is
checked by TLC only.

## 3. `FilePublication`

One directory, any number of names, any number of concurrent calls. A call is
identified by the revision it draws from `newOriginID`, so each call is one
process.

| TLA+ | code |
|---|---|
| `dirents`, `inode`, `content`, `next`, `files`, `total`, `dirty`, `unindexed`, `journal` | the Redis keys of one directory; `inode` keeps revision and size, `content` the call whose bytes it holds and, for a delta, the bytes it patched |
| `stage`, `retired`, `receipts` | `publish:*` staged keys, retired contents, `commit:` receipts |
| `epoch`, `open` | the generation key; `epoch` numbers its open values |
| `Observe` | the stat through a generation-bound client that fixes what the call expects |
| `RefuseEarly` | `checkWriteCondition`; may be skipped, since a cached stat may agree |
| `StageFull`, `CopyLive`, `PatchStage` | `stageFullFile`; `publishChunks` with its separate `COPY` and `SETRANGE` |
| `PublishReply`/`PublishEffect`, `UpdateReply`/`UpdateEffect`, `DeleteReply`/`DeleteEffect` | the three Lua scripts: checks in the order of the script, then all writes |
| `Send`, `ExecuteAndReply`, `ExecuteSilently`, `LoseRequest`, `Retransmit`, `GiveUp`, `ExecuteLate` | one `Eval` through go-redis: evaluated or not, answered or not, sent again, abandoned and evaluated later |
| `ReadReceipt` | the receipt lookup after a transport error |
| `Finish` | the deferred `discardStage` calls, whose errors are ignored |
| `RemoveParent`, `StartRestore`, `FinishRestore`, `ExpireStage`, `ExpireLease` | peers, the control plane, key expiry |

`FileStore` is the contract: a call takes effect at most once, atomically, on the
version it observed, and what it answered agrees. `ImplementsStore` checks the
refinement, with the head of a name mapped to the revision of its inode, the
set of calls that took effect to the calls in the journal, and the answers to
themselves.

Two exceptions stand in the contract because the code has them. Delete and
update keep no receipt, so a call that is sent again can answer a conflict or an
error although its first copy committed. And a creation that was answered
"conflict" can still arrive as an abandoned copy, if the name has become free
again and its stage is still there. Neither is a disagreement with the documents.

| run | instance | shows |
|---|---|---|
| `publication_peers` | 3 calls of all kinds, 1 name, no retransmission | `TypeOK`, `TreeSound`, `Accounting`, `DeltaPatchesExpected`, `JournalExplainsTree` |
| `publication_retries` | 2 calls with leases, 1 name, each sent twice, a restore | `CommitOnce`, `AnswersAreTrue`, `NothingAfterReturn`, `OwnGeneration`, refinement |
| `publication_stalled_delta` | a stall of `publicationTTL` between `COPY` and `SETRANGE` | violation, see section 9 |

**Why the bounds are enough.** Each hazard involves a call, the peer that moves
the state under it, and at most one retransmitted or late copy of the first;
three calls are only needed to delete and recreate under a third. `MaxSends`
counts the first send. `MaxInode` leaves every call its own inode. `MaxEpoch`
2 gives one old and one new tree, whose ids collide. `Sizes` has the empty file,
which has no content key, and one other. `Stalls` names the control states in
which an hour may pass; "copied" is only in the violation run.

## 4. `RootReplacement`

One workspace, any number of control-plane requests, and its clients.

| TLA+ | code |
|---|---|
| `lock` | the import lock; the token is the call |
| `gen` | the generation key: phase and the call that made it |
| `head`, `saved` | `HeadSavepoint`, savepoints with their manifests |
| `live`, `info`, `dirty`, `rootHead` | inode keys, `info`, `root_dirty`, `root_head` |
| `changes` | length of the change stream |
| `published` | history variable: the tree clients were last allowed to see |
| `call` | locals of each request, `at` its position |
| `Acquire`, `Release`, `ExpireLock` | `AcquireImportLock`, `Release`, TTL and heartbeat |
| `ReadGeneration`, `Fence`, `Claim` | `beginRootReplacement`, `restoreCheckpoint`, `transitionRootReplacement` |
| `StartSave` .. `MarkCaptured` | `saveCheckpointFromLive` and `saveCheckpoint`, as a request of its own and as restore's safety checkpoint |
| `StartUpload` | `SaveCheckpoint` with a client's manifest |
| `MoveHead`, `ResetNode`, `ResetMarkers`, `WriteNode`, `WriteInfo`, `MarkClean`, `Open` | the rewriting of the tree |
| `DropNode`, `DropSavepoint`, `DropMeta`, `DropMarker`, `EndDrop` | `DeleteWorkspaceWithImportLock` |
| `Publish`, `MarkRootDirty` | what client scripts do to these keys; section 3 has the detail |
| `Fail`, `Crash` | an error or cancellation anywhere, with the deferred release; the death of the process, without it |

A batch of keys is one key here. Every guarded batch is one transaction, so a
longer batch is a sequence of these steps without interruption, and each
property that holds between single keys holds between batches. `create` stands
for the import and creation of workspaces: they draw a fresh id and put
metadata and the first savepoint before the tree, so a creation happens once and
only in a workspace that was never used (`NeverUsed`).

`PublishedTree` is the contract: clients change the tree while it is open, a
savepoint of the live tree is the published tree itself, savepoints never
change, and a tree is replaced only while closed and only by a savepoint.
`ImplementsPublishedTree` checks it for everything but deletion.

| run | instance | shows |
|---|---|---|
| `replacement` | any 2 requests except deletion; root and 2 nodes, 2 contents, 2 client mutations; starting open or not yet created | `TypeOK`, `ServesPublished`, `CleanMeansSaved`, `SafeToDestroy`, refinement |
| `replacement_ends` | any 2 requests, fair workers | `DeletionIsFinal`, `LockFreed`, `CallsEnd` |
| `restore_without_root` | a creation and two restores | violation, see section 9 |
| `restore_deleted` | a deletion and a restore | violation, see section 9 |

**Why the bounds are enough.** Requests interact through the lock, the
generation, the head and the journal position, each of which has one holder
or value at a time; a stale request and the one that overtook it are the whole
conflict, and the history before the pair is represented by the initial states
and by clients. A chain of three shows only that an unfinished replacement can
pass through several hands (`restore_without_root`). Two nodes below the root
are needed to tear a capture; two mutations to tear it between them. Calls
differ only by the job they begin with, so `CallSymmetry` is sound; it is not used
with the liveness properties.

**Fairness.** `WF(Progress(c))`: a worker that is neither finished nor dead
continues, which is what a goroutine with a live connection does; a failing
connection is `Fail`, so a worker never waits for ever. `WF(Orphaned /\
ExpireLock)`: Redis removes a key with a TTL that nobody refreshes. Nothing is
assumed about requests arriving, clients, failures, or expiry under a working
worker. `Fail` and `Crash` are not fair.

## 5. `RemoteFeed`

One sync daemon, the journal that every mutation of its peers extends, and the
three ways in which it learns of a change: live Pub/Sub, replay, sweep.

| TLA+ | code |
|---|---|
| `journal`, `first` | the change stream and its oldest entry; `MAXLEN ~` may trim all but the last `Retained` (10000; one in the runs, so that changes are lost) |
| `linked`, `wire` | the Pub/Sub connection; `wire` holds journal positions, 0 is a confirmation of the subscription |
| `cursor`, `disk` | `LastStreamID` in memory and in the state file |
| `pump` | the goroutine of `remoteSubscriptionPump` and of the subscriber that calls it; `last`, `todo`, `full` are the locals of `catchUpFromStream` |
| `queue`, `spilled` | the channel of remote events; an event that did not fit |
| `sweep`, `scan` | a pending request for a sweep (both channels that lead to `warmStart`); what the sweep under way has not reached |
| `seen[p]` | the last change of `p` that the daemon has looked at in Redis |
| `dropped` | history variable: paths whose event was thrown away |
| `missed` | history variable: paths with a change that no subscription delivered, since it was published without one or was lost with the connection |
| `EndReconcile`, `StartUp`, `Confirmed`, `ReadBatch`, `Replay` | the initial reconciliation, then `catchUpFromStream` at start and at each confirmation |
| `Send`, `SendSweep` | the nested `select` of `send` |
| `Handle` | `handleRemoteEvent` up to and including its `Stat`; its early return for a tombstone and a stat that fails forget the event |
| `BeginSweep`, `Scan`, `ScanFails` | the control loop's calls of `warmStart`, and the request for a rescan after a failure |
| `Flush`, `Restart` | the debounced state file; death and restart of the process |

What the daemon then does with a path it looked at is `SyncPath`. Changes of
the daemon itself are skipped by origin in both ways in, so only those of peers
are published here. `Paths` are those that the ignore rules let through
(`sync_event_reconciler.go:1138`). Which entries are tombstones is `SyncPath`'s
matter; here the entry of any event may be one, as one of the faults.

| run | instance | shows |
|---|---|---|
| `feed_replay` | with a cursor in the state file or without, a channel of one event, 2 more changes of 2 paths or of everything, any 2 faults | `TypeOK`, `NothingForgotten`, `Noticed` |
| `feed_first_start` | no cursor, one lost connection | violation of `CaughtUp`, see section 9 |

The properties say "unless it was dropped", and `dropped` grows in four places:

* `SendSweep`, when the channel is full again;
* `Handle`, when the entry of the path is a tombstone: the event is off the
  channel, and nobody stats the path or asks for a sweep
  (`sync_event_reconciler.go:1142-1149`; section 9 shows the harm);
* `Handle`, when the stat fails;
* `ReadBatch`, when the stream was trimmed past the cursor and the second call,
  which would show it, fails (its error is ignored).

These are the places where the code does forget an event it was given; the run
and the theorem show that there are no others, for a daemon with a cursor and
for one without. What no subscription delivered is another matter: with a cursor
a replay finds it, and without one nothing does. In this commit no daemon gets a
cursor, since only a replay writes one; `feed_replay` covers it for a state
file written by another version. `Noticed` and `NothingForgotten` therefore
except `missed` changes of a daemon without a cursor. `CaughtUp` is `Noticed`
without that exception, which is what the comment of the pump promises, and
`feed_first_start` refutes it.

go-redis's own buffer of received messages, which drops a message that waits
for a minute, is not modelled.

**Bounds.** The channel holds 256 events and a batch 500 entries in the code; one
and two are enough to overflow the first and to need a second batch, with two
changes during the run. Two paths tell an event for one from a sweep. Two
faults let one strike the recovery from another: a read that fails after a lost
connection, a crash after a failed sweep. Positions stand for stream
identifiers: the comparison of identifiers as strings, which goes wrong
between `-9` and `-10` within a millisecond, is not reproduced.

**Fairness.** Goroutines with something to do run (`PumpStep`, `Handle`,
`ControlStep`), and the subscriber tries until it is connected, which its
endless loop does. Publishing, `Flush` and faults are not fair.

## 6. `NativeLocks`

Native mounts, the lock owners that call them, and the lock hash of one file.

| TLA+ | code |
|---|---|
| `generation`, `lease`, `table`, `tableTTL` | the generation key, one lease key per mount, the lock hash of the inode with a field per owner, its TTL |
| `session` | `nativeSession`: `active`, `paused`, `lost`, the generation it was opened in, whether it renews a lock hash (`tracked`) |
| `asleep` | who waits on the `changed` channel |
| `call` | one request of an owner: gate, check, work, check, leave |
| `clean` | `WATCH`: the owners whose watched keys nobody touched |
| `held` | history variable: what the owner was last told it has |
| `NewNative`, `Renew`, `Close`, `Crash` | opening with its first check; the renewal script; `Close` with a `DEL` that may not arrive; the death of the process |
| `Begin`, `LastCheck`, `Finish`, `GiveUp` | `begin` (gate and check), the check of `finish`, its accounting, a waiting call whose context ends |
| `Watch`, `Retry`, `Exec` | `retryWatch` around `trySetLock` and `UnlockAll`, pruning of dead owners included |
| `Wake` | the 50 ms pause of a waiting `Setlk` |
| `Write` | any mutation of the file under the session: its script compares generation and lease |
| `BarrierPause`, `BarrierWait`, `BarrierDrained`, `BarrierCancelled` | `Barrier` |
| `Tick`, `Replace` | time; a root replacement, which deletes the lock hashes |

`ByteRanges` is the record arithmetic (`applyFileLock`, `normalizeFileLocks`),
written as functions over sequences, and `LockTable` the promise: every owner
has a mode on every byte, living owners never hold modes that exclude each
other, and a step changes one living owner, or ends owners for good.
`ImplementsLockTable` maps the hash with its leases to it, a session being over
as soon as its lease or its generation is gone.

Abstractions. `WATCH`, the guards and the reads are one step: a key that changes
after `WATCH` fails the `EXEC`, and the leases of peers, which are read and not
watched, only go from present to absent while a session runs. The hold of a barrier on the
mutex from its last look at `active` to its resume is one step. `NewNative` sets
its lease and checks in one step, since nobody calls a session before it is
returned. A deleted file looks like a failed call. A key set in one tick lives
for `LeaseTicks - 1` to `LeaseTicks` ticks, and a reply is received or given up
within the tick of its commit.

| run | instance | shows |
|---|---|---|
| `native_locks` | two mounts with one owner each; `a` waits for a write lock on the whole file, `b` takes a read lock and then either unlocks all or mutates the file; one mount has a barrier and may close, the other may crash; one fault; one root replacement | `TypeOK`, `HeldIsRecorded`, `NoLostWakeup`, `RecordsOfThisGeneration`, `WritesAreFenced`, `BarrierDrains`, `ImplementsLockTable`, `WaiterOutlivesHolders` |

The run also evaluates `ApplyFileLockExact`: for every field of an owner over
five bytes and every request, the records that `applyFileLock` leaves are normal
and mean the old modes updated by the request.

What holds is worth saying exactly. A lock an owner was told of stays recorded
only while its session is valid; once the lease is gone, peers may take the
bytes at once, and what keeps the former holder from harm is the lease check
inside its next mutation's script (`WritesAreFenced`). After an answer that is an error
the owner knows nothing of the bytes it asked about: the transaction may have
committed. A caller that receives "lock held" waits outside the session, so a
barrier does not wait for it.

**Bounds.** Conflicts are between two owners; a third adds another record to
prune. Three bytes with whole-file requests keep the transactions small, since
splitting and merging are checked on five bytes by themselves. `MaxAttempts` 2
lets a transaction run once more and then give up (16 in the code). A lease of
two ticks and a hash of four keep the ratio of the code. One fault at a time:
the fault budget is shared by crashes, failed calls, lost replies and
cancellations.

**Fairness.** `WF(Tick)`: time passes. `WF` of each owner's own steps and of
each barrier's: goroutines run. Renewal is not fair, so a mount may lose its
lease at any time, and neither are requests, closing, faults or replacements.

## 7. `SyncPath`

The sync daemon on one file: its user, its peers, and the daemon's own
goroutines.

| TLA+ | code |
|---|---|
| `published`, `present` | the file in Redis; the length of its history is its revision |
| `local`, `copies` | the file in the mounted directory; conflict copies |
| `base`, `disk` | the entry of the path in `SyncState`, in memory and in the state file |
| `watch`, `feed`, `look` | events of the watcher (debounced), of the feed, and the remote event in hand, between its read of the state and its `Stat` |
| `echo` | the mark of the echo suppressor |
| `uploads`, `upload`, `uploaded` and `downloads`, `download`, `downloaded` | queue, operation in hand and results of each worker |
| `timers`, `candidates` | deletions held back for 150 ms as possible renames |
| `wanted`, `rescan`, `sweep` | the one-slot request for a sweep, a sweep put off by a pending upload, the sweep in progress with what it saw |
| `HandleLocal`, `HandleRemote`/`StatRemote`, `HandleUploaded`, `HandleDownloaded`, `FireDelete` | the handlers of the reconciler |
| `TakeUpload`/`FinishUpload` | the uploader: its checks and reads, then its write |
| `TakeDownload`, `ReadDownload` | the downloader: its first look at the local file and the `Stat` (`sync_downloader.go:131-137`), then the read, the second look and the comparison with the baseline (150-201) |
| `WriteDownload`, `RenameDownload`, `RemoveDownload` | `writeLocalFile` (600-647): its own two looks and what follows, the rename after a conflict's move, a removal |
| `BeginSweep`, `DetectAndScan`, `PlanSweep`, `Act`, `SweepWrite`/`SweepInstall`, `SweepPublish`, `SweepRemove`, `SweepUnlink`, `SweepRecord` | `warmStart` on this path, split between its scans, its decision, its last look and its effect |
| `Save`, `Crash` | the debounced state file; death of the process, restart with what was saved |

A body stands for everything the daemon compares of a file: bytes, mode,
identity and modification time. Every write makes a fresh body, so "the same
again" only happens when one side copies the other. Renames, directories, links,
chunked files, failing calls (their effect on the feed is in `RemoteFeed`),
tombstones older than five minutes and a start without any state are left out.

The daemon writes over a local file in three places, each some time after it
looked, and each wait is between two actions here. `writeLocalFile` takes the
file it finds at line 610 as its reference, whatever the comparison with the
baseline at 190 saw: an edit in between is accepted (`ReadDownload`,
`WriteDownload`). It then stages the bytes and looks again at 636. An edit
between 610 and 636 is noticed, one before 610 is not; so one action with both
outcomes stands for the two looks. A conflict's move (641) and its rename (646)
are two actions, as are a sweep's last look and its rename (`SweepWrite`,
`SweepInstall`), where the content is staged. Merged are the check at 636 with
the move or rename that follows it, since an edit between these looks
like one before 610, and the rename, the echo mark and the `Lstat` of the result
after it. The reconciler does not handle the event of a conflict's move before
the rename, because the watcher holds every event for 100 ms; user, peers and
crashes do act there.

A crash may lose the waiting events of the feed for good, and a daemon that is
starting may miss new ones: both happen to a daemon without a cursor (section 5).

| run | instance | shows |
|---|---|---|
| `sync_path` | any three of: edits and removals by user and peers, crashes, sweep requests | `TypeOK`, `BaselinePairs`, `DeferredSweepKept`, `EditsSurvive`, `UploadsOverBaseline`, `ComesToRest`, `SweepHeals` |
| `sync_tombstones` | the same | violation, see section 9 |

The properties promise less than one might expect, because the code does less.
Once user and peers are still, the event path alone need not make both sides
equal; `SweepHeals` says that a sweep which then begins does. What the
model showed on the way, and what the properties therefore do not promise:

* A file that is created and removed before the result of its upload was handled
  stays in Redis until a sweep: the removal finds no entry and does nothing.
* `handleDownloadResult` has no counterpart of `uploadResultObsolete`: a late
  result overwrites a newer entry, though with a pair that is true
  (`BaselinePairs`).
* A second save that is staged before the first one's result was handled has the old
  baseline and makes a conflict copy of the user's own earlier save.
* To resolve a conflict the daemon moves the local file aside. The watcher's
  event of that move is not suppressed; if it is handled before the new content
  is in place it is taken for a removal by the user. A crash at the same point leaves
  no local file, and the next start takes that for an offline deletion. Hence
  the exclusion of "conflict" in `SweepHeals`.
* A tombstone with a file on both sides is left as it is until the tombstone is
  five minutes old.
* A removal that comes late, from a remote deletion or from a download's result
  that finds a tombstone, removes whatever local file is there, an edit
  included. `EditsSurvive` is about bodies put in place of others, not about
  removals.
* An edit after the daemon's last look is replaced without a copy. The last look
  of a sweep is the one before it stages the content; that of a download caused
  by an event is the comparison with the baseline, except for edits that
  `writeLocalFile` notices; and a conflict's rename goes over a file created
  since the move. `EditsSurvive` is about edits the daemon has looked
  at and names the others `Unseen`. No property covers that loss: the code has
  it, and no line promises otherwise.
* A daemon without an entry for a path has no baseline to compare. If user and
  peer create the same file, the upload replaces what the peer put there, as
  long as that is what the uploader has just read (`sync_uploader.go:382`, `396`), and no
  conflict copy is made. `UploadsOverBaseline` states both cases: with a
  baseline only the baseline's content is replaced, without one only what
  was read.

**Bounds.** Two changes show every conflict of user and peer; the third lets one
of them come back after the daemon has drawn its conclusion, or the daemon crash.
One waiting file event is enough because the watcher merges events of a path.
Queue lengths are bounded by the number of changes. Deadlock is not checked:
the daemon rests when everything is done.

**Fairness.** `WF(Daemon)`: some goroutine of the daemon that can run does. The
code gives more, since every goroutine runs; the properties do not need it. User,
peers, crashes, sweep requests and the saving of the state are not fair. In particular
nothing assumes that a sweep ever begins.

## 8. Proofs

| theorem | module | says |
|---|---|---|
| `TypeCorrect` | `FilePublicationProofs` | `Spec => []TypeOK` |
| `CommitsOnce` | `FilePublicationProofs` | `Spec => []CommitOnce` |
| `AnswersStayTrue` | `FilePublicationProofs` | `Spec => []AnswersAreTrue` |
| `TreeStaysSound` | `FilePublicationStore` | `Spec => []TreeSound` |
| `CountersAreExact` | `FilePublicationStore` | `Spec => []Accounting` |
| `JournalIsTrue` | `FilePublicationStore` | `Spec => []JournalExplainsTree` |
| `GenerationsStayApart` | `FilePublicationStore` | `Spec => []OwnGeneration` |
| `DeltasPatchExpected` | `FilePublicationStore` | `"copied" \notin Stalls` implies `Spec => []DeltaPatchesExpected` |
| `ReturnIsFinal` | `FilePublicationStore` | `Spec => NothingAfterReturn` |
| `StoreImplemented` | `FilePublicationStore` | `Spec => ImplementsStore` |
| `TypeCorrect` | `RootReplacementProofs` | `Spec => []TypeOK` |
| `OpenTreeIsWhole` | `RootReplacementProofs` | `Spec => []ServesPublished` |
| `MarkerIsTrue` | `RootReplacementProofs` | `Spec => []CleanMeansSaved` |
| `RestoreIsSafe` | `RootReplacementProofs` | `"delete" \notin Offered` implies `Spec => []SafeToDestroy` |
| `NothingReappears` | `RootReplacementProofs` | `Spec => DeletionIsFinal` |
| `PromiseKept` | `RootReplacementProofs` | `"delete" \notin Offered` implies that `Spec` without a torn takeover implements `PublishedTree` |
| `PiecesExact`, `RequestsAreRecorded` | `ByteRangesProofs` | the records a request leaves are tidy and mean the old modes updated by the request, at every byte, for every offset width |
| `NoRecordOfAnOldGeneration` | `NativeLocksProofs` | `Spec => []RecordsOfThisGeneration` |
| `SleepersHaveACause` | `NativeLocksProofs` | `Spec => []NoLostWakeup` |
| `BarriersDrain` | `NativeLocksProofs` | `Spec => BarrierDrains` |
| `StateIsTyped` | `NativeLocksTable` | `Spec => []TypeOK` |
| `LocksStayRecorded` | `NativeLocksTable` | `Spec => []HeldIsRecorded` |
| `WritesStayFenced` | `NativeLocksTable` | `Spec => WritesAreFenced` |
| `LockTableImplemented` | `NativeLocksTable` | `Spec => ImplementsLockTable` |
| `FeedIsTyped` | `RemoteFeedProofs` | `Spec => []TypeOK` |
| `NothingIsForgotten` | `RemoteFeedProofs` | `Spec => []NothingForgotten` |
| `QueuesAreTyped` | `SyncPathProofs` | `Spec => []TypeOK` |
| `BaselinesAreTrue` | `SyncPathProofs` | `Spec => []BaselinePairs` |
| `DeferredSweepsAreKept` | `SyncPathProofs` | `Spec => []DeferredSweepKept` |
| `UploadsReplaceTheirBaseline` | `SyncPathProofs` | `Spec => UploadsOverBaseline` |
| `UserBodiesSurvive` | `SyncPathProofs` | `Spec => EditsSurvive` |

They hold for every number of calls, names, inodes, nodes, contents, restores,
retransmissions and late copies; of mounts, owners, programs of requests, ticks and
faults; of paths, changes, batches and channel sizes; and of edits, events,
sweeps and crashes. The assumptions on constants stand in the modules that declare
them, and TLC evaluates them in each run:

* `FilePublication`: identifiers are distinct and "no key" is none of the values
  a key can have (`IdsAssumption`); bounds are natural, names finite
  (`BoundsAssumption`); the checkpoint gives different names different inodes
  (`BaseAssumption`).
* `RootReplacement`: "absent" is not a content, a tree or a savepoint.
* `ByteRanges`, `NativeLocks`: finitely many owners, each of one mount
  (`OwnersAssumption`); programs consist of requests a client can send, and a
  lease lasts (`ProgramAssumption`). A range that ends before it starts never
  leaves the client, so `Operations` has none.
* `RemoteFeed`: the channel, a batch and the retained part of the stream are not
  empty, the cursor is a position of the journal or 0 (`FeedConstants`).
* `SyncPath`: bounds are natural (`BoundsAssumption`).

Three theorems carry a hypothesis, and a run shows what the excluded case does.
`DeltasPatchExpected` excludes the stall of `publication_stalled_delta`, and
`RestoreIsSafe` and `PromiseKept` the deletion of `restore_deleted`; the second
hypothesis of `PromiseKept` is discussed below.

### `FilePublication`

*Types* (`TypeInv`) are inductive together with `WellFormed`: a call that may
reach Redis carries a request for an allocated inode id.

*At most once* (`CommitInv`) is not inductive alone: that a second copy does not
commit depends on the marks the first left behind. `Marks` says that a
publication is in the journal exactly if it has a receipt; that every revision
in the tree or in a request is that of a committed call or none at all; and that
what a committed update or delete compared is gone for good (`Superseded`): its
generation is closed, its inode is gone, or the inode has another revision. A
revision is drawn by one call, so it cannot return within a generation.

*True answers* (`AnswerInv`) adds `FreshIds` (an inode id is allocated once per
generation, so nobody else asks for the id of a creation that has not happened),
`Replies` (scripts run after the first send, the answer comes last) and `Truth`
for each call: a publication that was refused, except a creation by a conflict,
is `Dead`, which means that the generation, lease, parent or revision it needs
is gone, and that stays so.

*The tree* (`TreeInv`, in `FilePublicationStore`) adds that entries, inodes and
contents describe the same files. From it come the counters: `total` is a sum over a
finite set, and a script changes one term of it. The sum is defined by
recursion over sets, which is data; the lemmas about it avoid induction schemes by
looking at the least number for which the statement would fail. The journal
theorem follows the last entry of each name through every script; a reopened
tree has no entry of its generation yet.

*Deltas* (`DeltaBases`). The private copy holds whatever was live, whoever made
it. But as long as the inode still has the revision the call observed
(`StillBased`), nobody has published over it, so the copied bytes are those of that
revision (`Basis`); the script compares the revision, so no other delta is
published.

*The store.* Each script that takes effect is one step of `FileStore`, with its
answer if the reply arrives; late, lost and repeated copies are stutters by
at-most-once; an answer that is given later is true by `AnswerInv`.

### `RootReplacement`

*The open tree* (`TreeInv`). Which requests may still write is a matter of
names: once a request has fenced its predecessor, the generation it compares
carries its own name (`Placed`), so a request that passes `Guarded` in the
rewriting phase is the author of the current generation. What the author has
written so far is described by its `todo` and `copy` (`Built`). Expiry of the
lock needs no argument: the proof never uses who holds it.

*The clean marker* (`SaveInv`). A checkpoint captures under an open generation
and compares it once more when it commits. That this comparison means anything
rests on `Holds`: whoever made an open generation has nothing left to do
(`Past`), so the generation cannot have gone and come back. As long as neither
it nor the journal has moved, the capture agrees with the keys (`Captured`), and
a capture found to be equal to the head stays equal (`Marked`). A replacement
writes the savepoint the head already names (`Aimed`); for a creation this needs
that it happens once and in a workspace never used (`Creating`, `Pristine`).

*Nothing unsaved is destroyed* (`KeptInv`). From the fence on, what clients saw is
either in a savepoint (`Kept`) or still whole with a marker that says dirty; a
restore that claims the tree has made it `Kept`, by the marker, by its safety
checkpoint, or because it took over from one that had. The theorem excludes
deletion, and must: deletion drops savepoints, and section 9 shows a restore
that takes over a tombstone.

*The promise* (`PromiseKept`). A capture that commits is the published tree
because its author fenced it whole (`FencedWhole`), and a tree is reopened from a
savepoint because the head names one. It is not true of every behaviour: a
restore that finds `fencing:` believes the tree to be the one clients published,
but an earlier restore may have begun to rewrite it (section 9). `TornTakeover`
is exactly that step, and the theorem is about behaviours without it. The step
takes three requests, and four to do harm, so run `replacement`, with two, does
not need the hypothesis.

### `NativeLocks`

*Records* (`ByteRangesProofs`). `applyFileLock` cuts the requested range out of
what overlaps it, adds the request and lets `normalizeFileLocks` sort and merge.
`PiecesExact` is the cutting. `RequestsAreRecorded` is the whole: a field is
`Tidy` if its records are proper, sorted and disjoint; sorting permutes, and the
fold that merges neighbours neither loses nor adds a byte, by the least prefix
at which it would.

*Sessions* (`NativeLocksProofs`). One invariant (`IInv`) carries three theorems.
A record belongs to the current generation, and so does every
owner whose `WATCH` is still clean: a replacement changes a watched key, so what
was read before it cannot commit after it.
`NoLostWakeup` alone is not inductive: that a closed gate opens again
needs to know that whoever closed it is still there, so a closed gate belongs
to a barrier in its "drain" phase.
`active` is exactly the number of requests between the gate and their
finish. Each step of an owner counts its own request in, out, or leaves it
(`RequestEffect`); a crash starts the count again with no request inside. A
barrier that sees zero has therefore seen all of them answer.

*The table* (`NativeLocksTable`, `TableInvariant`). Modes of living owners do
not exclude each other (`Exclusive`); a transaction that can still commit saw every
record of the living, and whom it prunes has lost its lease for good (`Commits`);
and on every byte that no request of its own has changed since, the record is
what the owner was told (`Recorded`). The lock hash outlives the lease of every
session that renews it (`Expiry`), and whoever was told of a lock renews it
(`Tracked`). A commit then changes the bytes of one living owner after looking at
all others.

### `RemoteFeed`

`NothingForgotten` says that a change is on its way somewhere, and every step
moves some changes from one place to the next. Two invariants follow them.

`DeliveredInv` holds for every daemon: a change that was not compared is kept by
the daemon (channel, sweep, `spilled`, `dropped`), is on the wire, or is `missed`.
A change enters `missed` only when it is published without a subscription or
lost with one, and leaves the wire only into the daemon.

That a `missed` change is due in a replay needs more. A daemon that starts without
a cursor stays without one (`NoCursor`), since only a replay writes it, and the
property asks nothing. A daemon with one satisfies `WithCursor`, which says who
still hears of each position of the journal. Up to the cursor, and up to the
entry a replay has dispatched last, what has not been compared is with the daemon
itself, in its channel or in a sweep (`KnownUpTo` in `CursorInv`). A batch is a run
of consecutive entries; what lies between it and the replay's position was
trimmed and given up (`BatchInv`). A last batch reaches the end of the journal, and
whatever is published after it was read is heard of on the wire, or the
subscriber is cut off and its next confirmation starts a replay (`Heard`). A pump
that has not listened yet has no subscription, so a replay that is given up at
start is not missed (`PumpInv`).

### `SyncPath`

One invariant (`Inv`) carries all five theorems. The saved entry is written from
whatever a worker brings back, so the invariant follows everything that is on its
way to an entry: for each queue, worker and sweep it says which members it may have
(`Uploads`, `Uploading`, `Results`, `Downloads`, `Arrivals`, `Planned`, ...),
and these sets depend on the state, because what they say is that a revision is
paired with the body that Redis had under it. That a new revision makes none of
those pairs false needs only that a revision is given out once.

`UploadsReplaceTheirBaseline` uses, for an edit with a baseline, that the revision
the script compares belongs to the body the edit was staged against; without one,
that the script compares the revision that was read. `UserBodiesSurvive`
uses that what a worker has in hand when it goes to replace a file is either
what its baseline says, which Redis has had (`Looking`, `Replacing`), or goes to
a copy by a conflict's move. A file that is another one by then was edited
after the last look, which is `Unseen`.
`DeferredSweepsAreKept` counts: `PendingUploads` is the number of
uploads of the path that are queued, in hand or answered, the counter that
`finishPendingUpload` keeps, and a sweep that was put off has one that is not
zero.

### What is only model-checked

Progress: `LockFreed`, `CallsEnd`, `Noticed`, `WaiterOutlivesHolders`,
`ComesToRest` and `SweepHeals`. The provers here handle neither `ENABLED` nor
fairness. The five violations are TLC's. Induction over data through a predicate
parameter is out of reach as well, and not needed: sums, maxima and folds are
treated with a least counterexample (`NatLessThanWellFounded`, `WFMin`).

Some definitions have a form that the provers can follow and that changes
nothing for TLC: alternatives of a `CASE` exclude each other, the i-th record of
`Sorted` is the one with i - 1 records before it, and what `XREAD` returns
(`Next500`) is written as an interval of positions.

## 9. Where code and documents disagree

* **A stalled delta upload publishes bytes of nothing.** `publishChunks` copies the
  live content, sets its expiry, and patches the copy by `SETRANGE` later. If the
  copy expires in between, `SETRANGE` starts a zero-filled key, and the
  publication accepts it, because only the live revision is compared.
* **A restore can be wedged.** Restore skips its safety checkpoint only if it finds
  `restoring:`. A restore that takes over such a tree first writes `fencing:`; if
  it stops there, the root is still missing, and every later restore
  finds `fencing:`, tries to save the missing root, and fails with the advice to
  restore explicitly.
  With four restores the same cause does more harm. The first writes the tree and
  stops after `info`, before it marks the tree clean; the second takes over and
  stops while it deletes nodes; the third takes over `restoring:`, writes
  `fencing:` and stops; the fourth finds `fencing:`
  (`internal/controlplane/service.go:1451`), takes the half-deleted tree for
  what clients published and saves it as a safety checkpoint. TLC finds this
  violation of `CapturesPublished` and `ImplementsPublishedTree` with four
  requests, and none in all states of three. No run has four, because one takes
  minutes; `TornTakeover` in `RootReplacementProofs` names the step.
* **A new daemon never replays.** The cursor is written only by a replay, and a
  replay needs a cursor; without one `catchUpFromStream` reports success. After
  a lost connection, or between its initial reconciliation and its first
  subscription, such a daemon misses changes until some sweep happens for
  another reason (`CaughtUp`).
* **A restore accepts a tombstone.** Restore does not look at the phase of the
  generation it takes over. After a deletion that stopped between two batches it
  saves the half-deleted tree as a safety checkpoint and reopens the workspace.
* **The daemon's own tombstone deletes a peer's file.** When a file is gone from
  Redis, `handleRemoteEvent` marks its entry deleted, the same mark that a
  removal by the user leaves. If a peer writes the file again before the local
  one is removed, its event is dropped because of that mark ("the delete upload
  will propagate the removal"; there is none), and the next sweep reads the
  mark as "user intentionally deleted" and removes the peer's new file from
  Redis.

## 10. Not modelled, and why

Contents and paths are model values. Blobs and their reference counts,
changelog, audit records, sessions lists, the name index and file versions are
written beside the modelled transactions and read by none of their guards.
Redis itself is one server with atomic scripts and transactions; fail-over to a
replica that lacks acknowledged writes is outside what the code claims.
Receipts live for seven days and are not expired. Deletion keeps the lock and the
tombstone, and its journal deletion is left out: no request under a tombstone
reaches a comparison of the journal before one of the generation.
`AdoptWorkspaceGeneration` is an offline migration.

Of the native client, renames and links (two concurrent renames of directories
that each pass the subtree check made before the transaction) and range writes
(stage and publish against a moving revision, 32 attempts) are not modelled;
that 16 attempts run out under contention is what the code does and no line
promises otherwise. How a daemon replaces its local
tree after a restore is left out, as is the comparison of stream identifiers as
strings. Of the sync daemon, renames, directories, links,
chunked files and the explicit save are left out; file versions are a log that no
modelled guard reads. The parts with status `not_modelled` in
`PROJECT.json` carry their reason there, and hazards without a property theirs.

## 11. Running

    tlc -config FilePublication_peers.cfg MCFilePublication
    tlc -config RootReplacement_replacing.cfg MCRootReplacement
    tlc -config RemoteFeed_replay.cfg MCRemoteFeed
    tlc -config NativeLocks_two.cfg MCNativeLocks
    tlc -config SyncPath_one.cfg MCSyncPath
    tlapm FilePublicationProofs.tla
    tlapm FilePublicationStore.tla
    tlapm RootReplacementProofs.tla
    tlapm ByteRangesProofs.tla
    tlapm NativeLocksProofs.tla
    tlapm NativeLocksTable.tla
    tlapm RemoteFeedProofs.tla
    tlapm SyncPathProofs.tla

Each run takes between a few seconds and about two minutes with two workers.
Definitions whose comment says "mutant of X" are plausible bugs in X: replacing X
by one of them makes the property named in `mutants` fail, which shows that the
property depends on that piece of code.
