------------------------------ MODULE SyncPath ------------------------------
(***************************************************************************)
(* The sync daemon on one file of a mounted workspace                      *)
(* (cmd/afs/sync_event_reconciler.go, sync_uploader.go, sync_downloader.go,*)
(* sync_full_reconciler.go, sync_recovery_plan.go).  The user of the mount *)
(* edits the local file and peers edit the file in Redis; the daemon keeps *)
(* a baseline, the last content it knows both sides had, and moves changes *)
(* both ways: events go through a queue to one uploader and one downloader *)
(* whose results come back through queues, beside sweeps that compare the  *)
(* two sides and act at once.                                              *)
(*                                                                         *)
(* A body stands for a file's bytes, mode, identity and modification time: *)
(* every write makes a fresh one.  Covered: every interleaving of these    *)
(* goroutines with user and peers, a crash and restart with an older saved *)
(* baseline, sweeps asked for elsewhere (overflow, reconnection).  Not     *)
(* covered: Redis and file-system calls that fail (RemoteFeed), renames,   *)
(* directories, links, chunked contents, tombstones older than five        *)
(* minutes, a state without any entry (cold start).                        *)
(***************************************************************************)
EXTENDS Integers, FiniteSets, Sequences, SequencesExt

CONSTANTS
    MaxChanges,     \* bound on edits by the user and by peers, on crashes of the
                    \* daemon and on sweeps that something else asks for, together
    MaxEvents       \* bound on the file events that wait: more are merged

ASSUME BoundsAssumption == MaxChanges \in Nat /\ MaxEvents \in Nat

Absent == 0
None == [body |-> Absent, rev |-> 0, deleted |-> FALSE]
Entry(body, rev) == [body |-> body, rev |-> rev, deleted |-> FALSE]

VARIABLES
    published,      \* every body the file had in Redis; its length is the revision
    present,        \* the file is in Redis, with the last of them
    local,          \* the body of the local file
    copies,         \* the bodies moved to conflict copies
    base,           \* the entry of the file in the daemon's state
    disk,           \* the entry in the state file
    watch,          \* file events of the path not yet handled
    feed,           \* remote events of the path not yet handled
    look,           \* the remote event in hand, with the entry it found
    echo,           \* the expectation of the echo suppressor
    uploads, upload, uploaded,          \* queue, operation in hand, results
    timers, candidates,                 \* delayed deletions, rename candidates
    downloads, download, downloaded,    \* queue, operation in hand, results
    wanted,         \* the one-slot channel of sweep requests
    rescan,         \* a sweep was put off by a pending upload
    sweep,          \* the sweep in progress
    mode,           \* "starting": before the watcher is installed; "up"
    changes,        \* edits, crashes and sweep requests so far
    removed         \* the user of the mount removed the file at some time

redis == <<published, present>>
incoming == <<feed, look>>
events == <<watch, incoming>>
uploading == <<uploads, upload, uploaded, timers, candidates>>
downloading == <<downloads, download, downloaded>>
sweeping == <<wanted, rescan, sweep, mode>>
vars == <<redis, local, copies, base, disk, events, echo, uploading,
          downloading, sweeping, changes, removed>>

Idle == [pc |-> "idle"]
Nothing == [kind |-> "none", body |-> Absent]

Remote == IF present THEN Last(published) ELSE Absent
Rev == Len(published)
Has(e) == e.body # Absent
Live(e) == Has(e) /\ ~e.deleted
Dead(e) == Has(e) /\ e.deleted
Tombstone(e) == [e EXCEPT !.deleted = TRUE]

Change == changes < MaxChanges /\ changes' = changes + 1
Fresh == 2 + changes

Init ==
    /\ published \in {<<>>, <<1>>} /\ present = (published # <<>>)
    /\ local = Remote /\ copies = {}
    /\ base = IF present THEN Entry(1, 1) ELSE None
    /\ disk = base
    /\ watch = 0 /\ feed = 0 /\ look = Idle /\ echo = Nothing
    /\ uploads = <<>> /\ upload = Idle /\ uploaded = <<>>
    /\ timers = <<>> /\ candidates = {}
    /\ downloads = <<>> /\ download = Idle /\ downloaded = <<>>
    /\ wanted = FALSE /\ rescan = FALSE /\ sweep = Idle
    /\ mode = "up"
    /\ changes = 0 /\ removed = FALSE

-----------------------------------------------------------------------------
(* The user, the peers and the process.                                    *)

\* One more event, or none when the watcher's debounce merges it with one
\* that waits.
Touched ==
    IF mode = "up"
    THEN \/ watch < MaxEvents /\ watch' = watch + 1
         \/ watch > 0 /\ UNCHANGED watch
    ELSE UNCHANGED watch

UserStep ==
    /\ Touched
    /\ UNCHANGED <<redis, copies, base, disk, incoming, echo, uploading, downloading, sweeping>>
UserWrite == Change /\ local' = Fresh /\ UNCHANGED removed /\ UserStep
UserRemove ==
    /\ local # Absent /\ Change
    /\ local' = Absent /\ removed' = TRUE /\ UserStep

\* A daemon that is still starting has not subscribed: the event comes later
\* if it has a cursor to start from, and never otherwise (RemoteFeed).
PeerStep ==
    /\ Change
    /\ feed' = feed + 1 \/ (mode = "starting" /\ UNCHANGED feed)
    /\ UNCHANGED <<local, copies, base, disk, watch, look, echo, uploading, downloading,
                   sweeping, removed>>
PeerWrite == published' = Append(published, Fresh) /\ present' = TRUE /\ PeerStep
PeerRemove == present /\ present' = FALSE /\ UNCHANGED published /\ PeerStep

\* stateWriter: the state is saved some time after it changes.  A save that
\* no crash can follow makes no difference.
Save ==
    /\ changes < MaxChanges /\ disk # base /\ disk' = base
    /\ UNCHANGED <<redis, local, copies, base, events, echo, uploading,
                   downloading, sweeping, changes, removed>>

\* The events of the feed are replayed only to a daemon with a cursor.
Crash ==
    /\ Change
    /\ base' = disk /\ feed' \in {0, feed}
    /\ watch' = 0 /\ look' = Idle /\ echo' = Nothing
    /\ uploads' = <<>> /\ upload' = Idle /\ uploaded' = <<>>
    /\ timers' = <<>> /\ candidates' = {}
    /\ downloads' = <<>> /\ download' = Idle /\ downloaded' = <<>>
    /\ wanted' = FALSE /\ rescan' = FALSE /\ sweep' = Idle
    /\ mode' = "starting"
    /\ UNCHANGED <<redis, local, copies, disk, removed>>

AskSweep ==
    /\ mode = "up" /\ ~wanted /\ Change /\ wanted' = TRUE
    /\ UNCHANGED <<redis, local, copies, base, disk, events, echo, uploading,
                   downloading, rescan, sweep, mode, removed>>

-----------------------------------------------------------------------------
(* The reconciler: events of the local file.                               *)

\* pendingUploads: the tracked uploads whose result is not handled yet.
InHand == upload # Idle /\ upload.op.kind = "file"
Queued == {i \in DOMAIN uploads : uploads[i].kind = "file"}
Answered == {i \in DOMAIN uploaded : uploaded[i].op.kind = "file"}
PendingUploads == Cardinality(Queued) + Cardinality(Answered) + (IF InHand THEN 1 ELSE 0)
Pending == PendingUploads > 0

\* Every entry written gets a new version, even if it says the same: the
\* sweep that planned with the old one will notice.
Record(entry) ==
    /\ base' = entry
    /\ sweep' = IF "current" \in DOMAIN sweep THEN [sweep EXCEPT !.current = FALSE] ELSE sweep
KeepEntry == UNCHANGED <<base, sweep>>

\* Mutant of HandleLocalDelete: a path that is not in the state is not skipped.
TombstoneUnknown ==
    /\ Record(Tombstone(base))
    /\ timers' = Append(timers, base) /\ candidates' = candidates \cup {base.body}
    /\ UNCHANGED uploads

HandleLocalDelete ==
    /\ IF Has(base)
       THEN /\ Record(Tombstone(base))
            /\ timers' = Append(timers, base) /\ candidates' = candidates \cup {base.body}
       ELSE KeepEntry /\ UNCHANGED <<timers, candidates>>
    /\ UNCHANGED uploads

HandleLocalFile ==
    /\ uploads' = IF Has(base) /\ base.body = local THEN uploads
                  ELSE Append(uploads, [kind |-> "file", body |-> local, base |-> base])
    /\ KeepEntry /\ UNCHANGED <<timers, candidates>>

\* The downloader is between two adjacent calls: the watcher holds an event
\* for 100 ms.
Renaming == download # Idle /\ download.pc = "rename"

HandleLocal ==
    /\ mode = "up" /\ look = Idle /\ ~Renaming /\ watch > 0 /\ watch' = watch - 1
    /\ echo' = Nothing
    /\ IF echo = [kind |-> IF local = Absent THEN "delete" ELSE "file", body |-> local]
       THEN KeepEntry /\ UNCHANGED <<uploads, timers, candidates>>
       ELSE IF local = Absent THEN HandleLocalDelete ELSE HandleLocalFile
    /\ UNCHANGED <<redis, local, copies, disk, incoming, upload, uploaded, downloading,
                   wanted, rescan, mode, changes, removed>>

\* The 150 ms in which a deletion may turn out to be a rename are over.
FireDelete ==
    /\ timers # <<>> /\ timers' = Tail(timers)
    /\ uploads' = IF Head(timers).body \in candidates
                  THEN Append(uploads, [kind |-> "delete", body |-> Absent, base |-> Head(timers)])
                  ELSE uploads
    /\ UNCHANGED <<redis, local, copies, base, disk, events, echo, upload, uploaded,
                   candidates, downloading, sweeping, changes, removed>>

-----------------------------------------------------------------------------
(* The uploader.                                                           *)

UploadResult(op, answer, rev) ==
    uploaded' = Append(uploaded, [op |-> op, answer |-> answer, rev |-> rev])

\* Diverged: the remote content is neither the op's nor its baseline's.
Diverged(op) == present /\ Has(op.base) /\ Remote # op.base.body

\* Check that the local file is still what was staged, read the remote one.
TakeUpload ==
    /\ upload = Idle /\ uploads # <<>> /\ uploads' = Tail(uploads)
    /\ LET op == Head(uploads) IN
       IF local # op.body
       THEN UploadResult(op, "skipped", 0) /\ UNCHANGED upload
       ELSE IF op.kind = "file" /\ Remote = op.body
       THEN UploadResult(op, "ok", Rev) /\ UNCHANGED upload
       ELSE IF op.kind = "file" /\ Diverged(op)
       THEN UploadResult(op, "conflict", Rev) /\ UNCHANGED upload
       ELSE /\ upload' = [pc |-> "write", op |-> op, seen |-> <<present, Rev>>]
            /\ UNCHANGED uploaded
    /\ UNCHANGED <<redis, local, copies, base, disk, events, echo, timers, candidates,
                   downloading, sweeping, changes, removed>>

Unconditional(seen) == TRUE       \* mutant: a write without expectations
SeenIsCurrent(seen) == seen[1] = present /\ (present => seen[2] = Rev)

\* A write is conditional on what was read; a removal is not.
FinishUpload ==
    /\ upload # Idle /\ upload' = Idle
    /\ LET op == upload.op IN
       \/ /\ op.kind = "file" /\ local # op.body
          /\ UploadResult(op, "skipped", 0) /\ UNCHANGED redis
       \/ /\ op.kind = "file" /\ SeenIsCurrent(upload.seen)
          /\ published' = Append(published, op.body) /\ present' = TRUE
          /\ UploadResult(op, "ok", Rev + 1)
       \/ /\ op.kind = "file" /\ ~SeenIsCurrent(upload.seen)
          /\ UploadResult(op, "conflict", 0) /\ UNCHANGED redis
       \/ /\ op.kind = "delete"
          /\ present' = FALSE /\ UNCHANGED published
          /\ UploadResult(op, "ok", 0)
    /\ UNCHANGED <<local, copies, base, disk, events, echo, uploads, timers, candidates,
                   downloading, sweeping, changes, removed>>

\* uploadResultObsolete: the baseline moved on while the result waited.
Obsolete(op, rev) ==
    /\ op.kind = "file" /\ Has(base)
    /\ \/ base.deleted
       \/ rev > 0 /\ base.rev > rev
       \/ base # op.base /\ base.body # op.body /\ local = base.body

\* finishPendingUpload: the last result of the path releases the sweep.
NonePending == ~Pending           \* mutant: counted before the decrement
LastPending == PendingUploads = 1

\* What is recorded is what the commit itself returned.
RevisionNow(res) == Rev           \* mutant: the file is looked at again
RecordedRevision(res) == res.rev

HandleUploaded ==
    /\ look = Idle /\ uploaded # <<>> /\ uploaded' = Tail(uploaded)
    /\ LET res == Head(uploaded)
           op == res.op
           again == res.answer = "skipped" \/ Obsolete(op, res.rev)
           released == op.kind = "file" /\ LastPending /\ rescan
       IN  /\ wanted' = (wanted \/ again \/ released)
           /\ rescan' = (rescan /\ ~released)
           /\ downloads' = IF ~again /\ res.answer = "conflict"
                           THEN Append(downloads,
                                  [kind |-> "file", base |-> op.base, conflict |-> TRUE])
                           ELSE downloads
           /\ IF ~again /\ res.answer = "ok" /\ op.kind = "file"
              THEN Record(Entry(op.body, RecordedRevision(res))) ELSE KeepEntry
           /\ candidates' = IF ~again /\ op.kind = "delete"
                            THEN candidates \ {op.base.body} ELSE candidates
    /\ UNCHANGED <<redis, local, copies, disk, events, echo, uploads, upload, timers,
                   download, downloaded, mode, changes, removed>>

-----------------------------------------------------------------------------
(* Remote events and the downloader.                                       *)

\* A tombstone hides the path.
HandleRemote ==
    /\ mode = "up" /\ look = Idle /\ feed > 0 /\ feed' = feed - 1
    /\ look' = IF Dead(base) THEN Idle ELSE [pc |-> "stat", base |-> base]
    /\ UNCHANGED <<redis, local, copies, base, disk, watch, echo, uploading,
                   downloading, sweeping, changes, removed>>

\* The Stat of the same handler: a file that is gone takes the local one along.
StatRemote ==
    /\ look # Idle /\ look' = Idle
    /\ LET stored == look.base IN
       /\ downloads' = IF present \/ Has(stored)
                       THEN Append(downloads,
                              [kind |-> IF present THEN "file" ELSE "delete", base |-> stored,
                               conflict |-> present /\ Has(stored) /\ local \notin {Absent, stored.body}])
                       ELSE downloads
       /\ IF ~present /\ Has(stored) /\ Live(base) THEN Record(Tombstone(base)) ELSE KeepEntry
    /\ UNCHANGED <<redis, local, copies, disk, watch, feed, echo, uploading, download,
                   downloaded, wanted, rescan, mode, changes, removed>>

DownloadResult(kind, answer, body, rev) ==
    downloaded' = Append(downloaded, [kind |-> kind, answer |-> answer, body |-> body, rev |-> rev])

\* The daemon replaces or removes the local file: an event will follow, and
\* the mark that suppresses it is set.
Put(body) ==
    /\ local' = body /\ Touched
    /\ echo' = [kind |-> IF body = Absent THEN "delete" ELSE "file", body |-> body]

PutNothing == UNCHANGED <<local, watch, echo>>
DownloaderOnly ==
    UNCHANGED <<redis, base, disk, incoming, uploading, sweeping, changes, removed>>

MatchesAny(seen, entry) == TRUE   \* mutant: no look at the baseline
MatchesStored(seen, entry) ==
    IF seen = Absent THEN ~Live(entry) ELSE Live(entry) /\ seen = entry.body

\* A removal looks at nothing.  For a file: a look at the local one, compared
\* with the baseline, then a Stat of the remote one.
TakeDownload ==
    /\ download = Idle /\ downloads # <<>> /\ downloads' = Tail(downloads)
    /\ LET op == Head(downloads) IN
       \/ /\ op.kind = "delete"
          /\ IF local = Absent THEN PutNothing ELSE Put(Absent)
          /\ DownloadResult("delete", "ok", Absent, 0) /\ UNCHANGED download
       \/ /\ op.kind = "file"
          /\ download' = [pc |-> "read", conflict |-> op.conflict, there |-> present,
                          seen |-> local, ours |-> MatchesStored(local, op.base)]
          /\ PutNothing /\ UNCHANGED downloaded
    /\ UNCHANGED copies /\ DownloaderOnly

SkipFile == download' = Idle /\ DownloadResult("file", "skipped", Absent, 0)

\* Read the remote file, unless the Stat found none, and look at the local one
\* again: it is as it was, and what a conflict or the baseline allows to replace.
ReadDownload ==
    LET seen == download.seen
        there == download.there /\ present
        gone == ~download.there
        may == download.ours \/ (there /\ download.conflict)
    IN  /\ download # Idle /\ download.pc = "read"
        /\ \/ /\ seen # local \/ ~(there \/ gone) \/ (~may /\ (there => seen # Remote))
              /\ SkipFile
           \/ /\ seen = local /\ there /\ seen = Remote
              /\ download' = Idle /\ DownloadResult("file", "ok", Remote, Rev)
           \/ /\ seen = local /\ there /\ seen # Remote /\ may
              /\ download' = [pc |-> "write", conflict |-> download.conflict, seen |-> seen,
                              body |-> Remote, rev |-> Rev]
              /\ UNCHANGED downloaded
           \/ /\ seen = local /\ gone /\ may
              /\ download' = [pc |-> "remove"] /\ UNCHANGED downloaded
        /\ PutNothing /\ UNCHANGED <<copies, downloads>> /\ DownloaderOnly

\* The file was gone when the Stat looked.
RemoveDownload ==
    /\ download # Idle /\ download.pc = "remove" /\ download' = Idle
    /\ IF local = Absent THEN PutNothing ELSE Put(Absent)
    /\ DownloadResult("delete", "ok", Absent, 0)
    /\ UNCHANGED <<copies, downloads>> /\ DownloaderOnly

Install(body, rev) ==
    download' = Idle /\ Put(body) /\ DownloadResult("file", "ok", body, rev)

\* writeLocalFile looks at the local file before it stages the bytes and again
\* afterwards.  An edit since the comparison is noticed if it falls between the
\* two; otherwise the file is renamed over it, or it is moved aside.
WriteDownload ==
    /\ download # Idle /\ download.pc = "write"
    /\ \/ /\ local # download.seen
          /\ SkipFile /\ PutNothing /\ UNCHANGED copies
       \/ /\ ~download.conflict
          /\ Install(download.body, download.rev) /\ UNCHANGED copies
       \/ /\ download.conflict
          /\ IF local = Absent THEN UNCHANGED <<local, watch, copies>>
             ELSE local' = Absent /\ Touched /\ copies' = copies \cup {local}
          /\ download' = [download EXCEPT !.pc = "rename", !.seen = Absent]
          /\ UNCHANGED <<echo, downloaded>>
    /\ UNCHANGED downloads /\ DownloaderOnly

RenameDownload ==
    /\ Renaming
    /\ Install(download.body, download.rev)
    /\ UNCHANGED <<copies, downloads>> /\ DownloaderOnly

\* A result that finds a tombstone removes the file it wrote, or whatever
\* took its place; the event of that removal is not suppressed.
HandleDownloaded ==
    /\ look = Idle /\ downloaded # <<>> /\ downloaded' = Tail(downloaded)
    /\ LET res == Head(downloaded) IN
       CASE res.answer = "skipped" ->
               wanted' = TRUE /\ KeepEntry /\ UNCHANGED <<local, watch>>
         [] res.answer = "ok" /\ Dead(base) ->
               /\ local' = Absent
               /\ IF local = Absent THEN UNCHANGED watch ELSE Touched
               /\ KeepEntry /\ UNCHANGED wanted
         [] res.answer = "ok" /\ ~Dead(base) ->
               /\ IF res.kind = "file" THEN Record(Entry(res.body, res.rev))
                  ELSE IF Has(base) THEN Record(Tombstone(base)) ELSE KeepEntry
               /\ UNCHANGED <<local, watch, wanted>>
    /\ UNCHANGED <<redis, copies, disk, incoming, echo, uploading, downloads, download,
                   rescan, mode, changes, removed>>

-----------------------------------------------------------------------------
(* The sweep: warmStart on this path.                                      *)

EndSweep(again) ==
    /\ sweep' = Idle /\ mode' = "up" /\ wanted' = (wanted \/ again)
SameDaemon == UNCHANGED <<disk, incoming, uploading, downloading, changes, removed>>

\* scanLocalMeta.
BeginSweep ==
    /\ sweep = Idle /\ (wanted \/ mode = "starting")
    /\ sweep' = [pc |-> "detect", local |-> local]
    /\ wanted' = (mode = "starting" /\ wanted)
    /\ UNCHANGED <<redis, local, copies, base, watch, echo, rescan, mode>> /\ SameDaemon

\* detectOfflineDeletes, then scanRemoteMeta.
DetectAndScan ==
    /\ sweep.pc = "detect"
    /\ base' = IF sweep.local = Absent /\ local = Absent /\ Live(base)
               THEN Tombstone(base) ELSE base
    /\ sweep' = [pc |-> "plan", local |-> sweep.local, remote |-> Remote, rev |-> Rev]
    /\ UNCHANGED <<redis, local, copies, watch, echo, wanted, rescan, mode>> /\ SameDaemon

LocalMatch(l, r, rev) == Has(base) /\ l = base.body    \* mutant: the remote side is taken on trust
MetaMatch(l, r, rev) == Has(base) /\ l = base.body /\ r = base.body /\ rev = base.rev

\* buildPlan: what to do with the two bodies seen; "refresh" repairs the
\* entry at once and "skip" does nothing.
PlannedAction(l, r, rev) ==
    LET changed == [l |-> ~Live(base) \/ l # base.body,
                    r |-> ~Live(base) \/ r # base.body \/ rev # base.rev] IN
    CASE l = Absent /\ r = Absent -> "skip"
      [] l # Absent /\ r = Absent -> IF ~Live(base) THEN "upload"
                                     ELSE IF present THEN "skip" ELSE "delete-local"
      [] l = Absent /\ r # Absent -> IF Dead(base) THEN "delete-remote" ELSE "download"
      [] l # Absent /\ r # Absent ->
            IF MetaMatch(l, r, rev) THEN "refresh"
            ELSE CASE ~changed.l /\ changed.r -> "download"
                   [] changed.l /\ ~changed.r -> "upload"
                   [] changed.l /\ changed.r  -> "conflict"
                   [] OTHER                   -> "refresh"

PlanSweep ==
    /\ sweep.pc = "plan"
    /\ LET l == sweep.local
           r == sweep.remote
           kind == PlannedAction(l, r, sweep.rev)
           deferred == Pending /\ (l # Absent \/ r # Absent)
       IN  /\ rescan' = (rescan \/ deferred)
           /\ base' = IF ~deferred /\ kind = "refresh" THEN [base EXCEPT !.deleted = FALSE] ELSE base
           /\ IF deferred \/ kind \in {"skip", "refresh"} THEN EndSweep(FALSE)
              ELSE /\ sweep' = [pc |-> "act", kind |-> kind, local |-> l, remote |-> r,
                                rev |-> sweep.rev, current |-> TRUE]
                   /\ UNCHANGED <<wanted, mode>>
    /\ UNCHANGED <<redis, local, copies, watch, echo>> /\ SameDaemon

\* actionStillCurrent: neither the entry nor the local file moved; otherwise
\* another sweep is asked for, at once or after the pending upload.
Unmoved == ~Pending /\ sweep.current /\ local = sweep.local
GiveUpAction ==
    /\ rescan' = (rescan \/ Pending) /\ EndSweep(~Pending)
    /\ UNCHANGED <<redis, local, copies, base, watch, echo>> /\ SameDaemon

\* execDownload finds a tombstone, or no file: it returns, and asks nothing.
SkipAndRetry == EndSweep(TRUE)    \* mutant: asks for a sweep, as other checks do
SkipDownload == EndSweep(FALSE)

\* executeAction up to what it reads of the remote file.
Act ==
    /\ sweep.pc = "act"
    /\ \/ ~Unmoved /\ GiveUpAction
       \/ /\ Unmoved /\ sweep.kind \in {"download", "conflict"}
          /\ IF ~present \/ Dead(base) THEN SkipDownload
             ELSE /\ sweep' = [sweep EXCEPT !.pc = "write", !.remote = Remote, !.rev = Rev]
                  /\ UNCHANGED <<wanted, mode>>
          /\ UNCHANGED <<redis, local, copies, base, watch, echo, rescan>> /\ SameDaemon
       \/ /\ Unmoved /\ sweep.kind = "upload"
          /\ IF sweep.remote # Remote \/ (present /\ sweep.rev # Rev) THEN EndSweep(TRUE)
             ELSE /\ sweep' = [sweep EXCEPT !.pc = "publish", !.rev = Rev]
                  /\ UNCHANGED <<wanted, mode>>
          /\ UNCHANGED <<redis, local, copies, base, watch, echo, rescan>> /\ SameDaemon
       \/ /\ Unmoved /\ sweep.kind \in {"delete-local", "delete-remote"}
          /\ sweep' = [sweep EXCEPT !.pc =
                          IF sweep.kind = "delete-local" THEN "unlink" ELSE "remove"]
          /\ UNCHANGED <<redis, local, copies, base, watch, echo, wanted, rescan, mode>>
          /\ SameDaemon

SweepUnlink ==
    /\ sweep.pc = "unlink"
    /\ IF local = Absent THEN PutNothing ELSE Put(Absent)
    /\ base' = IF Has(base) THEN Tombstone(base) ELSE base
    /\ EndSweep(FALSE)
    /\ UNCHANGED <<redis, copies, rescan>> /\ SameDaemon

SweepRemove ==
    /\ sweep.pc = "remove"
    /\ present' = FALSE
    /\ base' = IF Has(base) THEN Tombstone(base) ELSE base
    /\ EndSweep(FALSE)
    /\ UNCHANGED <<published, local, copies, watch, echo, rescan>> /\ SameDaemon

\* The last look at the local file; a conflict moves it aside.
SweepWrite ==
    /\ sweep.pc = "write"
    /\ \/ ~Unmoved /\ GiveUpAction
       \/ /\ Unmoved
          /\ IF sweep.kind = "conflict" /\ local \notin {Absent, sweep.remote}
             THEN local' = Absent /\ Touched /\ copies' = copies \cup {local}
             ELSE UNCHANGED <<local, watch, copies>>
          /\ sweep' = [sweep EXCEPT !.pc = IF local = sweep.remote THEN "record" ELSE "install",
                                    !.local = local']
          /\ UNCHANGED <<redis, base, echo, wanted, rescan, mode>> /\ SameDaemon

\* atomicWriteFileStandalone: the new file is renamed over what is there now.
SweepInstall ==
    /\ sweep.pc = "install"
    /\ Put(sweep.remote)
    /\ sweep' = [sweep EXCEPT !.pc = "record"]
    /\ UNCHANGED <<redis, base, copies, wanted, rescan, mode>> /\ SameDaemon

SweepPublish ==
    /\ sweep.pc = "publish"
    /\ IF SeenIsCurrent(<<sweep.remote # Absent, sweep.rev>>)
       THEN /\ published' = Append(published, sweep.local) /\ present' = TRUE
            /\ sweep' = [sweep EXCEPT !.pc = "record", !.remote = sweep.local, !.rev = Rev + 1]
            /\ UNCHANGED <<wanted, mode>>
       ELSE EndSweep(TRUE) /\ UNCHANGED redis
    /\ UNCHANGED <<local, copies, base, watch, echo, rescan>> /\ SameDaemon

\* updateActionState.
SweepRecord ==
    /\ sweep.pc = "record"
    /\ base' = IF sweep.current THEN Entry(sweep.remote, sweep.rev) ELSE base
    /\ EndSweep(~sweep.current)
    /\ UNCHANGED <<redis, local, copies, watch, echo, rescan>> /\ SameDaemon

-----------------------------------------------------------------------------
Environment == UserWrite \/ UserRemove \/ PeerWrite \/ PeerRemove \/ AskSweep \/ Crash \/ Save
Reconciler == HandleLocal \/ HandleRemote \/ StatRemote \/ HandleUploaded \/ HandleDownloaded
Uploader == TakeUpload \/ FinishUpload
Downloader ==
    TakeDownload \/ ReadDownload \/ RemoveDownload \/ WriteDownload \/ RenameDownload
Sweep ==
    \/ BeginSweep \/ DetectAndScan \/ PlanSweep \/ Act
    \/ SweepUnlink \/ SweepRemove \/ SweepWrite \/ SweepInstall \/ SweepPublish \/ SweepRecord

Daemon == Reconciler \/ FireDelete \/ Uploader \/ Downloader \/ Sweep

Next == Environment \/ Daemon

Spec == Init /\ [][Next]_vars

\* Some goroutine that can run does.  The code gives more, every one of them
\* runs; what is checked does not need it.
FairSpec == Spec /\ WF_vars(Daemon)

-----------------------------------------------------------------------------
(* What should hold.                                                       *)

Bodies == 0 .. 1 + MaxChanges
Written == Bodies \ {Absent}
Entries == [body : Bodies, rev : 0 .. Rev, deleted : BOOLEAN]
UploadOps == [kind : {"file", "delete"}, body : Bodies, base : Entries]

\* Types, and what each queue may hold: no entry, waiting or recorded, is of a
\* revision that Redis has not reached, a deletion carries the entry it deletes,
\* no candidate was ever without content, and a daemon that starts has no work.
TypeOK ==
    /\ published \in Seq(Written) /\ present \in BOOLEAN /\ (present => published # <<>>)
    /\ local \in Bodies /\ copies \subseteq Written
    /\ base \in Entries /\ disk \in Entries /\ (base.deleted => Has(base))
    /\ watch \in 0 .. MaxEvents /\ feed \in 0 .. MaxChanges
    /\ look = Idle \/ (look.base \in Entries /\ ~Dead(look.base))
    /\ echo.kind \in {"none", "file", "delete"} /\ (echo.kind = "file" <=> Has(echo))
    /\ \A i \in DOMAIN uploads : uploads[i] \in UploadOps
    /\ \A i \in DOMAIN timers : timers[i] \in Entries /\ Has(timers[i])
    /\ candidates \subseteq Written
    /\ \A i \in DOMAIN downloads : downloads[i].conflict => downloads[i].kind = "file"
    /\ sweep.pc \in {"install", "publish"} => sweep.remote # Absent \/ sweep.local # Absent
    /\ mode = "starting" => watch = 0 /\ uploads = <<>> /\ downloads = <<>> /\ look = Idle
    /\ changes \in 0 .. MaxChanges /\ {wanted, rescan, removed} \subseteq BOOLEAN

\* docs/internals/atomic-file-commits.md: "A later peer write therefore cannot
\* be recorded as this upload's baseline."  A live entry pairs a revision with
\* the very body that Redis had under that revision, however late the result
\* that recorded it was handled.
BaselinePairs == Live(base) => base.rev \in DOMAIN published /\ published[base.rev] = base.body

\* The daemon puts a body over an edit that it did not look at: nothing but
\* the clock stands between its last look and its rename.  Of a sweep, the
\* look is the one before atomicWriteFileStandalone; of a download that an
\* event caused, the comparison with the baseline, unless writeLocalFile
\* notices the edit.
Unseen ==
    \/ sweep.pc = "install" /\ sweep' # sweep /\ local # sweep.local
    \/ download # Idle /\ download' # download /\ local # download.seen

\* A body of the user that the daemon looked at is not lost when the daemon
\* puts another in its place: it was in Redis already or is kept as a conflict
\* copy, however old the baseline that the download waited with in the queue.
EditsSurvive ==
    [][ (changes' = changes /\ local # local' /\ Absent \notin {local, local'})
        => local \in Range(published) \cup copies' \/ Unseen ]_vars

\* However long an edit waited in the queue, the uploader puts it only over
\* the content that it was based on.  Of a file that the daemon has no entry
\* of, an edit is based on nothing and replaces what a peer put there, as
\* long as that is what the uploader read.
UploadsOverBaseline ==
    [][ (upload # Idle /\ published' # published /\ present /\ upload' = Idle)
        => IF Has(upload.op.base) THEN Remote = upload.op.base.body
           ELSE upload.seen = <<TRUE, Rev>> ]_vars

\* A sweep that was put off because of a pending upload is not forgotten: the
\* upload is still pending, and its result will ask for the sweep.
DeferredSweepKept == rescan => Pending

\* Nothing more is done once user and peers stop.
AtRest ==
    /\ mode = "up" /\ watch = 0 /\ feed = 0 /\ look = Idle /\ ~wanted
    /\ uploads = <<>> /\ upload = Idle /\ uploaded = <<>> /\ timers = <<>>
    /\ downloads = <<>> /\ download = Idle /\ downloaded = <<>>
Quiet == AtRest /\ sweep = Idle

\* The daemon does not chase its own tail: with no more edits, crashes and
\* requests it comes to rest.
ComesToRest == <>[]Quiet

\* Whatever the event path got wrong before, a sweep that begins when user,
\* peers and queues are still makes the two sides the same.  Not so when it
\* has to keep a copy: moving the local file aside may look like a deletion
\* to the watcher, and a tombstone stops the download.
SweepHeals ==
    (/\ changes = MaxChanges /\ AtRest
     /\ sweep.pc = "detect" /\ sweep.local = local
     /\ PlannedAction(local, Remote, Rev) # "conflict")
        ~> (Quiet /\ local = Remote)

\* buildPlan: "Tombstone: user intentionally deleted -> propagate to remote".
\* A sweep removes the file from Redis only if the user of the mount removed
\* it at some time.
TombstonesAreTheUsers == [][ (sweep.pc = "remove" /\ present /\ ~present') => removed ]_vars
=============================================================================
