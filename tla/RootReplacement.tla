-------------------------- MODULE RootReplacement --------------------------
(***************************************************************************)
(* How the control plane replaces, captures and deletes the live tree of   *)
(* one workspace (internal/controlplane: generation.go, import_lock.go,    *)
(* checkpoint_publication.go, workspace_root.go, service.go, store.go).    *)
(*                                                                         *)
(* The live tree is a set of Redis keys that no single transaction can     *)
(* replace.  A worker therefore takes the import lock (a key with a TTL),  *)
(* turns the generation key from open into "fencing" and "restoring" so    *)
(* that writers of the old generation are refused, and rewrites the keys   *)
(* batch by batch.  Each batch is one WATCH transaction that checks both   *)
(* the lock's token and the generation, because the lock may expire under  *)
(* a paused worker.  Checkpoints of the live tree take no lock: they read  *)
(* the tree key by key and compare the change journal before and after.    *)
(*                                                                         *)
(* A call is one request to the control plane, made once by one worker;    *)
(* it names its lock token, its new generation and its new savepoint.      *)
(***************************************************************************)
EXTENDS Naturals, FiniteSets

CONSTANTS
    Calls,       \* requests to the control plane
    Offered,     \* the jobs that are asked for, see Jobs
    Paths,       \* nodes of the tree: Root and what is below it
    Root,
    Versions,    \* contents a node can have
    First,       \* the content every node of the base savepoint has
    BasePaths,   \* the nodes of the base savepoint
    Base,        \* the base savepoint and the generation it was opened with
    Nobody,      \* no call: a free lock, a generation without an owner
    Absent,      \* a key that does not exist
    Openings,    \* TRUE: the workspace starts open; FALSE: not yet created
    MaxChanges   \* bound: mutations published by clients

Replacing == {"restore", "create", "delete"}    \* jobs that take the lock
Saving == {"save", "force"}  \* of the live tree; "force": AllowUnchanged
Jobs == Replacing \cup Saving \cup {"upload"}
Savepoints == Calls \cup {Base}

ASSUME ReplacementConstants ==
    /\ Offered \subseteq Jobs
    /\ Root \in BasePaths /\ BasePaths \subseteq Paths
    /\ First \in Versions /\ Absent \notin Versions
    /\ Base \notin Calls /\ Nobody \notin Savepoints
    /\ Absent \notin Savepoints
    /\ Openings \subseteq BOOLEAN
    /\ MaxChanges \in Nat

ASSUME AbsentIsNoTree == Absent \notin [Paths -> Versions \cup {Absent}]

VARIABLES
    lock,      \* import_lock: the call whose token it holds, or Nobody
    gen,       \* generation key: phase and the call that made it
    head,      \* HeadSavepoint in the workspace metadata; Absent: no metadata
    saved,     \* the manifest of each savepoint; Absent: no such savepoint
    live,      \* the inode keys: the content of each node or Absent
    info,      \* the info key exists (written last)
    dirty,     \* root_dirty: "1", "0" or Absent
    rootHead,  \* root_head: the savepoint the clean marker is about
    changes,   \* length of the change journal
    published, \* history: the tree that clients were last allowed to see
    call       \* the local state of each call

vars == <<lock, gen, head, saved, live, info, dirty, rootHead, changes,
          published, call>>
tree == <<live, info, dirty, rootHead>>

Trees == [Paths -> Versions \cup {Absent}]
NoTree == [p \in Paths |-> Absent]
BaseTree == [p \in Paths |-> IF p \in BasePaths THEN First ELSE Absent]

Phases == {"none", "open", "fencing", "restoring", "deleted"}
Generations == [phase : Phases, by : Savepoints \cup {Nobody}]
NoGeneration == [phase |-> "none", by |-> Nobody]
Tombstone == [phase |-> "deleted", by |-> Nobody]

Steps == {"idle", "locked", "fence", "head", "dirty", "root", "capture",
          "recheck", "verify", "commit", "mark", "claim", "move", "reset",
          "write", "clean", "open", "drop", "release", "done", "crashed"}

(* The local variables of a call: target is the savepoint being restored,  *)
(* gen the generation value its guarded writes expect, head and changes    *)
(* what it read for optimistic comparison, copy the manifest it captured,  *)
(* todo the nodes still to be read or written.                             *)
Locals == [at : Steps, job : Jobs \cup {"none"}, target : Savepoints,
           gen : Generations, head : Savepoints, changes : Nat, copy : Trees,
           todo : SUBSET Paths, result : {"none", "missing"}]

TypeOK ==
    /\ lock \in Calls \cup {Nobody}
    /\ gen \in Generations
    /\ head \in Savepoints \cup {Absent}
    /\ saved \in [Savepoints -> Trees \cup {Absent}]
    /\ live \in Trees
    /\ info \in BOOLEAN
    /\ dirty \in {"0", "1", Absent}
    /\ rootHead \in Savepoints \cup {Absent}
    /\ changes \in Nat
    /\ published \in Trees
    /\ call \in [Calls -> Locals]

(* Importing and creating put the metadata and the first savepoint in      *)
(* place before the root is materialized; an open workspace is what a      *)
(* completed creation leaves.                                              *)
InitWith(opened) ==
    /\ lock = Nobody
    /\ gen = IF opened THEN [phase |-> "open", by |-> Base] ELSE NoGeneration
    /\ head = Base
    /\ saved = [s \in Savepoints |-> IF s = Base THEN BaseTree ELSE Absent]
    /\ live = IF opened THEN BaseTree ELSE NoTree
    /\ info = opened
    /\ dirty = IF opened THEN "0" ELSE Absent
    /\ rootHead = IF opened THEN Base ELSE Absent
    /\ changes = 0
    /\ published = IF opened THEN BaseTree ELSE NoTree
    /\ call = [c \in Calls |->
                 [at |-> "idle", job |-> "none", target |-> Base,
                  gen |-> NoGeneration, head |-> Base, changes |-> 0,
                  copy |-> NoTree, todo |-> {}, result |-> "none"]]

Init == \E opened \in Openings : InitWith(opened)

-----------------------------------------------------------------------------
At(c, step) == call[c].at = step
Is(c, job) == call[c].job = job
Go(c, step) == call' = [call EXCEPT ![c].at = step]

(* mutateWorkspaceGeneration: the transaction runs only while the lock     *)
(* holds the caller's token and the generation is the expected one.        *)
Owns(c, g) == lock = c /\ gen = g

(* A guarded write that finds itself superseded returns an error; the      *)
(* deferred Release runs.                                                  *)
Refused(c, ok) ==
    /\ ~ok
    /\ Go(c, "release")
    /\ UNCHANGED <<lock, gen, head, saved, tree, changes, published>>

RootExists == info /\ live[Root] # Absent

-----------------------------------------------------------------------------
(* Clients.  A mutation script or transaction checks the generation,       *)
(* changes the tree, sets root_dirty and appends to the journal at once.   *)
Publish(p, v) ==
    /\ gen.phase = "open"
    /\ changes < MaxChanges
    /\ p # Root /\ live[p] # v
    /\ live' = [live EXCEPT ![p] = v]
    /\ published' = [published EXCEPT ![p] = v]
    /\ dirty' = "1"
    /\ changes' = changes + 1
    /\ UNCHANGED <<lock, gen, head, saved, info, rootHead, call>>

(* markRootDirty after a mutation: a separate, later script that checks    *)
(* the generation too.                                                     *)
MarkRootDirty ==
    /\ gen.phase = "open" /\ changes > 0
    /\ dirty' = "1"
    /\ UNCHANGED <<lock, gen, head, saved, live, info, rootHead, changes,
                   published, call>>

-----------------------------------------------------------------------------
(* A workspace is created once, under an id that was never used.           *)
NeverUsed == gen = NoGeneration /\ \A d \in Calls : ~Is(d, "create")

(* The lock: SET NX with a TTL, a heartbeat while the worker runs, and a   *)
(* release that deletes the key only under the worker's own token.         *)
Acquire(c, job) ==
    /\ At(c, "idle") /\ job \in Replacing
    /\ head # Absent
    /\ job = "create" => NeverUsed
    /\ \/ /\ lock = Nobody
          /\ lock' = c
          /\ \E t \in IF job = "restore" THEN Savepoints ELSE {Base} :
               call' = [call EXCEPT ![c].at = "locked", ![c].job = job,
                                      ![c].target = t]
       \/ /\ lock # Nobody                          \* ErrImportInProgress
          /\ lock' = lock
          /\ call' = [call EXCEPT ![c].at = "done", ![c].job = job]
    /\ UNCHANGED <<gen, head, saved, tree, changes, published>>

Release(c) ==
    /\ At(c, "release")
    /\ lock' = IF lock = c THEN Nobody ELSE lock
    /\ Go(c, "done")
    /\ UNCHANGED <<gen, head, saved, tree, changes, published>>

(* The TTL runs out because the worker is paused, cut off or gone.         *)
NoTTL == FALSE /\ UNCHANGED vars   \* mutant of ExpireLock: SET NX without a TTL
ExpireLock ==
    /\ lock # Nobody
    /\ lock' = Nobody
    /\ UNCHANGED <<gen, head, saved, tree, changes, published, call>>

(* A Redis command fails, the context is cancelled, or lock.Lost() reports *)
(* the heartbeat's finding: the call returns an error from where it is.    *)
Fail(c) ==
    /\ call[c].at \notin {"idle", "release", "done", "crashed"}
    /\ Go(c, "release")
    /\ UNCHANGED <<lock, gen, head, saved, tree, changes, published>>

(* The process dies: nothing is released.                                  *)
Crash(c) ==
    /\ call[c].at \notin {"idle", "done", "crashed"}
    /\ Go(c, "crashed")
    /\ UNCHANGED <<lock, gen, head, saved, tree, changes, published>>

-----------------------------------------------------------------------------
(* Taking the generation.                                                  *)

(* What each job accepts: restore any existing generation and savepoint,   *)
(* SyncWorkspaceRoot an open one or none without a root, delete an open    *)
(* one.                                                                    *)
Admissible(c) ==
    CASE Is(c, "restore") ->
            gen.phase # "none" /\ saved[call[c].target] # Absent
      [] Is(c, "create") ->
            gen.phase = "open" \/ (gen.phase = "none" /\ ~RootExists)
      [] OTHER -> gen.phase = "open"

ReadGeneration(c) ==
    /\ At(c, "locked")
    /\ \/ /\ Admissible(c)
          /\ call' = [call EXCEPT ![c].at = "fence", ![c].gen = gen]
          /\ UNCHANGED <<lock, gen, head, saved, tree, changes, published>>
       \/ Refused(c, Admissible(c))

(* The first write of every replacement fences the old generation.  A      *)
(* restore that finds an unfinished replacement takes no safety checkpoint.*)
Misspelt(c) ==            \* mutant of FirstPhase: a prefix no reader knows
    [phase |-> "fenced", by |-> c]
FirstPhase(c) ==
    CASE Is(c, "restore") -> [phase |-> "fencing", by |-> c]
      [] Is(c, "create") -> [phase |-> "restoring", by |-> c]
      [] OTHER -> Tombstone

AnyUnfinished(c) ==       \* mutant of AfterFence: an unfinished safety
                          \* checkpoint is taken for an unfinished replacement
    IF call[c].gen.phase \in {"restoring", "fencing"} THEN "claim" ELSE "head"
AfterFence(c) ==
    CASE Is(c, "create") -> "reset"
      [] Is(c, "delete") -> "drop"
      [] OTHER -> IF call[c].gen.phase = "restoring" THEN "claim" ELSE "head"

(* A creation holds the manifest of the savepoint it has just put.         *)
Manifest(c) == IF Is(c, "create") THEN BaseTree ELSE NoTree

Fence(c) ==
    /\ At(c, "fence")
    /\ \/ /\ Owns(c, call[c].gen)
          /\ gen' = FirstPhase(c)
          /\ call' = [call EXCEPT ![c].at = AfterFence(c),
                        ![c].gen = FirstPhase(c), ![c].copy = Manifest(c)]
          /\ UNCHANGED <<lock, head, saved, tree, changes, published>>
       \/ Refused(c, Owns(c, call[c].gen))

-----------------------------------------------------------------------------
(* Checkpoints of the live tree: saveCheckpointFromLive, called by clients *)
(* ("save") and by restore for its safety checkpoint.                      *)
Restoring(c) == Is(c, "restore")
AfterSave(c) == IF Restoring(c) THEN "claim" ELSE "release"

StartSave(c, job) ==
    /\ At(c, "idle") /\ job \in Saving
    /\ call' = [call EXCEPT ![c].at = "head", ![c].job = job]
    /\ UNCHANGED <<lock, gen, head, saved, tree, changes, published>>

(* GetWorkspaceMeta; a save then reads the generation, a restore passes    *)
(* the one it wrote.                                                       *)
ReadHead(c) ==
    /\ At(c, "head")
    /\ \/ /\ head # Absent
          /\ call' = [call EXCEPT ![c].at = "dirty", ![c].head = head]
          /\ UNCHANGED <<lock, gen, head, saved, tree, changes, published>>
       \/ Refused(c, head # Absent)

(* The generation must be open for a save.  A tree known to be clean needs *)
(* no checkpoint.                                                          *)
KnownClean(c) == dirty = "0" /\ ~Is(c, "force")

ReadDirty(c) ==
    LET valid == Restoring(c) \/ gen.phase = "open"
        next == IF KnownClean(c) THEN AfterSave(c) ELSE "root"
    IN  /\ At(c, "dirty")
        /\ \/ /\ valid
              /\ call' = [call EXCEPT ![c].at = next,
                            ![c].gen = IF Restoring(c) THEN @ ELSE gen]
              /\ UNCHANGED <<lock, gen, head, saved, tree, changes, published>>
           \/ Refused(c, valid)

(* EnsureWorkspaceRoot, then the journal position the capture starts from. *)
ReadRoot(c) ==
    /\ At(c, "root")
    /\ call' = IF RootExists
               THEN [call EXCEPT ![c].at = "capture", ![c].copy = NoTree,
                       ![c].todo = Paths, ![c].changes = changes]
               ELSE [call EXCEPT ![c].at = "release", ![c].result = "missing"]
    /\ UNCHANGED <<lock, gen, head, saved, tree, changes, published>>

(* BuildManifestFromWorkspaceRoot reads node after node from the root; a   *)
(* node that is gone when it is read is left out, and without the root     *)
(* nothing is found at all.                                                *)
Capture(c, p) ==
    /\ At(c, "capture")
    /\ p \in call[c].todo /\ (Root \in call[c].todo => p = Root)
    /\ LET rest == IF p = Root /\ live[p] = Absent THEN {}
                   ELSE call[c].todo \ {p}
       IN  call' = [call EXCEPT ![c].copy[p] = live[p], ![c].todo = rest,
                      ![c].at = IF rest = {} THEN "recheck" ELSE "capture"]
    /\ UNCHANGED <<lock, gen, head, saved, tree, changes, published>>

Recheck(c) ==
    /\ At(c, "recheck")
    /\ \/ /\ call[c].changes = changes
          /\ Go(c, "verify")
          /\ UNCHANGED <<lock, gen, head, saved, tree, changes, published>>
       \/ Refused(c, call[c].changes = changes)

(* A client's own manifest: SaveCheckpoint without a journal position,     *)
(* made for the head the client knows.                                     *)
Manifests == {t \in Trees : t[Root] = First}

StartUpload(c, job) ==
    /\ At(c, "idle") /\ job = "upload" /\ head # Absent
    /\ \E t \in Manifests :
         call' = [call EXCEPT ![c].at = "verify", ![c].job = job,
                                ![c].head = head, ![c].copy = t]
    /\ UNCHANGED <<lock, gen, head, saved, tree, changes, published>>

(* saveCheckpoint: a restore must still hold the lock, anybody else must   *)
(* find it free.  Nothing is saved when the head already says the same.    *)
MayCommit(c) ==
    /\ lock = IF Restoring(c) THEN c ELSE Nobody
    /\ Is(c, "upload") => gen.phase = "open"
    /\ saved[call[c].head] # Absent

SameAsHead(c) ==
    saved[call[c].head] = call[c].copy /\ ~Is(c, "force")

Verify(c) ==
    LET next == IF ~SameAsHead(c) THEN "commit"
                ELSE IF Is(c, "upload") THEN "release" ELSE "mark"
    IN  /\ At(c, "verify")
        /\ \/ /\ MayCommit(c)
              /\ call' = [call EXCEPT ![c].at = next,
                            ![c].gen = IF Is(c, "upload") THEN gen ELSE @]
              /\ UNCHANGED <<lock, gen, head, saved, tree, changes, published>>
           \/ Refused(c, MayCommit(c))

(* The transaction that adds the savepoint and moves the head.             *)
NeverMoved(c) == TRUE     \* mutant of Unchanged: the journal is not compared
Unchanged(c) == call[c].changes = changes
AnyGeneration(c) ==       \* mutant of Current: the generation is not compared
    head = call[c].head /\ Unchanged(c) /\ saved[c] = Absent
Current(c) ==
    /\ gen = call[c].gen
    /\ head = call[c].head
    /\ ~Is(c, "upload") => Unchanged(c)
    /\ Restoring(c) => lock = c
    /\ saved[c] = Absent

Commit(c) ==
    /\ At(c, "commit")
    /\ \/ /\ Current(c)
          /\ saved' = [saved EXCEPT ![c] = call[c].copy]
          /\ head' = c
          /\ IF Is(c, "upload")
             THEN dirty' = "1" /\ rootHead' = rootHead
             ELSE dirty' = "0" /\ rootHead' = c
          /\ Go(c, AfterSave(c))
          /\ UNCHANGED <<lock, gen, live, info, changes, published>>
       \/ Refused(c, Current(c))

(* markCapturedWorkspaceClean: nothing new to save, so the marker may be   *)
(* cleared if the captured state is still the current one.                 *)
AnyHead(c) ==             \* mutant of StillCaptured: the head is not compared
    gen = call[c].gen /\ Unchanged(c)
StillCaptured(c) ==
    gen = call[c].gen /\ head = call[c].head /\ Unchanged(c)

MarkCaptured(c) ==
    /\ At(c, "mark")
    /\ \/ /\ StillCaptured(c)
          /\ dirty' = "0" /\ rootHead' = call[c].head
          /\ Go(c, AfterSave(c))
          /\ UNCHANGED <<lock, gen, head, saved, live, info, changes, published>>
       \/ Refused(c, StillCaptured(c))

-----------------------------------------------------------------------------
(* Replacing the tree.                                                     *)
Unguarded(c) == TRUE      \* mutant of Guarded: a batch without its WATCH
Guarded(c) == Owns(c, call[c].gen)

Claim(c) ==
    LET next == [phase |-> "restoring", by |-> c]
    IN  /\ At(c, "claim")
        /\ \/ /\ Guarded(c)
              /\ gen' = next
              /\ call' = [call EXCEPT ![c].at = "move", ![c].gen = next]
              /\ UNCHANGED <<lock, head, saved, tree, changes, published>>
           \/ Refused(c, Guarded(c))

(* The manifest is read right after; savepoints never change.              *)
MoveHead(c) ==
    LET manifest == saved[call[c].target]
    IN
    /\ At(c, "move")
    /\ \/ /\ Guarded(c) /\ head # Absent
          /\ head' = call[c].target
          /\ IF manifest = Absent
             THEN Go(c, "release")
             ELSE call' = [call EXCEPT ![c].at = "reset", ![c].copy = manifest]
          /\ UNCHANGED <<lock, gen, saved, tree, changes, published>>
       \/ Refused(c, Guarded(c) /\ head # Absent)

(* resetWorkspaceFSNamespace deletes what SCAN returns, batch by batch (a  *)
(* batch is one key here, which has every larger batch as a sequence), and *)
(* then the markers in one batch.  SCAN returns every key that is there    *)
(* throughout, so the markers go last.                                     *)
ResetNode(c, p) ==
    /\ At(c, "reset") /\ live[p] # Absent
    /\ \/ /\ Guarded(c)
          /\ live' = [live EXCEPT ![p] = Absent]
          /\ UNCHANGED <<lock, gen, head, saved, info, dirty, rootHead,
                         changes, published, call>>
       \/ Refused(c, Guarded(c))

ResetMarkers(c) ==
    /\ At(c, "reset") /\ live = NoTree
    /\ \/ /\ Guarded(c)
          /\ info' = FALSE /\ dirty' = Absent /\ rootHead' = Absent
          /\ call' = [call EXCEPT ![c].at = "write",
                        ![c].todo = {p \in Paths : call[c].copy[p] # Absent}]
          /\ UNCHANGED <<lock, gen, head, saved, live, changes, published>>
       \/ Refused(c, Guarded(c))

(* materializeManifestToWorkspaceFS: parents first, the info key last.     *)
WriteNode(c, p) ==
    /\ At(c, "write")
    /\ p \in call[c].todo /\ (Root \in call[c].todo => p = Root)
    /\ \/ /\ Guarded(c)
          /\ live' = [live EXCEPT ![p] = call[c].copy[p]]
          /\ call' = [call EXCEPT ![c].todo = @ \ {p}]
          /\ UNCHANGED <<lock, gen, head, saved, info, dirty, rootHead,
                         changes, published>>
       \/ Refused(c, Guarded(c))

WriteInfo(c) ==
    /\ At(c, "write") /\ call[c].todo = {}
    /\ \/ /\ Guarded(c)
          /\ info' = TRUE
          /\ Go(c, "clean")
          /\ UNCHANGED <<lock, gen, head, saved, live, dirty, rootHead,
                         changes, published>>
       \/ Refused(c, Guarded(c))

MarkClean(c) ==
    /\ At(c, "clean")
    /\ \/ /\ Guarded(c)
          /\ dirty' = "0" /\ rootHead' = call[c].target
          /\ Go(c, "open")
          /\ UNCHANGED <<lock, gen, head, saved, live, info, changes, published>>
       \/ Refused(c, Guarded(c))

(* The last transition opens the new generation to clients; from here on   *)
(* the published tree is the savepoint the call was asked for.             *)
Open(c) ==
    /\ At(c, "open")
    /\ \/ /\ Guarded(c)
          /\ gen' = [phase |-> "open", by |-> c]
          /\ published' = call[c].copy
          /\ Go(c, "release")
          /\ UNCHANGED <<lock, head, saved, tree, changes>>
       \/ Refused(c, Guarded(c))

-----------------------------------------------------------------------------
(* Deletion: after the tombstone every key of the workspace except the     *)
(* tombstone and the lock is deleted, in the order SCAN finds them.        *)
Emptied ==
    /\ live = NoTree /\ ~info /\ dirty = Absent /\ rootHead = Absent
    /\ head = Absent /\ \A s \in Savepoints : saved[s] = Absent

DropNode(c, p) ==
    /\ At(c, "drop") /\ Guarded(c) /\ live[p] # Absent
    /\ live' = [live EXCEPT ![p] = Absent]
    /\ UNCHANGED <<lock, gen, head, saved, info, dirty, rootHead, changes,
                   published, call>>

DropSavepoint(c, s) ==
    /\ At(c, "drop") /\ Guarded(c) /\ saved[s] # Absent
    /\ saved' = [saved EXCEPT ![s] = Absent]
    /\ UNCHANGED <<lock, gen, head, tree, changes, published, call>>

DropMeta(c) ==
    /\ At(c, "drop") /\ Guarded(c) /\ head # Absent
    /\ head' = Absent
    /\ UNCHANGED <<lock, gen, saved, tree, changes, published, call>>

DropMarker(c) ==
    /\ At(c, "drop") /\ Guarded(c)
    /\ \/ info /\ info' = FALSE /\ UNCHANGED <<dirty, rootHead>>
       \/ dirty # Absent /\ dirty' = Absent /\ UNCHANGED <<info, rootHead>>
       \/ rootHead # Absent /\ rootHead' = Absent /\ UNCHANGED <<info, dirty>>
    /\ UNCHANGED <<lock, gen, head, saved, live, changes, published, call>>

DropUntilEmpty(c) ==      \* mutant of EndDrop: a refused batch is tried again
    /\ At(c, "drop") /\ Emptied
    /\ Go(c, "release")
    /\ UNCHANGED <<lock, gen, head, saved, tree, changes, published>>
EndDrop(c) ==
    /\ At(c, "drop") /\ (Emptied \/ ~Guarded(c))
    /\ Go(c, "release")
    /\ UNCHANGED <<lock, gen, head, saved, tree, changes, published>>

-----------------------------------------------------------------------------
Progress(c) ==
    \/ ReadGeneration(c) \/ Fence(c)
    \/ ReadHead(c) \/ ReadDirty(c) \/ ReadRoot(c)
    \/ \E p \in Paths : Capture(c, p)
    \/ Recheck(c) \/ Verify(c) \/ Commit(c) \/ MarkCaptured(c)
    \/ Claim(c) \/ MoveHead(c)
    \/ \E p \in Paths : ResetNode(c, p)
    \/ ResetMarkers(c)
    \/ \E p \in Paths : WriteNode(c, p)
    \/ WriteInfo(c) \/ MarkClean(c) \/ Open(c)
    \/ \E p \in Paths : DropNode(c, p)
    \/ \E s \in Savepoints : DropSavepoint(c, s)
    \/ DropMeta(c) \/ DropMarker(c) \/ EndDrop(c)
    \/ Release(c)

Begin(c) ==
    \E job \in Offered :
        Acquire(c, job) \/ StartSave(c, job) \/ StartUpload(c, job)

Next ==
    \/ \E c \in Calls : Begin(c) \/ Progress(c) \/ Fail(c) \/ Crash(c)
    \/ \E p \in Paths, v \in Versions \cup {Absent} : Publish(p, v)
    \/ MarkRootDirty
    \/ ExpireLock

Spec == Init /\ [][Next]_vars

(* Workers keep running until they return, and the TTL removes the lock of *)
(* a worker that no longer refreshes it.  Requests need not come, and      *)
(* nothing has to fail.                                                    *)
Orphaned == lock # Nobody /\ call[lock].at \in {"done", "crashed"}

FairSpec ==
    /\ Spec
    /\ \A c \in Calls : WF_vars(Progress(c))
    /\ WF_vars(Orphaned /\ ExpireLock)

-----------------------------------------------------------------------------
(* While the workspace is open, the keys hold exactly what was published:  *)
(* a worker whose lock expired writes nothing into a tree that another     *)
(* worker finished and reopened, and no half-written tree is opened.       *)
ServesPublished == gen.phase = "open" => live = published /\ info

(* The clean marker tells the truth: a checkpoint that is skipped because  *)
(* of it would have saved what the head savepoint already has, whatever    *)
(* mutation, checkpoint or restore ran beside the one that cleared it.     *)
CleanMeansSaved ==
    gen.phase = "open" /\ dirty = "0" => live = saved[head] /\ rootHead = head

(* Before a restore may delete the first key, what clients had published   *)
(* is in a savepoint, also when the restore that fenced them crashed and   *)
(* another one took over.                                                  *)
SafeToDestroy ==
    gen.phase = "restoring" /\ Is(gen.by, "restore")
        => published = NoTree \/ \E s \in Savepoints : saved[s] = published

(* An explicit restore does not need the live root: the error of           *)
(* EnsureWorkspaceRoot, "workspace live root is missing; restore a         *)
(* checkpoint explicitly", is not an answer to a restore.                  *)
RestoreNeedsNoRoot ==
    \A c \in Calls : Restoring(c) => call[c].result # "missing"

(* The workspace as its clients see it: see PublishedTree.                 *)
Promised == INSTANCE PublishedTree WITH
    tree <- published, open <- (gen.phase = "open"),
    uploads <- {c \in Calls : Is(c, "upload")}
ImplementsPublishedTree == Promised!Spec

(* Nothing reappears under a tombstone: a checkpoint, a clean marker or a  *)
(* tree that was under way when the workspace was deleted is not written   *)
(* after its keys are gone (generation.go, "Deletion retains a tombstone").*)
DeletionIsFinal ==
    [][gen = Tombstone =>
        /\ \A s \in Savepoints : saved[s] = Absent => saved'[s] = Absent
        /\ \A p \in Paths : live[p] = Absent => live'[p] = Absent
        /\ head = Absent => head' = Absent
        /\ dirty = Absent => dirty' = Absent]_vars

(* A checkpoint of the live tree, a safety checkpoint included, is the     *)
(* published tree of one moment and not a mixture of several               *)
(* (docs/guides/single-tree-migration.md, "Server-side checkpoints capture *)
(* published Redis state").                                                *)
CapturesPublished ==
    [][\A c \in Calls : saved[c] = Absent /\ saved'[c] # Absent
          /\ ~Is(c, "upload") => saved'[c] = published]_vars

(* No lock outlives its worker: whoever held it, the next one can start.   *)
LockFreed == (lock # Nobody) ~> (lock = Nobody)

(* Every request that began returns, also when its lock or generation was  *)
(* taken away on the way.                                                  *)
CallsEnd ==
    \A c \in Calls :
        (call[c].at # "idle") ~> (call[c].at \in {"done", "crashed"})
=============================================================================
