-------------------------- MODULE FilePublication --------------------------
(***************************************************************************)
(* Publication, deletion and metadata update of the files of ONE directory *)
(* by concurrent clients (mount/internal/client/publication.go).           *)
(*                                                                         *)
(* Every operation is a process named by the revision its call draws from  *)
(* newOriginID: it observes an entry, stages content under a private key,  *)
(* and sends one Lua script that compares and publishes.  The network may  *)
(* lose a request or its reply and may deliver an abandoned copy late; the *)
(* control plane may replace the tree underneath; leases and staged keys   *)
(* may expire.  Receipts live for seven days and are not expired here.     *)
(***************************************************************************)
EXTENDS Integers, FiniteSets, Sequences, FiniteSetsExt

CONSTANTS
    Ops,        \* operation ids: each call uses one, each id is used once
    Native,     \* the operations admitted under a native session lease
    Names,      \* the entry names of the directory
    Kinds,      \* which of "write", "delta", "update", "delete" are called
    Sizes,      \* content sizes (0 is the file without a content key)
    Base,       \* Base[n]: inode the checkpoint gives to n, 0 when absent
    BaseTop,    \* next_inode once the checkpoint is materialized
    MaxInode,   \* bound on allocated inode ids
    MaxEpoch,   \* bound on root replacements
    MaxSends,   \* 1 + go-redis transport retries
    Stalls,     \* control states in which a call may outlast publicationTTL
    NoRev,      \* revision of a materialized file (no revision field)
    NoKey       \* an absent Redis key

InodeIds == 1..MaxInode
Revs == Ops \cup {NoRev}

\* by: the operation whose bytes these are; over: whose bytes a delta patched.
Bytes == [by : Revs, over : Revs \cup {NoKey}]
Imported == [by |-> NoRev, over |-> NoKey]
InodeRecord == [rev : Revs, size : Nat]

\* What a call carries: id and rev are the WithExpectedStat observation; saw is
\* a history field, the author of the bytes that revision had.
Request == [kind : {"write", "delta", "update", "delete"}, name : Names,
            create : BOOLEAN, id : 0..MaxInode, rev : Revs, had : Nat,
            saw : Revs \cup {NoKey}, size : Nat, epoch : Nat]
NoRequest == NoKey
\* What of it the abstract store sees.
Wishes == [name : Names, over : Revs \cup {NoKey}, epoch : Nat, kind : {"put", "touch", "remove"}]
Entry == [op : Ops, kind : {"write", "delta", "update", "delete"},
          name : Names, id : InodeIds, epoch : Nat]

ASSUME IdsAssumption == /\ NoRev \notin Ops /\ NoKey \notin Revs
                        /\ NoKey \notin Bytes \cup InodeRecord \cup Request \cup Wishes
                        /\ Native \subseteq Ops
                        /\ Kinds \subseteq {"write", "delta", "update", "delete"}
                        /\ Stalls \subseteq {"copied", "staged", "sent", "leaked"}
ASSUME BoundsAssumption == /\ MaxInode \in Nat /\ MaxEpoch \in Nat /\ MaxSends \in Nat
                           /\ Sizes \subseteq Nat /\ IsFiniteSet(Names)
ASSUME BaseAssumption == /\ BaseTop \in 0..MaxInode /\ Base \in [Names -> 0..BaseTop]
                         /\ \A m, n \in Names : Base[m] = Base[n] /\ Base[m] # 0 => m = n

Answers == {"none", "ok", "conflict", "changed", "lost", "error"}
Refusals == {"conflict", "changed", "lost"}

VARIABLES
    \* Redis
    epoch,      \* number of the last workspace generation
    open,       \* the generation key reads "g_..." (not "restoring:...")
    parent,     \* the inode of the directory exists
    dirents,    \* dirents[n]: inode id linked at n, 0 when absent
    inode,      \* inode[i]: the inode hash, NoKey when deleted
    content,    \* content[i]: the live content key
    next,       \* next_inode counter
    stage,      \* stage[o]: the private staged key of o
    retired,    \* operations whose retired: key exists
    receipts,   \* operations whose commit: receipt exists
    files,      \* info.files
    total,      \* info.total_data_bytes
    dirty,      \* root_dirty
    unindexed,  \* query dirty set
    leases,     \* native sessions whose lease key exists
    journal,    \* the changes stream
    \* clients
    pc,         \* control state of each call
    req,        \* its request
    line,       \* TRUE while the current send of o is in flight
    late,       \* copies of o abandoned by the client, still in a socket buffer
    sends,      \* how often o was sent
    answer      \* what the call returns

tree == <<parent, dirents, inode, content, files, total, dirty, unindexed>>
server == <<epoch, open, tree, next, stage, retired, receipts, leases, journal>>
wire == <<line, late, sends>>
vars == <<server, wire, pc, req, answer>>
-----------------------------------------------------------------------------
Linked == {n \in Names : dirents[n] # 0}
Committed == {journal[k].op : k \in 1..Len(journal)}
Publishing(o) == req[o] # NoRequest /\ req[o].kind \in {"write", "delta"}

\* The tree the materializer writes: revisions absent, ids numbered from the
\* checkpoint, so that equal ids and revisions recur in every generation.
BaseInode == [i \in InodeIds |->
                IF \E n \in Names : Base[n] = i THEN [rev |-> NoRev, size |-> 1] ELSE NoKey]
BaseContent == [i \in InodeIds |->
                IF \E n \in Names : Base[n] = i THEN Imported ELSE NoKey]
BaseFiles == Cardinality({n \in Names : Base[n] # 0})

Init ==
    /\ epoch = 1 /\ open = TRUE /\ parent = TRUE
    /\ dirents = Base /\ inode = BaseInode /\ content = BaseContent
    /\ next = BaseTop /\ files = BaseFiles /\ total = BaseFiles
    /\ dirty = FALSE /\ unindexed = {n \in InodeIds : BaseInode[n] # NoKey}
    /\ stage = [o \in Ops |-> NoKey]
    /\ retired = {} /\ receipts = {} /\ leases = Native /\ journal = <<>>
    /\ pc = [o \in Ops |-> "idle"] /\ req = [o \in Ops |-> NoRequest]
    /\ line = [o \in Ops |-> FALSE] /\ late = [o \in Ops |-> 0]
    /\ sends = [o \in Ops |-> 0] /\ answer = [o \in Ops |-> "none"]
-----------------------------------------------------------------------------
Return(o, a) ==
    /\ answer' = [answer EXCEPT ![o] = a]
    /\ pc' = [pc EXCEPT ![o] = "returning"]

(***************************************************************************)
(* The caller pins the generation and observes the entry at name n.        *)
(***************************************************************************)
Observe(o, n, k, s) ==
    /\ pc[o] = "idle" /\ open /\ parent
    /\ o \in Native => o \in leases
    /\ \/ dirents[n] = 0 /\ k = "write"
       \/ dirents[n] # 0 /\ inode[dirents[n]] # NoKey
    /\ req' = [req EXCEPT ![o] =
         [kind |-> k, name |-> n, create |-> dirents[n] = 0, id |-> dirents[n],
          rev |-> IF dirents[n] = 0 THEN NoRev ELSE inode[dirents[n]].rev,
          had |-> IF dirents[n] = 0 THEN 0 ELSE inode[dirents[n]].size,
          saw |-> IF dirents[n] = 0 \/ content[dirents[n]] = NoKey
                  THEN NoKey ELSE content[dirents[n]].by,
          size |-> IF k \in {"write", "delta"} THEN s ELSE 0, epoch |-> epoch]]
    /\ pc' = [pc EXCEPT ![o] = "observed"]
    /\ UNCHANGED <<server, wire, answer>>

\* The entry the request expects is what Redis holds now.
LinkedOnly(o) ==          \* mutant of AsExpected: the revision is not compared
    LET r == req[o] IN
    IF r.create THEN dirents[r.name] = 0
    ELSE dirents[r.name] = r.id /\ inode[r.id] # NoKey

AsExpected(o) ==
    LET r == req[o] IN
    IF r.create THEN dirents[r.name] = 0
    ELSE /\ dirents[r.name] = r.id
         /\ inode[r.id] # NoKey /\ inode[r.id].rev = r.rev

\* checkWriteCondition on a fresh stat; a cached stat may still agree and let
\* the call go on, so this step may be skipped.
RefuseEarly(o) ==
    /\ pc[o] = "observed" /\ ~AsExpected(o)
    /\ Return(o, "conflict")
    /\ UNCHANGED <<server, wire, req>>

\* stageFullFile; a creation first allocates its inode id (an unfenced INCR).
StageFull(o) ==
    /\ pc[o] = "observed" /\ req[o].kind = "write"
    /\ IF req[o].create
       THEN /\ next < MaxInode /\ next' = next + 1
            /\ req' = [req EXCEPT ![o].id = next + 1]
       ELSE UNCHANGED <<next, req>>
    /\ stage' = [stage EXCEPT ![o] = [by |-> o, over |-> NoKey]]
    /\ pc' = [pc EXCEPT ![o] = "staged"]
    /\ UNCHANGED <<epoch, open, tree, retired, receipts, leases, journal, wire, answer>>

\* publishChunks: COPY the live content (whatever it is by now) ...
CopyLive(o) ==
    /\ pc[o] = "observed" /\ req[o].kind = "delta"
    /\ IF content[req[o].id] = NoKey /\ req[o].had > 0
       THEN Return(o, "conflict") /\ UNCHANGED stage
       ELSE /\ stage' = [stage EXCEPT ![o] = content[req[o].id]]
            /\ pc' = [pc EXCEPT ![o] = "copied"] /\ UNCHANGED answer
    /\ UNCHANGED <<epoch, open, tree, next, retired, receipts, leases, journal, wire, req>>

\* ... then patch the private copy.  SETRANGE on a missing key starts a new one.
PatchStage(o) ==
    /\ pc[o] = "copied"
    /\ stage' = [stage EXCEPT ![o] =
         [by |-> o, over |-> IF stage[o] = NoKey THEN NoKey ELSE stage[o].by]]
    /\ pc' = [pc EXCEPT ![o] = "staged"]
    /\ UNCHANGED <<epoch, open, tree, next, retired, receipts, leases, journal, wire, req, answer>>

Send(o) ==
    /\ \/ pc[o] = "staged"
       \/ pc[o] = "observed" /\ req[o].kind \in {"update", "delete"}
    /\ pc' = [pc EXCEPT ![o] = "sent"]
    /\ line' = [line EXCEPT ![o] = TRUE]
    /\ sends' = [sends EXCEPT ![o] = 1]
    /\ UNCHANGED <<server, late, req, answer>>
-----------------------------------------------------------------------------
(***************************************************************************)
(* The three scripts.  A reply is "commit" or the reason nothing is done.  *)
(***************************************************************************)
AlwaysFresh(o) == FALSE   \* mutant of Fenced: the generation is not compared
Fenced(o) == ~open \/ epoch # req[o].epoch
Acknowledged(o) == o \in receipts
LeaseGone(o) == o \in Native /\ o \notin leases

AnyParent == FALSE        \* mutant of ParentGone: a removed directory still accepts files
ParentGone == ~parent
AnyStage(o) == FALSE      \* mutant of StageGone: a publication need not consume a stage
StageGone(o) == stage[o] = NoKey

PublishReply(o) ==
    LET r == req[o] IN
    IF Acknowledged(o) THEN "ok"
    ELSE IF o \in retired THEN "error"
    ELSE IF Fenced(o) THEN "changed"
    ELSE IF LeaseGone(o) THEN "lost"
    ELSE IF dirents[r.name] = r.id /\ inode[r.id] # NoKey /\ inode[r.id].rev = o THEN "ok"
    ELSE IF ParentGone \/ ~AsExpected(o) THEN "conflict"
    ELSE IF StageGone(o) THEN "error"
    ELSE "commit"

UpdateReply(o) ==
    LET r == req[o] IN
    IF Fenced(o) THEN "changed"
    ELSE IF LeaseGone(o) THEN "lost"
    ELSE IF inode[r.id] # NoKey /\ inode[r.id].rev = o THEN "ok"
    ELSE IF ~AsExpected(o) THEN "conflict"
    ELSE "commit"

DeleteReply(o) ==
    LET r == req[o] IN
    IF Fenced(o) THEN "changed"
    ELSE IF LeaseGone(o) THEN "lost"
    ELSE IF dirents[r.name] = 0 /\ inode[r.id] = NoKey THEN "ok"
    ELSE IF ~AsExpected(o) THEN "conflict"
    ELSE "commit"

Reply(o) == CASE req[o].kind = "update" -> UpdateReply(o)
              [] req[o].kind = "delete" -> DeleteReply(o)
              [] OTHER -> PublishReply(o)

NothingBefore(i) == 0     \* mutant of PreviousSize: replaced bytes stay counted
PreviousSize(i) == IF inode[i] = NoKey THEN 0 ELSE inode[i].size

PublishEffect(o) ==
    LET r == req[o] IN
    /\ retired' = IF content[r.id] = NoKey THEN retired ELSE retired \cup {o}
    /\ content' = [content EXCEPT ![r.id] = IF r.size = 0 THEN NoKey ELSE stage[o]]
    /\ stage' = [stage EXCEPT ![o] = NoKey]
    /\ inode' = [inode EXCEPT ![r.id] = [rev |-> o, size |-> r.size]]
    /\ dirents' = IF r.create THEN [dirents EXCEPT ![r.name] = r.id] ELSE dirents
    /\ files' = IF r.create THEN files + 1 ELSE files
    /\ total' = total + r.size - PreviousSize(r.id)
    /\ unindexed' = unindexed \cup {r.id}
    /\ receipts' = receipts \cup {o}

ChmodInPlace(o) ==        \* mutant of UpdateEffect: the revision is kept
    UNCHANGED <<inode, retired, content, stage, dirents, files, total, unindexed, receipts>>
DropRevision(o) ==        \* mutant of UpdateEffect: the revision field is lost
    /\ inode' = [inode EXCEPT ![req[o].id].rev = NoKey]
    /\ UNCHANGED <<retired, content, stage, dirents, files, total, unindexed, receipts>>
UpdateEffect(o) ==
    /\ inode' = [inode EXCEPT ![req[o].id].rev = o]
    /\ UNCHANGED <<retired, content, stage, dirents, files, total, unindexed, receipts>>

DeleteEffect(o) ==
    LET r == req[o] IN
    /\ inode' = [inode EXCEPT ![r.id] = NoKey]
    /\ content' = [content EXCEPT ![r.id] = NoKey]
    /\ dirents' = [dirents EXCEPT ![r.name] = 0]
    /\ files' = files - 1
    /\ total' = total - inode[r.id].size
    /\ unindexed' = unindexed \cup {r.id}
    /\ UNCHANGED <<retired, stage, receipts>>

Effect(o) == \/ req[o].kind = "update" /\ UpdateEffect(o)
             \/ req[o].kind = "delete" /\ DeleteEffect(o)
             \/ req[o].kind \in {"write", "delta"} /\ PublishEffect(o)

\* One atomic evaluation of the script of o.
Run(o) ==
    \/ /\ Reply(o) = "commit" /\ Effect(o)
       /\ dirty' = TRUE
       /\ journal' = Append(journal, [op |-> o, kind |-> req[o].kind, name |-> req[o].name,
                                      id |-> req[o].id, epoch |-> epoch])
       /\ UNCHANGED <<epoch, open, parent, next, leases>>
    \/ Reply(o) # "commit" /\ UNCHANGED server
-----------------------------------------------------------------------------
\* The current send is evaluated and its reply reaches the client ...
ExecuteAndReply(o) ==
    /\ pc[o] = "sent" /\ line[o]
    /\ Run(o)
    /\ Return(o, IF Reply(o) = "commit" THEN "ok" ELSE Reply(o))
    /\ line' = [line EXCEPT ![o] = FALSE]
    /\ UNCHANGED <<late, sends, req>>

\* ... or its reply is lost ...
ExecuteSilently(o) ==
    /\ line[o]
    /\ Run(o)
    /\ line' = [line EXCEPT ![o] = FALSE]
    /\ UNCHANGED <<late, sends, req, pc, answer>>

\* ... or the request itself is lost.
LoseRequest(o) ==
    /\ line[o]
    /\ line' = [line EXCEPT ![o] = FALSE]
    /\ UNCHANGED <<server, late, sends, req, pc, answer>>

\* An abandoned copy is evaluated; nobody reads its reply.
ExecuteLate(o) ==
    /\ late[o] > 0
    /\ Run(o)
    /\ late' = [late EXCEPT ![o] = @ - 1]
    /\ UNCHANGED <<line, sends, req, pc, answer>>

\* A copy still in flight is left behind when the client stops waiting for it.
Abandon(o) == late' = [late EXCEPT ![o] = IF line[o] THEN @ + 1 ELSE @]

\* go-redis sends the same script and arguments again.
Retransmit(o) ==
    /\ pc[o] = "sent" /\ sends[o] < MaxSends
    /\ Abandon(o)
    /\ line' = [line EXCEPT ![o] = TRUE]
    /\ sends' = [sends EXCEPT ![o] = @ + 1]
    /\ UNCHANGED <<server, req, pc, answer>>

\* The last attempt failed: a publication consults its receipt.
GiveUp(o) ==
    /\ pc[o] = "sent"
    /\ Abandon(o)
    /\ line' = [line EXCEPT ![o] = FALSE]
    /\ IF Publishing(o)
       THEN pc' = [pc EXCEPT ![o] = "unsure"] /\ UNCHANGED answer
       ELSE Return(o, "error")
    /\ UNCHANGED <<server, sends, req>>

AssumeCommitted(o) ==     \* mutant of ReadReceipt: an unanswered call counts as done
    /\ pc[o] = "unsure" /\ Return(o, "ok")
    /\ UNCHANGED <<server, wire, req>>

ReadReceipt(o) ==
    /\ pc[o] = "unsure"
    /\ \/ o \in receipts /\ Return(o, "ok")
       \/ Return(o, "error")          \* no receipt, or it cannot be read
    /\ UNCHANGED <<server, wire, req>>

\* The deferred discardStage calls; they ignore errors.
Finish(o) ==
    /\ pc[o] = "returning"
    /\ \/ /\ stage' = [stage EXCEPT ![o] = NoKey]
          /\ retired' = retired \ {o}
          /\ pc' = [pc EXCEPT ![o] = "done"]
       \/ pc' = [pc EXCEPT ![o] = "leaked"] /\ UNCHANGED <<stage, retired>>
    /\ UNCHANGED <<epoch, open, tree, next, receipts, leases, journal, wire, req, answer>>
-----------------------------------------------------------------------------
(***************************************************************************)
(* The environment.                                                        *)
(***************************************************************************)
\* Staged keys expire an hour after the last touch.
ExpireStage(o) ==
    /\ stage[o] # NoKey /\ pc[o] \in Stalls
    /\ stage' = [stage EXCEPT ![o] = NoKey]
    /\ UNCHANGED <<epoch, open, tree, next, retired, receipts, leases, journal, wire, pc, req, answer>>

ExpireLease(o) ==
    /\ o \in leases
    /\ leases' = leases \ {o}
    /\ UNCHANGED <<epoch, open, tree, next, stage, retired, receipts, journal, wire, pc, req, answer>>

\* A peer removes the directory: deleteInodeScript refuses while children exist.
RemoveParent ==
    /\ open /\ parent /\ Linked = {}
    /\ parent' = FALSE /\ dirty' = TRUE
    /\ UNCHANGED <<epoch, open, dirents, inode, content, files, total, unindexed,
                   next, stage, retired, receipts, leases, journal, wire, pc, req, answer>>

\* beginRootReplacement closes the generation, then the namespace is reset; the
\* content:* pattern takes staged keys along ...
StartRestore ==
    /\ open /\ epoch < MaxEpoch
    /\ open' = FALSE /\ parent' = FALSE
    /\ dirents' = [n \in Names |-> 0]
    /\ inode' = [i \in InodeIds |-> NoKey] /\ content' = inode'
    /\ files' = 0 /\ total' = 0 /\ dirty' = FALSE /\ unindexed' = {} /\ next' = 0
    /\ stage' = [o \in Ops |-> NoKey]
    /\ UNCHANGED <<epoch, retired, receipts, leases, journal, wire, pc, req, answer>>

\* ... and the manifest is materialized before the next generation opens.
FinishRestore ==
    /\ ~open
    /\ open' = TRUE /\ epoch' = epoch + 1 /\ parent' = TRUE
    /\ dirents' = Base /\ inode' = BaseInode /\ content' = BaseContent
    /\ files' = BaseFiles /\ total' = BaseFiles /\ dirty' = FALSE
    /\ unindexed' = {i \in InodeIds : BaseInode[i] # NoKey} /\ next' = BaseTop
    /\ UNCHANGED <<stage, retired, receipts, leases, journal, wire, pc, req, answer>>

Next ==
    \/ \E o \in Ops :
         \/ \E n \in Names, k \in Kinds, s \in Sizes : Observe(o, n, k, s)
         \/ RefuseEarly(o) \/ StageFull(o) \/ CopyLive(o) \/ PatchStage(o)
         \/ Send(o)
         \/ ExecuteAndReply(o) \/ ExecuteSilently(o) \/ LoseRequest(o) \/ ExecuteLate(o)
         \/ Retransmit(o) \/ GiveUp(o) \/ ReadReceipt(o) \/ Finish(o)
         \/ ExpireStage(o) \/ ExpireLease(o)
    \/ RemoveParent \/ StartRestore \/ FinishRestore

Spec == Init /\ [][Next]_vars
-----------------------------------------------------------------------------
(***************************************************************************)
(* Properties.                                                             *)
(***************************************************************************)
ServerTypeOK ==
    /\ epoch \in Nat /\ open \in BOOLEAN /\ parent \in BOOLEAN /\ dirty \in BOOLEAN
    /\ dirents \in [Names -> 0..MaxInode]
    /\ inode \in [InodeIds -> InodeRecord \cup {NoKey}]
    /\ content \in [InodeIds -> Bytes \cup {NoKey}]
    /\ next \in 0..MaxInode
    /\ stage \in [Ops -> Bytes \cup {NoKey}]
    /\ retired \subseteq Ops /\ receipts \subseteq Ops
    /\ files \in Int /\ total \in Int
    /\ unindexed \subseteq InodeIds /\ leases \subseteq Native
    /\ journal \in Seq(Entry)

ClientTypeOK ==
    /\ pc \in [Ops -> {"idle", "observed", "copied", "staged", "sent", "unsure",
                        "returning", "done", "leaked"}]
    /\ req \in [Ops -> Request \cup {NoRequest}]
    /\ line \in [Ops -> BOOLEAN] /\ late \in [Ops -> Nat] /\ sends \in [Ops -> Nat]
    /\ answer \in [Ops -> Answers]

\* Every variable has its type: no script, retry or restore leaves a field out.
TypeOK == ServerTypeOK /\ ClientTypeOK

\* However often the transport repeats a script, and however late a copy
\* arrives, an operation changes the tree and the journal at most once.
CommitOnce == \A j, k \in 1..Len(journal) : journal[j].op = journal[k].op => j = k

\* What a call returned agrees with what it did, for good: success means the
\* operation committed (for a delete: its inode is gone); a publication that was
\* refused has not happened, except that a refused creation may still arrive.
AnswersAreTrue ==
    \A o \in Ops :
      /\ answer[o] = "ok" /\ req[o].kind # "delete" => o \in Committed
      /\ answer[o] = "ok" /\ req[o].kind = "delete" => Fenced(o) \/ inode[req[o].id] = NoKey
      /\ answer[o] \in Refusals /\ Publishing(o) /\ o \in Committed
           => answer[o] = "conflict" /\ req[o].create

\* Once a publication returned and its stage was discarded, no late copy of its
\* script can publish any more (the reason every publication consumes a stage).
NothingAfterReturn ==
    [][\A o \in Ops : Publishing(o) /\ pc[o] = "done" => (o \in Committed)' = (o \in Committed)]_vars

\* A delta upload that was published patched exactly the bytes of the revision
\* it expected, though COPY reads whatever is live at that moment.
DeltaPatchesExpected ==
    \A n \in Linked :
      LET b == content[dirents[n]] IN
      b # NoKey /\ b.by \in Ops /\ req[b.by].kind = "delta" => b.over = req[b.by].saw

\* A file of the current generation is never the work of a client that observed
\* an earlier one, though inode ids and absent revisions recur after a restore.
OwnGeneration ==
    open => \A n \in Linked :
      /\ inode[dirents[n]].rev \in Ops => req[inode[dirents[n]].rev].epoch = epoch
      /\ content[dirents[n]] # NoKey /\ content[dirents[n]].by \in Ops
           => req[content[dirents[n]].by].epoch = epoch

\* Directory entries, inodes and content keys describe the same files: no
\* dangling entry, no orphan, no two names for a file, no file without a parent.
TreeSound ==
    /\ \A n \in Linked : /\ inode[dirents[n]] # NoKey
                         /\ content[dirents[n]] # NoKey <=> inode[dirents[n]].size > 0
                         /\ parent
    /\ \A i \in InodeIds : inode[i] # NoKey \/ content[i] # NoKey => \E n \in Names : dirents[n] = i
    /\ \A m, n \in Linked : dirents[m] = dirents[n] => m = n

\* info.files and info.total_data_bytes are the number and total size of files.
Accounting ==
    /\ files = Cardinality(Linked)
    /\ total = MapThenSumSet(LAMBDA n : inode[dirents[n]].size, Linked)

\* The journal explains the tree: replaying the entries of this generation over
\* the checkpoint gives, name by name, the live inode and revision.
JournalExplainsTree ==
    open => \A n \in Names :
      LET E == {k \in 1..Len(journal) : journal[k].epoch = epoch /\ journal[k].name = n}
      IN IF E = {}
         THEN /\ dirents[n] = Base[n]
              /\ Base[n] # 0 => inode[Base[n]].rev = NoRev
         ELSE LET e == journal[Max(E)] IN
              IF e.kind = "delete" THEN dirents[n] = 0
              ELSE dirents[n] = e.id /\ inode[e.id].rev = e.op

(***************************************************************************)
(* The refinement: FileStore is what the protocol implements.              *)
(***************************************************************************)
Wish(r) == [name |-> r.name, over |-> IF r.create THEN NoKey ELSE r.rev, epoch |-> r.epoch,
            kind |-> CASE r.kind = "delete" -> "remove" [] r.kind = "update" -> "touch"
                       [] OTHER -> "put"]

Store == INSTANCE FileStore WITH
    Import <- NoRev, Absent <- NoKey, Provided <- {n \in Names : Base[n] # 0},
    head <- [n \in Names |-> IF dirents[n] = 0 THEN NoKey ELSE inode[dirents[n]].rev],
    wish <- [o \in Ops |-> IF req[o] = NoRequest THEN NoKey ELSE Wish(req[o])],
    done <- Committed,
    said <- answer

\* Clients, scripts, receipts and the network together implement FileStore.
ImplementsStore == Store!StoreSpec
=============================================================================
