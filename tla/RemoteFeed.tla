----------------------------- MODULE RemoteFeed -----------------------------
(***************************************************************************)
(* How a sync daemon learns of the changes other clients publish           *)
(* (cmd/afs/sync_full_reconciler.go, remoteSubscriptionPump;               *)
(* mount/internal/client/native_core.go, ReadChangeStream and              *)
(* SubscribeInvalidationsWithReconnect).                                   *)
(*                                                                         *)
(* Every mutation is appended to a stream and published to subscribers in  *)
(* one transaction.  The subscription may drop; the stream is trimmed; the *)
(* daemon replays the stream from a cursor kept in its state file.  Events *)
(* pass a bounded queue to the reconciler, which compares the path they    *)
(* name with Redis; a full sweep compares every path.                      *)
(***************************************************************************)
EXTENDS Naturals, Sequences, FiniteSets, SequencesExt

CONSTANTS
    Paths,        \* those that the ignore rules let through
    Everything,   \* an invalidation of "/": any path may have changed
    Earlier,      \* changes published before the daemon starts
    Cursor,       \* last_stream_id in the state file, if it has one; 0: none
    QueueSize,    \* capacity of the event channel
    BatchSize,    \* entries per XREAD
    Retained,     \* entries the stream keeps for certain
    Faults,       \* what may go wrong: see Broken
    MaxChanges,   \* bound: changes published
    MaxFaults     \* bound: faults

ASSUME FeedConstants ==
    /\ Everything \notin Paths
    /\ Earlier \in Seq(Paths) /\ Cursor \in 0..Len(Earlier)
    /\ QueueSize \in Nat \ {0} /\ BatchSize \in Nat \ {0}
    /\ Retained \in Nat \ {0}
    /\ Faults \subseteq {"link", "read", "range", "scan", "stat", "tombstone", "crash"}
    /\ MaxChanges \in Nat /\ MaxFaults \in Nat

VARIABLES
    journal,   \* the stream: what each entry invalidates
    first,     \* the oldest entry that is still in the stream
    linked,    \* the connection is subscribed
    wire,      \* what the subscriber will receive: entries, 0 confirms
    cursor,    \* lastStreamID in memory
    disk,      \* lastStreamID in the state file
    pump,      \* the pump's goroutine: position and replay in progress
    spilled,   \* paths of an event that did not fit: a sweep is asked for next
    queue,     \* the event channel
    sweep,     \* the fullSweepRequest channel
    scan,      \* paths that the sweep in progress has yet to compare
    seen,      \* seen[p]: the last change of p the daemon has compared with
    dropped,   \* history: paths with an event dropped since they were compared
    missed,    \* history: paths with a change that no subscription delivered
    faults

vars == <<journal, first, linked, wire, cursor, disk, pump, spilled, queue,
          sweep, scan, seen, dropped, missed, faults>>
remote == <<journal, first>>
link == <<linked, wire>>
state == <<cursor, disk>>
sweeper == <<sweep, scan>>
local == <<seen, dropped, missed>>

Events == Paths \cup {Everything}
Positions == {"reconcile", "startup", "listening", "replaying"}

TypeOK ==
    /\ journal \in Seq(Events) /\ first \in Nat
    /\ linked \in BOOLEAN /\ wire \in Seq(0..Len(journal))
    /\ cursor \in 0..Len(journal) /\ disk \in 0..Len(journal)
    /\ pump \in [at : Positions, last : 0..Len(journal), todo : Seq(1..Len(journal)),
                 full : BOOLEAN]
    /\ {spilled, dropped, missed} \subseteq SUBSET Paths
    /\ queue \in Seq(Events) /\ Len(queue) <= QueueSize
    /\ sweep \in BOOLEAN /\ scan \subseteq Paths
    /\ seen \in [Paths -> 0..Len(journal)]
    /\ faults \in 0..MaxFaults

Concerns(k, p) == journal[k] \in {p, Everything}
Changes(p) == {k \in 1..Len(journal) : Concerns(k, p)}
Latest(p) == IF Changes(p) = {} THEN 0 ELSE Max(Changes(p))
Unseen(p) == seen[p] < Latest(p)
Compare(p) ==
    /\ seen' = [seen EXCEPT ![p] = Latest(p)]
    /\ dropped' = dropped \ {p} /\ missed' = missed \ {p}

At(position) == pump.at = position
Pump(position) ==
    [at |-> position, last |-> 0, todo |-> <<>>, full |-> FALSE]

(* The daemon starts with a full reconciliation, which runs inline before  *)
(* the pump.                                                               *)
Init ==
    /\ journal = Earlier /\ first = 1
    /\ linked = FALSE /\ wire = <<>>
    /\ cursor \in {0, Cursor} /\ disk = cursor
    /\ pump = Pump("reconcile") /\ spilled = {}
    /\ dropped = {} /\ missed = {}
    /\ queue = <<>> /\ sweep = FALSE /\ scan = Paths
    /\ seen = [p \in Paths |-> 0]
    /\ faults = 0

Broken(kind) ==
    /\ kind \in Faults /\ faults < MaxFaults
    /\ faults' = faults + 1
NoFault == faults' = faults

Named(e) == IF e = Everything THEN Paths ELSE {e}

-----------------------------------------------------------------------------
(* Redis and the network.                                                  *)

Publish(e) ==
    /\ Len(journal) < MaxChanges
    /\ journal' = Append(journal, e)
    /\ \E oldest \in first..Len(journal') :    \* MAXLEN is approximate
         /\ oldest > first => oldest <= Len(journal') - Retained + 1
         /\ first' = oldest
    /\ wire' = IF linked THEN Append(wire, Len(journal')) ELSE wire
    /\ missed' = IF linked THEN missed ELSE missed \cup Named(e)
    /\ UNCHANGED <<linked, state, pump, spilled, queue, sweeper, seen, dropped, faults>>

(* What was on the way is lost, except what go-redis has received.         *)
Disconnect ==
    /\ linked /\ Broken("link")
    /\ linked' = FALSE
    /\ \E n \in 0..Len(wire) :
         /\ wire' = SubSeq(wire, 1, n)
         /\ missed' = missed \cup {p \in Paths : \E i \in n + 1 .. Len(wire) :
                                     wire[i] # 0 /\ Concerns(wire[i], p)}
    /\ UNCHANGED <<remote, state, pump, spilled, queue, sweeper, seen, dropped>>

(* go-redis subscribes again by itself; the confirmation precedes every    *)
(* message of the new connection.                                          *)
Subscribe ==
    /\ ~linked /\ pump.at \in {"listening", "replaying"}
    /\ linked' = TRUE /\ wire' = Append(wire, 0)
    /\ UNCHANGED <<remote, state, pump, spilled, queue, sweeper, local, faults>>

-----------------------------------------------------------------------------
(* The pump.                                                               *)

(* send: an event that does not fit is replaced by a request for a full    *)
(* sweep, which is dropped as well unless there is room by then.           *)
Unbounded(e) ==              \* mutant of Send
    queue' = Append(queue, e) /\ UNCHANGED spilled
Send(e) ==
    IF Len(queue) < QueueSize
    THEN queue' = Append(queue, e) /\ UNCHANGED spilled
    ELSE spilled' = Named(e) /\ UNCHANGED queue

SendSweep ==
    /\ spilled # {} /\ spilled' = {}
    /\ \/ /\ Len(queue) < QueueSize
          /\ queue' = Append(queue, Everything) /\ UNCHANGED dropped
       \/ /\ Len(queue) = QueueSize
          /\ dropped' = dropped \cup spilled /\ UNCHANGED queue
    /\ UNCHANGED <<remote, link, state, pump, sweeper, seen, missed, faults>>

EndReconcile ==
    /\ At("reconcile") /\ scan = {}
    /\ pump' = Pump("startup")
    /\ UNCHANGED <<remote, link, state, spilled, queue, sweeper, local, faults>>

(* catchUpFromStream starts at the cursor; without one there is nothing to *)
(* do and it reports success.                                              *)
Resume(position) ==
    pump' = IF cursor = 0 THEN Pump("listening")
            ELSE [Pump(position) EXCEPT !.last = cursor]

StartUp ==
    /\ At("startup") /\ pump.last = 0
    /\ Resume("startup")
    /\ UNCHANGED <<remote, link, state, spilled, queue, sweeper, local, faults>>

Confirmed ==
    /\ At("listening") /\ spilled = {} /\ wire # <<>> /\ Head(wire) = 0
    /\ wire' = Tail(wire)
    /\ Resume("replaying")
    /\ UNCHANGED <<remote, linked, state, spilled, queue, sweeper, local, faults>>

Receive ==
    /\ At("listening") /\ spilled = {} /\ wire # <<>> /\ Head(wire) # 0
    /\ wire' = Tail(wire)
    /\ Send(journal[Head(wire)])
    /\ UNCHANGED <<remote, linked, state, pump, sweeper, local, faults>>

Replaying == pump.at \in {"startup", "replaying"} /\ pump.last # 0

(* A replay that failed asks for a full sweep, except at start.            *)
GiveUpReplay ==
    /\ pump' = Pump("listening")
    /\ sweep' = (sweep \/ At("replaying"))

(* ReadChangeStream: entries after the cursor, and the comparison of the   *)
(* oldest entry with it that detects trimming.                             *)
NeverBehind == FALSE         \* mutant of Behind
Behind == first > pump.last
Oldest == IF first > pump.last THEN first ELSE pump.last + 1
Next500 == [i \in 1..Len(journal) + 1 - Oldest |-> Oldest + i - 1]
NextBatch ==
    LET n == IF Len(Next500) < BatchSize THEN Len(Next500) ELSE BatchSize
    IN  /\ Next500 # <<>>
        /\ pump' = [pump EXCEPT !.todo = SubSeq(Next500, 1, n),
                                !.full = n = BatchSize]
        /\ UNCHANGED sweep
Skipped == {p \in Paths : \E k \in pump.last + 1 .. first - 1 : Concerns(k, p)}
ReadBatch ==
    /\ Replaying /\ pump.todo = <<>> /\ spilled = {}
    /\ \/ /\ Next500 = <<>>
          /\ pump' = Pump("listening")
          /\ UNCHANGED <<sweep, dropped>> /\ NoFault
       \/ Next500 # <<>> /\ Behind /\ GiveUpReplay /\ NoFault /\ UNCHANGED dropped
       \/ GiveUpReplay /\ Broken("read") /\ UNCHANGED dropped
       \/ ~Behind /\ NextBatch /\ NoFault /\ UNCHANGED dropped
       \/ /\ Behind /\ NextBatch /\ Broken("range")   \* oldest entry unknown
          /\ dropped' = dropped \cup Skipped
    /\ UNCHANGED <<remote, link, state, spilled, queue, scan, seen, missed>>

(* The entries of a batch are dispatched one by one; then the cursor moves.*)
Replay ==
    /\ Replaying /\ pump.todo # <<>> /\ spilled = {}
    /\ LET k == Head(pump.todo)
           rest == Tail(pump.todo)
       IN  /\ Send(journal[k])
           /\ cursor' = IF rest = <<>> THEN k ELSE cursor
           /\ pump' = IF rest = <<>> /\ ~pump.full THEN Pump("listening")
                      ELSE [pump EXCEPT !.todo = rest, !.last = k]
    /\ UNCHANGED <<remote, link, disk, sweeper, local, faults>>

Flush ==
    /\ disk # cursor /\ disk' = cursor
    /\ UNCHANGED <<remote, link, cursor, pump, spilled, queue, sweeper, local, faults>>

-----------------------------------------------------------------------------
(* The reconciler and the daemon's control loop.                           *)

(* handleRemoteEvent up to its Stat.  Two events are taken off the channel *)
(* without effect: one whose path has a tombstone for an entry (entries    *)
(* are SyncPath's: here any may be one) and one whose stat fails.          *)
Handle ==
    /\ queue # <<>> /\ queue' = Tail(queue)
    /\ \/ /\ Head(queue) = Everything
          /\ sweep' = TRUE /\ UNCHANGED local /\ NoFault
       \/ /\ Head(queue) # Everything
          /\ Compare(Head(queue)) /\ UNCHANGED sweep /\ NoFault
       \/ /\ Head(queue) # Everything
          /\ Broken("tombstone") \/ Broken("stat")
          /\ dropped' = dropped \cup {Head(queue)}
          /\ UNCHANGED <<sweep, seen, missed>>
    /\ UNCHANGED <<remote, link, state, pump, spilled, scan>>

BeginSweep ==
    /\ sweep /\ scan = {} /\ ~At("reconcile")
    /\ sweep' = FALSE /\ scan' = Paths
    /\ UNCHANGED <<remote, link, state, pump, spilled, queue, local, faults>>

Scan(p) ==
    /\ p \in scan /\ scan' = scan \ {p}
    /\ Compare(p)
    /\ UNCHANGED <<remote, link, state, pump, spilled, queue, sweep, faults>>

(* A sweep that failed is asked for again.                                 *)
Abandoned == sweep' = sweep  \* mutant of Again
Again == sweep' = TRUE
ScanFails ==
    /\ scan # {} /\ ~At("reconcile") /\ Broken("scan")
    /\ scan' = {} /\ Again
    /\ UNCHANGED <<remote, link, state, pump, spilled, queue, local>>

(* The daemon dies and is started again.                                   *)
Restart ==
    /\ Broken("crash")
    /\ linked' = FALSE /\ wire' = <<>> /\ cursor' = disk
    /\ pump' = Pump("reconcile") /\ spilled' = {}
    /\ queue' = <<>> /\ sweep' = FALSE /\ scan' = Paths
    /\ UNCHANGED <<remote, disk, local>>

-----------------------------------------------------------------------------
PumpStep == \/ EndReconcile \/ StartUp \/ Confirmed \/ Receive \/ ReadBatch
            \/ Replay \/ SendSweep
ControlStep == BeginSweep \/ \E p \in Paths : Scan(p)

Next ==
    \/ \E e \in Events : Publish(e)
    \/ Disconnect \/ Subscribe \/ PumpStep \/ Flush
    \/ Handle \/ ControlStep \/ ScanFails \/ Restart

Spec == Init /\ [][Next]_vars

(* Goroutines run, and the subscriber retries until it is subscribed.      *)
FairSpec ==
    /\ Spec
    /\ WF_vars(Subscribe) /\ WF_vars(PumpStep)
    /\ WF_vars(Handle) /\ WF_vars(ControlStep)

-----------------------------------------------------------------------------
(* Every change is eventually compared with the local tree, whatever       *)
(* disconnects, trimming, failed replays, failed sweeps and restarts come  *)
(* in between, unless its event was dropped by a full channel, a           *)
(* tombstone, a failed stat, or a replay that could not ask for the oldest *)
(* entry.  A daemon without a cursor is sure to compare only what it hears *)
(* while it is subscribed.                                                 *)
Noticed ==
    \A p \in Paths :
        Unseen(p) ~> (~Unseen(p) \/ p \in dropped \/ (cursor = 0 /\ p \in missed))

(* "It also handles durable stream catch-up on startup and after each      *)
(* pub/sub reconnection" (remoteSubscriptionPump): what no subscription    *)
(* delivered is compared as well.                                          *)
CaughtUp == \A p \in Paths : Unseen(p) ~> (~Unseen(p) \/ p \in dropped)

(* The state behind it: a change that was neither compared nor dropped is  *)
(* still on its way: on the wire, in the channel or about to be replaced   *)
(* by a sweep, or covered by a sweep.  One that no subscription delivered  *)
(* is due in a replay that is under way or follows a confirmation, if the  *)
(* daemon has a cursor.                                                    *)
InQueue(p) == \E i \in DOMAIN queue : queue[i] \in {p, Everything}
OnTheWire(p) == \E i \in DOMAIN wire : wire[i] # 0 /\ Concerns(wire[i], p)
ReplayIsDue(p) ==
    \/ ~linked \/ \E i \in DOMAIN wire : wire[i] = 0
    \/ Replaying /\ Latest(p) > pump.last
NothingForgotten ==
    \A p \in Paths :
        Unseen(p) =>
            \/ p \in dropped \cup spilled
            \/ OnTheWire(p) \/ InQueue(p) \/ sweep \/ p \in scan
            \/ p \in missed /\ (cursor = 0 \/ ReplayIsDue(p))
=============================================================================
