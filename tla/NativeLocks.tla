----------------------------- MODULE NativeLocks -----------------------------
(***************************************************************************)
(* Native mount sessions and the byte-range locks their owners take on ONE *)
(* file (mount/internal/client/native_session.go, native_locks.go,         *)
(* native_session_requests.go, retryWatch of native_helpers.go).           *)
(*                                                                         *)
(* A session keeps a lease key alive; owners call it; each call passes the *)
(* session's gate, checks generation and lease, does its work under an     *)
(* optimistic Redis transaction, checks again and answers.  A barrier      *)
(* closes the gate and waits for the admitted calls.  Any Redis call may   *)
(* fail (a deleted file looks the same: the call answers an error), and a  *)
(* committed transaction may lose its reply.  Time is a Tick: a TTL set    *)
(* now lasts between LeaseTicks - 1 and LeaseTicks whole ticks.  A reply   *)
(* is received, or given up, within the tick of its commit.                *)
(***************************************************************************)
EXTENDS ByteRanges, FiniteSets

CONSTANTS
    Sessions,       \* mounts: each opens once
    Owners,         \* lock owners (handles)
    SessionOf,      \* SessionOf[o]: the mount that owner o calls
    Barriers,       \* the mounts whose gateway calls Barrier, once
    Closing,        \* the mounts that may be unmounted
    Crashing,       \* the mounts that may crash
    Program,        \* Program[o]: what o asks, in order: one of each set of
                    \* requests [kind, lock, wait]
    LeaseTicks,     \* nativeSessionTTL in ticks
    MaxAttempts,    \* attempts of retryWatch (16 in the code)
    MaxGeneration,  \* bound on root replacements
    Mounting,       \* the generations in which mounts open
    MaxFaults       \* bound on crashes, failed calls, lost replies, cancellations

\* An owner calls one mount; a goroutine of an owner is not a barrier's.
ASSUME OwnersAssumption ==
    IsFiniteSet(Owners) /\ Owners \cap Sessions = {} /\ SessionOf \in [Owners -> Sessions]

\* A Setlk whose range ends before it starts is refused before it is sent.
Operations ==
    [kind : {"set"}, lock : {r \in Requests : Proper(r)}, wait : BOOLEAN]
    \cup [kind : {"unlockAll", "write"}, wait : BOOLEAN]

ASSUME ProgramAssumption ==
    /\ LeaseTicks \in Nat \ {0} /\ MaxGeneration \in Nat \ {0}
    /\ DOMAIN Program = Owners /\ \A o \in Owners : Program[o] \in Seq(SUBSET Operations)

KeyTicks == 2 * LeaseTicks

VARIABLES
    generation,     \* the generation key
    lease,          \* lease[s]: ticks left of the lease key, 0: absent
    table,          \* table[o]: o's field of the lock hash, <<>>: absent
    tableTTL,       \* ticks left of the lock hash, 0: absent
    session,        \* the nativeSession in each mount's memory
    asleep,         \* who sleeps on its session's `changed` channel
    todo,           \* todo[o]: what is left of o's program
    call,           \* call[o]: the request o is in
    clean,          \* owners whose watched keys nobody touched since WATCH
    barrier,        \* barrier[s]: the one Barrier call of the mount
    held,           \* held[o][b]: the mode o was last told it has on b
    faults          \* faults so far

vars == <<generation, lease, table, tableTTL, session, asleep, todo, call,
          clean, barrier, held, faults>>
redis == <<generation, lease, table, tableTTL>>

Idle == [pc |-> "idle"]
Free == [b \in Bytes |-> "none"]
Empty == [o \in Owners |-> <<>>]
NewSession == [phase |-> "none", born |-> 0, lost |-> FALSE, tracked |-> FALSE,
               active |-> 0, paused |-> FALSE]

S(o) == session[SessionOf[o]]
OwnersOf(s) == {o \in Owners : SessionOf[o] = s}
Abandoned(s) == [o \in Owners |-> IF o \in OwnersOf(s) THEN <<>> ELSE todo[o]]
Pc(o) == call[o].pc

Init ==
    /\ generation = 1
    /\ lease = [s \in Sessions |-> 0]
    /\ table = Empty /\ tableTTL = 0
    /\ session = [s \in Sessions |-> NewSession]
    /\ asleep = {} /\ clean = {}
    /\ todo = Program
    /\ call = [o \in Owners |-> Idle]
    /\ barrier = [s \in Sessions |-> "idle"]
    /\ held = [o \in Owners |-> Free]
    /\ faults = 0

-----------------------------------------------------------------------------
(* Redis.  A watched transaction survives only while nobody touches the    *)
(* lock hash, the inode, the caller's own lease or the generation.         *)

GenerationIs(s) == generation = session[s].born
Valid(s) == GenerationIs(s) /\ lease[s] > 0

WatchesFile(o) == call[o].op.kind = "set"
TouchedTable == clean' = {}
TouchedFile == clean' = {o \in clean : ~WatchesFile(o)}
TouchedLease(gone) == clean' = {o \in clean : SessionOf[o] \notin gone}

\* Writing the hash: an empty hash does not exist; EXPIRE when `expire`.
StoreTable(next, expire) ==
    /\ table' = next
    /\ tableTTL' = IF next = Empty THEN 0 ELSE IF expire THEN KeyTicks ELSE tableTTL

Fault == faults < MaxFaults /\ faults' = faults + 1
NoFault == UNCHANGED faults

Tick ==
    LET expired == {s \in Sessions : lease[s] = 1} IN
    /\ lease' = [s \in Sessions |-> IF lease[s] > 0 THEN lease[s] - 1 ELSE 0]
    /\ tableTTL' = IF tableTTL > 0 THEN tableTTL - 1 ELSE 0
    /\ table' = IF tableTTL = 1 THEN Empty ELSE table
    /\ IF tableTTL = 1 THEN TouchedTable ELSE TouchedLease(expired)
    /\ UNCHANGED <<generation, session, asleep, todo, call, barrier, held, faults>>

\* A root replacement.  A session cannot tell a fenced namespace from one
\* that is being deleted or from the next: none of them is its generation.
Replace ==
    /\ generation < MaxGeneration /\ generation' = generation + 1
    /\ StoreTable(Empty, FALSE) /\ clean' = {}
    /\ UNCHANGED <<lease, session, asleep, todo, call, barrier, held, faults>>

-----------------------------------------------------------------------------
(* The session.                                                            *)

\* check: refused at once when lost or closed, else one MGET; what it finds
\* may mark the session lost.
LostBy(s) == session[s].lost \/ (GenerationIs(s) /\ lease[s] = 0)

NotifyRequests(s) == asleep' = asleep \ OwnersOf(s)  \* mutant of NotifyLocked: no drain
NotifyLocked(s) == asleep' = asleep \ (OwnersOf(s) \cup {s})

\* NewNative sets the lease and checks; nobody can call the session before.
NewNative(s) ==
    /\ session[s].phase = "none" /\ generation \in Mounting
    /\ session' = [session EXCEPT ![s].phase = "running", ![s].born = generation]
    /\ lease' = [lease EXCEPT ![s] = LeaseTicks]
    /\ UNCHANGED <<generation, table, tableTTL, asleep, todo, call, clean, barrier, held, faults>>

RenewsNoTable(s) == FALSE     \* mutant of RenewsTable: only the lease is renewed
RenewsTable(s) == session[s].tracked /\ tableTTL > 0

\* The renewal script, at any time or never.  Once it answers -2 or -5 the
\* renewer returns; a further run would change nothing.
Renew(s) ==
    /\ session[s].phase = "running"
    /\ UNCHANGED <<generation, table, asleep, todo, call, barrier, held, faults>>
    /\ IF Valid(s)
       THEN /\ lease' = [lease EXCEPT ![s] = LeaseTicks]
            /\ IF RenewsTable(s)
               THEN tableTTL' = KeyTicks /\ TouchedTable
               ELSE UNCHANGED tableTTL /\ TouchedLease({s})
            /\ UNCHANGED session
       ELSE /\ session' = [session EXCEPT ![s].lost = LostBy(s)]
            /\ UNCHANGED <<lease, tableTTL, clean>>

\* Close; its DEL may not arrive.  Later calls answer an error and do nothing.
Close(s) ==
    /\ s \in Closing /\ session[s].phase = "running"
    /\ session' = [session EXCEPT ![s].phase = "closed", ![s].lost = TRUE]
    /\ \/ lease' = [lease EXCEPT ![s] = 0] /\ TouchedLease({s}) /\ NoFault
       \/ UNCHANGED <<lease, clean>> /\ Fault
    /\ todo' = Abandoned(s)
    /\ UNCHANGED <<generation, table, tableTTL, asleep, call, barrier, held>>

Crash(s) ==
    /\ s \in Crashing /\ session[s].phase = "running" /\ Fault
    /\ session' = [session EXCEPT ![s] = [NewSession EXCEPT !.phase = "crashed",
                                                          !.born = session[s].born]]
    /\ call' = [o \in Owners |-> IF o \in OwnersOf(s) THEN Idle ELSE call[o]]
    /\ held' = [o \in Owners |-> IF o \in OwnersOf(s) THEN Free ELSE held[o]]
    /\ barrier' = [barrier EXCEPT ![s] = "idle"]
    /\ clean' = clean \ OwnersOf(s) /\ NotifyLocked(s)
    /\ todo' = Abandoned(s)
    /\ UNCHANGED redis

-----------------------------------------------------------------------------
(* A request: gate, check, work, check, leave.                             *)

Request(op) == [pc |-> "gate", op |-> op, result |-> "ok", stale |-> {}, tries |-> 0]
To(o, pc) == call' = [call EXCEPT ![o] = [Request(@.op) EXCEPT !.pc = pc]]
Result(o, result) ==
    call' = [call EXCEPT ![o] = [Request(@.op) EXCEPT !.pc = "leave", !.result = result]]

Ask(o) ==
    /\ Pc(o) = "idle" /\ S(o).phase = "running"
    /\ todo[o] # <<>> /\ todo' = [todo EXCEPT ![o] = Tail(@)]
    /\ \E op \in Head(todo[o]) :
           call' = [call EXCEPT ![o] = Request(op)]
    /\ UNCHANGED <<redis, session, asleep, clean, barrier, held, faults>>

\* check passes, refuses, or fails as its Redis call does.
CheckPasses(s) == ~session[s].lost /\ Valid(s) /\ NoFault
CheckRefuses(s, lost) ==
    \/ (session[s].lost \/ ~Valid(s)) /\ lost = LostBy(s) /\ NoFault
    \/ ~session[s].lost /\ lost = FALSE /\ Fault

\* What an answer tells the owner.  After an error it knows nothing of the
\* bytes it asked about: the transaction may have committed.
Told(o, result) ==
    LET op == call[o].op IN
    IF result = "block" \/ op.kind = "write" THEN held[o]
    ELSE IF op.kind = "unlockAll" THEN Free
    ELSE Updated(held[o],
             IF result = "ok" THEN op.lock ELSE [op.lock EXCEPT !.type = "none"])

\* The gate, then begin's check: a request that fails it leaves at once.
Begin(o) ==
    LET s == SessionOf[o] IN
    /\ Pc(o) = "gate" /\ o \notin asleep
    /\ \/ /\ S(o).paused /\ NoFault
          /\ asleep' = asleep \cup {o} /\ UNCHANGED <<session, call, held>>
       \/ /\ ~S(o).paused /\ CheckPasses(s)
          /\ session' = [session EXCEPT ![s].active = @ + 1]
          /\ To(o, IF call[o].op.kind = "write" THEN "write" ELSE "watch")
          /\ UNCHANGED <<asleep, held>>
       \/ /\ ~S(o).paused
          /\ \E lost \in BOOLEAN : CheckRefuses(s, lost) /\
                 session' = [session EXCEPT ![s].lost = lost]
          /\ NotifyLocked(s)
          /\ call' = [call EXCEPT ![o] = Idle]
          /\ held' = [held EXCEPT ![o] = Told(o, "error")]
    /\ UNCHANGED <<redis, clean, barrier, todo>>

\* A sleeper at the gate, or between two attempts at a lock, gives up: its
\* context ends, or the session closes.
GiveUp(o) ==
    /\ (Pc(o) = "gate" /\ o \in asleep) \/ Pc(o) = "sleep"
    /\ (S(o).phase = "closed" /\ NoFault) \/ Fault
    /\ call' = [call EXCEPT ![o] = Idle]
    /\ asleep' = asleep \ {o}
    /\ UNCHANGED <<redis, session, clean, barrier, held, todo>>

\* finish: a success is checked again, under the mutex only afterwards.
LastCheck(o) ==
    LET s == SessionOf[o] IN
    /\ Pc(o) = "check"
    /\ \/ CheckPasses(s) /\ To(o, "leave") /\ UNCHANGED session
       \/ /\ Result(o, "error")
          /\ \E lost \in BOOLEAN : CheckRefuses(s, lost) /\
                 session' = [session EXCEPT ![s].lost = lost]
    /\ UNCHANGED <<redis, asleep, clean, barrier, held, todo>>

NotReleased(s) == session[s]      \* mutant of Released: an answer skips finish
Released(s) == [session[s] EXCEPT !.active = @ - 1]

Finish(o) ==
    /\ Pc(o) = "leave"
    /\ session' = [session EXCEPT ![SessionOf[o]] = Released(SessionOf[o])]
    /\ NotifyLocked(SessionOf[o])
    /\ held' = [held EXCEPT ![o] = Told(o, call[o].result)]
    /\ call' = [call EXCEPT ![o] =
           IF @.result = "block" /\ @.op.wait
           THEN [Request(@.op) EXCEPT !.pc = "sleep"]
           ELSE Idle]
    /\ UNCHANGED <<redis, clean, barrier, todo, faults>>

\* The 50 ms of Setlk's waiting loop are over.
Wake(o) ==
    /\ Pc(o) = "sleep" /\ To(o, "gate")
    /\ UNCHANGED <<redis, session, asleep, clean, barrier, held, todo, faults>>

-----------------------------------------------------------------------------
(* retryWatch, trySetLock, UnlockAll and a publication under the session.  *)

Fail(o) ==
    /\ Result(o, "error") /\ clean' = clean \ {o}
    /\ UNCHANGED <<redis, session, asleep, barrier, held, todo>>

\* pruneExpiredLocks: records whose lease is gone, read outside the WATCH.
Stale == {p \in Owners : table[p] # <<>> /\ lease[SessionOf[p]] = 0}

Blocked(o, lock) ==
    \E p \in Owners \ (Stale \cup {o}) : \E i \in DOMAIN table[p] :
        LocksConflict(table[p][i], lock)

LeaseLives(s) == lease[s] > 0     \* mutant of GuardsPass: no generation guard
GuardsPass(s) == Valid(s)

\* WATCH, the guards of retryWatch and all that the transaction reads.  One
\* step: a key that changes after WATCH fails the EXEC, and the peers' leases,
\* which nothing watches, never come back once they are gone.
Watch(o) ==
    /\ Pc(o) = "watch"
    /\ \/ Fail(o) /\ ((~GuardsPass(SessionOf[o]) /\ NoFault) \/ Fault)
       \/ /\ GuardsPass(SessionOf[o]) /\ NoFault
          /\ IF WatchesFile(o) /\ Blocked(o, call[o].op.lock)
             THEN Result(o, "block") /\ UNCHANGED clean
             ELSE /\ call' = [call EXCEPT ![o].pc = "exec",
                         ![o].stale = IF WatchesFile(o) THEN Stale ELSE {}]
                  /\ clean' = clean \cup {o}
          /\ UNCHANGED <<redis, session, asleep, barrier, held, todo>>

Retry(o) ==
    /\ Pc(o) = "exec" /\ o \notin clean
    /\ IF call[o].tries + 1 = MaxAttempts THEN Result(o, "error")
       ELSE call' = [call EXCEPT ![o].pc = "watch", ![o].tries = @ + 1, ![o].stale = {}]
    /\ UNCHANGED <<redis, session, asleep, clean, barrier, held, todo, faults>>

\* The hash the transaction writes.
NextTable(o) ==
    LET op == call[o].op IN
    [p \in Owners |->
        IF p = o THEN IF op.kind = "unlockAll" THEN <<>> ELSE ApplyFileLock(table[o], op.lock)
        ELSE IF p \in call[o].stale THEN <<>> ELSE table[p]]

\* EXEC: committed and answered, or committed with the reply lost.  A Setlk
\* that is told so has its lock hash renewed with the lease from then on.
Exec(o) ==
    /\ Pc(o) = "exec"
    /\ \/ Fail(o) /\ Fault
       \/ /\ o \in clean
          /\ StoreTable(NextTable(o), WatchesFile(o))
          /\ IF table' # table \/ (WatchesFile(o) /\ table' # Empty)
             THEN TouchedTable ELSE clean' = clean \ {o}
          /\ \/ /\ To(o, "check") /\ NoFault
                /\ session' = [session EXCEPT ![SessionOf[o]].tracked = (@ \/ WatchesFile(o))]
             \/ /\ Result(o, "error") /\ Fault
                /\ UNCHANGED session
          /\ UNCHANGED <<generation, lease, asleep, barrier, held, todo>>

GenerationOnly(s) == GenerationIs(s)  \* mutant of ScriptPasses: no lease check
ScriptPasses(s) == Valid(s)

\* Any mutation of the file: its script compares generation and lease itself.
Write(o) ==
    /\ Pc(o) = "write"
    /\ \/ Fail(o) /\ ((~ScriptPasses(SessionOf[o]) /\ NoFault) \/ Fault)
       \/ /\ ScriptPasses(SessionOf[o]) /\ TouchedFile
          /\ \/ To(o, "check") /\ NoFault
             \/ Result(o, "error") /\ Fault
          /\ UNCHANGED <<redis, session, asleep, barrier, held, todo>>

-----------------------------------------------------------------------------
(* Barrier.  It holds the mutex from the moment it sees no active request  *)
(* until it has checked and resumed: one step.                             *)

BarrierPause(s) ==
    /\ s \in Barriers /\ barrier[s] = "idle"
    /\ session[s].phase \in {"running", "closed"}
    /\ session' = [session EXCEPT ![s].paused = TRUE]
    /\ barrier' = [barrier EXCEPT ![s] = "drain"]
    /\ UNCHANGED <<redis, asleep, call, clean, held, todo, faults>>

BarrierWait(s) ==
    /\ barrier[s] = "drain" /\ s \notin asleep /\ session[s].active > 0
    /\ asleep' = asleep \cup {s}
    /\ UNCHANGED <<redis, session, call, clean, barrier, held, todo, faults>>

Resume(s, lost) ==
    /\ barrier' = [barrier EXCEPT ![s] = "done"]
    /\ session' = [session EXCEPT ![s].paused = FALSE, ![s].lost = lost]
    /\ NotifyLocked(s)
    /\ UNCHANGED <<redis, call, clean, held, todo>>

WokenUp(s) == TRUE        \* mutant of Drained: a wake-up is taken for an empty session
Drained(s) == session[s].active = 0

BarrierDrained(s) ==
    /\ barrier[s] = "drain" /\ s \notin asleep /\ Drained(s)
    /\ \/ CheckPasses(s) /\ Resume(s, FALSE)
       \/ \E lost \in BOOLEAN : CheckRefuses(s, lost) /\ Resume(s, lost)

BarrierCancelled(s) ==
    /\ barrier[s] = "drain" /\ s \in asleep
    /\ Resume(s, session[s].lost) /\ Fault

-----------------------------------------------------------------------------
Step(o) ==
    \/ Begin(o) \/ Watch(o) \/ Retry(o) \/ Exec(o)
    \/ Write(o) \/ LastCheck(o) \/ Finish(o) \/ Wake(o)

BarrierStep(s) == BarrierWait(s) \/ BarrierDrained(s)

Next ==
    \/ Tick \/ Replace
    \/ \E s \in Sessions :
           \/ NewNative(s) \/ Renew(s) \/ Close(s) \/ Crash(s)
           \/ BarrierPause(s) \/ BarrierStep(s) \/ BarrierCancelled(s)
    \/ \E o \in Owners : Ask(o) \/ Step(o) \/ GiveUp(o)

\* Time passes and goroutines run.
Fairness ==
    /\ WF_vars(Tick)
    /\ \A o \in Owners : WF_vars(Step(o))
    /\ \A s \in Sessions : WF_vars(BarrierStep(s))

Spec == Init /\ [][Next]_vars /\ Fairness

-----------------------------------------------------------------------------
(* Refinement: a session is over when its lease or its generation is gone. *)

Over(o) == S(o).phase # "none" /\ ~Valid(SessionOf[o])

LockTable == INSTANCE LockTable WITH
    mode <- [o \in Owners |-> IF Over(o) THEN Free ELSE ByteModes(table[o])],
    ended <- {o \in Owners : Over(o)}

\* The lock hash with its leases is a lock table: what living owners hold
\* never conflicts, whatever the order of their transactions.
ImplementsLockTable == LockTable!Spec

-----------------------------------------------------------------------------
Pcs == {"idle", "gate", "watch", "exec", "write", "check", "leave", "sleep"}
Admitted == {"watch", "exec", "write", "check", "leave"}

\* The shape of the state; `active` counts exactly the requests between the
\* gate and their finish, whichever way they leave.
TypeOK ==
    /\ generation \in 1..MaxGeneration
    /\ lease \in [Sessions -> 0..LeaseTicks]
    /\ \A o \in Owners : ToSet(table[o]) \subseteq Ranges
    /\ tableTTL \in 0..KeyTicks
    /\ \A s \in Sessions : session[s].born \in 0..MaxGeneration /\
           session[s].active = Cardinality({o \in OwnersOf(s) : Pc(o) \in Admitted})
    /\ asleep \subseteq Owners \cup Sessions
    /\ \A o \in Owners : Pc(o) \in Pcs /\
           (Pc(o) # "idle" => call[o].op \in UNION ToSet(Program[o]))
    /\ clean \subseteq {o \in Owners : Pc(o) = "exec"}
    /\ barrier \in [Sessions -> {"idle", "drain", "done"}]
    /\ held \in [Owners -> [Bytes -> Modes \cup {"none"}]]

\* What o may rely on: all it was told, less the bytes its current request
\* may be changing.
Changing(o) ==
    IF Pc(o) = "idle" \/ call[o].op.kind = "write" THEN {}
    ELSE IF call[o].op.kind = "set" THEN {b \in Bytes : Covers(call[o].op.lock, b)}
    ELSE Bytes
Sure(o) == [b \in Bytes |-> IF b \in Changing(o) THEN "none" ELSE held[o][b]]

\* A lock an owner was told it has is in Redis for as long as its session is
\* valid: renewals, lock-hash expiry, pruning by peers, splits and merges,
\* lost replies and aborted transactions never take it away.
HeldIsRecorded ==
    \A o \in Owners : Valid(SessionOf[o]) =>
        \A b \in Bytes : Sure(o)[b] # "none" => ByteModes(table[o])[b] = Sure(o)[b]

\* Once a replacement has deleted the lock hashes, no session of the old
\* generation leaves a record on the new one's inode of the same number.
RecordsOfThisGeneration ==
    \A o \in Owners : table[o] # <<>> => S(o).born = generation

\* A mutation commits under the locks its owner believes it has only while
\* no other owner with a valid session was told it has one that excludes
\* them: the lease check inside the script fences the holder that expired.
WritesAreFenced ==
    [][\A o \in Owners :
          Pc(o) = "write" /\ call'[o].pc = "check" =>
              \A p \in Owners \ {o} : Valid(SessionOf[p]) =>
                  \A b \in Bytes : ~LockTable!Excludes(Sure(o)[b], Sure(p)[b])]_vars

\* A barrier that returns without being cancelled has seen every admitted
\* request answer.
BarrierDrains ==
    [][\A s \in Sessions :
          barrier[s] = "drain" /\ barrier'[s] = "done" /\ s \notin asleep =>
              \A o \in OwnersOf(s) : Pc(o) \notin Admitted]_vars

\* Nobody sleeps past its cause: a barrier only while a request is admitted,
\* a request only while its gate is closed by a barrier that still runs.
NoLostWakeup ==
    /\ \A s \in Sessions : s \in asleep => session[s].active > 0
    /\ \A o \in Owners : o \in asleep =>
           Pc(o) = "gate" /\ S(o).paused /\ barrier[SessionOf[o]] = "drain"

\* An owner that waits for a lock returns once every other mount is gone:
\* the records a crash leaves behind do not outlive the lease.
Waiting(o) == Pc(o) # "idle" /\ call[o].op.wait
OthersGone(o) ==
    \A s \in Sessions \ {SessionOf[o]} : session[s].phase \in {"crashed", "closed"}
WaiterOutlivesHolders ==
    \A o \in {p \in Owners : \E i \in DOMAIN Program[p] : \E op \in Program[p][i] : op.wait} :
        Waiting(o) /\ OthersGone(o) ~> ~Waiting(o)
=============================================================================
