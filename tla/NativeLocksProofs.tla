-------------------------- MODULE NativeLocksProofs --------------------------
(***************************************************************************)
(* What the sessions and the lock transactions of NativeLocks guarantee    *)
(* for any number of mounts, owners, programs, ticks and faults:           *)
(*   - no lock record of an older generation is left on an inode;          *)
(*   - nobody sleeps past its cause;                                       *)
(*   - a barrier that returns has seen every admitted request answer.      *)
(* The inductive invariant says what the three share: which generation a   *)
(* surviving WATCH belongs to, whose a closed gate is, and that a session  *)
(* counts exactly the requests between its gate and their finish.          *)
(***************************************************************************)
EXTENDS NativeLocks, ByteRangesProofs

SessionType == [phase : {"none", "running", "closed", "crashed"}, born : Int,
                lost : BOOLEAN, tracked : BOOLEAN, active : Int, paused : BOOLEAN]

Shape ==
    /\ generation \in Int
    /\ session \in [Sessions -> SessionType]
    /\ DOMAIN call = Owners /\ \A o \in Owners : "pc" \in DOMAIN call[o]
    /\ DOMAIN barrier = Sessions
    /\ DOMAIN table = Owners
    /\ clean \subseteq Owners

\* A transaction that can still commit belongs to the current generation.
Generations ==
    /\ RecordsOfThisGeneration
    /\ \A o \in clean : S(o).born = generation

\* A closed gate is a barrier's, and that barrier is still there to open it.
Gates ==
    /\ NoLostWakeup
    /\ \A s \in Sessions : session[s].paused => barrier[s] = "drain"

Inside(s) == {o \in OwnersOf(s) : Pc(o) \in Admitted}
Counting == \A s \in Sessions : session[s].active = Cardinality(Inside(s))

IInv == Shape /\ Generations /\ Gates /\ Counting

\* The initial state: nothing is open, asked or recorded.
LEMMA InitInv == Init => IInv
<1> SUFFICES ASSUME Init PROVE IInv
  OBVIOUS
<1> USE OwnersAssumption DEF Init
<1>1. Shape
  BY DEF Shape, SessionType, NewSession, Idle, Empty
<1>2. Generations
  BY DEF Generations, RecordsOfThisGeneration, Empty
<1>3. Gates
  BY DEF Gates, NoLostWakeup, NewSession
<1>4. Counting
  <2> SUFFICES ASSUME NEW s \in Sessions
               PROVE  session[s].active = Cardinality(Inside(s))
    BY DEF Counting
  <2>1. Inside(s) = {}
    BY DEF Inside, OwnersOf, Pc, Admitted, Idle
  <2> QED BY <2>1, FS_EmptySet DEF NewSession
<1> QED BY <1>1, <1>2, <1>3, <1>4 DEF IInv

-----------------------------------------------------------------------------
(* What one step of an owner does to its own call and to its session.      *)

Kept(o) ==
    /\ \A p \in Owners \ {o} : call'[p] = call[p]
    /\ \A s \in Sessions : /\ session'[s].born = session[s].born
                           /\ session'[s].paused = session[s].paused
    /\ \A s \in Sessions \ {SessionOf[o]} : session'[s].active = session[s].active

Stays(o) == /\ session'[SessionOf[o]].active = S(o).active
            /\ Pc(o)' \in Admitted <=> Pc(o) \in Admitted
Enters(o) == /\ session'[SessionOf[o]].active = S(o).active + 1
             /\ Pc(o) \notin Admitted /\ Pc(o)' \in Admitted
Leaves(o) == /\ Finish(o)
             /\ session'[SessionOf[o]].active = S(o).active - 1
             /\ Pc(o) \in Admitted /\ Pc(o)' \notin Admitted

\* The two ways a request moves on: to a position, or out with a result.
LEMMA CallMoves ==
    ASSUME Shape, NEW o \in Owners, NEW pc,
           To(o, pc) \/ (pc = "leave" /\ \E result : Result(o, result))
    PROVE  /\ DOMAIN call' = Owners /\ \A p \in Owners : "pc" \in DOMAIN call'[p]
           /\ Pc(o)' = pc /\ \A p \in Owners \ {o} : call'[p] = call[p]
<1>1. CASE To(o, pc)
  BY <1>1 DEF Shape, To, Request, Pc
<1>2. ASSUME pc = "leave", NEW result, Result(o, result)
      PROVE  /\ DOMAIN call' = Owners /\ \A p \in Owners : "pc" \in DOMAIN call'[p]
             /\ Pc(o)' = pc /\ \A p \in Owners \ {o} : call'[p] = call[p]
  BY <1>2 DEF Shape, Result, Request, Pc
<1> QED BY <1>1, <1>2

\* A step of owner o keeps the shape of the state, leaves the other calls and
\* sessions alone, and counts its request in or out exactly when the request
\* passes the gate or finishes.
LEMMA RequestEffect ==
    ASSUME Shape, NEW o \in Owners, Ask(o) \/ Step(o) \/ GiveUp(o)
    PROVE  Shape' /\ Kept(o) /\ (Stays(o) \/ Enters(o) \/ Leaves(o))
<1> USE OwnersAssumption DEF Shape, Kept, Pc, S
<1> SessionOf[o] \in Sessions
  OBVIOUS
<1>1. CASE Ask(o)
  <2>1. PICK op : call' = [call EXCEPT ![o] = Request(op)]
    BY <1>1 DEF Ask
  <2> QED BY <1>1, <2>1 DEF Ask, Request, Stays, Admitted, redis
<1>2. CASE Begin(o)
  <2>1. CASE asleep' = asleep \cup {o} /\ UNCHANGED <<session, call, held>>
    BY <1>2, <2>1 DEF Begin, Stays, redis
  <2>2. CASE /\ session' = [session EXCEPT ![SessionOf[o]].active = @ + 1]
             /\ To(o, IF call[o].op.kind = "write" THEN "write" ELSE "watch")
    <3>1. DOMAIN call' = Owners /\ \A p \in Owners : "pc" \in DOMAIN call'[p]
      BY <2>2 DEF To, Request
    <3>2. Pc(o)' \in {"write", "watch"} /\ \A p \in Owners \ {o} : call'[p] = call[p]
      BY <2>2 DEF To, Request
    <3>3. session' \in [Sessions -> SessionType]
      BY <2>2 DEF SessionType
    <3>4. Enters(o)
      BY <1>2, <2>2, <3>2 DEF Begin, Enters, Admitted, SessionType
    <3> QED BY <1>2, <2>2, <3>1, <3>2, <3>3, <3>4 DEF Begin, SessionType, redis
  <2>3. CASE \E lost \in BOOLEAN :
                /\ session' = [session EXCEPT ![SessionOf[o]].lost = lost]
                /\ call' = [call EXCEPT ![o] = Idle]
    <3>1. DOMAIN call' = Owners /\ \A p \in Owners : "pc" \in DOMAIN call'[p]
      BY <2>3 DEF Idle
    <3>2. Pc(o)' = "idle" /\ \A p \in Owners \ {o} : call'[p] = call[p]
      BY <2>3 DEF Idle
    <3>3. /\ session' \in [Sessions -> SessionType]
          /\ \A t \in Sessions : /\ session'[t].active = session[t].active
                                 /\ session'[t].born = session[t].born
                                 /\ session'[t].paused = session[t].paused
      BY <2>3 DEF SessionType
    <3> QED BY <1>2, <3>1, <3>2, <3>3 DEF Begin, Stays, Admitted, redis
  <2> QED BY <1>2, <2>1, <2>2, <2>3 DEF Begin
<1>3. CASE Watch(o)
  <2>1. CASE Fail(o)
    BY <1>3, <2>1 DEF Watch, Fail, Result, Request, Stays, Admitted, redis
  <2>2. CASE UNCHANGED clean /\ Result(o, "block")
    BY <1>3, <2>2 DEF Watch, Fail, Result, Request, Stays, Admitted, redis
  <2>3. ASSUME NEW stale, clean' = clean \cup {o},
               call' = [call EXCEPT ![o].pc = "exec", ![o].stale = stale]
        PROVE  Shape' /\ Kept(o) /\ Stays(o)
    BY <1>3, <2>3 DEF Watch, Fail, Stays, Admitted, redis
  <2> QED BY <1>3, <2>1, <2>2, <2>3 DEF Watch
<1>4. CASE Retry(o)
  <2>1. CASE Result(o, "error")
    BY <1>4, <2>1, CallMoves DEF Retry, Stays, Admitted, redis
  <2>2. CASE call' = [call EXCEPT ![o].pc = "watch", ![o].tries = @ + 1, ![o].stale = {}]
    BY <1>4, <2>2 DEF Retry, Stays, Admitted, redis
  <2> QED BY <1>4, <2>1, <2>2 DEF Retry
<1>5. CASE Exec(o)
  <2>1. CASE Fail(o)
    BY <1>5, <2>1 DEF Exec, Fail, Result, Request, Stays, Admitted, redis
  <2>2. CASE ~Fail(o)
    <3>1. DOMAIN table' = Owners
      BY <1>5, <2>2 DEF Exec, StoreTable, NextTable
    <3>2. clean' \subseteq Owners
      BY <1>5, <2>2 DEF Exec, TouchedTable
    <3>3. To(o, "check") \/ Result(o, "error")
      BY <1>5, <2>2 DEF Exec
    <3>4. /\ DOMAIN call' = Owners /\ \A p \in Owners : "pc" \in DOMAIN call'[p]
          /\ Pc(o)' \in {"check", "leave"} /\ \A p \in Owners \ {o} : call'[p] = call[p]
      BY <3>3, CallMoves
    <3>5. \/ UNCHANGED session
          \/ \E t \in BOOLEAN : session' = [session EXCEPT ![SessionOf[o]].tracked = t]
      BY <1>5, <2>2 DEF Exec, WatchesFile, SessionType
    <3>6. /\ session' \in [Sessions -> SessionType]
          /\ \A s \in Sessions : /\ session'[s].born = session[s].born
                                 /\ session'[s].paused = session[s].paused
                                 /\ session'[s].active = session[s].active
      BY <3>5 DEF SessionType
    <3> QED BY <1>5, <2>2, <3>1, <3>2, <3>4, <3>6 DEF Exec, Stays, Admitted
  <2> QED BY <2>1, <2>2
<1>6. CASE Write(o)
  <2>1. To(o, "check") \/ Result(o, "error")
    BY <1>6 DEF Write, Fail
  <2>2. /\ DOMAIN call' = Owners /\ \A p \in Owners : "pc" \in DOMAIN call'[p]
        /\ Pc(o)' \in {"check", "leave"} /\ \A p \in Owners \ {o} : call'[p] = call[p]
    BY <2>1, CallMoves
  <2> QED BY <1>6, <2>2 DEF Write, Fail, TouchedFile, Stays, Admitted, redis
<1>7. CASE LastCheck(o)
  <2>1. To(o, "leave") \/ Result(o, "error")
    BY <1>7 DEF LastCheck
  <2>2. \/ UNCHANGED session
        \/ \E lost \in BOOLEAN : session' = [session EXCEPT ![SessionOf[o]].lost = lost]
    BY <1>7 DEF LastCheck
  <2>3. /\ DOMAIN call' = Owners /\ \A p \in Owners : "pc" \in DOMAIN call'[p]
        /\ Pc(o)' = "leave" /\ \A p \in Owners \ {o} : call'[p] = call[p]
    BY <2>1, CallMoves
  <2>4. /\ session' \in [Sessions -> SessionType]
        /\ \A s \in Sessions : /\ session'[s].born = session[s].born
                               /\ session'[s].paused = session[s].paused
                               /\ session'[s].active = session[s].active
    BY <2>2 DEF SessionType
  <2> QED BY <1>7, <2>3, <2>4 DEF LastCheck, Stays, Admitted, redis
<1>8. CASE Finish(o)
  <2>1. session' = [session EXCEPT ![SessionOf[o]].active = @ - 1]
    BY <1>8 DEF Finish, Released, SessionType
  <2>2. session' \in [Sessions -> SessionType]
    BY <2>1 DEF SessionType
  <2>3. /\ DOMAIN call' = Owners /\ \A p \in Owners : "pc" \in DOMAIN call'[p]
        /\ Pc(o)' \in {"sleep", "idle"} /\ \A p \in Owners \ {o} : call'[p] = call[p]
    BY <1>8 DEF Finish, Request, Idle
  <2>4. Leaves(o)
    BY <1>8, <2>1, <2>3 DEF Finish, Leaves, Admitted, SessionType
  <2> QED BY <1>8, <2>1, <2>2, <2>3, <2>4 DEF Finish, SessionType, redis
<1>9. CASE Wake(o)
  BY <1>9 DEF Wake, To, Request, Stays, Admitted, redis
<1>10. CASE GiveUp(o)
  BY <1>10 DEF GiveUp, Idle, Stays, Admitted, redis
<1> QED BY <1>1, <1>2, <1>3, <1>4, <1>5, <1>6, <1>7, <1>8, <1>9, <1>10 DEF Step
-----------------------------------------------------------------------------
(* What one step of a mount or of its barrier does.                        *)

\* What a crash leaves of a session is a session that counts nothing.
LEMMA CrashedSession ==
    ASSUME NEW b \in Int
    PROVE  LET w == [NewSession EXCEPT !.phase = "crashed", !.born = b]
           IN  w \in SessionType /\ w.born = b /\ w.active = 0 /\ ~w.paused
<1>1. NewSession \in SessionType /\ NewSession.active = 0 /\ ~NewSession.paused
  BY DEF NewSession, SessionType
<1> QED BY <1>1 DEF SessionType

\* A mount that starts counts what its session counted.
LEMMA RunningSession ==
    ASSUME NEW v \in SessionType, NEW b \in Int
    PROVE  LET w == [v EXCEPT !.phase = "running", !.born = b]
           IN  w \in SessionType /\ w.active = v.active /\ w.paused = v.paused
<1>1. [v EXCEPT !.phase = "running", !.born = b] \in SessionType
  BY DEF SessionType
<1> QED BY <1>1 DEF SessionType

\* A session that a barrier pauses counts what it counted.
LEMMA PausedSession ==
    ASSUME NEW v \in SessionType
    PROVE  LET w == [v EXCEPT !.paused = TRUE]
           IN  w \in SessionType /\ w.active = v.active /\ w.born = v.born
<1>1. [v EXCEPT !.paused = TRUE] \in SessionType
  BY DEF SessionType
<1> QED BY <1>1 DEF SessionType

\* The steps of a mount other than a crash leave every call and every count
\* alone; a crash drops the calls of its mount and starts its count again.
LEMMA MountEffect ==
    ASSUME Shape, NEW s \in Sessions,
           NewNative(s) \/ Renew(s) \/ Close(s) \/ Crash(s) \/ BarrierPause(s)
             \/ BarrierStep(s) \/ BarrierCancelled(s)
    PROVE  /\ Shape'
           /\ \A t \in Sessions \ {s} : session'[t] = session[t]
           /\ \/ UNCHANGED call /\ session'[s].active = session[s].active
              \/ Crash(s) /\ session'[s].active = 0
           /\ ~NewNative(s) => session'[s].born = session[s].born
<1> USE OwnersAssumption DEF Shape
<1> DEFINE Only(v) == session' = [session EXCEPT ![s] = v]
<1>0. ASSUME NEW v \in SessionType, Only(v)
      PROVE  /\ session' \in [Sessions -> SessionType] /\ session'[s] = v
             /\ \A t \in Sessions \ {s} : session'[t] = session[t]
  BY <1>0
<1>1. CASE NewNative(s)
  <2>1. PICK v \in SessionType : /\ v.active = session[s].active
                                 /\ v.paused = session[s].paused /\ Only(v)
    <3> DEFINE w == [session[s] EXCEPT !.phase = "running", !.born = generation]
    <3>1. w \in SessionType /\ w.active = session[s].active /\ w.paused = session[s].paused
      BY RunningSession
    <3>2. Only(w)
      BY <1>1 DEF NewNative
    <3> HIDE DEF w, Only
    <3> QED BY <3>1, <3>2
  <2> HIDE DEF Only
  <2> QED BY <1>1, <1>0, <2>1 DEF NewNative
<1>2. CASE Renew(s)
  <2>1. CASE session' = [session EXCEPT ![s].lost = LostBy(s)]
    <3>1. LostBy(s) \in BOOLEAN
      BY DEF LostBy, SessionType, GenerationIs
    <3>2. session' \in [Sessions -> SessionType]
      BY <2>1, <3>1 DEF SessionType
    <3> QED BY <1>2, <2>1, <3>2 DEF Renew, SessionType, TouchedTable, TouchedLease
  <2>2. CASE UNCHANGED session
    BY <1>2, <2>2 DEF Renew, TouchedTable, TouchedLease
  <2> QED BY <1>2, <2>1, <2>2 DEF Renew
<1>3. CASE Close(s)
  <2>1. PICK v \in SessionType : /\ v.active = session[s].active /\ v.born = session[s].born
                                 /\ v.paused = session[s].paused /\ Only(v)
    <3> DEFINE w == [session[s] EXCEPT !.phase = "closed", !.lost = TRUE]
    <3>1. session[s] \in SessionType
      OBVIOUS
    <3>2. w \in SessionType
      BY <3>1 DEF SessionType
    <3>3. w.active = session[s].active /\ w.born = session[s].born
      BY <3>1 DEF SessionType
    <3>4. w.paused = session[s].paused
      BY <3>1 DEF SessionType
    <3>5. Only(w)
      BY <1>3 DEF Close
    <3> QED BY <3>2, <3>3, <3>4, <3>5
  <2> HIDE DEF Only
  <2> QED BY <1>3, <1>0, <2>1 DEF Close, TouchedLease
<1>4. CASE Crash(s)
  <2>1. PICK v \in SessionType : /\ v.active = 0 /\ v.born = session[s].born
                                 /\ ~v.paused /\ Only(v)
    <3> DEFINE w == [NewSession EXCEPT !.phase = "crashed", !.born = session[s].born]
    <3>1. w \in SessionType /\ w.active = 0 /\ w.born = session[s].born /\ ~w.paused
      BY CrashedSession DEF SessionType
    <3>2. Only(w)
      BY <1>4 DEF Crash
    <3> QED BY <3>1, <3>2
  <2>2. DOMAIN call' = Owners /\ \A o \in Owners : "pc" \in DOMAIN call'[o]
    BY <1>4 DEF Crash, Idle
  <2> HIDE DEF Only
  <2> QED BY <1>4, <1>0, <2>1, <2>2 DEF Crash, redis
<1>5. CASE BarrierPause(s)
  <2>1. session' = [session EXCEPT ![s].paused = TRUE]
    BY <1>5 DEF BarrierPause
  <2>2. /\ session' \in [Sessions -> SessionType]
        /\ \A t \in Sessions \ {s} : session'[t] = session[t]
        /\ session'[s].active = session[s].active /\ session'[s].born = session[s].born
    <3> DEFINE w == [session[s] EXCEPT !.paused = TRUE]
    <3>1. w \in SessionType /\ w.active = session[s].active /\ w.born = session[s].born
      BY PausedSession
    <3>2. Only(w)
      BY <2>1
    <3> HIDE DEF w, Only
    <3> QED BY <1>0, <3>1, <3>2
  <2> QED BY <1>5, <2>2 DEF BarrierPause, redis
<1>6. CASE BarrierWait(s)
  BY <1>6 DEF BarrierWait, redis
<1>7. CASE \E lost \in BOOLEAN : Resume(s, lost)
  <2>1. PICK v \in SessionType : /\ v.active = session[s].active /\ v.born = session[s].born
                                 /\ ~v.paused /\ Only(v)
    <3>1. PICK lost \in BOOLEAN : Resume(s, lost)
      BY <1>7
    <3> DEFINE w == [session[s] EXCEPT !.paused = FALSE, !.lost = lost]
    <3>2. session[s] \in SessionType
      OBVIOUS
    <3>3. w \in SessionType
      BY <3>2 DEF SessionType
    <3>4. w.active = session[s].active /\ w.born = session[s].born
      BY <3>2 DEF SessionType
    <3>5. ~w.paused
      BY <3>2 DEF SessionType
    <3>6. Only(w)
      BY <3>1 DEF Resume
    <3> QED BY <3>3, <3>4, <3>5, <3>6
  <2> HIDE DEF Only
  <2> QED BY <1>7, <1>0, <2>1 DEF Resume, redis
<1>8. BarrierDrained(s) \/ BarrierCancelled(s) => \E lost \in BOOLEAN : Resume(s, lost)
  BY DEF BarrierDrained, BarrierCancelled, SessionType
<1> QED BY <1>1, <1>2, <1>3, <1>4, <1>5, <1>6, <1>7, <1>8 DEF BarrierStep
\* The steps nobody takes: time and root replacements.
LEMMA OutsideEffect ==
    ASSUME Shape, Tick \/ Replace \/ UNCHANGED vars
    PROVE  Shape' /\ UNCHANGED <<session, call, asleep, barrier>>
<1>1. CASE Tick
  BY <1>1 DEF Shape, Tick, Empty, TouchedTable, TouchedLease
<1>2. CASE Replace
  BY <1>2 DEF Shape, Replace, StoreTable, Empty
<1>3. CASE UNCHANGED vars
  BY <1>3 DEF Shape, vars
<1> QED BY <1>1, <1>2, <1>3

\* A mount opens for good: it has no record and no transaction before that.
LEMMA GenerationsStep ==
    ASSUME Shape, Generations, [Next]_vars
    PROVE  Generations'
<1> USE OwnersAssumption DEF S
<1> clean \subseteq Owners
  BY DEF Shape
<1>1. ASSUME NEW o \in Owners, Ask(o) \/ Step(o) \/ GiveUp(o)
      PROVE  Generations'
  <2>1. \A p \in Owners : S(p)'.born = S(p).born
    BY <1>1, RequestEffect DEF Kept
  <2>2. generation' = generation
    BY <1>1 DEF Ask, Step, GiveUp, Begin, Watch, Fail, Retry, Exec, Write, LastCheck,
                Finish, Wake, redis
  <2>3. CASE UNCHANGED table /\ clean' \subseteq clean
    BY <2>1, <2>2, <2>3 DEF Generations, RecordsOfThisGeneration
  <2>4. CASE Watch(o) /\ GuardsPass(SessionOf[o]) /\ UNCHANGED table /\ clean' = clean \cup {o}
    BY <2>1, <2>2, <2>4 DEF Generations, RecordsOfThisGeneration, GuardsPass, Valid, GenerationIs
  <2>5. CASE Exec(o) /\ o \in clean /\ StoreTable(NextTable(o), WatchesFile(o))
    <3>1. \A p \in Owners : table'[p] # <<>> => p = o \/ table[p] # <<>>
      BY <2>5 DEF StoreTable, NextTable
    <3>2. clean' \subseteq clean
      BY <2>5 DEF Exec, Fail, TouchedTable
    <3> QED BY <2>1, <2>2, <2>5, <3>1, <3>2 DEF Generations, RecordsOfThisGeneration
  <2> QED BY <1>1, <2>3, <2>4, <2>5
      DEF Ask, Step, GiveUp, Begin, Watch, Fail, Retry, Exec, Write, LastCheck,
          Finish, Wake, TouchedFile, redis
<1>2. ASSUME NEW s \in Sessions,
             NewNative(s) \/ Renew(s) \/ Close(s) \/ Crash(s) \/ BarrierPause(s)
               \/ BarrierStep(s) \/ BarrierCancelled(s)
      PROVE  Generations'
  <2>1. UNCHANGED <<generation, table>> /\ clean' \subseteq clean
    BY <1>2 DEF NewNative, Renew, Close, Crash, BarrierPause, BarrierStep, BarrierWait,
                BarrierDrained, BarrierCancelled, Resume, TouchedTable, TouchedLease, redis
  <2>2. CASE ~NewNative(s)
    <3>1. \A p \in Owners : S(p)'.born = S(p).born
      BY <1>2, <2>2, MountEffect
    <3> QED BY <2>1, <3>1 DEF Generations, RecordsOfThisGeneration
  <2>3. CASE NewNative(s)
    <3>1. \A p \in Owners : SessionOf[p] # s => S(p)'.born = S(p).born
      BY <1>2, MountEffect
    <3>2. session'[s].born = generation
      BY <2>3 DEF NewNative, Shape, SessionType
    <3> QED BY <2>1, <3>1, <3>2 DEF Generations, RecordsOfThisGeneration
  <2> QED BY <2>2, <2>3
<1>3. CASE Tick
  BY <1>3, OutsideEffect DEF Tick, Generations, RecordsOfThisGeneration, Empty, TouchedTable,
                             TouchedLease
<1>4. CASE Replace
  BY <1>4, OutsideEffect DEF Replace, StoreTable, Generations, RecordsOfThisGeneration, Empty
<1>5. CASE UNCHANGED vars
  BY <1>5 DEF vars, Generations, RecordsOfThisGeneration
<1> QED BY <1>1, <1>2, <1>3, <1>4, <1>5 DEF Next
\* A sleeper at the gate sleeps because of a barrier that still runs, and a
\* barrier because of a request that still counts: whoever takes the cause
\* away wakes the sleepers in the same step.
LEMMA GatesStep ==
    ASSUME Shape, Gates, Counting, [Next]_vars
    PROVE  Gates'
<1> USE OwnersAssumption DEF S, Pc
<1>1. ASSUME NEW o \in Owners, Ask(o) \/ Step(o) \/ GiveUp(o)
      PROVE  Gates'
  <2>1. Kept(o) /\ (Stays(o) \/ Enters(o) \/ Leaves(o)) /\ Shape'
    BY <1>1, RequestEffect
  <2>2. barrier' = barrier
    BY <1>1 DEF Ask, Step, GiveUp, Begin, Watch, Fail, Retry, Exec, Write, LastCheck,
                Finish, Wake, redis
  <2>3. \A s \in Sessions : session'[s].paused => barrier'[s] = "drain"
    BY <2>1, <2>2 DEF Kept, Gates
  <2>4. ASSUME NEW s \in Sessions, s \in asleep' PROVE session'[s].active > 0
    <3>1. s \in asleep
      BY <1>1, <2>4 DEF Ask, Step, GiveUp, Begin, NotifyLocked, Watch, Fail, Retry, Exec, Write,
                        LastCheck, Finish, Wake, redis
    <3>2. session[s].active > 0 /\ session[s].active \in Int
      BY <3>1 DEF Gates, NoLostWakeup, Shape, SessionType
    <3>3. CASE Leaves(o)
      <4>2. s # SessionOf[o]
        BY <2>4, <3>3 DEF Leaves, Finish, NotifyLocked
      <4> QED BY <2>1, <3>2, <4>2 DEF Kept
    <3>4. CASE Stays(o) \/ Enters(o)
      BY <2>1, <3>2, <3>4 DEF Kept, Stays, Enters
    <3> QED BY <2>1, <3>3, <3>4
  <2>5. ASSUME NEW p \in Owners, p \in asleep'
        PROVE  call'[p].pc = "gate" /\ session'[SessionOf[p]].paused
                 /\ barrier'[SessionOf[p]] = "drain"
    <3>1. CASE p # o
      <4>1. p \in asleep
        BY <1>1, <2>5, <3>1 DEF Ask, Step, GiveUp, Begin, NotifyLocked, Watch, Fail, Retry, Exec,
                                Write, LastCheck, Finish, Wake, redis
      <4> QED BY <2>1, <2>2, <3>1, <4>1 DEF Kept, Gates, NoLostWakeup
    <3>2. CASE p = o
      <4>1. CASE o \notin asleep
        <5>1. Begin(o) /\ S(o).paused /\ UNCHANGED <<session, call>>
          BY <1>1, <2>5, <3>2, <4>1
             DEF Ask, Step, GiveUp, Begin, NotifyLocked, Watch, Fail, Retry, Exec, Write,
                 LastCheck, Finish, Wake, redis
        <5> QED BY <2>2, <3>2, <5>1 DEF Begin, Gates
      <4>2. CASE o \in asleep
        <5>1. Pc(o) = "gate"
          BY <4>2 DEF Gates, NoLostWakeup
        <5>2. GiveUp(o)
          BY <1>1, <4>2, <5>1 DEF Ask, Step, Begin, Watch, Retry, Exec, Write, LastCheck, Finish,
                                  Wake
        <5> QED BY <2>5, <3>2, <5>2 DEF GiveUp
      <4> QED BY <4>1, <4>2
    <3> QED BY <3>1, <3>2
  <2> QED BY <2>3, <2>4, <2>5 DEF Gates, NoLostWakeup
<1>2. ASSUME NEW s \in Sessions,
             NewNative(s) \/ Renew(s) \/ Close(s) \/ Crash(s) \/ BarrierPause(s)
               \/ BarrierStep(s) \/ BarrierCancelled(s)
      PROVE  Gates'
  <2>0. \A t \in Sessions \ {s} : session'[t] = session[t]
    BY <1>2, MountEffect
  <2> USE DEF Gates, NoLostWakeup
  <2>1. CASE NewNative(s) \/ Renew(s) \/ Close(s)
    <3>1. UNCHANGED <<call, asleep, barrier>>
      BY <2>1 DEF NewNative, Renew, Close
    <3>2. session'[s].paused = session[s].paused /\ session'[s].active = session[s].active
      BY <2>1 DEF NewNative, Renew, Close, Shape, SessionType
    <3>3. \A t \in Sessions : /\ session'[t].paused = session[t].paused
                              /\ session'[t].active = session[t].active
      BY <2>0, <3>2
    <3> QED BY <3>1, <3>3
  <2>2. CASE Crash(s)
    <3>1. /\ asleep' = asleep \ (OwnersOf(s) \cup {s})
          /\ \A o \in Owners \ OwnersOf(s) : call'[o] = call[o]
          /\ \A t \in Sessions \ {s} : barrier'[t] = barrier[t]
      BY <2>2 DEF Crash, NotifyLocked, OwnersOf, Shape
    <3>2. ~session'[s].paused
      BY <2>2, CrashedSession DEF Crash, Shape, SessionType
    <3> QED BY <2>0, <3>1, <3>2 DEF OwnersOf
  <2>3. CASE BarrierPause(s)
    <3>1. /\ barrier[s] = "idle" /\ barrier'[s] = "drain" /\ UNCHANGED <<call, asleep>>
          /\ \A t \in Sessions \ {s} : barrier'[t] = barrier[t]
      BY <2>3 DEF BarrierPause, Shape
    <3>2. session'[s].active = session[s].active
      BY <2>3 DEF BarrierPause, Shape, SessionType
    <3> QED BY <2>0, <3>1, <3>2
  <2>4. CASE BarrierWait(s)
    BY <2>4 DEF BarrierWait, redis, Shape
  <2>5. CASE BarrierDrained(s) \/ BarrierCancelled(s)
    <3>1. /\ asleep' = asleep \ (OwnersOf(s) \cup {s}) /\ UNCHANGED call
          /\ \A t \in Sessions \ {s} : barrier'[t] = barrier[t]
      BY <2>5 DEF BarrierDrained, BarrierCancelled, Resume, NotifyLocked, Shape
    <3>2. ~session'[s].paused
      BY <2>5 DEF BarrierDrained, BarrierCancelled, Resume, Shape, SessionType
    <3> QED BY <2>0, <3>1, <3>2 DEF OwnersOf
  <2> QED BY <1>2, <2>1, <2>2, <2>3, <2>4, <2>5 DEF BarrierStep
<1>3. CASE Tick \/ Replace \/ UNCHANGED vars
  BY <1>3, OutsideEffect DEF Gates, NoLostWakeup
<1> QED BY <1>1, <1>2, <1>3 DEF Next
-----------------------------------------------------------------------------
(* The count of a session, and what follows from it.                       *)

\* A mount has finitely many requests inside.
LEMMA InsideFinite == \A s \in Sessions : IsFiniteSet(Inside(s))
<1>1. \A s \in Sessions : Inside(s) \subseteq Owners
  BY DEF Inside, OwnersOf
<1> QED BY <1>1, OwnersAssumption, FS_Subset

\* `active` goes up with the request that passes the gate, down with the one
\* that finishes, and starts again with the mount that crashed.
LEMMA CountingStep ==
    ASSUME Shape, Counting, [Next]_vars
    PROVE  Counting'
<1> USE OwnersAssumption DEF S
<1>1. ASSUME NEW o \in Owners, Ask(o) \/ Step(o) \/ GiveUp(o)
      PROVE  Counting'
  <2> SUFFICES ASSUME NEW s \in Sessions
               PROVE  session'[s].active = Cardinality(Inside(s)')
    BY DEF Counting
  <2>1. Kept(o) /\ (Stays(o) \/ Enters(o) \/ Leaves(o))
    BY <1>1, RequestEffect
  <2>2. session[s].active = Cardinality(Inside(s)) /\ IsFiniteSet(Inside(s))
    BY InsideFinite DEF Counting
  <2>3. \A p \in Owners \ {o} : Pc(p)' = Pc(p)
    BY <2>1 DEF Kept, Pc
  <2>4. CASE s # SessionOf[o] \/ Stays(o)
    <3>1. Inside(s)' = Inside(s)
      BY <2>3, <2>4 DEF Inside, OwnersOf, Stays
    <3> QED BY <2>1, <2>2, <2>4, <3>1 DEF Kept, Stays
  <2>5. CASE s = SessionOf[o] /\ Enters(o)
    <3>1. Inside(s)' = Inside(s) \cup {o} /\ o \notin Inside(s)
      BY <2>3, <2>5 DEF Inside, OwnersOf, Enters
    <3>2. Cardinality(Inside(s) \cup {o}) = Cardinality(Inside(s)) + 1
      BY <2>2, <3>1, FS_AddElement
    <3> QED BY <2>2, <2>5, <3>1, <3>2 DEF Enters
  <2>6. CASE s = SessionOf[o] /\ Leaves(o)
    <3>1. Inside(s)' = Inside(s) \ {o} /\ o \in Inside(s)
      BY <2>3, <2>6 DEF Inside, OwnersOf, Leaves
    <3>2. Cardinality(Inside(s) \ {o}) = Cardinality(Inside(s)) - 1
      BY <2>2, <3>1, FS_RemoveElement
    <3> QED BY <2>2, <2>6, <3>1, <3>2 DEF Leaves
  <2> QED BY <2>1, <2>4, <2>5, <2>6
<1>2. ASSUME NEW t \in Sessions,
             NewNative(t) \/ Renew(t) \/ Close(t) \/ Crash(t) \/ BarrierPause(t)
               \/ BarrierStep(t) \/ BarrierCancelled(t)
      PROVE  Counting'
  <2> SUFFICES ASSUME NEW s \in Sessions
               PROVE  session'[s].active = Cardinality(Inside(s)')
    BY DEF Counting
  <2>1. session[s].active = Cardinality(Inside(s))
    BY DEF Counting
  <2>2. CASE UNCHANGED call /\ session'[s].active = session[s].active
    BY <2>1, <2>2 DEF Inside, Pc
  <2>3. CASE Crash(t) /\ s # t
    <3>1. \A o \in OwnersOf(s) : call'[o] = call[o]
      BY <2>3 DEF Crash, OwnersOf
    <3>2. Inside(s)' = Inside(s)
      BY <3>1 DEF Inside, Pc, OwnersOf
    <3> QED BY <1>2, <2>1, <2>3, <3>2, MountEffect
  <2>4. CASE Crash(t) /\ s = t /\ session'[s].active = 0
    <3>1. \A o \in OwnersOf(s) : call'[o] = Idle
      BY <2>4 DEF Crash, OwnersOf
    <3>2. Inside(s)' = {}
      BY <3>1 DEF Inside, Pc, OwnersOf, Idle, Admitted
    <3> QED BY <2>4, <3>2, FS_EmptySet
  <2> QED BY <1>2, <2>2, <2>3, <2>4, MountEffect
<1>3. CASE Tick \/ Replace \/ UNCHANGED vars
  BY <1>3, OutsideEffect DEF Counting, Inside, Pc
<1> QED BY <1>1, <1>2, <1>3 DEF Next

\* The inductive invariant of the sessions holds in every behaviour.
THEOREM SpecInvariant == Spec => []IInv
<1>1. IInv /\ [Next]_vars => IInv'
  <2> SUFFICES ASSUME IInv, [Next]_vars PROVE IInv'
    OBVIOUS
  <2>1. Shape'
    BY RequestEffect, MountEffect, OutsideEffect DEF IInv, Next
  <2> QED BY <2>1, GenerationsStep, GatesStep, CountingStep DEF IInv
<1> QED BY InitInv, <1>1, PTL DEF Spec

\* No session of an older generation leaves a lock record on the inode of the
\* same number: EXEC survives a replacement of the root in no order of steps.
THEOREM NoRecordOfAnOldGeneration == Spec => []RecordsOfThisGeneration
<1>1. IInv => RecordsOfThisGeneration
  BY DEF IInv, Generations
<1> QED BY SpecInvariant, <1>1, PTL

\* Nobody sleeps past its cause, at the gate or in a barrier.
THEOREM SleepersHaveACause == Spec => []NoLostWakeup
<1>1. IInv => NoLostWakeup
  BY DEF IInv, Gates
<1> QED BY SpecInvariant, <1>1, PTL

\* A barrier that returns without being cancelled has seen every admitted
\* request of its mount answer.
THEOREM BarriersDrain == Spec => BarrierDrains
<1> DEFINE Step1 ==
      \A s \in Sessions :
          barrier[s] = "drain" /\ barrier'[s] = "done" /\ s \notin asleep =>
              \A o \in OwnersOf(s) : Pc(o) \notin Admitted
<1>1. IInv /\ [Next]_vars => [Step1]_vars
  <2> SUFFICES ASSUME IInv, [Next]_vars, NEW s \in Sessions,
                      barrier[s] = "drain", barrier'[s] = "done", s \notin asleep
               PROVE  \A o \in OwnersOf(s) : Pc(o) \notin Admitted
    OBVIOUS
  <2>1. session[s].active = 0
    <3>1. ASSUME NEW o \in Owners, Ask(o) \/ Step(o) \/ GiveUp(o)
          PROVE  barrier' = barrier
      BY <3>1 DEF Ask, Step, GiveUp, Begin, Watch, Fail, Retry, Exec, Write, LastCheck,
                  Finish, Wake, redis
    <3>2. ASSUME NEW t \in Sessions,
                 NewNative(t) \/ Renew(t) \/ Close(t) \/ Crash(t) \/ BarrierPause(t)
                   \/ BarrierWait(t)
          PROVE  barrier'[s] # "done"
      BY <3>2 DEF NewNative, Renew, Close, Crash, BarrierPause, BarrierWait, redis, IInv, Shape
    <3>3. ASSUME NEW t \in Sessions, BarrierCancelled(t)
          PROVE  barrier'[s] # "done"
      BY <3>3 DEF BarrierCancelled, Resume, IInv, Shape
    <3>4. ASSUME NEW t \in Sessions, BarrierDrained(t)
          PROVE  t = s /\ session[s].active = 0
      BY <3>4 DEF BarrierDrained, Drained, Resume, IInv, Shape
    <3>5. CASE Tick \/ Replace \/ UNCHANGED vars
      BY <3>5, OutsideEffect DEF IInv
    <3> QED BY <3>1, <3>2, <3>3, <3>4, <3>5 DEF Next, BarrierStep
  <2>2. Inside(s) = {}
    BY <2>1, InsideFinite, FS_EmptySet DEF IInv, Counting
  <2> QED BY <2>2 DEF Inside
<1> QED BY SpecInvariant, <1>1, PTL DEF Spec, BarrierDrains
=============================================================================
