--------------------------- MODULE NativeLocksTable ---------------------------
(***************************************************************************)
(* What the lock hash with its leases promises, for any number of mounts,  *)
(* owners, bytes, programs, ticks and faults: the lock an owner was told   *)
(* it has is in the hash for as long as its session is valid, a mutation   *)
(* commits under the locks its owner believes it has, and the records of   *)
(* the living are an abstract lock table.                                  *)
(***************************************************************************)
EXTENDS NativeLocksProofs

Asked(o) == UNION ToSet(Program[o])
Calls(o) == [pc : Pcs \ {"idle"}, op : Asked(o), result : {"ok", "error", "block"},
             stale : SUBSET Owners, tries : Int]

\* The types; a request that mutates the file never watches the lock hash.
Typed ==
    /\ generation \in 1..MaxGeneration
    /\ lease \in [Sessions -> 0..LeaseTicks]
    /\ DOMAIN table = Owners /\ \A o \in Owners : Tidy(table[o])
    /\ tableTTL \in 0..KeyTicks
    /\ \A s \in Sessions : session[s].born \in 0..MaxGeneration
    /\ asleep \subseteq Owners \cup Sessions
    /\ DOMAIN todo = Owners /\ \A o \in Owners : todo[o] \in Seq(SUBSET Asked(o))
    /\ \A o \in Owners :
          /\ call[o] = Idle \/ call[o] \in Calls(o)
          /\ Pc(o) \in {"watch", "exec"} => call[o].op.kind # "write"
          /\ Pc(o) = "write" => call[o].op.kind = "write"
    /\ clean \subseteq {o \in Owners : Pc(o) = "exec"}
    /\ barrier \in [Sessions -> {"idle", "drain", "done"}]
    /\ held \in [Owners -> [Bytes -> RequestTypes]]

\* A mount that has not opened owns nothing.
Unopened ==
    /\ \A s \in Sessions : /\ session[s].born <= generation
                           /\ session[s].phase = "none" => lease[s] = 0 /\ ~session[s].tracked
    /\ \A o \in Owners : S(o).phase = "none" =>
          table[o] = <<>> /\ call[o] = Idle /\ held[o] = Free

\* The lock hash outlives the lease of every session it is renewed with.
Expiry ==
    table # Empty =>
        /\ tableTTL > 0
        /\ \A s \in Sessions : session[s].tracked => lease[s] <= tableTTL

\* The request of o has had its effect, or may have had it.
Done(o) == Pc(o) = "check" \/ (Pc(o) = "leave" /\ call[o].result # "block")
Changed(o) ==
    IF ~Done(o) \/ call[o].op.kind = "write" THEN {}
    ELSE IF call[o].op.kind = "set" THEN {b \in Bytes : Covers(call[o].op.lock, b)}
    ELSE Bytes
\* It had it, and o will be told so.
Answered(o) ==
    /\ Pc(o) = "check" \/ (Pc(o) = "leave" /\ call[o].result = "ok")
    /\ call[o].op.kind = "set"

\* Whoever has a lock, or is about to be told so, has its hash renewed.
Tracked ==
    \A o \in Owners : Answered(o) \/ held[o] # Free => S(o).tracked

\* What o believes, or is about to be told, is in the hash.
Recorded ==
    \A o \in Owners : Valid(SessionOf[o]) =>
        \A b \in Bytes :
            /\ held[o][b] # "none" /\ b \notin Changed(o) => ByteModes(table[o])[b] = held[o][b]
            /\ Answered(o) /\ Covers(call[o].op.lock, b) /\ call[o].op.lock.type # "none"
                 => ByteModes(table[o])[b] = call[o].op.lock.type

\* A transaction that can still commit saw every record of the living; the
\* owners it prunes never come back.
Commits ==
    /\ \A o \in clean : /\ Valid(SessionOf[o])
                        /\ call[o].op.kind = "set" =>
                             \A p \in Owners \ (call[o].stale \cup {o}) :
                                 \A i \in DOMAIN table[p] :
                                     ~LocksConflict(table[p][i], call[o].op.lock)
    /\ \A o \in Owners : Pc(o) = "exec" =>
          \A p \in call[o].stale : lease[SessionOf[p]] = 0 /\ S(p).phase # "none"

\* The living never hold modes that exclude each other.
Exclusive ==
    \A o, p \in Owners : o # p /\ Valid(SessionOf[o]) /\ Valid(SessionOf[p]) =>
        \A b \in Bytes : ~LockTable!Excludes(ByteModes(table[o])[b], ByteModes(table[p])[b])

TableInv ==
    IInv /\ Typed /\ Unopened /\ Expiry /\ Tracked /\ Recorded /\ Commits /\ Exclusive
-----------------------------------------------------------------------------
(* Requests and programs.                                                  *)

\* What an owner may ask for: a lock request is a proper range.
LEMMA AskedOperations ==
    ASSUME NEW o \in Owners, NEW op \in Asked(o)
    PROVE  /\ op.kind \in {"set", "unlockAll", "write"}
           /\ op.kind = "set" => op.lock \in Requests /\ Proper(op.lock)
<1>1. op \in Operations
  <2>1. Program[o] \in Seq(SUBSET Operations)
    BY ProgramAssumption
  <2>2. PICK i \in DOMAIN Program[o] : op \in Program[o][i]
    BY DEF Asked, ToSet
  <2>3. Program[o][i] \in SUBSET Operations
    BY <2>1, <2>2
  <2> QED BY <2>2, <2>3
<1> QED BY <1>1 DEF Operations

\* Before the first step: nothing is open, asked, held or recorded.
LEMMA InitTable == Init => TableInv
<1> SUFFICES ASSUME Init PROVE TableInv
  OBVIOUS
<1> USE OwnersAssumption, ProgramAssumption
<1>0. /\ \A o \in Owners : call[o] = Idle /\ held[o] = Free /\ table[o] = <<>> /\ Pc(o) = "idle"
      /\ \A s \in Sessions : session[s] = NewSession /\ lease[s] = 0
      /\ table = Empty /\ clean = {} /\ generation = 1
  BY DEF Init, Empty, Pc, Idle
<1>1. IInv
  BY InitInv
<1>2. Typed
  <2>1. ASSUME NEW o \in Owners PROVE todo[o] \in Seq(SUBSET Asked(o))
    <3> DEFINE w == Program[o]
    <3>1. w \in Seq(SUBSET Operations) /\ todo[o] = w
      BY DEF Init
    <3>2. \A i \in DOMAIN w : w[i] \in SUBSET Asked(o)
      BY DEF Asked, ToSet
    <3> HIDE DEF w
    <3>3. w \in Seq(SUBSET Asked(o))
      <4>1. Len(w) \in Nat /\ DOMAIN w = 1..Len(w) /\ w = [i \in 1..Len(w) |-> w[i]]
        BY <3>1
      <4> QED BY <3>2, <4>1
    <3> QED BY <3>1, <3>3
  <2>6. Tidy(<<>>)
    BY DEF Tidy
  <2>2. \A o \in Owners : Tidy(table[o])
    BY <1>0, <2>6
  <2>3. held \in [Owners -> [Bytes -> RequestTypes]]
    BY DEF Init, Free, RequestTypes
  <2>4. DOMAIN table = Owners /\ DOMAIN todo = Owners
    BY DEF Init, Empty
  <2>5. /\ generation \in 1..MaxGeneration /\ lease \in [Sessions -> 0..LeaseTicks]
        /\ tableTTL \in 0..KeyTicks
        /\ \A s \in Sessions : session[s].born \in 0..MaxGeneration
    BY <1>0 DEF Init, KeyTicks, NewSession
  <2> QED BY <1>0, <2>1, <2>2, <2>3, <2>4, <2>5 DEF Init, Typed
<1>3. Unopened /\ Expiry /\ Commits
  BY <1>0 DEF Unopened, Expiry, Commits, NewSession, S
<1>4. Tracked /\ Recorded /\ Exclusive
  BY <1>0 DEF Tracked, Answered, Recorded, Exclusive, Valid
<1> QED BY <1>1, <1>2, <1>3, <1>4 DEF TableInv

-----------------------------------------------------------------------------
(* What a step of an owner does to its request, its locks and the hash.    *)

\* The request moves to a position, or out with a result.
LEMMA Moved ==
    ASSUME Typed, Shape, NEW o \in Owners, Pc(o) # "idle",
           NEW pc \in Pcs \ {"idle"}, NEW result \in {"ok", "error", "block"},
           \/ To(o, pc) /\ result = "ok"
           \/ Result(o, result) /\ pc = "leave"
    PROVE  /\ DOMAIN call' = Owners /\ call'[o] \in Calls(o)
           /\ call'[o].pc = pc /\ call'[o].op = call[o].op /\ call'[o].result = result
           /\ \A p \in Owners \ {o} : call'[p] = call[p]
<1>1. call[o] \in Calls(o)
  BY DEF Typed, Idle, Pc
<1>2. call[o].op \in Asked(o)
  BY <1>1 DEF Calls
<1> DEFINE w == [pc |-> pc, op |-> call[o].op, result |-> result, stale |-> {}, tries |-> 0]
<1>3. call' = [call EXCEPT ![o] = w]
  BY DEF To, Result, Request, Shape
<1>4. w \in Calls(o) /\ w.pc = pc /\ w.op = call[o].op /\ w.result = result
  BY <1>2 DEF Calls
<1> HIDE DEF w
<1> QED BY <1>3, <1>4 DEF Shape

\* What the step of an owner leaves alone.
Frame(o) ==
    /\ UNCHANGED <<generation, lease>>
    /\ \A p \in Owners \ {o} : call'[p] = call[p] /\ held'[p] = held[p]
    /\ \A s \in Sessions : /\ session'[s].phase = session[s].phase
                           /\ session'[s].born = session[s].born
                           /\ session[s].tracked => session'[s].tracked
                           /\ s # SessionOf[o] => session'[s].tracked = session[s].tracked

\* Its call and what it believes stay what they can be.
CallTyped(o) ==
    /\ call'[o] = Idle \/ call'[o] \in Calls(o)
    /\ Pc(o)' \in {"watch", "exec"} => call'[o].op.kind # "write"
    /\ Pc(o)' = "write" => call'[o].op.kind = "write"
    /\ DOMAIN held' = Owners /\ held'[o] \in [Bytes -> RequestTypes]
    /\ DOMAIN todo' = Owners
    /\ \A p \in Owners : todo'[p] \in Seq(SUBSET Asked(p))

\* The owner learns only what it had, or what its answer says.
Honest(o) ==
    /\ \A b \in Bytes :
          held'[o][b] # "none" /\ b \notin Changed(o)' =>
              \/ held'[o][b] = held[o][b] /\ b \notin Changed(o)
              \/ /\ Answered(o) /\ Covers(call[o].op.lock, b)
                 /\ held'[o][b] = call[o].op.lock.type
    /\ Answered(o)' => Answered(o) /\ call'[o].op = call[o].op
    /\ held'[o] # Free => held[o] # Free \/ Answered(o)
    /\ Pc(o)' # "exec"

Quiet(o) == /\ UNCHANGED <<table, tableTTL>> /\ clean' \subseteq clean \ {o} /\ Honest(o)

Opens(o) ==
    /\ Pc(o) = "watch" /\ GuardsPass(SessionOf[o])
    /\ ~(WatchesFile(o) /\ Blocked(o, call[o].op.lock))
    /\ call'[o] = [call[o] EXCEPT !.pc = "exec", !.stale = IF WatchesFile(o) THEN Stale ELSE {}]
    /\ clean' = clean \cup {o}
    /\ UNCHANGED <<table, tableTTL, session, held>>

Commit(o) ==
    /\ Pc(o) = "exec" /\ o \in clean
    /\ StoreTable(NextTable(o), WatchesFile(o))
    /\ clean' \subseteq clean \ {o}
    /\ table' = table \/ clean' = {}
    /\ held' = held /\ call'[o].op = call[o].op
    /\ \/ Pc(o)' = "check" /\ (WatchesFile(o) => session'[SessionOf[o]].tracked)
       \/ Pc(o)' = "leave" /\ call'[o].result = "error"

\* What an owner is told has the right type.
LEMMA ToldTyped ==
    ASSUME Typed, NEW o \in Owners, Pc(o) # "idle", NEW result
    PROVE  Told(o, result) \in [Bytes -> RequestTypes]
<1>1. call[o] \in Calls(o)
  BY DEF Typed, Idle, Pc
<1>2. call[o].op \in Asked(o)
  BY <1>1 DEF Calls
<1> DEFINE op == call[o].op
<1>3. held[o] \in [Bytes -> RequestTypes]
  BY DEF Typed
<1>4. CASE result = "block" \/ op.kind = "write"
  BY <1>3, <1>4 DEF Told
<1>5. CASE ~(result = "block" \/ op.kind = "write") /\ op.kind = "unlockAll"
  BY <1>5 DEF Told, Free, RequestTypes
<1>6. CASE ~(result = "block" \/ op.kind = "write") /\ op.kind # "unlockAll"
  <2>1. op.kind = "set" /\ op.lock \in Requests
    BY <1>2, <1>6, AskedOperations
  <2>2. op.lock.type \in RequestTypes /\ [op.lock EXCEPT !.type = "none"].type = "none"
    BY <2>1 DEF Requests
  <2>3. Told(o, result) = Updated(held[o], op.lock)
          \/ Told(o, result) = Updated(held[o], [op.lock EXCEPT !.type = "none"])
    BY <1>6 DEF Told
  <2>4. \A r : r.type \in RequestTypes => Updated(held[o], r) \in [Bytes -> RequestTypes]
    BY <1>3 DEF Updated
  <2>5. "none" \in RequestTypes
    BY DEF RequestTypes
  <2> HIDE DEF op
  <2> QED BY <2>2, <2>3, <2>4, <2>5
<1> QED BY <1>4, <1>5, <1>6

\* What an answer adds to what an owner believes is what it was told.
LEMMA ToldHonest ==
    ASSUME Typed, NEW o \in Owners, Pc(o) # "idle", NEW result \in {"ok", "error", "block"},
           \/ Pc(o) = "leave" /\ call[o].result = result
           \/ Pc(o) = "gate" /\ result = "error"
    PROVE  /\ \A b \in Bytes : Told(o, result)[b] # "none" =>
                 \/ Told(o, result)[b] = held[o][b] /\ b \notin Changed(o)
                 \/ /\ Answered(o) /\ Covers(call[o].op.lock, b)
                    /\ Told(o, result)[b] = call[o].op.lock.type
           /\ Told(o, result) # Free => held[o] # Free \/ Answered(o)
<1>1. call[o] \in Calls(o)
  BY DEF Typed, Idle, Pc
<1>2. call[o].op \in Asked(o)
  BY <1>1 DEF Calls
<1> DEFINE op == call[o].op  lk == op.lock
<1>3. held[o] \in [Bytes -> RequestTypes]
  BY DEF Typed
<1>4. CASE result = "block" \/ op.kind = "write"
  <2>1. Told(o, result) = held[o] /\ Changed(o) = {}
    BY <1>4 DEF Told, Changed, Done
  <2> QED BY <2>1
<1>5. CASE ~(result = "block" \/ op.kind = "write") /\ op.kind = "unlockAll"
  <2>1. Told(o, result) = Free
    BY <1>5 DEF Told
  <2> QED BY <2>1 DEF Free
<1>6. CASE ~(result = "block" \/ op.kind = "write") /\ op.kind # "unlockAll"
  <2>1. op.kind = "set" /\ lk \in Requests
    BY <1>2, <1>6, AskedOperations
  <2>2. ASSUME NEW b \in Bytes
        PROVE  Changed(o) = {} \/ (b \in Changed(o) <=> Covers(lk, b))
    BY <2>1 DEF Changed
  <2>3. CASE result = "ok"
    <3>1. Told(o, result) = Updated(held[o], lk) /\ Answered(o)
      BY <1>6, <2>1, <2>3 DEF Told, Answered
    <3>2. \A b \in Bytes : Updated(held[o], lk)[b] = IF Covers(lk, b) THEN lk.type ELSE held[o][b]
      BY DEF Updated
    <3> QED BY <2>2, <3>1, <3>2
  <2>4. CASE result = "error"
    <3> DEFINE none == [lk EXCEPT !.type = "none"]
    <3>1. Told(o, result) = Updated(held[o], none)
      BY <1>6, <2>4 DEF Told
    <3>2. none.type = "none" /\ none.start = lk.start /\ none.end = lk.end
      BY <2>1 DEF Requests
    <3>3. \A b \in Bytes : Covers(none, b) <=> Covers(lk, b)
      BY <3>2 DEF Covers
    <3>4. \A b \in Bytes : Updated(held[o], none)[b]
                             = IF Covers(lk, b) THEN "none" ELSE held[o][b]
      BY <3>2, <3>3 DEF Updated
    <3>5. held[o] = Free => Updated(held[o], none) = Free
      <4>1. Updated(held[o], none) = [b \in Bytes |-> Updated(held[o], none)[b]]
        BY DEF Updated
      <4>2. held[o] = Free => \A b \in Bytes : Updated(held[o], none)[b] = "none"
        BY <3>4 DEF Free
      <4> HIDE DEF none
      <4> QED BY <4>1, <4>2 DEF Free
    <3> HIDE DEF none
    <3> QED BY <2>2, <3>1, <3>4, <3>5
  <2> QED BY <1>6, <2>3, <2>4
<1> QED BY <1>4, <1>5, <1>6

\* Every step of an owner is quiet, or opens a transaction, or commits one.
LEMMA OwnerEffect ==
    ASSUME Shape, Typed, NEW o \in Owners, Ask(o) \/ Step(o) \/ GiveUp(o)
    PROVE  Frame(o) /\ CallTyped(o) /\ (Quiet(o) \/ Opens(o) \/ Commit(o))
<1> USE OwnersAssumption
<1> DEFINE s == SessionOf[o]
<1>0. /\ s \in Sessions /\ session[s] \in SessionType
      /\ DOMAIN call = Owners /\ DOMAIN held = Owners /\ held[o] \in [Bytes -> RequestTypes]
      /\ DOMAIN todo = Owners /\ \A p \in Owners : todo[p] \in Seq(SUBSET Asked(p))
      /\ Pc(o) # "idle" => call[o] \in Calls(o)
      /\ o \in clean => Pc(o) = "exec"
      /\ session \in [Sessions -> SessionType]
  BY DEF Shape, Typed, Idle, Pc
<1>p. {"gate", "watch", "exec", "write", "check", "leave", "sleep"} = Pcs \ {"idle"}
  BY DEF Pcs
<1>i. Idle.pc = "idle" /\ \A c \in Calls(o) : c.pc # "idle"
  BY DEF Idle, Calls
<1>q. ASSUME UNCHANGED session
      PROVE  \A t \in Sessions : /\ session'[t].phase = session[t].phase
                                 /\ session'[t].born = session[t].born
                                 /\ session[t].tracked => session'[t].tracked
                                 /\ t # s => session'[t].tracked = session[t].tracked
  BY <1>q
<1>l. ASSUME NEW lost, session' = [session EXCEPT ![s].lost = lost]
      PROVE  \A t \in Sessions : /\ session'[t].phase = session[t].phase
                                 /\ session'[t].born = session[t].born
                                 /\ session[t].tracked => session'[t].tracked
                                 /\ t # s => session'[t].tracked = session[t].tracked
  BY <1>0, <1>l DEF SessionType
<1>a. ASSUME NEW v, session' = [session EXCEPT ![s] = v],
             v = Released(s) \/ v = [session[s] EXCEPT !.active = @ + 1]
      PROVE  \A t \in Sessions : /\ session'[t].phase = session[t].phase
                                 /\ session'[t].born = session[t].born
                                 /\ session[t].tracked => session'[t].tracked
                                 /\ t # s => session'[t].tracked = session[t].tracked
  BY <1>0, <1>a DEF SessionType, Released
<1>1. CASE Ask(o)
  <2>1. PICK op \in Head(todo[o]) : call' = [call EXCEPT ![o] = Request(op)]
    BY <1>1 DEF Ask
  <2>2. /\ Head(todo[o]) \in SUBSET Asked(o) /\ Tail(todo[o]) \in Seq(SUBSET Asked(o))
    <3> DEFINE left == todo[o]
    <3>1. left \in Seq(SUBSET Asked(o)) /\ left # <<>>
      BY <1>0, <1>1 DEF Ask
    <3> HIDE DEF left
    <3>2. Head(left) \in SUBSET Asked(o) /\ Tail(left) \in Seq(SUBSET Asked(o))
      BY <3>1
    <3> QED BY <3>2 DEF left
  <2>3. call'[o] = Request(op) /\ \A p \in Owners \ {o} : call'[p] = call[p]
    BY <1>0, <2>1
  <2>4. Request(op) \in Calls(o) /\ Request(op).pc = "gate" /\ Request(op).result = "ok"
    BY <2>2 DEF Request, Calls, Pcs
  <2>5. todo' = [todo EXCEPT ![o] = Tail(todo[o])]
    BY <1>1 DEF Ask
  <2>6. DOMAIN todo' = Owners /\ \A p \in Owners : todo'[p] \in Seq(SUBSET Asked(p))
    BY <1>0, <2>2, <2>5
  <2>7. Frame(o) /\ CallTyped(o)
    BY <1>0, <1>1, <1>q, <2>3, <2>4, <2>6 DEF Ask, Frame, CallTyped, redis, Pc
  <2>8. Pc(o) = "idle" /\ Pc(o)' = "gate" /\ held' = held /\ UNCHANGED <<table, tableTTL, clean>>
    BY <1>1, <2>3, <2>4 DEF Ask, redis, Pc
  <2>9. Quiet(o)
    BY <1>0, <2>8 DEF Quiet, Honest, Changed, Done, Answered, Pc
  <2> QED BY <2>7, <2>9
<1>2. CASE Begin(o)
  <2>0. /\ Pc(o) = "gate" /\ UNCHANGED <<generation, lease, table, tableTTL, clean, todo>>
    BY <1>2 DEF Begin, redis
  <2>1. CASE UNCHANGED <<session, call, held>>
    <3>1. Frame(o) /\ CallTyped(o)
      BY <1>0, <1>q, <2>0, <2>1 DEF Frame, CallTyped, Pc
    <3>2. Quiet(o)
      BY <1>0, <2>0, <2>1 DEF Quiet, Honest, Changed, Done, Answered, Pc
    <3> QED BY <3>1, <3>2
  <2>2. CASE /\ session' = [session EXCEPT ![s].active = @ + 1] /\ held' = held
             /\ To(o, IF call[o].op.kind = "write" THEN "write" ELSE "watch")
    <3> DEFINE pc == IF call[o].op.kind = "write" THEN "write" ELSE "watch"
    <3>1. /\ DOMAIN call' = Owners /\ call'[o] \in Calls(o)
          /\ call'[o].pc = pc /\ call'[o].op = call[o].op
          /\ \A p \in Owners \ {o} : call'[p] = call[p]
      <4>1. pc \in Pcs \ {"idle"} /\ To(o, pc)
        BY <2>2 DEF Pcs
      <4> HIDE DEF pc
      <4> QED BY <2>0, <4>1, Moved
    <3>2. Frame(o) /\ CallTyped(o)
      BY <1>0, <1>a, <2>0, <2>2, <3>1 DEF Frame, CallTyped, Pc
    <3>3. Quiet(o)
      BY <1>0, <2>0, <2>2, <3>1 DEF Quiet, Honest, Changed, Done, Answered, Pc
    <3> QED BY <3>2, <3>3
  <2>3. ASSUME NEW lost \in BOOLEAN, session' = [session EXCEPT ![s].lost = lost],
               call' = [call EXCEPT ![o] = Idle],
               held' = [held EXCEPT ![o] = Told(o, "error")]
        PROVE  Frame(o) /\ CallTyped(o) /\ Quiet(o)
    <3>1. /\ call'[o] = Idle /\ Pc(o)' = "idle" /\ held'[o] = Told(o, "error")
          /\ \A p \in Owners \ {o} : call'[p] = call[p] /\ held'[p] = held[p]
          /\ DOMAIN held' = Owners
      BY <1>0, <2>3 DEF Pc, Idle
    <3>2. Told(o, "error") \in [Bytes -> RequestTypes]
      BY <2>0, ToldTyped
    <3>3. Frame(o) /\ CallTyped(o)
      BY <1>0, <1>l, <2>0, <2>3, <3>1, <3>2 DEF Frame, CallTyped, Pc
    <3>4. /\ \A b \in Bytes : Told(o, "error")[b] # "none" =>
                \/ Told(o, "error")[b] = held[o][b] /\ b \notin Changed(o)
                \/ /\ Answered(o) /\ Covers(call[o].op.lock, b)
                   /\ Told(o, "error")[b] = call[o].op.lock.type
          /\ Told(o, "error") # Free => held[o] # Free \/ Answered(o)
      BY <2>0, ToldHonest
    <3>5. ~Answered(o)'
      BY <3>1 DEF Answered, Pc
    <3>6. Quiet(o)
      BY <1>0, <2>0, <3>1, <3>4, <3>5 DEF Quiet, Honest
    <3> QED BY <3>3, <3>6
  <2> QED BY <1>2, <2>1, <2>2, <2>3 DEF Begin
<1>3. CASE Watch(o)
  <2>1. CASE Fail(o) \/ (UNCHANGED clean /\ Result(o, "block")
                          /\ UNCHANGED <<redis, session, asleep, barrier, held, todo>>)
    <3>1. PICK result \in {"error", "block"} : Result(o, result)
      BY <2>1 DEF Fail
    <3>2. Pc(o) = "watch" /\ UNCHANGED <<redis, session, held, todo>> /\ clean' \subseteq clean
      BY <1>3, <2>1 DEF Watch, Fail
    <3>3. /\ DOMAIN call' = Owners /\ call'[o] \in Calls(o)
          /\ call'[o].pc = "leave" /\ call'[o].op = call[o].op /\ call'[o].result = result
          /\ \A p \in Owners \ {o} : call'[p] = call[p]
      BY <1>p, <3>1, <3>2, Moved
    <3>4. Frame(o) /\ CallTyped(o)
      BY <1>0, <1>q, <3>2, <3>3 DEF Frame, CallTyped, Pc, redis
    <3>5. Quiet(o)
      BY <1>0, <3>1, <3>2, <3>3 DEF Quiet, Honest, Changed, Done, Answered, Pc, redis
    <3> QED BY <3>4, <3>5
  <2>2. CASE ~Fail(o) /\ ~(WatchesFile(o) /\ Blocked(o, call[o].op.lock))
    <3> DEFINE stale == IF WatchesFile(o) THEN Stale ELSE {}
    <3>1. /\ Pc(o) = "watch" /\ UNCHANGED <<redis, session, held, todo>>
          /\ GuardsPass(SessionOf[o])
          /\ call' = [call EXCEPT ![o].pc = "exec", ![o].stale = stale]
          /\ clean' = clean \cup {o}
      BY <1>3, <2>2 DEF Watch
    <3>2. call'[o] = [call[o] EXCEPT !.pc = "exec", !.stale = stale]
          /\ \A p \in Owners \ {o} : call'[p] = call[p]
      BY <1>0, <3>1
    <3>3. stale \in SUBSET Owners
      BY DEF Stale
    <3> HIDE DEF stale
    <3>4. call'[o] \in Calls(o) /\ call'[o].op = call[o].op /\ call'[o].pc = "exec"
      BY <1>0, <3>1, <3>2, <3>3 DEF Calls, Pcs
    <3>7. call[o].op.kind # "write"
      BY <3>1 DEF Typed
    <3>5. Frame(o) /\ CallTyped(o)
      BY <1>0, <1>q, <3>1, <3>2, <3>4, <3>7 DEF Frame, CallTyped, Pc, redis
    <3>6. Opens(o)
      BY <2>2, <3>1, <3>2 DEF Opens, redis, stale
    <3> QED BY <3>5, <3>6
  <2> QED BY <1>3, <2>1, <2>2 DEF Watch
<1>4. CASE Retry(o)
  <2>0. /\ Pc(o) = "exec" /\ o \notin clean
        /\ UNCHANGED <<redis, session, held, todo, clean>>
    BY <1>4 DEF Retry
  <2>1. CASE Result(o, "error")
    <3>3. /\ DOMAIN call' = Owners /\ call'[o] \in Calls(o)
          /\ call'[o].pc = "leave" /\ call'[o].op = call[o].op /\ call'[o].result = "error"
          /\ \A p \in Owners \ {o} : call'[p] = call[p]
      BY <1>p, <2>0, <2>1, Moved
    <3>4. Frame(o) /\ CallTyped(o)
      BY <1>0, <1>q, <2>0, <3>3 DEF Frame, CallTyped, Pc, redis
    <3>5. Quiet(o)
      BY <1>0, <2>0, <3>3 DEF Quiet, Honest, Changed, Done, Answered, Pc, redis
    <3> QED BY <3>4, <3>5
  <2>2. CASE call' = [call EXCEPT ![o].pc = "watch", ![o].tries = @ + 1, ![o].stale = {}]
    <3>1. call'[o] = [call[o] EXCEPT !.pc = "watch", !.tries = @ + 1, !.stale = {}]
          /\ \A p \in Owners \ {o} : call'[p] = call[p]
      BY <1>0, <2>2
    <3>2. call'[o] \in Calls(o) /\ call'[o].op = call[o].op /\ call'[o].pc = "watch"
      <4> DEFINE c == call[o]
      <4>1. c \in Calls(o) /\ call'[o] = [c EXCEPT !.pc = "watch", !.tries = c.tries + 1, !.stale = {}]
        BY <1>0, <2>0, <3>1
      <4> HIDE DEF c
      <4>2. c.tries + 1 \in Int /\ "watch" \in Pcs \ {"idle"} /\ {} \in SUBSET Owners
        BY <4>1 DEF Calls, Pcs
      <4>3. call'[o] \in Calls(o) /\ call'[o].op = c.op /\ call'[o].pc = "watch"
        BY <4>1, <4>2 DEF Calls
      <4> QED BY <4>3 DEF c
    <3>3. call[o].op.kind # "write"
      BY <2>0 DEF Typed
    <3>4. Frame(o) /\ CallTyped(o)
      BY <1>0, <1>q, <2>0, <3>1, <3>2, <3>3 DEF Frame, CallTyped, Pc, redis
    <3>5. Quiet(o)
      BY <1>0, <2>0, <3>2 DEF Quiet, Honest, Changed, Done, Answered, Pc, redis
    <3> QED BY <3>4, <3>5
  <2> QED BY <1>4, <2>1, <2>2 DEF Retry
<1>5. CASE Exec(o)
  <2>1. CASE Fail(o)
    <3>2. Pc(o) = "exec" /\ UNCHANGED <<redis, session, held, todo>> /\ clean' = clean \ {o}
      BY <1>5, <2>1 DEF Exec, Fail
    <3>3. /\ DOMAIN call' = Owners /\ call'[o] \in Calls(o)
          /\ call'[o].pc = "leave" /\ call'[o].op = call[o].op /\ call'[o].result = "error"
          /\ \A p \in Owners \ {o} : call'[p] = call[p]
      BY <1>p, <2>1, <3>2, Moved DEF Fail
    <3>4. Frame(o) /\ CallTyped(o)
      BY <1>0, <1>q, <3>2, <3>3 DEF Frame, CallTyped, Pc, redis
    <3>5. Quiet(o)
      BY <1>0, <3>2, <3>3 DEF Quiet, Honest, Changed, Done, Answered, Pc, redis
    <3> QED BY <3>4, <3>5
  <2>2. CASE ~Fail(o)
    <3>1. /\ Pc(o) = "exec" /\ o \in clean /\ StoreTable(NextTable(o), WatchesFile(o))
          /\ UNCHANGED <<generation, lease, held, todo>>
          /\ IF table' # table \/ (WatchesFile(o) /\ table' # Empty)
             THEN TouchedTable ELSE clean' = clean \ {o}
          /\ \/ /\ To(o, "check")
                /\ session' = [session EXCEPT ![s].tracked = (@ \/ WatchesFile(o))]
             \/ Result(o, "error") /\ UNCHANGED session
      BY <1>5, <2>2 DEF Exec
    <3>2. PICK pc \in {"check", "leave"} :
            /\ DOMAIN call' = Owners /\ call'[o] \in Calls(o)
            /\ call'[o].pc = pc /\ call'[o].op = call[o].op
            /\ \A p \in Owners \ {o} : call'[p] = call[p]
            /\ \/ pc = "leave" /\ call'[o].result = "error" /\ UNCHANGED session
               \/ pc = "check" /\ session' = [session EXCEPT ![s].tracked = (@ \/ WatchesFile(o))]
      BY <1>p, <3>1, Moved
    <3>3. /\ \A t \in Sessions : /\ session'[t].phase = session[t].phase
                                 /\ session'[t].born = session[t].born
                                 /\ session[t].tracked => session'[t].tracked
                                 /\ t # s => session'[t].tracked = session[t].tracked
          /\ pc = "check" /\ WatchesFile(o) => session'[s].tracked
      <4>1. CASE UNCHANGED session /\ pc = "leave"
        BY <4>1
      <4>2. CASE pc = "check" /\ session' = [session EXCEPT ![s].tracked = (@ \/ WatchesFile(o))]
        <5> DEFINE v == [session[s] EXCEPT !.tracked = (@ \/ WatchesFile(o))]
        <5>1. session' = [session EXCEPT ![s] = v]
          BY <4>2
        <5>2. /\ v.phase = session[s].phase /\ v.born = session[s].born
              /\ v.tracked <=> session[s].tracked \/ WatchesFile(o)
          BY <1>0 DEF SessionType
        <5> HIDE DEF v
        <5> QED BY <1>0, <5>1, <5>2
      <4> QED BY <3>2, <4>1, <4>2
    <3>4. Frame(o) /\ CallTyped(o)
      BY <1>0, <3>1, <3>2, <3>3 DEF Frame, CallTyped, Pc
    <3>5. Commit(o)
      BY <1>0, <3>1, <3>2, <3>3 DEF Commit, Pc, TouchedTable
    <3> QED BY <3>4, <3>5
  <2> QED BY <2>1, <2>2
<1>6. CASE Write(o)
  <2>1. Pc(o) = "write" /\ UNCHANGED <<redis, session, held, todo>> /\ clean' \subseteq clean
    BY <1>6 DEF Write, Fail, TouchedFile
  <2>2. PICK pc \in {"check", "leave"} :
          /\ DOMAIN call' = Owners /\ call'[o] \in Calls(o)
          /\ call'[o].pc = pc /\ call'[o].op = call[o].op
          /\ \A p \in Owners \ {o} : call'[p] = call[p]
    BY <1>6, <1>p, <2>1, Moved DEF Write, Fail
  <2>3. call[o].op.kind = "write"
    BY <2>1 DEF Typed
  <2>4. Frame(o) /\ CallTyped(o)
    BY <1>0, <1>q, <2>1, <2>2 DEF Frame, CallTyped, Pc, redis
  <2>5. Quiet(o)
    BY <1>0, <2>1, <2>2, <2>3 DEF Quiet, Honest, Changed, Done, Answered, Pc, redis
  <2> QED BY <2>4, <2>5
<1>7. CASE LastCheck(o)
  <2>1. Pc(o) = "check" /\ UNCHANGED <<redis, clean, held, todo>>
    BY <1>7 DEF LastCheck
  <2>2. PICK result \in {"ok", "error"} :
          /\ DOMAIN call' = Owners /\ call'[o] \in Calls(o)
          /\ call'[o].pc = "leave" /\ call'[o].op = call[o].op /\ call'[o].result = result
          /\ \A p \in Owners \ {o} : call'[p] = call[p]
    BY <1>7, <1>p, <2>1, Moved DEF LastCheck
  <2>3. \/ UNCHANGED session
        \/ \E lost \in BOOLEAN : session' = [session EXCEPT ![s].lost = lost]
    BY <1>7 DEF LastCheck
  <2>4. Frame(o) /\ CallTyped(o)
    BY <1>0, <1>q, <1>l, <2>1, <2>2, <2>3 DEF Frame, CallTyped, Pc, redis
  <2>5. Quiet(o)
    BY <1>0, <2>1, <2>2 DEF Quiet, Honest, Changed, Done, Answered, Pc, redis
  <2> QED BY <2>4, <2>5
<1>8. CASE Finish(o)
  <2> DEFINE result == call[o].result
  <2>1. /\ Pc(o) = "leave" /\ UNCHANGED <<redis, clean, todo>>
        /\ session' = [session EXCEPT ![s] = Released(s)]
        /\ held' = [held EXCEPT ![o] = Told(o, result)]
    BY <1>8 DEF Finish
  <2>2. result \in {"ok", "error", "block"}
    BY <1>0, <2>1 DEF Calls
  <2>3. PICK c : /\ call' = [call EXCEPT ![o] = c]
                 /\ c = Idle \/ c = [Request(call[o].op) EXCEPT !.pc = "sleep"]
    BY <1>8 DEF Finish
  <2>4. call'[o] = c /\ \A p \in Owners \ {o} : call'[p] = call[p]
    BY <1>0, <2>3
  <2>5. c = Idle \/ (c \in Calls(o) /\ c.pc = "sleep")
    BY <1>0, <2>1, <2>3 DEF Request, Calls, Pcs
  <2>6. c.pc \in {"idle", "sleep"}
    BY <1>i, <2>5
  <2>7. Told(o, result) \in [Bytes -> RequestTypes]
    BY <2>1, ToldTyped
  <2>8. /\ DOMAIN held' = Owners /\ held'[o] = Told(o, result)
        /\ \A p \in Owners \ {o} : held'[p] = held[p]
    BY <1>0, <2>1
  <2>9. Frame(o) /\ CallTyped(o)
    BY <1>0, <1>a, <2>1, <2>4, <2>5, <2>6, <2>7, <2>8 DEF Frame, CallTyped, Pc, redis
  <2>10. /\ \A b \in Bytes : Told(o, result)[b] # "none" =>
               \/ Told(o, result)[b] = held[o][b] /\ b \notin Changed(o)
               \/ /\ Answered(o) /\ Covers(call[o].op.lock, b)
                  /\ Told(o, result)[b] = call[o].op.lock.type
         /\ Told(o, result) # Free => held[o] # Free \/ Answered(o)
    <3> HIDE DEF result
    <3>1. call[o].result = result
      BY DEF result
    <3> QED BY <2>1, <2>2, <3>1, ToldHonest
  <2>11. ~Answered(o)' /\ Pc(o)' # "exec"
    BY <2>4, <2>6 DEF Answered, Pc
  <2>12. Quiet(o)
    BY <1>0, <2>1, <2>8, <2>10, <2>11 DEF Quiet, Honest, redis
  <2> QED BY <2>9, <2>12
<1>9. CASE Wake(o)
  <2>1. Pc(o) = "sleep" /\ UNCHANGED <<redis, session, clean, held, todo>>
    BY <1>9 DEF Wake
  <2>2. /\ DOMAIN call' = Owners /\ call'[o] \in Calls(o)
        /\ call'[o].pc = "gate" /\ call'[o].op = call[o].op
        /\ \A p \in Owners \ {o} : call'[p] = call[p]
    BY <1>9, <1>p, <2>1, Moved DEF Wake
  <2>4. Frame(o) /\ CallTyped(o)
    BY <1>0, <1>q, <2>1, <2>2 DEF Frame, CallTyped, Pc, redis
  <2>5. Quiet(o)
    BY <1>0, <2>1, <2>2 DEF Quiet, Honest, Changed, Done, Answered, Pc, redis
  <2> QED BY <2>4, <2>5
<1>10. CASE GiveUp(o)
  <2>1. /\ Pc(o) \in {"gate", "sleep"} /\ UNCHANGED <<redis, session, clean, held, todo>>
        /\ call' = [call EXCEPT ![o] = Idle]
    BY <1>10 DEF GiveUp
  <2>2. call'[o] = Idle /\ \A p \in Owners \ {o} : call'[p] = call[p]
    BY <1>0, <2>1
  <2>4. Frame(o) /\ CallTyped(o)
    BY <1>0, <1>i, <1>q, <2>1, <2>2 DEF Frame, CallTyped, Pc, redis
  <2>5. Quiet(o)
    BY <1>0, <1>i, <2>1, <2>2 DEF Quiet, Honest, Changed, Done, Answered, Pc, redis
  <2> QED BY <2>4, <2>5
<1> QED BY <1>1, <1>2, <1>3, <1>4, <1>5, <1>6, <1>7, <1>8, <1>9, <1>10 DEF Step

-----------------------------------------------------------------------------
(* What a step of a mount does to its session and its lease.               *)

Started(s) ==
    /\ session[s].phase = "none" /\ session'[s].phase = "running"
    /\ session'[s].born = generation /\ session'[s].tracked = session[s].tracked
    /\ lease' = [lease EXCEPT ![s] = LeaseTicks]
    /\ UNCHANGED <<tableTTL, clean, call, held>>

Kept1(s) == /\ session'[s].phase = session[s].phase
            /\ session'[s].born = session[s].born
            /\ session'[s].tracked = session[s].tracked

Renewed(s) ==
    /\ Kept1(s) /\ Valid(s) /\ clean' \subseteq clean /\ UNCHANGED <<call, held>>
    /\ lease' = [lease EXCEPT ![s] = LeaseTicks]
    /\ tableTTL' = IF session[s].tracked /\ tableTTL > 0 THEN KeyTicks ELSE tableTTL

Closed(s) ==
    /\ session[s].phase # "none" /\ session'[s].phase # "none"
    /\ session'[s].born = session[s].born /\ session'[s].tracked = session[s].tracked
    /\ UNCHANGED <<tableTTL, call, held>>
    /\ \/ UNCHANGED <<lease, clean>>
       \/ /\ lease' = [lease EXCEPT ![s] = 0]
          /\ clean' \subseteq {o \in clean : SessionOf[o] # s}

Crashed(s) ==
    /\ session[s].phase # "none" /\ session'[s].phase # "none"
    /\ session'[s].born = session[s].born /\ ~session'[s].tracked
    /\ UNCHANGED <<lease, tableTTL>> /\ clean' = clean \ OwnersOf(s)
    /\ \A o \in OwnersOf(s) : call'[o] = Idle /\ held'[o] = Free
    /\ \A o \in Owners \ OwnersOf(s) : call'[o] = call[o] /\ held'[o] = held[o]

Paused(s) == Kept1(s) /\ UNCHANGED <<lease, tableTTL, clean, call, held>>

MountTyped(s) ==
    /\ UNCHANGED <<generation, table>>
    /\ \A t \in Sessions \ {s} : session'[t] = session[t]
    /\ DOMAIN held' = Owners
    /\ DOMAIN todo' = Owners /\ \A o \in Owners : todo'[o] \in Seq(SUBSET Asked(o))
    /\ barrier' \in [Sessions -> {"idle", "drain", "done"}]

\* A step of a mount starts it, renews it, closes it, crashes it, or moves
\* nothing but its gate.
LEMMA MountMoves ==
    ASSUME Shape, Typed, NEW s \in Sessions,
           NewNative(s) \/ Renew(s) \/ Close(s) \/ Crash(s) \/ BarrierPause(s)
             \/ BarrierStep(s) \/ BarrierCancelled(s)
    PROVE  /\ MountTyped(s)
           /\ Started(s) \/ Renewed(s) \/ Closed(s) \/ Crashed(s) \/ Paused(s)
<1> USE OwnersAssumption
<1>0. /\ session \in [Sessions -> SessionType] /\ session[s] \in SessionType
      /\ DOMAIN held = Owners /\ DOMAIN todo = Owners
      /\ \A o \in Owners : todo[o] \in Seq(SUBSET Asked(o))
      /\ barrier \in [Sessions -> {"idle", "drain", "done"}]
  BY DEF Shape, Typed
<1>1. \A t \in Sessions \ {s} : session'[t] = session[t]
  BY MountEffect
<1>2. \A o \in Owners : <<>> \in Seq(SUBSET Asked(o))
  OBVIOUS
<1>l. ASSUME NEW lost, NEW paused,
             session' = [session EXCEPT ![s].paused = paused, ![s].lost = lost]
      PROVE  Kept1(s)
  BY <1>0, <1>l DEF Kept1, SessionType
<1>3. CASE NewNative(s)
  <2>1. MountTyped(s)
    BY <1>0, <1>1, <1>3 DEF NewNative, MountTyped
  <2> DEFINE v == [session[s] EXCEPT !.phase = "running", !.born = generation]
  <2>2. session'[s] = v
    BY <1>0, <1>3 DEF NewNative
  <2>3. v.phase = "running" /\ v.born = generation /\ v.tracked = session[s].tracked
    BY <1>0 DEF SessionType
  <2>4. Started(s)
    BY <1>3, <2>2, <2>3 DEF NewNative, Started
  <2> QED BY <2>1, <2>4
<1>4. CASE Renew(s)
  <2>1. MountTyped(s)
    BY <1>0, <1>1, <1>4 DEF Renew, MountTyped
  <2>2. CASE Valid(s)
    <3>1. UNCHANGED session /\ lease' = [lease EXCEPT ![s] = LeaseTicks]
          /\ UNCHANGED <<call, held>> /\ clean' \subseteq clean
          /\ tableTTL' = IF session[s].tracked /\ tableTTL > 0 THEN KeyTicks ELSE tableTTL
      BY <1>4, <2>2 DEF Renew, RenewsTable, TouchedTable, TouchedLease
    <3>2. Renewed(s)
      BY <2>2, <3>1 DEF Renewed, Kept1
    <3> QED BY <2>1, <3>2
  <2>3. CASE ~Valid(s)
    <3>1. session' = [session EXCEPT ![s].lost = LostBy(s)]
          /\ UNCHANGED <<call, held, lease, tableTTL, clean>>
      BY <1>4, <2>3 DEF Renew
    <3>2. Kept1(s)
      BY <1>0, <3>1 DEF Kept1, SessionType
    <3>3. Paused(s)
      BY <3>1, <3>2 DEF Paused
    <3> QED BY <2>1, <3>3
  <2> QED BY <2>2, <2>3
<1>5. CASE Close(s)
  <2>1. MountTyped(s)
    <3>1. /\ UNCHANGED <<generation, table, held, barrier>> /\ todo' = Abandoned(s)
      BY <1>5 DEF Close
    <3> QED BY <1>0, <1>1, <1>2, <3>1 DEF MountTyped, Abandoned
  <2> DEFINE v == [session[s] EXCEPT !.phase = "closed", !.lost = TRUE]
  <2>2. session'[s] = v /\ session[s].phase = "running"
    BY <1>0, <1>5 DEF Close
  <2>3. v.phase = "closed" /\ v.born = session[s].born /\ v.tracked = session[s].tracked
    BY <1>0 DEF SessionType
  <2>4. /\ UNCHANGED <<tableTTL, call, held>>
        /\ \/ UNCHANGED <<lease, clean>>
           \/ /\ lease' = [lease EXCEPT ![s] = 0]
              /\ clean' \subseteq {o \in clean : SessionOf[o] # s}
    BY <1>5 DEF Close, TouchedLease
  <2> HIDE DEF v
  <2>5. Closed(s)
    BY <2>2, <2>3, <2>4 DEF Closed
  <2> QED BY <2>1, <2>5
<1>6. CASE Crash(s)
  <2>0. /\ UNCHANGED redis /\ todo' = Abandoned(s) /\ barrier' = [barrier EXCEPT ![s] = "idle"]
        /\ held' = [o \in Owners |-> IF o \in OwnersOf(s) THEN Free ELSE held[o]]
        /\ call' = [o \in Owners |-> IF o \in OwnersOf(s) THEN Idle ELSE call[o]]
        /\ clean' = clean \ OwnersOf(s) /\ session[s].phase = "running"
        /\ session' = [session EXCEPT ![s] = [NewSession EXCEPT !.phase = "crashed",
                                                                !.born = session[s].born]]
    BY <1>6 DEF Crash
  <2>1. MountTyped(s)
    BY <1>0, <1>1, <1>2, <2>0 DEF MountTyped, Abandoned, redis
  <2> DEFINE v == [NewSession EXCEPT !.phase = "crashed", !.born = session[s].born]
  <2>2. session'[s] = v
    BY <1>0, <2>0
  <2>3. v.phase = "crashed" /\ v.born = session[s].born /\ ~v.tracked
    BY DEF NewSession
  <2> HIDE DEF v
  <2>4. \A o \in OwnersOf(s) : o \in Owners
    BY DEF OwnersOf
  <2>5. Crashed(s)
    BY <2>0, <2>2, <2>3, <2>4 DEF Crashed, redis
  <2> QED BY <2>1, <2>5
<1>7. CASE BarrierPause(s)
  <2>1. /\ UNCHANGED <<redis, call, clean, held, todo>>
        /\ session' = [session EXCEPT ![s].paused = TRUE]
        /\ barrier' = [barrier EXCEPT ![s] = "drain"]
    BY <1>7 DEF BarrierPause
  <2>2. MountTyped(s)
    BY <1>0, <1>1, <2>1 DEF MountTyped, redis
  <2>3. Kept1(s)
    BY <1>0, <2>1 DEF Kept1, SessionType
  <2> QED BY <2>1, <2>2, <2>3 DEF Paused, redis
<1>8. CASE BarrierWait(s)
  BY <1>0, <1>1, <1>8 DEF BarrierWait, MountTyped, Paused, Kept1, redis
<1>9. CASE BarrierDrained(s) \/ BarrierCancelled(s)
  <2>1. PICK lost : Resume(s, lost)
    BY <1>9 DEF BarrierDrained, BarrierCancelled
  <2>2. Kept1(s)
    BY <1>l, <2>1 DEF Resume
  <2>3. MountTyped(s)
    BY <1>0, <1>1, <2>1 DEF Resume, MountTyped, redis
  <2> QED BY <2>1, <2>2, <2>3 DEF Paused, Resume, redis
<1> QED BY <1>3, <1>4, <1>5, <1>6, <1>7, <1>8, <1>9 DEF BarrierStep

-----------------------------------------------------------------------------
(* The hash a transaction writes.                                          *)

\* No records: no modes.
LEMMA NoRecords == Tidy(<<>>) /\ ByteModes(<<>>) = Free
<1>1. ToSet(<<>>) = {}
  BY DEF ToSet
<1>2. \A b \in Bytes : ModeOf({}, b) = "none"
  BY DEF ModeOf
<1> QED BY <1>1, <1>2 DEF ByteModes, Free, Tidy

\* A commit gives every owner tidy records again.  Others keep theirs, or lose
\* them if they were stale; the owner's bytes change as it asked.
LEMMA NextTableExact ==
    ASSUME Typed, NEW o \in Owners, Pc(o) = "exec"
    PROVE  /\ DOMAIN NextTable(o) = Owners
           /\ \A p \in Owners : Tidy(NextTable(o)[p])
           /\ \A p \in Owners \ {o} : \/ NextTable(o)[p] = table[p]
                                      \/ p \in call[o].stale /\ NextTable(o)[p] = <<>>
           /\ call[o].op.kind \in {"set", "unlockAll"}
           /\ call[o].op.kind = "unlockAll" => NextTable(o)[o] = <<>>
           /\ call[o].op.kind = "set" =>
                /\ call[o].op.lock \in Requests /\ Proper(call[o].op.lock)
                /\ ByteModes(NextTable(o)[o])
                     = Updated(ByteModes(table[o]), call[o].op.lock)
<1> DEFINE op == call[o].op
<1>1. call[o] \in Calls(o) /\ op.kind # "write" /\ \A p \in Owners : Tidy(table[p])
  BY DEF Typed, Idle, Pc
<1>2. op \in Asked(o)
  BY <1>1 DEF Calls
<1>3. op.kind \in {"set", "unlockAll"} /\ (op.kind = "set" => op.lock \in Requests /\ Proper(op.lock))
  BY <1>1, <1>2, AskedOperations
<1>4. \A p \in Owners \ {o} : \/ NextTable(o)[p] = table[p]
                              \/ p \in call[o].stale /\ NextTable(o)[p] = <<>>
  BY DEF NextTable
<1>5. CASE op.kind = "unlockAll"
  <2>1. NextTable(o)[o] = <<>>
    BY <1>5 DEF NextTable
  <2> QED BY <1>1, <1>3, <1>4, <1>5, <2>1, NoRecords DEF NextTable
<1>6. CASE op.kind = "set"
  <2>1. NextTable(o)[o] = ApplyFileLock(table[o], op.lock)
    BY <1>6 DEF NextTable
  <2>2. /\ Tidy(ApplyFileLock(table[o], op.lock))
        /\ ByteModes(ApplyFileLock(table[o], op.lock)) = Updated(ByteModes(table[o]), op.lock)
    BY <1>1, <1>3, <1>6, RequestsAreRecorded
  <2>3. \A p \in Owners : Tidy(NextTable(o)[p])
    BY <1>1, <1>4, <2>1, <2>2, NoRecords
  <2>4. DOMAIN NextTable(o) = Owners
    BY DEF NextTable
  <2> QED BY <1>3, <1>4, <1>6, <2>1, <2>2, <2>3, <2>4
<1> QED BY <1>3, <1>5, <1>6

\* The types are kept.
LEMMA TypedStep ==
    ASSUME IInv, Typed, Unopened, [Next]_vars
    PROVE  Typed'
<1> USE OwnersAssumption, ProgramAssumption
<1> Shape
  BY DEF IInv
<1>s. Shape'
  BY RequestEffect, MountEffect, OutsideEffect DEF Next
<1>0. /\ generation \in 1..MaxGeneration /\ lease \in [Sessions -> 0..LeaseTicks]
      /\ DOMAIN table = Owners /\ \A o \in Owners : Tidy(table[o])
      /\ tableTTL \in 0..KeyTicks /\ KeyTicks \in Nat
      /\ \A s \in Sessions : session[s].born \in 0..MaxGeneration
      /\ asleep \subseteq Owners \cup Sessions
      /\ DOMAIN todo = Owners /\ \A o \in Owners : todo[o] \in Seq(SUBSET Asked(o))
      /\ \A o \in Owners :
            /\ call[o] = Idle \/ call[o] \in Calls(o)
            /\ Pc(o) \in {"watch", "exec"} => call[o].op.kind # "write"
            /\ Pc(o) = "write" => call[o].op.kind = "write"
      /\ clean \subseteq {o \in Owners : Pc(o) = "exec"}
      /\ barrier \in [Sessions -> {"idle", "drain", "done"}]
      /\ held \in [Owners -> [Bytes -> RequestTypes]]
      /\ DOMAIN call = Owners /\ DOMAIN held = Owners
  <2>1. KeyTicks \in Nat
    BY DEF KeyTicks
  <2>2. DOMAIN call = Owners /\ DOMAIN held = Owners
    BY DEF Typed, Shape
  <2> QED BY <2>1, <2>2 DEF Typed
<1>a. asleep' \subseteq Owners \cup Sessions
  BY <1>0 DEF Next, Tick, Replace, NewNative, Renew, Close, Crash, BarrierPause, BarrierStep,
       BarrierWait, BarrierDrained, BarrierCancelled, Resume, NotifyLocked, Ask, Step, GiveUp,
       Begin, Watch, Fail, Retry, Exec, Write, LastCheck, Finish, Wake, vars
<1>i. Idle.pc = "idle"
  BY DEF Idle
<1>1. ASSUME NEW o \in Owners, Ask(o) \/ Step(o) \/ GiveUp(o)
      PROVE  Typed'
  <2>1. Frame(o) /\ CallTyped(o) /\ (Quiet(o) \/ Opens(o) \/ Commit(o))
    BY <1>1, OwnerEffect
  <2>2. barrier' = barrier
    BY <1>1 DEF Ask, Step, GiveUp, Begin, Watch, Fail, Retry, Exec, Write, LastCheck,
                Finish, Wake, redis
  <2>3. DOMAIN table' = Owners /\ \A p \in Owners : Tidy(table'[p])
    <3>1. CASE Quiet(o) \/ Opens(o)
      BY <1>0, <3>1 DEF Quiet, Opens
    <3>2. CASE Commit(o)
      BY <3>2, NextTableExact DEF Commit, StoreTable
    <3> QED BY <2>1, <3>1, <3>2
  <2>4. tableTTL' \in 0..KeyTicks
    BY <1>0, <2>1 DEF Quiet, Opens, Commit, StoreTable
  <2>5. clean' \subseteq {p \in Owners : Pc(p)' = "exec"}
    <3>1. \A p \in Owners \ {o} : Pc(p)' = Pc(p)
      BY <2>1 DEF Frame, Pc
    <3>2. CASE Quiet(o) \/ Commit(o)
      BY <1>0, <3>1, <3>2 DEF Quiet, Commit
    <3>3. CASE Opens(o)
      <4>1. call[o] \in Calls(o)
        BY <1>0, <1>i, <3>3 DEF Opens, Pc
      <4>2. Pc(o)' = "exec"
        BY <3>3, <4>1 DEF Opens, Pc, Calls
      <4> QED BY <1>0, <3>1, <3>3, <4>2 DEF Opens
    <3> QED BY <2>1, <3>2, <3>3
  <2>6. \A p \in Owners :
            /\ call'[p] = Idle \/ call'[p] \in Calls(p)
            /\ Pc(p)' \in {"watch", "exec"} => call'[p].op.kind # "write"
            /\ Pc(p)' = "write" => call'[p].op.kind = "write"
    <3> SUFFICES ASSUME NEW p \in Owners
                 PROVE  /\ call'[p] = Idle \/ call'[p] \in Calls(p)
                        /\ Pc(p)' \in {"watch", "exec"} => call'[p].op.kind # "write"
                        /\ Pc(p)' = "write" => call'[p].op.kind = "write"
      OBVIOUS
    <3>1. CASE p = o
      BY <2>1, <3>1 DEF CallTyped
    <3>2. CASE p # o
      <4>1. call'[p] = call[p] /\ Pc(p)' = Pc(p)
        BY <2>1, <3>2 DEF Frame, Pc
      <4> QED BY <1>0, <4>1
    <3> QED BY <3>1, <3>2
  <2>7. held' \in [Owners -> [Bytes -> RequestTypes]]
    <3>1. DOMAIN held' = Owners /\ \A p \in Owners : held'[p] \in [Bytes -> RequestTypes]
      BY <1>0, <2>1 DEF Frame, CallTyped
    <3>2. \E f : held' = [p \in Owners |-> f[p]]
      <4>1. CASE Quiet(o) \/ Opens(o) \/ Commit(o)
        <5>1. held' = [held EXCEPT ![o] = held'[o]] \/ held' = held
          BY <1>0, <1>1 DEF Ask, Step, GiveUp, Begin, Watch, Fail, Retry, Exec, Write, LastCheck,
                            Finish, Wake
        <5> QED BY <1>0, <5>1
      <4> QED BY <2>1, <4>1
    <3> QED BY <3>1, <3>2
  <2>8. /\ generation' \in 1..MaxGeneration /\ lease' \in [Sessions -> 0..LeaseTicks]
        /\ \A s \in Sessions : session'[s].born \in 0..MaxGeneration
        /\ DOMAIN todo' = Owners /\ \A p \in Owners : todo'[p] \in Seq(SUBSET Asked(p))
    BY <1>0, <2>1 DEF Frame, CallTyped
  <2> QED BY <1>0, <1>a, <2>2, <2>3, <2>4, <2>5, <2>6, <2>7, <2>8 DEF Typed
<1>2. ASSUME NEW s \in Sessions,
             NewNative(s) \/ Renew(s) \/ Close(s) \/ Crash(s) \/ BarrierPause(s)
               \/ BarrierStep(s) \/ BarrierCancelled(s)
      PROVE  Typed'
  <2>1. MountTyped(s) /\ (Started(s) \/ Renewed(s) \/ Closed(s) \/ Crashed(s) \/ Paused(s))
    BY <1>2, MountMoves
  <2>2. \A t \in Sessions : session'[t].born \in 0..MaxGeneration
    <3>1. session'[s].born = session[s].born \/ session'[s].born = generation
      BY <2>1 DEF Started, Renewed, Kept1, Closed, Crashed, Paused
    <3>2. session'[s].born \in 0..MaxGeneration
      <4>1. session[s].born \in 0..MaxGeneration /\ generation \in 0..MaxGeneration
        BY <1>0
      <4> QED BY <3>1, <4>1
    <3> QED BY <1>0, <2>1, <3>2 DEF MountTyped
  <2>3. lease' \in [Sessions -> 0..LeaseTicks] /\ tableTTL' \in 0..KeyTicks
    <3>1. 0 \in 0..LeaseTicks /\ LeaseTicks \in 0..LeaseTicks /\ KeyTicks \in 0..KeyTicks
      BY ProgramAssumption DEF KeyTicks
    <3>2. \/ UNCHANGED lease
          \/ \E n \in 0..LeaseTicks : lease' = [lease EXCEPT ![s] = n]
      BY <2>1, <3>1 DEF Started, Renewed, Closed, Crashed, Paused
    <3>3. lease' \in [Sessions -> 0..LeaseTicks]
      BY <1>0, <3>2
    <3>4. tableTTL' = tableTTL \/ tableTTL' = KeyTicks
      BY <2>1 DEF Started, Renewed, Closed, Crashed, Paused
    <3> QED BY <1>0, <3>1, <3>3, <3>4
  <2>4. \A p \in Owners : /\ call'[p] = call[p] \/ (call'[p] = Idle /\ p \in OwnersOf(s) /\ Crashed(s))
                          /\ held'[p] = held[p] \/ held'[p] = Free
    BY <2>1 DEF Started, Renewed, Closed, Crashed, Paused
  <2>5. \A p \in Owners :
            /\ call'[p] = Idle \/ call'[p] \in Calls(p)
            /\ Pc(p)' \in {"watch", "exec"} => call'[p].op.kind # "write"
            /\ Pc(p)' = "write" => call'[p].op.kind = "write"
    BY <1>0, <1>i, <2>4 DEF Pc
  <2>6. clean' \subseteq {p \in Owners : Pc(p)' = "exec"}
    <3>1. clean' \subseteq clean /\ (Crashed(s) => clean' = clean \ OwnersOf(s))
      BY <2>1 DEF Started, Renewed, Closed, Crashed, Paused
    <3> QED BY <1>0, <2>4, <3>1 DEF Pc
  <2>7. held' \in [Owners -> [Bytes -> RequestTypes]]
    <3>1. held' = held \/ held' = [p \in Owners |-> IF p \in OwnersOf(s) THEN Free ELSE held[p]]
      BY <1>2 DEF NewNative, Renew, Close, Crash, BarrierPause, BarrierStep, BarrierWait,
                  BarrierDrained, BarrierCancelled, Resume
    <3>2. Free \in [Bytes -> RequestTypes]
      BY DEF Free, RequestTypes
    <3>3. \A p \in Owners : held[p] \in [Bytes -> RequestTypes]
      BY <1>0
    <3>4. CASE held' = held
      BY <1>0, <3>4
    <3>5. CASE held' = [p \in Owners |-> IF p \in OwnersOf(s) THEN Free ELSE held[p]]
      BY <3>2, <3>3, <3>5
    <3> QED BY <3>1, <3>4, <3>5
  <2> QED BY <1>0, <1>a, <2>1, <2>2, <2>3, <2>5, <2>6, <2>7 DEF Typed, MountTyped
<1>3. CASE Tick
  <2>1. UNCHANGED <<generation, session, todo, call, barrier, held>>
    BY <1>3 DEF Tick
  <2>2. lease' \in [Sessions -> 0..LeaseTicks] /\ tableTTL' \in 0..KeyTicks
    BY <1>0, <1>3 DEF Tick
  <2>3. DOMAIN table' = Owners /\ \A p \in Owners : Tidy(table'[p])
    BY <1>0, <1>3, NoRecords DEF Tick, Empty
  <2>4. clean' \subseteq clean
    BY <1>3 DEF Tick, TouchedTable, TouchedLease
  <2> QED BY <1>0, <1>a, <2>1, <2>2, <2>3, <2>4 DEF Typed, Pc
<1>4. CASE Replace
  <2>1. /\ UNCHANGED <<lease, session, todo, call, barrier, held>>
        /\ table' = Empty /\ tableTTL' = 0 /\ clean' = {} /\ generation' = generation + 1
        /\ generation < MaxGeneration
    BY <1>4 DEF Replace, StoreTable
  <2>2. DOMAIN table' = Owners /\ \A p \in Owners : Tidy(table'[p])
    BY <2>1, NoRecords DEF Empty
  <2>3. tableTTL' \in 0..KeyTicks /\ generation' \in 1..MaxGeneration
    BY <1>0, <2>1
  <2> QED BY <1>0, <1>a, <2>1, <2>2, <2>3 DEF Typed, Pc
<1>5. CASE UNCHANGED vars
  BY <1>0, <1>5 DEF vars, Typed, Pc
<1> QED BY <1>1, <1>2, <1>3, <1>4, <1>5 DEF Next


\* A step of an owner is a step of a mount that has opened.
LEMMA OwnersOpened ==
    ASSUME Shape, Unopened, NEW o \in Owners, Ask(o) \/ Step(o) \/ GiveUp(o)
    PROVE  S(o).phase # "none"
<1>1. SUFFICES ASSUME S(o).phase = "none" PROVE FALSE
  OBVIOUS
<1>2. Pc(o) = "idle"
  BY <1>1 DEF Unopened, Idle, Pc
<1> QED BY <1>1, <1>2 DEF Ask, Step, GiveUp, Begin, Watch, Retry, Exec, Write, LastCheck, Finish, Wake

\* The lives of sessions: one that has opened never comes back to life.
LEMMA Lives ==
    ASSUME IInv, Typed, Unopened, [Next]_vars, NEW s \in Sessions
    PROVE  /\ session[s].phase # "none" =>
                /\ session'[s].phase # "none" /\ session'[s].born = session[s].born
                /\ Valid(s)' => Valid(s)
                /\ lease[s] = 0 => lease'[s] = 0
           /\ session[s].phase = "none" =>
                \/ Started(s)
                \/ session'[s].phase = "none" /\ lease'[s] = 0 /\ ~session'[s].tracked
           /\ session'[s].born <= generation'
<1> USE OwnersAssumption DEF Valid, GenerationIs
<1>0. /\ Shape /\ session \in [Sessions -> SessionType]
      /\ lease \in [Sessions -> 0..LeaseTicks] /\ LeaseTicks \in Nat
      /\ session[s].born <= generation /\ session[s].born \in Int /\ generation \in Int
      /\ session[s].phase = "none" => lease[s] = 0 /\ ~session[s].tracked
  <2>1. session[s] \in SessionType
    BY DEF IInv, Shape
  <2>2. session[s].born \in Int
    BY <2>1 DEF SessionType
  <2>3. generation \in Int /\ LeaseTicks \in Nat
    BY ProgramAssumption DEF IInv, Shape
  <2>4. lease \in [Sessions -> 0..LeaseTicks]
    BY DEF Typed
  <2>5. /\ session[s].born <= generation
        /\ session[s].phase = "none" => lease[s] = 0 /\ ~session[s].tracked
    BY DEF Unopened
  <2> QED BY <2>2, <2>3, <2>4, <2>5 DEF IInv, Shape
<1>1. ASSUME NEW o \in Owners, Ask(o) \/ Step(o) \/ GiveUp(o)
      PROVE  /\ session'[s].phase = session[s].phase /\ session'[s].born = session[s].born
             /\ lease' = lease /\ generation' = generation
             /\ session[s].phase = "none" => ~session'[s].tracked
  <2>1. Frame(o)
    BY <1>0, <1>1, OwnerEffect
  <2>2. s = SessionOf[o] => session[s].phase # "none"
    BY <1>0, <1>1, OwnersOpened DEF S
  <2> QED BY <1>0, <2>1, <2>2 DEF Frame
<1>2. ASSUME NEW t \in Sessions, t # s,
             NewNative(t) \/ Renew(t) \/ Close(t) \/ Crash(t) \/ BarrierPause(t)
               \/ BarrierStep(t) \/ BarrierCancelled(t)
      PROVE  session'[s] = session[s] /\ lease'[s] = lease[s] /\ generation' = generation
  <2>1. MountTyped(t) /\ (Started(t) \/ Renewed(t) \/ Closed(t) \/ Crashed(t) \/ Paused(t))
    BY <1>0, <1>2, MountMoves
  <2> QED BY <1>0, <1>2, <2>1 DEF MountTyped, Started, Renewed, Closed, Crashed, Paused
<1>3. ASSUME NewNative(s) \/ Renew(s) \/ Close(s) \/ Crash(s) \/ BarrierPause(s)
               \/ BarrierStep(s) \/ BarrierCancelled(s)
      PROVE  /\ generation' = generation
             /\ Started(s) \/ Renewed(s) \/ Closed(s) \/ Crashed(s) \/ Paused(s)
  BY <1>0, <1>3, MountMoves DEF MountTyped
<1>4. ASSUME Tick \/ Replace \/ UNCHANGED vars
      PROVE  /\ session' = session
             /\ lease'[s] = 0 \/ (lease[s] > 0 /\ lease'[s] = lease[s] - 1)
                  \/ lease'[s] = lease[s]
             /\ generation' = generation \/ generation' = generation + 1
  <2>1. CASE Tick
    BY <1>0, <2>1 DEF Tick
  <2>2. CASE Replace
    BY <2>2 DEF Replace
  <2>3. CASE UNCHANGED vars
    BY <2>3 DEF vars
  <2> QED BY <1>4, <2>1, <2>2, <2>3
<1>5. CASE \E o \in Owners : Ask(o) \/ Step(o) \/ GiveUp(o)
  BY <1>0, <1>1, <1>5
<1>6. CASE \E t \in Sessions \ {s} :
             NewNative(t) \/ Renew(t) \/ Close(t) \/ Crash(t) \/ BarrierPause(t)
               \/ BarrierStep(t) \/ BarrierCancelled(t)
  BY <1>0, <1>2, <1>6
<1>7. CASE NewNative(s) \/ Renew(s) \/ Close(s) \/ Crash(s) \/ BarrierPause(s)
               \/ BarrierStep(s) \/ BarrierCancelled(s)
  <2>1. lease[s] \in Int
    BY <1>0
  <2>2. CASE Started(s)
    BY <1>0, <1>3, <1>7, <2>2 DEF Started
  <2>3. CASE Renewed(s)
    BY <1>0, <1>3, <1>7, <2>1, <2>3 DEF Renewed, Kept1
  <2>4. CASE Closed(s)
    BY <1>0, <1>3, <1>7, <2>1, <2>4 DEF Closed
  <2>5. CASE Crashed(s)
    BY <1>0, <1>3, <1>7, <2>1, <2>5 DEF Crashed
  <2>6. CASE Paused(s)
    BY <1>0, <1>3, <1>7, <2>1, <2>6 DEF Paused, Kept1
  <2> QED BY <1>3, <1>7, <2>2, <2>3, <2>4, <2>5, <2>6
<1>8. CASE Tick \/ Replace \/ UNCHANGED vars
  <2>1. lease[s] \in Nat
    BY <1>0
  <2> QED BY <1>0, <1>4, <1>8, <2>1
<1> QED BY <1>5, <1>6, <1>7, <1>8 DEF Next

\* A mount that has not opened owns nothing, until it opens.
LEMMA UnopenedStep ==
    ASSUME IInv, Typed, Unopened, [Next]_vars
    PROVE  Unopened'
<1> USE OwnersAssumption DEF S
<1> Shape
  BY DEF IInv
<1>1. \A s \in Sessions : session'[s].phase = "none" => session[s].phase = "none"
  BY Lives
<1>2. \A s \in Sessions : /\ session'[s].born <= generation'
                          /\ session'[s].phase = "none" => lease'[s] = 0 /\ ~session'[s].tracked
  <2>1. \A s \in Sessions : Started(s) => session'[s].phase # "none"
    BY DEF Started
  <2> QED BY <1>1, <2>1, Lives
<1>3. ASSUME NEW p \in Owners, session'[SessionOf[p]].phase = "none"
      PROVE  table'[p] = <<>> /\ call'[p] = Idle /\ held'[p] = Free
  <2>1. /\ session[SessionOf[p]].phase = "none"
        /\ table[p] = <<>> /\ call[p] = Idle /\ held[p] = Free
    BY <1>1, <1>3 DEF Unopened
  <2>2. ASSUME NEW o \in Owners, Ask(o) \/ Step(o) \/ GiveUp(o)
        PROVE  table'[p] = <<>> /\ call'[p] = Idle /\ held'[p] = Free
    <3>1. Frame(o) /\ (Quiet(o) \/ Opens(o) \/ Commit(o))
      BY <2>2, OwnerEffect
    <3>2. p # o
      BY <2>1, <2>2, OwnersOpened
    <3>3. Commit(o) => table'[p] = <<>>
      BY <2>1, <3>2, NextTableExact DEF Commit, StoreTable
    <3> QED BY <2>1, <3>1, <3>2, <3>3 DEF Frame, Quiet, Opens
  <2>3. ASSUME NEW t \in Sessions,
               NewNative(t) \/ Renew(t) \/ Close(t) \/ Crash(t) \/ BarrierPause(t)
                 \/ BarrierStep(t) \/ BarrierCancelled(t)
        PROVE  table'[p] = <<>> /\ call'[p] = Idle /\ held'[p] = Free
    <3>1. MountTyped(t) /\ (Started(t) \/ Renewed(t) \/ Closed(t) \/ Crashed(t) \/ Paused(t))
      BY <2>3, MountMoves
    <3> QED BY <2>1, <3>1 DEF MountTyped, Started, Renewed, Closed, Crashed, Paused
  <2>4. CASE Tick \/ Replace \/ UNCHANGED vars
    BY <2>1, <2>4 DEF Tick, Replace, StoreTable, Empty, vars
  <2> QED BY <2>2, <2>3, <2>4 DEF Next
<1> QED BY <1>2, <1>3 DEF Unopened

\* A step of an owner that has its session renew the lock hash from then on
\* sets the life of the hash itself.
LEMMA TrackedFromNow ==
    ASSUME Shape, NEW o \in Owners, Ask(o) \/ Step(o) \/ GiveUp(o)
    PROVE  \/ session'[SessionOf[o]].tracked = S(o).tracked
           \/ table' = Empty \/ tableTTL' = KeyTicks
<1> USE OwnersAssumption DEF S
<1> DEFINE s == SessionOf[o]
<1>0. s \in Sessions /\ session \in [Sessions -> SessionType] /\ session[s] \in SessionType
  BY DEF Shape
<1>1. CASE UNCHANGED session
  BY <1>1
<1>2. CASE \E lost : session' = [session EXCEPT ![s].lost = lost]
  BY <1>0, <1>2 DEF SessionType
<1>3. CASE session' = [session EXCEPT ![s].active = @ + 1] \/ session' = [session EXCEPT ![s] = Released(s)]
  BY <1>0, <1>3 DEF SessionType, Released
<1>4. CASE /\ StoreTable(NextTable(o), WatchesFile(o))
           /\ session' = [session EXCEPT ![s].tracked = (@ \/ WatchesFile(o))]
  <2>1. CASE WatchesFile(o)
    BY <1>4, <2>1 DEF StoreTable
  <2>2. CASE ~WatchesFile(o)
    <3> DEFINE v == [session[s] EXCEPT !.tracked = (@ \/ WatchesFile(o))]
    <3>1. session' = [session EXCEPT ![s] = v]
      BY <1>4
    <3>2. session[s].tracked \in BOOLEAN
      BY <1>0 DEF SessionType
    <3>3. v.tracked = session[s].tracked
      BY <1>0, <2>2, <3>2 DEF SessionType
    <3> HIDE DEF v
    <3> QED BY <1>0, <3>1, <3>3
  <2> QED BY <2>1, <2>2
<1> QED
  BY <1>1, <1>2, <1>3, <1>4 DEF Ask, Step, GiveUp, Begin, Watch, Fail, Retry, Exec, Write,
                                LastCheck, Finish, Wake

\* The lock hash outlives every lease it is renewed with: a Setlk that is
\* answered sets it to two terms, each renewal does, and a tick ages both.
LEMMA ExpiryStep ==
    ASSUME IInv, Typed, Unopened, Expiry, [Next]_vars
    PROVE  Expiry'
<1> USE OwnersAssumption, ProgramAssumption
<1> Shape
  BY DEF IInv
<1>0. /\ lease \in [Sessions -> 0..LeaseTicks] /\ LeaseTicks \in Nat /\ LeaseTicks > 0
      /\ KeyTicks \in Nat /\ KeyTicks >= LeaseTicks /\ KeyTicks > 0
      /\ tableTTL \in 0..KeyTicks
      /\ DOMAIN table = Owners
      /\ \A s \in Sessions : session[s].phase = "none" => ~session[s].tracked
  <2>1. KeyTicks \in Nat /\ KeyTicks >= LeaseTicks /\ KeyTicks > 0
    BY DEF KeyTicks
  <2>2. \A s \in Sessions : session[s].phase = "none" => ~session[s].tracked
    BY DEF Unopened
  <2> QED BY <2>1, <2>2 DEF Typed
<1>1. SUFFICES ASSUME table' # Empty
               PROVE  /\ tableTTL' > 0
                      /\ \A s \in Sessions : session'[s].tracked => lease'[s] <= tableTTL'
  BY DEF Expiry, Empty
<1>2. table # Empty => /\ tableTTL > 0
                       /\ \A s \in Sessions : session[s].tracked => lease[s] <= tableTTL
  BY DEF Expiry
<1>3. \A s \in Sessions : lease'[s] <= LeaseTicks
  <2>1. Typed'
    BY TypedStep
  <2>2. lease' \in [Sessions -> 0..LeaseTicks]
    BY <2>1 DEF Typed
  <2> QED BY <1>0, <2>2
<1>4. CASE tableTTL' = KeyTicks
  <2> SUFFICES ASSUME NEW s \in Sessions PROVE lease'[s] <= tableTTL'
    BY <1>0, <1>4
  <2>1. lease'[s] <= LeaseTicks /\ lease'[s] \in Nat
    <3>1. Typed'
      BY TypedStep
    <3>2. lease' \in [Sessions -> 0..LeaseTicks]
      BY <3>1 DEF Typed
    <3> QED BY <1>0, <3>2
  <2> QED BY <1>0, <1>4, <2>1
<1>5. ASSUME NEW o \in Owners, Ask(o) \/ Step(o) \/ GiveUp(o), tableTTL' # KeyTicks
      PROVE  /\ tableTTL' > 0
             /\ \A s \in Sessions : session'[s].tracked => lease'[s] <= tableTTL'
  <2>1. Frame(o) /\ (Quiet(o) \/ Opens(o) \/ Commit(o))
    BY <1>5, OwnerEffect
  <2>2. session'[SessionOf[o]].tracked = S(o).tracked
    BY <1>1, <1>5, TrackedFromNow
  <2>3. \A s \in Sessions : session'[s].tracked = session[s].tracked /\ lease'[s] = lease[s]
    BY <2>1, <2>2 DEF Frame, S
  <2>4. table # Empty /\ tableTTL' = tableTTL
    <3>1. CASE Quiet(o) \/ Opens(o)
      BY <1>1, <3>1 DEF Quiet, Opens
    <3>2. CASE Commit(o)
      <4>1. table' = NextTable(o) /\ tableTTL' = tableTTL /\ ~WatchesFile(o)
        BY <1>1, <1>5, <3>2 DEF Commit, StoreTable
      <4>2. /\ NextTable(o)[o] = <<>> /\ DOMAIN NextTable(o) = Owners
            /\ \A p \in Owners \ {o} : NextTable(o)[p] = table[p] \/ NextTable(o)[p] = <<>>
        BY <3>2, <4>1, NextTableExact DEF Commit, WatchesFile
      <4>3. table = Empty => \A p \in Owners : NextTable(o)[p] = <<>>
        BY <4>2 DEF Empty
      <4>4. NextTable(o) = [p \in Owners |-> NextTable(o)[p]]
        BY DEF NextTable
      <4>5. (\A p \in Owners : NextTable(o)[p] = <<>>) => NextTable(o) = Empty
        BY <4>4 DEF Empty
      <4> QED BY <1>1, <4>1, <4>3, <4>5
    <3> QED BY <2>1, <3>1, <3>2
  <2> QED BY <1>2, <2>3, <2>4
<1>6. ASSUME NEW t \in Sessions, tableTTL' # KeyTicks,
             NewNative(t) \/ Renew(t) \/ Close(t) \/ Crash(t) \/ BarrierPause(t)
               \/ BarrierStep(t) \/ BarrierCancelled(t)
      PROVE  /\ tableTTL' > 0
             /\ \A s \in Sessions : session'[s].tracked => lease'[s] <= tableTTL'
  <2>1. MountTyped(t) /\ (Started(t) \/ Renewed(t) \/ Closed(t) \/ Crashed(t) \/ Paused(t))
    BY <1>6, MountMoves
  <2>2. table # Empty /\ tableTTL > 0
    BY <1>1, <1>2, <2>1 DEF MountTyped
  <2>3. tableTTL' = tableTTL /\ (Renewed(t) => ~session[t].tracked)
    BY <1>6, <2>1, <2>2 DEF Started, Renewed, Closed, Crashed, Paused
  <2>4. \A s \in Sessions \ {t} : session'[s] = session[s] /\ lease'[s] = lease[s]
    BY <1>0, <2>1 DEF MountTyped, Started, Renewed, Closed, Crashed, Paused
  <2>5. session'[t].tracked => lease'[t] <= tableTTL
    <3>1. CASE Started(t)
      BY <1>0, <3>1 DEF Started
    <3>2. CASE Renewed(t)
      BY <2>3, <3>2 DEF Renewed, Kept1
    <3>3. CASE Closed(t)
      <4>1. lease'[t] = lease[t] \/ lease'[t] = 0
        BY <1>0, <3>3 DEF Closed
      <4>2. session'[t].tracked = session[t].tracked
        BY <3>3 DEF Closed
      <4>3. 0 <= tableTTL
        BY <1>0
      <4> QED BY <1>2, <2>2, <4>1, <4>2, <4>3
    <3>4. CASE Crashed(t)
      BY <3>4 DEF Crashed
    <3>5. CASE Paused(t)
      BY <1>2, <2>2, <3>5 DEF Paused, Kept1
    <3> QED BY <2>1, <3>1, <3>2, <3>3, <3>4, <3>5
  <2>6. \A s \in Sessions \ {t} : session'[s].tracked => lease'[s] <= tableTTL
    BY <1>2, <2>2, <2>4
  <2> QED BY <2>2, <2>3, <2>5, <2>6
<1>7. CASE Tick
  <2>1. /\ tableTTL # 1 /\ table' = table /\ session' = session
        /\ tableTTL' = IF tableTTL > 0 THEN tableTTL - 1 ELSE 0
        /\ lease' = [s \in Sessions |-> IF lease[s] > 0 THEN lease[s] - 1 ELSE 0]
    BY <1>1, <1>7 DEF Tick
  <2>2. table # Empty /\ tableTTL > 1 /\ tableTTL' = tableTTL - 1
    BY <1>0, <1>1, <1>2, <2>1
  <2> SUFFICES ASSUME NEW s \in Sessions, session'[s].tracked
               PROVE  lease'[s] <= tableTTL'
    BY <1>0, <2>2
  <2>3. lease[s] <= tableTTL /\ lease[s] \in Nat
    BY <1>0, <1>2, <2>1, <2>2
  <2>4. lease'[s] = IF lease[s] > 0 THEN lease[s] - 1 ELSE 0
    BY <2>1
  <2> QED BY <1>0, <2>2, <2>3, <2>4
<1>8. CASE Replace
  BY <1>1, <1>8 DEF Replace, StoreTable
<1>9. CASE UNCHANGED vars
  BY <1>1, <1>2, <1>9 DEF vars
<1> QED BY <1>4, <1>5, <1>6, <1>7, <1>8, <1>9 DEF Next

\* Whoever has a lock has its hash renewed: the answer that tells it so starts
\* the renewals, and they stop with the session.
LEMMA TrackedStep ==
    ASSUME IInv, Typed, Unopened, Tracked, [Next]_vars
    PROVE  Tracked'
<1> USE OwnersAssumption DEF S
<1> Shape
  BY DEF IInv
<1> SUFFICES ASSUME NEW p \in Owners, Answered(p)' \/ held'[p] # Free
             PROVE  session'[SessionOf[p]].tracked
  BY DEF Tracked, Free
<1>0. Answered(p) \/ held[p] # Free => session[SessionOf[p]].tracked
  BY DEF Tracked
<1>s. call'[p] = call[p] => (Answered(p)' <=> Answered(p))
  BY DEF Answered, Pc
<1>1. ASSUME NEW o \in Owners, Ask(o) \/ Step(o) \/ GiveUp(o)
      PROVE  session'[SessionOf[p]].tracked
  <2>1. Frame(o) /\ (Quiet(o) \/ Opens(o) \/ Commit(o))
    BY <1>1, OwnerEffect
  <2>2. session[SessionOf[p]].tracked => session'[SessionOf[p]].tracked
    BY <2>1 DEF Frame
  <2>3. CASE p # o
    BY <1>0, <1>s, <2>1, <2>2, <2>3 DEF Frame
  <2>4. CASE p = o /\ Quiet(o)
    BY <1>0, <2>2, <2>4 DEF Quiet, Honest
  <2>5. CASE p = o /\ Opens(o)
    <3>1. call[o] \in Calls(o) /\ held' = held
      BY <2>5 DEF Opens, Typed, Idle, Pc
    <3>2. Pc(o)' = "exec"
      BY <2>5, <3>1 DEF Opens, Pc, Calls
    <3>3. ~Answered(o)'
      BY <3>2 DEF Answered
    <3> QED BY <1>0, <2>2, <2>5, <3>1, <3>3
  <2>6. CASE p = o /\ Commit(o)
    BY <1>0, <2>2, <2>6 DEF Commit, Answered, WatchesFile
  <2> QED BY <2>1, <2>3, <2>4, <2>5, <2>6
<1>2. ASSUME NEW t \in Sessions,
             NewNative(t) \/ Renew(t) \/ Close(t) \/ Crash(t) \/ BarrierPause(t)
               \/ BarrierStep(t) \/ BarrierCancelled(t)
      PROVE  session'[SessionOf[p]].tracked
  <2>1. MountTyped(t) /\ (Started(t) \/ Renewed(t) \/ Closed(t) \/ Crashed(t) \/ Paused(t))
    BY <1>2, MountMoves
  <2>2. CASE Crashed(t)
    <3>1. p \in OwnersOf(t) => call'[p] = Idle /\ held'[p] = Free
      BY <2>2 DEF Crashed
    <3>2. p \notin OwnersOf(t)
      BY <3>1 DEF Answered, Pc, Idle
    <3>3. SessionOf[p] # t /\ call'[p] = call[p] /\ held'[p] = held[p]
      BY <2>2, <3>2 DEF Crashed, OwnersOf
    <3> QED BY <1>0, <1>s, <2>1, <3>3 DEF MountTyped
  <2>3. CASE ~Crashed(t)
    <3>1. UNCHANGED <<call, held>> /\ session'[t].tracked = session[t].tracked
      BY <2>1, <2>3 DEF Started, Renewed, Closed, Paused, Kept1
    <3> QED BY <1>0, <1>s, <2>1, <3>1 DEF MountTyped
  <2> QED BY <2>2, <2>3
<1>3. CASE Tick \/ Replace \/ UNCHANGED vars
  <2>1. UNCHANGED <<session, call, held>>
    BY <1>3 DEF Tick, Replace, vars
  <2> QED BY <1>0, <1>s, <2>1
<1> QED BY <1>1, <1>2, <1>3 DEF Next

\* A session that is valid after a step was so before, or starts now and owns
\* nothing.
LEMMA StillValid ==
    ASSUME IInv, Typed, Unopened, [Next]_vars, NEW p \in Owners, Valid(SessionOf[p])'
    PROVE  Valid(SessionOf[p]) \/
             (table'[p] = <<>> /\ table[p] = <<>> /\ call'[p] = Idle /\ held'[p] = Free)
<1> USE OwnersAssumption DEF S
<1> DEFINE s == SessionOf[p]
<1>1. CASE session[s].phase # "none"
  BY <1>1, Lives
<1>2. CASE session[s].phase = "none"
  <2>1. table[p] = <<>> /\ call[p] = Idle /\ held[p] = Free
    BY <1>2 DEF Unopened
  <2>2. lease'[s] > 0
    BY DEF Valid
  <2>3. Started(s)
    BY <1>2, <2>2, Lives
  <2>4. UNCHANGED <<call, held>>
    BY <2>3 DEF Started
  <2>5. table'[p] = <<>>
    <3>1. ASSUME NEW o \in Owners, Ask(o) \/ Step(o) \/ GiveUp(o) PROVE FALSE
      <4>1. Frame(o)
        BY <3>1, OwnerEffect DEF IInv
      <4> QED BY <2>3, <4>1 DEF Frame, Started
    <3>2. ASSUME NEW t \in Sessions,
                 NewNative(t) \/ Renew(t) \/ Close(t) \/ Crash(t) \/ BarrierPause(t)
                   \/ BarrierStep(t) \/ BarrierCancelled(t)
          PROVE  table' = table
      BY <3>2, MountMoves DEF MountTyped, IInv
    <3>3. CASE Tick \/ Replace \/ UNCHANGED vars
      BY <2>3, <3>3 DEF Tick, Replace, vars, Started
    <3> QED BY <2>1, <3>1, <3>2, <3>3 DEF Next
  <2> QED BY <2>1, <2>4, <2>5
<1> QED BY <1>1, <1>2

\* The records of the others are left alone, or emptied with the hash, or
\* pruned with a lease that is gone for good.
LEMMA OthersRecords ==
    ASSUME IInv, Typed, Unopened, Commits, [Next]_vars, NEW p \in Owners, Valid(SessionOf[p])
    PROVE  \/ table'[p] = table[p]
           \/ Commit(p) /\ table'[p] = NextTable(p)[p]
           \/ Tick /\ table' = Empty /\ tableTTL = 1
           \/ Replace
<1> USE OwnersAssumption DEF S
<1>1. ASSUME NEW o \in Owners, Ask(o) \/ Step(o) \/ GiveUp(o)
      PROVE  table'[p] = table[p] \/ (Commit(p) /\ table'[p] = NextTable(p)[p])
  <2>1. Quiet(o) \/ Opens(o) \/ Commit(o)
    BY <1>1, OwnerEffect DEF IInv
  <2>2. CASE Commit(o) /\ p # o
    <3>1. table'[p] = table[p] \/ p \in call[o].stale
      BY <2>2, NextTableExact DEF Commit, StoreTable
    <3>2. p \in call[o].stale => lease[SessionOf[p]] = 0
      BY <2>2 DEF Commit, Commits
    <3>3. lease[SessionOf[p]] > 0
      BY DEF Valid
    <3> QED BY <3>1, <3>2, <3>3
  <2>3. CASE Commit(o) /\ p = o
    BY <2>3 DEF Commit, StoreTable
  <2> QED BY <2>1, <2>2, <2>3 DEF Quiet, Opens
<1>2. ASSUME NEW t \in Sessions,
             NewNative(t) \/ Renew(t) \/ Close(t) \/ Crash(t) \/ BarrierPause(t)
               \/ BarrierStep(t) \/ BarrierCancelled(t)
      PROVE  table' = table
  BY <1>2, MountMoves DEF MountTyped, IInv
<1>3. CASE Tick
  BY <1>3 DEF Tick
<1>4. CASE UNCHANGED vars
  BY <1>4 DEF vars
<1> QED BY <1>1, <1>2, <1>3, <1>4 DEF Next

\* Nobody sees a request of another move, and its own request and beliefs
\* move honestly.
LEMMA OwnBeliefs ==
    ASSUME IInv, Typed, Unopened, [Next]_vars, NEW p \in Owners, ~Commit(p)
    PROVE  \/ call'[p] = call[p] /\ held'[p] = held[p]
           \/ Honest(p)
           \/ Opens(p)
           \/ call'[p] = Idle /\ held'[p] = Free
<1> USE OwnersAssumption DEF S
<1>1. ASSUME NEW o \in Owners, Ask(o) \/ Step(o) \/ GiveUp(o)
      PROVE  (call'[p] = call[p] /\ held'[p] = held[p]) \/ Honest(p) \/ Opens(p)
  <2>1. Frame(o) /\ (Quiet(o) \/ Opens(o) \/ Commit(o))
    BY <1>1, OwnerEffect DEF IInv
  <2> QED BY <2>1 DEF Frame, Quiet
<1>2. ASSUME NEW t \in Sessions,
             NewNative(t) \/ Renew(t) \/ Close(t) \/ Crash(t) \/ BarrierPause(t)
               \/ BarrierStep(t) \/ BarrierCancelled(t)
      PROVE  (call'[p] = call[p] /\ held'[p] = held[p]) \/ (call'[p] = Idle /\ held'[p] = Free)
  <2>1. Started(t) \/ Renewed(t) \/ Closed(t) \/ Crashed(t) \/ Paused(t)
    BY <1>2, MountMoves DEF IInv
  <2> QED BY <2>1 DEF Started, Renewed, Closed, Crashed, Paused
<1>3. CASE Tick \/ Replace \/ UNCHANGED vars
  BY <1>3 DEF Tick, Replace, vars
<1> QED BY <1>1, <1>2, <1>3 DEF Next

\* What an owner believes stays in the hash for as long as its session is
\* valid.
LEMMA RecordedStep ==
    ASSUME IInv, Typed, Unopened, Expiry, Tracked, Recorded, Commits, [Next]_vars
    PROVE  Recorded'
<1> USE OwnersAssumption DEF S
<1> SUFFICES ASSUME NEW p \in Owners, Valid(SessionOf[p])', NEW b \in Bytes
             PROVE  /\ held'[p][b] # "none" /\ b \notin Changed(p)'
                         => ByteModes(table'[p])[b] = held'[p][b]
                    /\ Answered(p)' /\ Covers(call'[p].op.lock, b) /\ call'[p].op.lock.type # "none"
                         => ByteModes(table'[p])[b] = call'[p].op.lock.type
  <2>1. \A p \in Owners, b \in Bytes :
          (ByteModes(table[p])[b])' = ByteModes(table'[p])[b]
    BY DEF ByteModes, ModeOf, Covers, Bytes
  <2> QED BY <2>1 DEF Recorded
<1> DEFINE s == SessionOf[p]
<1>a. call'[p] = Idle => ~Answered(p)'
  BY DEF Answered, Pc, Idle
<1>f. held'[p] = Free => held'[p][b] = "none"
  BY DEF Free
<1>1. CASE ~Valid(s)
  BY <1>1, <1>a, <1>f, StillValid
<1>2. CASE Valid(s) /\ ~Commit(p)
  <2>0. /\ held[p][b] # "none" /\ b \notin Changed(p) => ByteModes(table[p])[b] = held[p][b]
        /\ Answered(p) /\ Covers(call[p].op.lock, b) /\ call[p].op.lock.type # "none"
             => ByteModes(table[p])[b] = call[p].op.lock.type
    BY <1>2 DEF Recorded
  <2>1. CASE table'[p] = table[p]
    <3>1. CASE call'[p] = call[p] /\ held'[p] = held[p]
      <4>1. Changed(p)' = Changed(p) /\ (Answered(p)' <=> Answered(p))
        BY <3>1 DEF Changed, Done, Answered, Pc, Covers, Bytes
      <4> QED BY <2>0, <2>1, <3>1, <4>1
    <3>2. CASE Honest(p)
      <4>1. /\ held'[p][b] # "none" /\ b \notin Changed(p)' =>
                 \/ held'[p][b] = held[p][b] /\ b \notin Changed(p)
                 \/ /\ Answered(p) /\ Covers(call[p].op.lock, b)
                    /\ held'[p][b] = call[p].op.lock.type
            /\ Answered(p)' => Answered(p) /\ call'[p].op = call[p].op
        BY <3>2 DEF Honest
      <4> QED BY <2>0, <2>1, <4>1
    <3>3. CASE Opens(p)
      <4>1. call[p] \in Calls(p) /\ Pc(p) = "watch" /\ held' = held
        BY <3>3 DEF Opens, Typed, Idle, Pc
      <4>2. Pc(p)' = "exec"
        BY <3>3, <4>1 DEF Opens, Pc, Calls
      <4>3. ~Answered(p)' /\ Changed(p) = {}
        BY <4>1, <4>2 DEF Answered, Changed, Done
      <4> QED BY <2>0, <2>1, <4>1, <4>3
    <3>4. CASE call'[p] = Idle /\ held'[p] = Free
      BY <1>a, <1>f, <3>4
    <3> QED BY <1>2, <3>1, <3>2, <3>3, <3>4, OwnBeliefs
  <2>2. CASE Tick /\ table' = Empty /\ tableTTL = 1
    <3>1. UNCHANGED <<call, held>> /\ lease'[s] = IF lease[s] > 0 THEN lease[s] - 1 ELSE 0
      BY <2>2 DEF Tick
    <3>2. lease'[s] > 0 /\ lease[s] > 0 /\ lease[s] \in Nat
      BY <1>2 DEF Valid, Typed
    <3>3. lease[s] > 1
      BY <3>1, <3>2
    <3>4. CASE table = Empty
      <4>1. table'[p] = table[p]
        BY <2>2, <3>4
      <4> QED BY <2>1, <4>1
    <3>5. CASE table # Empty
      <4>1. ~session[s].tracked
        BY <2>2, <3>2, <3>3, <3>5 DEF Expiry
      <4>2. ~Answered(p) /\ held[p] = Free
        BY <4>1 DEF Tracked
      <4>3. ~Answered(p)'
        BY <3>1, <4>2 DEF Answered, Pc
      <4> QED BY <1>f, <3>1, <4>2, <4>3
    <3> QED BY <3>4, <3>5
  <2>3. CASE Replace
    <3>1. generation' = generation + 1 /\ session' = session
      BY <2>3 DEF Replace
    <3>2. session[s].born = generation /\ session'[s].born = generation'
      BY <1>2 DEF Valid, GenerationIs
    <3>3. generation \in Int
      BY DEF IInv, Shape
    <3> QED BY <3>1, <3>2, <3>3
  <2> QED BY <1>2, <2>1, <2>2, <2>3, OthersRecords
<1>3. CASE Valid(s) /\ Commit(p)
  <2> DEFINE op == call[p].op
  <2>0. held[p][b] # "none" => ByteModes(table[p])[b] = held[p][b]
    <3>1. Changed(p) = {}
      BY <1>3 DEF Commit, Changed, Done
    <3> QED BY <1>3, <3>1 DEF Recorded
  <2>1. /\ held' = held /\ call'[p].op = op /\ table' = NextTable(p)
        /\ \/ Pc(p)' = "check"
           \/ Pc(p)' = "leave" /\ call'[p].result = "error"
    BY <1>3 DEF Commit, StoreTable
  <2>2. /\ op.kind \in {"set", "unlockAll"}
        /\ op.kind = "set" => ByteModes(table'[p]) = Updated(ByteModes(table[p]), op.lock)
    BY <1>3, <2>1, NextTableExact DEF Commit
  <2>3. CASE op.kind = "unlockAll"
    <3>1. Changed(p)' = Bytes /\ ~Answered(p)'
      BY <2>1, <2>3 DEF Changed, Done, Answered, Bytes
    <3> QED BY <3>1
  <2>4. CASE op.kind = "set"
    <3>1. b \notin Changed(p)' => ~Covers(op.lock, b)
      BY <2>1, <2>4 DEF Changed, Done, Bytes, Covers
    <3>2. ByteModes(table'[p])[b] = IF Covers(op.lock, b) THEN op.lock.type
                                    ELSE ByteModes(table[p])[b]
      BY <2>2, <2>4 DEF Updated
    <3> QED BY <2>0, <2>1, <3>1, <3>2
  <2> QED BY <2>2, <2>3, <2>4
<1> QED BY <1>1, <1>2, <1>3

\* What a transaction that can still commit has seen stays true: whatever could
\* change it touches a watched key and takes the transaction out of the race.
LEMMA CommitsStep ==
    ASSUME IInv, Typed, Unopened, Commits, [Next]_vars
    PROVE  Commits'
<1> USE OwnersAssumption DEF S
<1> DEFINE Fresh(o) ==
              /\ Valid(SessionOf[o])
              /\ call[o].op.kind = "set" =>
                   \A p \in Owners \ (call[o].stale \cup {o}) :
                       \A i \in DOMAIN table[p] : ~LocksConflict(table[p][i], call[o].op.lock)
           Gone(o) == Pc(o) = "exec" =>
                        \A p \in call[o].stale :
                            lease[SessionOf[p]] = 0 /\ session[SessionOf[p]].phase # "none"
<1>0. /\ Shape /\ clean \subseteq Owners /\ clean \subseteq {o \in Owners : Pc(o) = "exec"}
      /\ \A o \in clean : Fresh(o)
      /\ \A o \in Owners : Gone(o)
      /\ \A o \in Owners : call[o] = Idle \/ call[o] \in Calls(o)
  BY DEF IInv, Shape, Typed, Commits
<1>s. ASSUME NEW o \in Owners, call'[o] = call[o] PROVE Gone(o)'
  <2> SUFFICES ASSUME Pc(o)' = "exec", NEW p \in call'[o].stale
               PROVE  lease'[SessionOf[p]] = 0 /\ session'[SessionOf[p]].phase # "none"
    BY DEF Pc
  <2>1. Pc(o) = "exec" /\ p \in call[o].stale /\ call[o] \in Calls(o)
    BY <1>0, <1>s DEF Pc, Idle
  <2>2. p \in Owners /\ SessionOf[p] \in Sessions
    BY <2>1 DEF Calls
  <2>3. lease[SessionOf[p]] = 0 /\ session[SessionOf[p]].phase # "none"
    BY <1>0, <2>1
  <2> QED BY <2>2, <2>3, Lives
<1>f. ASSUME NEW o \in Owners, call'[o] = call[o], table' = table, Fresh(o),
             Valid(SessionOf[o])'
      PROVE  Fresh(o)'
  BY <1>f DEF LocksConflict, LockRangesOverlap
<1>v. ASSUME NEW o \in Owners, generation' = generation,
             session'[SessionOf[o]].born = session[SessionOf[o]].born,
             lease'[SessionOf[o]] = lease[SessionOf[o]] \/ lease'[SessionOf[o]] = LeaseTicks,
             Valid(SessionOf[o])
      PROVE  Valid(SessionOf[o])'
  BY <1>v, ProgramAssumption DEF Valid, GenerationIs
<1> SUFFICES (\A o \in clean' : Fresh(o)') /\ (\A o \in Owners : Gone(o)')
  BY DEF Commits, Pc, Valid, GenerationIs
<1>1. ASSUME NEW q \in Owners, Ask(q) \/ Step(q) \/ GiveUp(q)
      PROVE  (\A o \in clean' : Fresh(o)') /\ (\A o \in Owners : Gone(o)')
  <2>1. Frame(q) /\ (Quiet(q) \/ Opens(q) \/ Commit(q))
    BY <1>0, <1>1, OwnerEffect
  <2>2. ASSUME NEW o \in clean, o # q, table' = table PROVE Fresh(o)'
    <3>1. o \in Owners /\ SessionOf[o] \in Sessions /\ Fresh(o)
      BY <1>0
    <3>2. Valid(SessionOf[o])'
      BY <1>v, <2>1, <3>1 DEF Frame
    <3>3. call'[o] = call[o]
      BY <2>1, <2>2, <3>1 DEF Frame
    <3> QED BY <1>f, <2>2, <3>1, <3>2, <3>3
  <2>3. ASSUME NEW o \in Owners, o # q PROVE Gone(o)'
    BY <1>s, <2>1, <2>3 DEF Frame
  <2>4. CASE Quiet(q)
    <3>1. Gone(q)'
      BY <2>4 DEF Quiet, Honest, Pc
    <3> QED BY <2>2, <2>3, <2>4, <3>1 DEF Quiet
  <2>5. CASE Opens(q)
    <3> DEFINE lock == call[q].op.lock  new == call'[q]
    <3>1. /\ call[q] \in Calls(q) /\ table' = table /\ Valid(SessionOf[q]) /\ session' = session
          /\ ~(WatchesFile(q) /\ Blocked(q, lock)) /\ clean' = clean \cup {q}
      BY <1>0, <2>5 DEF Opens, Idle, Pc, GuardsPass
    <3>2. new.op = call[q].op /\ new.stale = IF WatchesFile(q) THEN Stale ELSE {}
      BY <2>5, <3>1 DEF Opens, Calls
    <3>3. lease' = lease /\ Valid(SessionOf[q])'
      BY <1>v, <2>1, <3>1 DEF Frame
    <3>4. Gone(q)'
      <4> SUFFICES ASSUME NEW p \in new.stale
                   PROVE  lease[SessionOf[p]] = 0 /\ session[SessionOf[p]].phase # "none"
        BY <3>1, <3>3
      <4>1. p \in Owners /\ table[p] # <<>> /\ lease[SessionOf[p]] = 0
        BY <3>2 DEF Stale
      <4> QED BY <4>1 DEF Unopened
    <3>5. ASSUME call'[q].op.kind = "set", NEW p \in Owners \ (call'[q].stale \cup {q}),
                 NEW i \in DOMAIN table'[p]
          PROVE  ~LocksConflict(table'[p][i], call'[q].op.lock)
      <4>1. WatchesFile(q) /\ call'[q].stale = Stale /\ call'[q].op.lock = lock
        BY <3>2, <3>5 DEF WatchesFile
      <4>2. p \in Owners \ (Stale \cup {q}) /\ i \in DOMAIN table[p]
        BY <3>1, <3>5, <4>1
      <4> QED BY <3>1, <4>1, <4>2 DEF Blocked
    <3>6. Fresh(q)'
      BY <3>3, <3>5 DEF LocksConflict, LockRangesOverlap
    <3> QED BY <2>2, <2>3, <3>1, <3>4, <3>6
  <2>6. CASE Commit(q)
    <3>1. Gone(q)'
      BY <2>6 DEF Commit, Pc
    <3> QED BY <2>2, <2>3, <2>6, <3>1 DEF Commit
  <2> QED BY <2>1, <2>4, <2>5, <2>6
<1>2. ASSUME NEW t \in Sessions,
             NewNative(t) \/ Renew(t) \/ Close(t) \/ Crash(t) \/ BarrierPause(t)
               \/ BarrierStep(t) \/ BarrierCancelled(t)
      PROVE  (\A o \in clean' : Fresh(o)') /\ (\A o \in Owners : Gone(o)')
  <2>1. MountTyped(t) /\ (Started(t) \/ Renewed(t) \/ Closed(t) \/ Crashed(t) \/ Paused(t))
    BY <1>0, <1>2, MountMoves
  <2>2. clean' \subseteq clean
    BY <2>1 DEF Started, Renewed, Closed, Crashed, Paused
  <2>3. ASSUME NEW o \in Owners PROVE Gone(o)'
    <3>1. call'[o] = call[o] \/ call'[o] = Idle
      BY <2>1 DEF Started, Renewed, Closed, Crashed, Paused, OwnersOf
    <3>2. call'[o] = Idle => Pc(o)' # "exec"
      BY DEF Pc, Idle
    <3> QED BY <1>s, <3>1, <3>2
  <2>4. ASSUME NEW o \in clean' PROVE Fresh(o)'
    <3>1. o \in Owners /\ o \in clean /\ Fresh(o) /\ SessionOf[o] \in Sessions
      BY <1>0, <2>2
    <3> DEFINE s == SessionOf[o]
    <3>2. call'[o] = call[o]
      BY <2>1, <2>4, <3>1 DEF Started, Renewed, Closed, Crashed, Paused, OwnersOf
    <3>3. lease'[s] = lease[s] \/ lease'[s] = LeaseTicks
      <4>1. lease \in [Sessions -> 0..LeaseTicks]
        BY DEF Typed
      <4>2. CASE Closed(t)
        <5>1. CASE UNCHANGED lease
          BY <5>1
        <5>2. CASE lease' = [lease EXCEPT ![t] = 0] /\ s # t
          BY <3>1, <4>1, <5>2
        <5> QED BY <2>4, <4>2, <5>1, <5>2 DEF Closed
      <4>3. CASE Started(t) \/ Renewed(t)
        BY <3>1, <4>1, <4>3 DEF Started, Renewed
      <4>4. CASE Crashed(t) \/ Paused(t)
        BY <4>4 DEF Crashed, Paused
      <4> QED BY <2>1, <4>2, <4>3, <4>4
    <3>4. session'[s].born = session[s].born
      <4>1. session[s].phase # "none"
        <5>1. call[o].pc = "exec"
          BY <1>0, <3>1 DEF Pc
        <5>2. call[o] # Idle
          BY <5>1 DEF Idle
        <5> QED BY <3>1, <5>2 DEF Unopened
      <4> QED BY <3>1, <4>1, Lives
    <3>5. Valid(s)'
      BY <1>v, <2>1, <3>1, <3>3, <3>4 DEF MountTyped
    <3> QED BY <1>f, <2>1, <3>1, <3>2, <3>5 DEF MountTyped
  <2> QED BY <2>3, <2>4
<1>3. CASE Tick
  <2>1. /\ UNCHANGED <<call, generation, session>>
        /\ lease' = [s \in Sessions |-> IF lease[s] > 0 THEN lease[s] - 1 ELSE 0]
        /\ \/ clean' = {}
           \/ /\ table' = table
              /\ clean' = {o \in clean : SessionOf[o] \notin {s \in Sessions : lease[s] = 1}}
    BY <1>3 DEF Tick, TouchedTable, TouchedLease
  <2>2. ASSUME NEW o \in clean', table' = table, o \in clean, lease[SessionOf[o]] # 1
        PROVE  Fresh(o)'
    <3>1. o \in Owners /\ Fresh(o) /\ SessionOf[o] \in Sessions
      BY <1>0, <2>2
    <3>2. lease[SessionOf[o]] > 0 /\ lease[SessionOf[o]] \in Nat
      BY <3>1 DEF Valid, Typed
    <3>3. lease'[SessionOf[o]] > 0
      BY <2>1, <2>2, <3>1, <3>2
    <3>4. Valid(SessionOf[o])'
      BY <2>1, <3>1, <3>3 DEF Valid, GenerationIs
    <3> QED BY <1>f, <2>1, <2>2, <3>1, <3>4
  <2>3. \A o \in clean' : Fresh(o)'
    <3> SUFFICES ASSUME NEW o \in clean' PROVE Fresh(o)'
      OBVIOUS
    <3>1. table' = table /\ o \in clean /\ lease[SessionOf[o]] # 1
      BY <1>0, <2>1
    <3> QED BY <2>2, <3>1
  <2> QED BY <1>s, <2>1, <2>3
<1>4. CASE Replace
  BY <1>s, <1>4 DEF Replace
<1>5. CASE UNCHANGED vars
  <2>1. UNCHANGED <<call, table, clean, generation, session, lease>>
    BY <1>5 DEF vars
  <2>2. \A o \in clean' : Fresh(o)'
    BY <1>0, <1>f, <2>1 DEF Valid, GenerationIs
  <2> QED BY <1>s, <2>1, <2>2
<1> QED BY <1>1, <1>2, <1>3, <1>4, <1>5 DEF Next

\* A request that conflicts with no record of an owner excludes none of the
\* modes the owner holds on its bytes.
LEMMA NoConflictExcludes ==
    ASSUME NEW locks, Tidy(locks), NEW lock \in Requests, NEW b \in Bytes, Covers(lock, b),
           \A i \in DOMAIN locks : ~LocksConflict(locks[i], lock)
    PROVE  /\ ~LockTable!Excludes(lock.type, ByteModes(locks)[b])
           /\ ~LockTable!Excludes(ByteModes(locks)[b], lock.type)
<1> DEFINE m == ModeOf(ToSet(locks), b)
<1>1. ByteModes(locks)[b] = m
  BY DEF ByteModes
<1>2. m \in Modes \cup {"none"} /\ (m \in Modes => \E r \in ToSet(locks) : Marks(r, b, m))
  BY TidyDisjoint, ModeFound
<1> HIDE DEF m
<1>3. CASE m = "none"
  BY <1>1, <1>3 DEF LockTable!Excludes
<1>4. CASE m \in Modes
  <2>1. PICK r \in ToSet(locks) : Marks(r, b, m)
    BY <1>2, <1>4
  <2>2. r \in Ranges /\ Covers(r, b) /\ r.type = m /\ ~LocksConflict(r, lock)
    BY <2>1, TidyDisjoint DEF Disjoint, Marks, ToSet
  <2>3. LockRangesOverlap(r, lock)
    BY <2>2, MaxByteAssumption
       DEF Covers, LockRangesOverlap, Ranges, Requests, Bytes
  <2> QED BY <1>1, <1>4, <2>2, <2>3 DEF LocksConflict, Modes, LockTable!Excludes
<1> QED BY <1>2, <1>3, <1>4

\* A commit gives its owner no mode that excludes what a living owner holds.
LEMMA CommitExcludes ==
    ASSUME Typed, Commits, Exclusive, NEW o \in Owners, Commit(o), NEW p \in Owners \ {o},
           Valid(SessionOf[o]), Valid(SessionOf[p]), NEW b \in Bytes
    PROVE  /\ table'[p] = table[p]
           /\ ~LockTable!Excludes(ByteModes(table'[o])[b], ByteModes(table'[p])[b])
           /\ ~LockTable!Excludes(ByteModes(table'[p])[b], ByteModes(table'[o])[b])
<1> DEFINE op == call[o].op
<1>1. Pc(o) = "exec" /\ o \in clean /\ table' = NextTable(o)
  BY DEF Commit, StoreTable
<1>2. p \notin call[o].stale
  <2>1. lease[SessionOf[p]] > 0
    BY DEF Valid
  <2> QED BY <1>1, <2>1 DEF Commits
<1>3. table'[p] = table[p]
  BY <1>1, <1>2, NextTableExact
<1>4. /\ ~LockTable!Excludes(ByteModes(table[o])[b], ByteModes(table[p])[b])
      /\ ~LockTable!Excludes(ByteModes(table[p])[b], ByteModes(table[o])[b])
  BY DEF Exclusive
<1>5. CASE op.kind = "unlockAll"
  <2>1. ByteModes(table'[o])[b] = "none"
    BY <1>1, <1>5, NextTableExact, NoRecords DEF Free
  <2> QED BY <1>3, <2>1 DEF LockTable!Excludes
<1>6. CASE op.kind = "set"
  <2>1. /\ op.lock \in Requests
        /\ ByteModes(table'[o])[b] = IF Covers(op.lock, b) THEN op.lock.type
                                     ELSE ByteModes(table[o])[b]
    BY <1>1, <1>6, NextTableExact DEF Updated
  <2>2. CASE ~Covers(op.lock, b)
    BY <1>3, <1>4, <2>1, <2>2
  <2>3. CASE Covers(op.lock, b)
    <3>1. \A i \in DOMAIN table[p] : ~LocksConflict(table[p][i], op.lock)
      BY <1>1, <1>2, <1>6 DEF Commits
    <3>2. Tidy(table[p])
      BY DEF Typed
    <3>3. /\ ~LockTable!Excludes(op.lock.type, ByteModes(table[p])[b])
          /\ ~LockTable!Excludes(ByteModes(table[p])[b], op.lock.type)
      BY <2>1, <2>3, <3>1, <3>2, NoConflictExcludes
    <3> QED BY <1>3, <2>1, <2>3, <3>3
  <2> QED BY <2>2, <2>3
<1> QED BY <1>1, <1>5, <1>6, NextTableExact

\* The living never hold modes that exclude each other, whatever the order of
\* their transactions.
LEMMA ExclusiveStep ==
    ASSUME IInv, Typed, Unopened, Commits, Exclusive, [Next]_vars
    PROVE  Exclusive'
<1> DEFINE Now(o, p, b) == LockTable!Excludes(ByteModes(table'[o])[b], ByteModes(table'[p])[b])
<1> SUFFICES ASSUME NEW o \in Owners, NEW p \in Owners, o # p,
                    Valid(SessionOf[o])', Valid(SessionOf[p])', NEW b \in Bytes
             PROVE  ~Now(o, p, b)
  <2>1. \A o, p \in Owners, b \in Bytes :
          LockTable!Excludes(ByteModes(table[o])[b], ByteModes(table[p])[b])' <=> Now(o, p, b)
    BY DEF ByteModes, ModeOf, Covers, Bytes, LockTable!Excludes
  <2> QED BY <2>1 DEF Exclusive
<1>1. \A q \in Owners : table'[q] = <<>> => ByteModes(table'[q])[b] = "none"
  BY NoRecords DEF Free
<1>2. (table'[o] = <<>> \/ table'[p] = <<>>) => ~Now(o, p, b)
  BY <1>1 DEF LockTable!Excludes
<1>3. table' = Empty => ~Now(o, p, b)
  BY <1>2 DEF Empty
<1>4. CASE ~Valid(SessionOf[o]) \/ ~Valid(SessionOf[p])
  BY <1>2, <1>4, StillValid
<1>5. CASE Valid(SessionOf[o]) /\ Valid(SessionOf[p])
  <2>1. CASE Commit(o)
    BY <1>5, <2>1, CommitExcludes
  <2>2. CASE Commit(p)
    BY <1>5, <2>2, CommitExcludes
  <2>3. CASE Replace
    BY <1>3, <2>3 DEF Replace, StoreTable
  <2>4. CASE ~Commit(o) /\ ~Commit(p) /\ ~Replace
    <3>1. table' = Empty \/ table'[o] = table[o]
      BY <1>5, <2>4, OthersRecords
    <3>2. table' = Empty \/ table'[p] = table[p]
      BY <1>5, <2>4, OthersRecords
    <3> QED BY <1>3, <1>5, <3>1, <3>2 DEF Exclusive
  <2> QED BY <2>1, <2>2, <2>3, <2>4
<1> QED BY <1>4, <1>5

\* The inductive invariant of the lock hash holds in every behaviour.
THEOREM TableInvariant == Spec => []TableInv
<1>1. TableInv /\ [Next]_vars => TableInv'
  <2> SUFFICES ASSUME TableInv, [Next]_vars PROVE TableInv'
    OBVIOUS
  <2>1. IInv /\ Typed /\ Unopened /\ Expiry /\ Tracked /\ Recorded /\ Commits /\ Exclusive
    BY DEF TableInv
  <2>2. IInv'
    <3>1. Shape'
      BY <2>1, RequestEffect, MountEffect, OutsideEffect DEF IInv, Next
    <3> QED BY <2>1, <3>1, GenerationsStep, GatesStep, CountingStep DEF IInv
  <2>3. Typed' /\ Unopened'
    BY <2>1, TypedStep, UnopenedStep
  <2>4. Expiry' /\ Tracked' /\ Recorded'
    BY <2>1, ExpiryStep, TrackedStep, RecordedStep
  <2>5. Commits' /\ Exclusive'
    BY <2>1, CommitsStep, ExclusiveStep
  <2> QED BY <2>2, <2>3, <2>4, <2>5 DEF TableInv
<1> QED BY InitTable, <1>1, PTL DEF Spec

-----------------------------------------------------------------------------
(* What the invariant says of the runs' properties.                        *)

\* The shape of the state; `active` counts exactly the requests between the
\* gate and their finish.
THEOREM StateIsTyped == Spec => []TypeOK
<1>1. TableInv => TypeOK
  <2> SUFFICES ASSUME TableInv PROVE TypeOK
    OBVIOUS
  <2> USE DEF TableInv, Typed
  <2>1. \A o \in Owners : ToSet(table[o]) \subseteq Ranges
    BY TidyDisjoint DEF Disjoint
  <2>2. \A s \in Sessions : session[s].active
                              = Cardinality({o \in OwnersOf(s) : Pc(o) \in Admitted})
    BY DEF IInv, Counting, Inside
  <2>3. \A o \in Owners : Pc(o) \in Pcs /\
           (Pc(o) # "idle" => call[o].op \in UNION ToSet(Program[o]))
    <3> SUFFICES ASSUME NEW o \in Owners
                 PROVE  Pc(o) \in Pcs /\ (Pc(o) # "idle" => call[o].op \in Asked(o))
      BY DEF Asked
    <3>1. CASE call[o] = Idle
      BY <3>1 DEF Idle, Pc, Pcs
    <3>2. CASE call[o] \in Calls(o)
      BY <3>2 DEF Calls, Pc
    <3> QED BY <3>1, <3>2
  <2>4. held \in [Owners -> [Bytes -> Modes \cup {"none"}]]
    BY DEF RequestTypes
  <2> QED BY <2>1, <2>2, <2>3, <2>4 DEF TypeOK
<1> QED BY TableInvariant, <1>1, PTL

\* What an owner may be changing has changed, if anything has.
LEMMA SureRecorded ==
    ASSUME TableInv, NEW o \in Owners, Valid(SessionOf[o]), NEW b \in Bytes,
           Sure(o)[b] # "none"
    PROVE  held[o][b] = Sure(o)[b] /\ ByteModes(table[o])[b] = Sure(o)[b]
<1>1. Sure(o)[b] = IF b \in Changing(o) THEN "none" ELSE held[o][b]
  BY DEF Sure
<1>2. b \notin Changing(o) /\ held[o][b] = Sure(o)[b]
  BY <1>1
<1>3. Changed(o) \subseteq Changing(o)
  BY DEF Changed, Changing, Done
<1> QED BY <1>2, <1>3 DEF TableInv, Recorded

\* A lock an owner was told it has is in Redis for as long as its session is
\* valid: renewals, the expiry of the lock hash, pruning by peers, splits and
\* merges, lost replies and aborted transactions never take it away.
THEOREM LocksStayRecorded == Spec => []HeldIsRecorded
<1>1. TableInv => HeldIsRecorded
  BY SureRecorded DEF HeldIsRecorded
<1> QED BY TableInvariant, <1>1, PTL

\* A mutation commits under the locks its owner believes it has only while no
\* other owner with a valid session believes it has one that excludes them.
THEOREM WritesStayFenced == Spec => WritesAreFenced
<1> DEFINE Fenced ==
      \A o \in Owners :
          Pc(o) = "write" /\ call'[o].pc = "check" =>
              \A p \in Owners \ {o} : Valid(SessionOf[p]) =>
                  \A b \in Bytes : ~LockTable!Excludes(Sure(o)[b], Sure(p)[b])
<1>1. TableInv /\ [Next]_vars => [Fenced]_vars
  <2> SUFFICES ASSUME TableInv, [Next]_vars, NEW o \in Owners,
                      Pc(o) = "write", call'[o].pc = "check",
                      NEW p \in Owners \ {o}, Valid(SessionOf[p]), NEW b \in Bytes
               PROVE  ~LockTable!Excludes(Sure(o)[b], Sure(p)[b])
    OBVIOUS
  <2>0. IInv /\ Typed /\ Shape
    BY DEF TableInv, IInv
  <2>1. Valid(SessionOf[o])
    <3>1. ASSUME NEW q \in Owners, Ask(q) \/ Step(q) \/ GiveUp(q)
          PROVE  Valid(SessionOf[o])
      <4>1. \A r \in Owners \ {q} : call'[r] = call[r]
        BY <2>0, <3>1, RequestEffect DEF Kept
      <4>2. q = o
        BY <4>1 DEF Pc
      <4>3. Write(o)
        BY <3>1, <4>2 DEF Ask, Step, GiveUp, Begin, Watch, Retry, Exec, LastCheck, Finish, Wake
      <4>4. Fail(o) => call'[o].pc = "leave"
        BY <2>0 DEF Fail, Result, Request, Shape
      <4> QED BY <4>3, <4>4 DEF Write, ScriptPasses
    <3>2. ASSUME NEW t \in Sessions,
                 NewNative(t) \/ Renew(t) \/ Close(t) \/ Crash(t) \/ BarrierPause(t)
                   \/ BarrierStep(t) \/ BarrierCancelled(t)
          PROVE  FALSE
      <4>1. Started(t) \/ Renewed(t) \/ Closed(t) \/ Crashed(t) \/ Paused(t)
        BY <2>0, <3>2, MountMoves
      <4>2. call'[o] = call[o] \/ call'[o] = Idle
        BY <4>1 DEF Started, Renewed, Closed, Crashed, Paused, OwnersOf
      <4> QED BY <4>2 DEF Pc, Idle
    <3>3. CASE Tick \/ Replace \/ UNCHANGED vars
      BY <2>0, <3>3, OutsideEffect DEF Pc
    <3> QED BY <3>1, <3>2, <3>3 DEF Next
  <2>2. CASE Sure(o)[b] = "none" \/ Sure(p)[b] = "none"
    BY <2>2 DEF LockTable!Excludes
  <2>3. CASE Sure(o)[b] # "none" /\ Sure(p)[b] # "none"
    <3>1. ByteModes(table[o])[b] = Sure(o)[b] /\ ByteModes(table[p])[b] = Sure(p)[b]
      BY <2>1, <2>3, SureRecorded
    <3> QED BY <2>1, <3>1 DEF TableInv, Exclusive
  <2> QED BY <2>2, <2>3
<1> QED BY TableInvariant, <1>1, PTL DEF Spec, WritesAreFenced

-----------------------------------------------------------------------------
(* The lock hash implements the abstract lock table.                       *)

ModeOfOwner(o) == IF Over(o) THEN Free ELSE ByteModes(table[o])
Held == [o \in Owners |-> ModeOfOwner(o)]
Dead == {o \in Owners : Over(o)}

\* The abstract table's actions, in the state of this module.
Relocks(o) ==
    /\ o \notin Dead /\ Dead' = Dead
    /\ Held' \in [Owners -> [Bytes -> {"none", "read", "write"}]]
    /\ \A p \in Owners \ {o} :
           /\ Held'[p] = Held[p]
           /\ \A b \in Bytes :
                  Held'[o][b] # Held[o][b] => ~LockTable!Excludes(Held'[o][b], Held[p][b])

Ends(forgotten) ==
    /\ Dead \subseteq Dead' /\ Dead' \subseteq forgotten /\ forgotten \subseteq Owners
    /\ Held' = [o \in Owners |-> IF o \in forgotten THEN Free ELSE Held[o]]

\* They are the abstract table's actions.
LEMMA AbstractSteps ==
    /\ \A o \in Owners : Relocks(o) => LockTable!Next
    /\ \A forgotten : Ends(forgotten) => LockTable!Next
<1>1. ASSUME NEW o \in Owners, Relocks(o) PROVE LockTable!Relock(o)
  BY <1>1 DEF Relocks, Held, Dead, ModeOfOwner, LockTable!Relock
<1>2. ASSUME NEW forgotten, Ends(forgotten) PROVE LockTable!End
  <2>1. Dead' \subseteq Owners
    BY <1>2 DEF Ends
  <2> QED BY <1>2, <2>1 DEF Ends, Held, Dead, ModeOfOwner, LockTable!End, LockTable!Free, Free
<1> QED BY <1>1, <1>2 DEF LockTable!Next

\* Before the first step nobody holds a byte or is over.
LEMMA AbstractInit == Init => LockTable!Init
<1> SUFFICES ASSUME Init PROVE LockTable!Init
  OBVIOUS
<1>1. \A o \in Owners : ~Over(o) /\ ByteModes(table[o]) = Free
  BY NoRecords, OwnersAssumption DEF Init, Over, S, NewSession, Empty
<1> QED BY <1>1 DEF LockTable!Init, LockTable!Free, Free

\* Every byte a field covers is there to read or to write.
LEMMA FieldModes ==
    ASSUME NEW locks, Tidy(locks)
    PROVE  ByteModes(locks) \in [Bytes -> {"none", "read", "write"}]
<1>1. \A b \in Bytes : ModeOf(ToSet(locks), b) \in Modes \cup {"none"}
  BY TidyDisjoint, ModeFound
<1> QED BY <1>1 DEF ByteModes, Modes

\* A session that is over stays so.
LEMMA DeadStays ==
    ASSUME TableInv, [Next]_vars
    PROVE  Dead \subseteq Dead'
<1> SUFFICES ASSUME NEW o \in Owners, Over(o) PROVE Over(o)'
  BY DEF Dead
<1>1. SessionOf[o] \in Sessions
  BY OwnersAssumption
<1> QED BY <1>1, Lives DEF Over, S, TableInv

\* A transaction changes the bytes of one living owner, within what every other
\* owner holds; the records it prunes are of the dead.
LEMMA CommitRelocks ==
    ASSUME TableInv, TableInv', [Next]_vars, NEW o \in Owners, Frame(o), Commit(o)
    PROVE  Relocks(o)
<1> USE OwnersAssumption
<1>0. /\ Typed /\ Unopened /\ Commits /\ Exclusive
      /\ \A p \in Owners : Tidy(table'[p])
  BY DEF TableInv, Typed
<1>1. Pc(o) = "exec" /\ o \in clean /\ table' = NextTable(o)
  BY DEF Commit, StoreTable
<1>2. Valid(SessionOf[o])
  BY <1>0, <1>1 DEF Commits
<1>3. \A p \in Owners : (Valid(SessionOf[p])' <=> Valid(SessionOf[p])) /\ (Over(p)' <=> Over(p))
  BY DEF Frame, Valid, GenerationIs, Over, S
<1>4. o \notin Dead /\ Dead' = Dead
  BY <1>2, <1>3 DEF Dead, Over
<1>h. \A p \in Owners : /\ Held[p] = IF Over(p) THEN Free ELSE ByteModes(table[p])
                        /\ Held'[p] = IF Over(p) THEN Free ELSE ByteModes(table'[p])
  <2>1. \A p \in Owners : ByteModes(table[p])' = ByteModes(table'[p])
    BY DEF ByteModes, ModeOf, Covers, Bytes
  <2> QED BY <1>3, <2>1 DEF Held, ModeOfOwner, Free, Bytes
<1>5. Held' \in [Owners -> [Bytes -> {"none", "read", "write"}]]
  <2>1. \A p \in Owners : Held'[p] \in [Bytes -> {"none", "read", "write"}]
    BY <1>0, <1>h, FieldModes DEF Free
  <2> QED BY <2>1 DEF Held
<1>6. ASSUME NEW p \in Owners \ {o}
      PROVE  /\ Held'[p] = Held[p]
             /\ \A b \in Bytes : ~LockTable!Excludes(Held'[o][b], Held[p][b])
  <2>1. CASE Over(p)
    BY <1>h, <2>1 DEF Free, LockTable!Excludes
  <2>2. CASE Valid(SessionOf[p])
    <3>1. /\ table'[p] = table[p]
          /\ \A b \in Bytes : ~LockTable!Excludes(ByteModes(table'[o])[b], ByteModes(table'[p])[b])
      <4>1. \A b \in Bytes :
              /\ table'[p] = table[p]
              /\ ~LockTable!Excludes(ByteModes(table'[o])[b], ByteModes(table'[p])[b])
        BY <1>0, <1>2, <2>2, CommitExcludes
      <4>2. 0 \in Bytes
        BY MaxByteAssumption DEF Bytes
      <4> QED BY <4>1, <4>2
    <3>2. ~Over(p) /\ ~Over(o)
      BY <1>2, <2>2 DEF Over
    <3> QED BY <1>h, <3>1, <3>2
  <2>3. CASE ~Over(p) /\ ~Valid(SessionOf[p])
    <3>1. S(p).phase = "none"
      BY <2>3 DEF Over
    <3>2. table[p] = <<>>
      BY <1>0, <3>1 DEF Unopened
    <3>3. table'[p] = <<>>
      BY <1>0, <1>1, <3>2, NextTableExact
    <3>4. Held[p] = Free /\ Held'[p] = Free
      BY <1>h, <2>3, <3>2, <3>3, NoRecords
    <3> QED BY <3>4 DEF Free, LockTable!Excludes
  <2> QED BY <2>1, <2>2, <2>3
<1> QED BY <1>4, <1>5, <1>6 DEF Relocks

\* Every other step leaves the hash alone or empties it.
LEMMA RecordsOnlyByCommit ==
    ASSUME TableInv, [Next]_vars
    PROVE  \/ \E o \in Owners : Frame(o) /\ Commit(o)
           \/ table' = table
           \/ table' = Empty
<1>0. Shape /\ Typed
  BY DEF TableInv, IInv
<1>1. ASSUME NEW o \in Owners, Ask(o) \/ Step(o) \/ GiveUp(o)
      PROVE  (Frame(o) /\ Commit(o)) \/ table' = table
  <2>1. Frame(o) /\ (Quiet(o) \/ Opens(o) \/ Commit(o))
    BY <1>0, <1>1, OwnerEffect
  <2> QED BY <2>1 DEF Quiet, Opens
<1>2. ASSUME NEW t \in Sessions,
             NewNative(t) \/ Renew(t) \/ Close(t) \/ Crash(t) \/ BarrierPause(t)
               \/ BarrierStep(t) \/ BarrierCancelled(t)
      PROVE  table' = table
  BY <1>0, <1>2, MountMoves DEF MountTyped
<1>3. CASE Tick \/ Replace \/ UNCHANGED vars
  BY <1>3 DEF Tick, Replace, StoreTable, vars
<1> QED BY <1>1, <1>2, <1>3 DEF Next

\* They end owners, with what they held, or forget what owners hold.
LEMMA OthersEnd ==
    ASSUME TableInv, [Next]_vars, table' = table \/ table' = Empty
    PROVE  \E forgotten : Ends(forgotten)
<1>1. Dead \subseteq Dead'
  BY DeadStays
<1>2. Dead' \subseteq Owners
  BY DEF Dead
<1>h. Held' = [o \in Owners |-> IF Over(o)' THEN Free ELSE ByteModes(table'[o])]
  BY DEF Held, ModeOfOwner, Free, Bytes, ByteModes, ModeOf, Covers
<1>3. CASE table' = Empty
  <2>1. \A o \in Owners : ByteModes(table'[o]) = Free
    BY <1>3, NoRecords DEF Empty
  <2>2. Ends(Owners)
    BY <1>1, <1>2, <1>h, <2>1 DEF Ends
  <2> QED BY <2>2
<1>4. CASE table' = table
  <2>1. ASSUME NEW o \in Owners
        PROVE  (IF Over(o)' THEN Free ELSE ByteModes(table'[o]))
                 = (IF o \in Dead' THEN Free ELSE Held[o])
    <3>1. Over(o)' <=> o \in Dead'
      BY DEF Dead
    <3>2. ~Over(o)' => Held[o] = ByteModes(table[o])
      BY <1>1, <3>1 DEF Dead, Held, ModeOfOwner
    <3> QED BY <1>4, <3>1, <3>2
  <2>2. Ends(Dead')
    BY <1>1, <1>2, <1>h, <2>1 DEF Ends
  <2> QED BY <2>2
<1> QED BY <1>3, <1>4

\* The lock hash with its leases is a lock table: what living owners hold never
\* conflicts, whatever the order of their transactions; a step changes the
\* locks of one living owner, or ends owners for good, or empties the table.
THEOREM LockTableImplemented == Spec => ImplementsLockTable
<1>1. TableInv /\ TableInv' /\ [Next]_vars => [LockTable!Next]_LockTable!vars
  <2> SUFFICES ASSUME TableInv, TableInv', [Next]_vars PROVE LockTable!Next
    OBVIOUS
  <2>1. CASE \E o \in Owners : Frame(o) /\ Commit(o)
    BY <2>1, CommitRelocks, AbstractSteps
  <2>2. CASE table' = table \/ table' = Empty
    BY <2>2, OthersEnd, AbstractSteps
  <2> QED BY <2>1, <2>2, RecordsOnlyByCommit
<1> QED BY <1>1, AbstractInit, TableInvariant, PTL DEF Spec, ImplementsLockTable, LockTable!Spec
=============================================================================
