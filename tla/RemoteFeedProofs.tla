--------------------------- MODULE RemoteFeedProofs ---------------------------
(***************************************************************************)
(* No change that other clients publish is forgotten, for any number of    *)
(* paths, changes and faults, any channel, batch and retention.  A change  *)
(* may wait on the wire, in the stream, in a batch, in the channel or for  *)
(* a sweep, and every step moves some of them on; the invariant says of    *)
(* each position of the journal who will still hear of it: up to the       *)
(* cursor, and up to where a replay has come, the daemon itself; in a      *)
(* batch, the pump; after the last batch, the subscriber.  A daemon        *)
(* without a cursor replays nothing; it has what its subscription          *)
(* delivered.                                                              *)
(***************************************************************************)
EXTENDS RemoteFeed, FiniteSetTheorems, WellFoundedInduction, TLAPS

\* What a daemon will compare by itself, without another word from Redis.
Kept(p) == \/ p \in dropped \cup spilled
           \/ InQueue(p) \/ sweep \/ p \in scan

\* A position of the journal that the subscriber will still hear of, if only by
\* the replay that follows a confirmation.
Heard(k) == ~linked \/ \E i \in DOMAIN wire : wire[i] \in {0, k}

\* Up to the cursor, and up to where a replay has come, nothing is left that the
\* daemon does not know of.
KnownUpTo(k) == \A p \in Paths : Unseen(p) /\ Latest(p) <= k => Kept(p)

\* The entries of a batch follow one another; what the batch left out, because
\* it was trimmed, was given up; what came after a last batch is heard of.
BatchInv ==
    pump.todo # <<>> =>
        /\ Replaying /\ pump.last < pump.todo[1]
        /\ \A i \in DOMAIN pump.todo : pump.todo[i] = pump.todo[1] + i - 1
        /\ \A p \in Paths, k \in pump.last + 1 .. pump.todo[1] - 1 :
              Concerns(k, p) /\ seen[p] < k => p \in dropped
        /\ ~pump.full => \A k \in Last(pump.todo) + 1 .. Len(journal) : Heard(k)

\* A pump that has not subscribed yet is not subscribed, and one that listens
\* has no replay in progress.
PumpInv ==
    /\ pump.at \in {"reconcile", "startup"} => ~linked
    /\ pump.at \in {"reconcile", "listening"} => pump.last = 0 /\ pump.todo = <<>>
    /\ pump.at = "replaying" => pump.last # 0

CursorInv ==
    /\ cursor # 0 /\ disk # 0 /\ first \in 1 .. Len(journal)
    /\ KnownUpTo(cursor)
    /\ Replaying => KnownUpTo(pump.last)

-----------------------------------------------------------------------------
(* The latest change of a path.                                            *)

\* A non-empty set of numbers has a least one; a bounded one has a greatest.
LEMMA LeastNumber ==
    ASSUME NEW T, T \subseteq Nat, T # {}
    PROVE  \E m \in T : \A k \in T : m <= k
<1>1. PICK x \in T : \A y \in T : <<y, x>> \notin OpToRel(<, Nat)
  BY NatLessThanWellFounded, WFMin
<1>2. \A y \in T : ~(y < x)
  BY <1>1 DEF OpToRel
<1>3. \A y \in T : x <= y
  <2> SUFFICES ASSUME NEW y \in T PROVE x <= y
    OBVIOUS
  <2>1. x \in Nat /\ y \in Nat
    OBVIOUS
  <2> QED BY <1>2, <2>1
<1> QED BY <1>3

LEMMA GreatestNumber ==
    ASSUME NEW n \in Nat, NEW T, T \subseteq 1 .. n, T # {}
    PROVE  Max(T) \in T /\ \A k \in T : k <= Max(T)
<1> DEFINE Mirror == {n - k : k \in T}
<1>1. Mirror \subseteq Nat /\ Mirror # {}
  <2>1. \A k \in T : n - k \in Nat
    OBVIOUS
  <2>2. PICK k \in T : TRUE
    OBVIOUS
  <2>3. n - k \in Mirror
    OBVIOUS
  <2> QED BY <2>1, <2>3
<1>2. PICK m \in Mirror : \A k \in Mirror : m <= k
  BY <1>1, LeastNumber
<1>3. PICK x \in T : m = n - x
  BY <1>2
<1>4. \A k \in T : x >= k
  BY <1>2, <1>3
<1>5. \E y \in T : \A k \in T : y >= k
  BY <1>3, <1>4
<1>6. Max(T) \in T /\ \A k \in T : Max(T) >= k
  BY <1>5 DEF Max
<1> QED BY <1>6

LEMMA LatestIs ==
    ASSUME Len(journal) \in Nat, NEW p
    PROVE  /\ Latest(p) \in 0 .. Len(journal)
           /\ Latest(p) # 0 => Concerns(Latest(p), p)
           /\ \A k \in 1 .. Len(journal) : Concerns(k, p) => k <= Latest(p)
<1>1. CASE Changes(p) = {}
  BY <1>1 DEF Latest, Changes
<1>2. CASE Changes(p) # {}
  <2>1. Latest(p) = Max(Changes(p)) /\ Changes(p) \subseteq 1 .. Len(journal)
    BY <1>2 DEF Latest, Changes
  <2>2. Max(Changes(p)) \in Changes(p) /\ \A k \in Changes(p) : k <= Max(Changes(p))
    BY <1>2, <2>1, GreatestNumber
  <2> QED BY <2>1, <2>2 DEF Changes
<1> QED BY <1>1, <1>2

LEMMA SameJournal ==
    ASSUME journal' = journal
    PROVE  /\ Len(journal)' = Len(journal)
           /\ \A p : Latest(p)' = Latest(p)
           /\ \A k, p : Concerns(k, p)' <=> Concerns(k, p)
BY DEF Latest, Changes, Concerns

\* What a new entry is to a path.
LEMMA Published ==
    ASSUME journal \in Seq(Events), NEW e \in Events, journal' = Append(journal, e)
    PROVE  /\ Len(journal') = Len(journal) + 1 /\ Len(journal) \in Nat
           /\ \A k \in 1 .. Len(journal) : \A p : Concerns(k, p)' <=> Concerns(k, p)
           /\ \A p : e \in {p, Everything}
                 => Concerns(Len(journal), p)' /\ Latest(p)' = Len(journal')
           /\ \A p : e \notin {p, Everything} => Latest(p)' = Latest(p)
<1>1. /\ Len(journal') = Len(journal) + 1 /\ Len(journal) \in Nat
      /\ journal'[Len(journal')] = e
      /\ \A k \in 1 .. Len(journal) : journal'[k] = journal[k]
  OBVIOUS
<1>2. \A k \in 1 .. Len(journal) : \A p : Concerns(k, p)' <=> Concerns(k, p)
  BY <1>1 DEF Concerns
<1>3. \A p : e \in {p, Everything} => Concerns(Len(journal), p)'
  BY <1>1 DEF Concerns
<1>4. ASSUME NEW p, e \notin {p, Everything}
      PROVE  Latest(p)' = Latest(p)
  <2>1. Changes(p)' = Changes(p)
    BY <1>1, <1>4 DEF Changes, Concerns
  <2> QED BY <2>1 DEF Latest
<1>5. ASSUME NEW p, e \in {p, Everything}
      PROVE  Latest(p)' = Len(journal')
  <2> DEFINE T == Changes(p)'
             n == Len(journal')
  <2>1. n \in T /\ T \subseteq 1 .. n /\ n \in Nat
    BY <1>1, <1>3, <1>5 DEF Changes
  <2>2. Latest(p)' = Max(T)
    BY <2>1 DEF Latest
  <2> HIDE DEF T, n
  <2>3. Max(T) \in T /\ \A k \in T : k <= Max(T)
    BY <2>1, GreatestNumber
  <2>4. Max(T) \in 1 .. n /\ n <= Max(T)
    BY <2>1, <2>3
  <2>5. Max(T) = n
    BY <2>1, <2>4
  <2> QED BY <2>2, <2>5 DEF n
<1> QED BY <1>1, <1>2, <1>3, <1>4, <1>5

-----------------------------------------------------------------------------
(* Types.                                                                  *)

USE DEF remote, link, state, sweeper, local

LEMMA LargerSeq ==
    ASSUME NEW S, NEW T, S \subseteq T, NEW q \in Seq(S)
    PROVE  q \in Seq(T)
OBVIOUS

LEMMA EmptySeq == \A S : <<>> \in Seq(S)
OBVIOUS

\* The channel never holds more than it can; what does not fit names paths.
LEMMA SendIs ==
    ASSUME TypeOK, NEW e \in Events, Send(e)
    PROVE  /\ queue' \in Seq(Events) /\ Len(queue') <= QueueSize
           /\ spilled' \subseteq Paths
           /\ \A i \in DOMAIN queue : i \in DOMAIN queue' /\ queue'[i] = queue[i]
           /\ spilled \subseteq spilled' \/ spilled # {}
           /\ \A p \in Paths : e \in {p, Everything}
                 => p \in spilled' \/ \E i \in DOMAIN queue' : queue'[i] \in {p, Everything}
<1>1. queue \in Seq(Events) /\ Len(queue) <= QueueSize /\ spilled \subseteq Paths
  BY DEF TypeOK
<1>2. CASE Len(queue) < QueueSize
  <2>1. queue' = Append(queue, e) /\ spilled' = spilled
    BY <1>2 DEF Send
  <2>2. Len(queue) + 1 \in DOMAIN queue' /\ queue'[Len(queue) + 1] = e
    BY <1>1, <2>1
  <2>3. QueueSize \in Nat
    BY FeedConstants
  <2>4. queue' \in Seq(Events) /\ Len(queue') <= QueueSize
    BY <1>1, <1>2, <2>1, <2>3
  <2>5. \A i \in DOMAIN queue : i \in DOMAIN queue' /\ queue'[i] = queue[i]
    BY <1>1, <2>1
  <2> QED BY <1>1, <2>1, <2>2, <2>4, <2>5
<1>3. CASE ~(Len(queue) < QueueSize)
  <2>1. queue' = queue /\ spilled' = Named(e)
    BY <1>3 DEF Send
  <2>2. Named(e) \subseteq Paths /\ \A p \in Paths : e \in {p, Everything} => p \in Named(e)
    BY FeedConstants DEF Named, Events
  <2> QED BY <1>1, <2>1, <2>2
<1> QED BY <1>2, <1>3

\* A batch is a run of entries from the oldest one on; one that is not full goes
\* to the end of the journal.
LEMMA BatchIs ==
    ASSUME TypeOK, NextBatch
    PROVE  /\ pump'.at = pump.at /\ pump'.last = pump.last
           /\ pump' \in [at : Positions, last : 0 .. Len(journal),
                         todo : Seq(1 .. Len(journal)), full : BOOLEAN]
           /\ pump'.todo # <<>> /\ pump'.todo[1] = Oldest /\ Oldest \in Nat
           /\ \A i \in DOMAIN pump'.todo : pump'.todo[i] = Oldest + i - 1
           /\ ~pump'.full => Last(pump'.todo) = Len(journal)
<1>1. /\ Len(journal) \in Nat /\ first \in Nat /\ pump.last \in Nat
      /\ BatchSize \in Nat \ {0}
  BY FeedConstants DEF TypeOK
<1>2. Oldest \in Nat \ {0}
  BY <1>1 DEF Oldest, Behind
<1> DEFINE size == Len(journal) + 1 - Oldest
           n == IF Len(Next500) < BatchSize THEN Len(Next500) ELSE BatchSize
<1>3. /\ size \in Nat \ {0} /\ Next500 \in Seq(1 .. Len(journal)) /\ Len(Next500) = size
      /\ \A i \in 1 .. size : Next500[i] = Oldest + i - 1
  <2>1. Next500 # <<>>
    BY DEF NextBatch
  <2>2. size \in Int /\ DOMAIN Next500 = 1 .. size
    BY <1>1, <1>2 DEF Next500
  <2>3. size > 0
    <3>1. CASE size <= 0
      <4>1. Next500 = <<>>
        BY <2>2, <3>1 DEF Next500
      <4> QED BY <2>1, <4>1
    <3> QED BY <2>2, <3>1
  <2>4. \A i \in 1 .. size : Next500[i] = Oldest + i - 1 /\ Next500[i] \in 1 .. Len(journal)
    BY <1>1, <1>2 DEF Next500
  <2>5. Next500 = [i \in 1 .. size |-> Next500[i]]
    BY <2>4 DEF Next500
  <2>6. Next500 \in Seq(1 .. Len(journal)) /\ Len(Next500) = size
    BY <2>2, <2>3, <2>4, <2>5
  <2> QED BY <2>2, <2>3, <2>4, <2>6
<1>4. n \in 1 .. size /\ (n # BatchSize => n = size)
  BY <1>1, <1>3
<1> DEFINE batch == SubSeq(Next500, 1, n)
<1>5. /\ batch \in Seq(1 .. Len(journal)) /\ Len(batch) = n /\ batch # <<>>
      /\ \A i \in 1 .. n : batch[i] = Oldest + i - 1
  BY <1>3, <1>4
<1>6. pump' = [pump EXCEPT !.todo = batch, !.full = n = BatchSize]
  BY DEF NextBatch
<1> HIDE DEF n, batch
<1>7. /\ pump'.at = pump.at /\ pump'.last = pump.last /\ pump'.todo = batch
      /\ pump'.full \in BOOLEAN /\ (pump'.full <=> n = BatchSize)
      /\ pump' \in [at : Positions, last : 0 .. Len(journal),
                    todo : Seq(1 .. Len(journal)), full : BOOLEAN]
  BY <1>5, <1>6 DEF TypeOK
<1>8. n = size => Last(batch) = Len(journal)
  <2>1. n \in 1 .. n /\ n \in Nat
    BY <1>3, <1>4
  <2>2. Last(batch) = Oldest + n - 1
    BY <1>5, <2>1 DEF Last
  <2> QED BY <1>1, <1>2, <2>2
<1> QED BY <1>2, <1>4, <1>5, <1>7, <1>8

LEMMA PumpTyped ==
    ASSUME TypeOK, NEW position \in Positions
    PROVE  /\ Pump(position) \in [at : Positions, last : 0 .. Len(journal),
                                  todo : Seq(1 .. Len(journal)), full : BOOLEAN]
           /\ Resume(position)
                => pump' \in [at : Positions, last : 0 .. Len(journal),
                              todo : Seq(1 .. Len(journal)), full : BOOLEAN]
<1>1. Len(journal) \in Nat /\ cursor \in 0 .. Len(journal) /\ "listening" \in Positions
  BY DEF TypeOK, Positions
<1>2. \A at \in Positions : Pump(at) \in [at : Positions, last : 0 .. Len(journal),
                               todo : Seq(1 .. Len(journal)), full : BOOLEAN]
  BY <1>1 DEF Pump
<1>3. Resume(position)
        => pump' \in [at : Positions, last : 0 .. Len(journal),
                      todo : Seq(1 .. Len(journal)), full : BOOLEAN]
  BY <1>1, <1>2 DEF Resume
<1> QED BY <1>2, <1>3

\* A step other than a publication leaves the journal alone.
LEMMA JournalOf ==
    ASSUME [Next]_vars, ~\E e \in Events : Publish(e)
    PROVE  journal' = journal /\ first' = first
BY DEF Next, Disconnect, Subscribe, PumpStep, EndReconcile, StartUp, Confirmed, Receive, ReadBatch,
       Replay, SendSweep, Flush, Handle, ControlStep, BeginSweep, Scan, ScanFails, Restart, vars

LEMMA PublishTyped ==
    ASSUME TypeOK, NEW e \in Events, Publish(e)
    PROVE  TypeOK'
<1>1. /\ Len(journal) \in Nat /\ journal' = Append(journal, e) /\ first \in Nat
      /\ journal' \in Seq(Events) /\ Len(journal') = Len(journal) + 1
      /\ UNCHANGED <<linked, cursor, disk, pump, spilled, queue, sweep, scan, seen, dropped, faults>>
      /\ missed' \subseteq Paths
  BY FeedConstants DEF Publish, Named, Events, TypeOK
<1>2. 0 .. Len(journal) \subseteq 0 .. Len(journal') /\ 1 .. Len(journal) \subseteq 1 .. Len(journal')
      /\ Len(journal') \in 0 .. Len(journal')
  BY <1>1
<1>3. first' \in Nat
  BY <1>1 DEF Publish
<1>4. wire' \in Seq(0 .. Len(journal'))
  <2>1. wire \in Seq(0 .. Len(journal'))
    BY <1>2, LargerSeq DEF TypeOK
  <2>2. wire' = wire \/ wire' = Append(wire, Len(journal'))
    BY DEF Publish
  <2> QED BY <1>2, <2>1, <2>2
<1>5. pump' \in [at : Positions, last : 0 .. Len(journal'), todo : Seq(1 .. Len(journal')),
                 full : BOOLEAN]
  <2>1. pump.todo \in Seq(1 .. Len(journal'))
    BY <1>2, LargerSeq DEF TypeOK
  <2> QED BY <1>1, <1>2, <2>1 DEF TypeOK
<1>6. seen' \in [Paths -> 0 .. Len(journal')]
  BY <1>1, <1>2 DEF TypeOK
<1> QED BY <1>1, <1>2, <1>3, <1>4, <1>5, <1>6 DEF TypeOK

LEMMA CompareTyped ==
    ASSUME TypeOK, NEW p \in Paths, Compare(p)
    PROVE  /\ seen' \in [Paths -> 0 .. Len(journal)]
           /\ dropped' \subseteq Paths /\ missed' \subseteq Paths
<1>1. Latest(p) \in 0 .. Len(journal)
  BY LatestIs DEF TypeOK
<1> QED BY <1>1 DEF Compare, TypeOK

\* Types are kept by the network and by the pump.
LEMMA PumpStepTyped ==
    ASSUME TypeOK, Disconnect \/ Subscribe \/ PumpStep \/ Flush
    PROVE  TypeOK'
<1>0. /\ journal \in Seq(Events) /\ Len(journal) \in Nat /\ wire \in Seq(0 .. Len(journal))
      /\ {"startup", "listening", "replaying"} \subseteq Positions
  BY DEF TypeOK, Positions
<1>1. CASE Disconnect
  <2>1. wire' \in Seq(0 .. Len(journal))
    BY <1>0, <1>1 DEF Disconnect
  <2>2. faults' \in 0 .. MaxFaults
    BY <1>1, FeedConstants DEF Disconnect, Broken, TypeOK
  <2>3. missed' \subseteq Paths
    BY <1>1 DEF Disconnect, TypeOK
  <2> QED BY <1>1, <2>1, <2>2, <2>3 DEF Disconnect, TypeOK
<1>2. CASE Subscribe
  <2>1. wire' \in Seq(0 .. Len(journal))
    BY <1>0, <1>2 DEF Subscribe
  <2> QED BY <1>2, <2>1 DEF Subscribe, TypeOK
<1>3. CASE EndReconcile
  BY <1>0, <1>3, PumpTyped DEF EndReconcile, TypeOK
<1>4. CASE StartUp
  BY <1>0, <1>4, PumpTyped DEF StartUp, TypeOK
<1>5. CASE Confirmed
  <2>1. wire' \in Seq(0 .. Len(journal))
    BY <1>0, <1>5 DEF Confirmed
  <2> QED BY <1>0, <1>5, <2>1, PumpTyped DEF Confirmed, TypeOK
<1>6. CASE Receive
  <2>1. wire' \in Seq(0 .. Len(journal)) /\ Head(wire) \in 1 .. Len(journal)
    BY <1>0, <1>6 DEF Receive
  <2>2. journal[Head(wire)] \in Events /\ Send(journal[Head(wire)])
    BY <1>0, <1>6, <2>1 DEF Receive
  <2> QED BY <1>6, <2>1, <2>2, SendIs DEF Receive, TypeOK
<1>7. CASE ReadBatch
  <2>1. pump' \in [at : Positions, last : 0 .. Len(journal), todo : Seq(1 .. Len(journal)),
                   full : BOOLEAN]
    BY <1>0, <1>7, PumpTyped, BatchIs DEF ReadBatch, GiveUpReplay
  <2>2. dropped' \subseteq Paths
    BY <1>7 DEF ReadBatch, Skipped, TypeOK
  <2>3. sweep' \in BOOLEAN
    BY <1>7 DEF ReadBatch, GiveUpReplay, NextBatch, TypeOK
  <2>4. faults' \in 0 .. MaxFaults
    BY <1>7, FeedConstants DEF ReadBatch, Broken, NoFault, TypeOK
  <2> QED BY <1>7, <2>1, <2>2, <2>3, <2>4 DEF ReadBatch, TypeOK
<1>8. CASE Replay
  <2>1. /\ Head(pump.todo) \in 1 .. Len(journal) /\ Tail(pump.todo) \in Seq(1 .. Len(journal))
        /\ journal[Head(pump.todo)] \in Events /\ Send(journal[Head(pump.todo)])
    <3> DEFINE todo == pump.todo
    <3>1. todo \in Seq(1 .. Len(journal)) /\ todo # <<>>
      BY <1>8 DEF Replay, TypeOK
    <3>2. Head(todo) \in 1 .. Len(journal) /\ Tail(todo) \in Seq(1 .. Len(journal))
      <4> HIDE DEF todo
      <4> QED BY <3>1
    <3>3. journal[Head(todo)] \in Events
      <4> HIDE DEF todo
      <4> QED BY <1>0, <3>2
    <3>4. Send(journal[Head(todo)])
      BY <1>8 DEF Replay
    <3> QED BY <3>2, <3>3, <3>4
  <2>2. cursor' \in 0 .. Len(journal)
    BY <1>8, <2>1 DEF Replay, TypeOK
  <2>3. pump' \in [at : Positions, last : 0 .. Len(journal), todo : Seq(1 .. Len(journal)),
                   full : BOOLEAN]
    <3>1. Pump("listening") \in [at : Positions, last : 0 .. Len(journal),
                                 todo : Seq(1 .. Len(journal)), full : BOOLEAN]
      BY <1>0, PumpTyped
    <3>2. /\ pump.at \in Positions /\ pump.full \in BOOLEAN
          /\ pump \in [at : Positions, last : 0 .. Len(journal),
                      todo : Seq(1 .. Len(journal)), full : BOOLEAN]
      BY DEF TypeOK
    <3>3. \A k \in 0 .. Len(journal), rest \in Seq(1 .. Len(journal)) :
             [pump EXCEPT !.todo = rest, !.last = k]
               \in [at : Positions, last : 0 .. Len(journal),
                   todo : Seq(1 .. Len(journal)), full : BOOLEAN]
      BY <3>2
    <3> DEFINE k == Head(pump.todo)
               rest == Tail(pump.todo)
    <3>4. pump' = Pump("listening") \/ pump' = [pump EXCEPT !.todo = rest, !.last = k]
      BY <1>8 DEF Replay
    <3>5. k \in 0 .. Len(journal) /\ rest \in Seq(1 .. Len(journal))
      BY <2>1
    <3> HIDE DEF k, rest
    <3> QED BY <3>1, <3>3, <3>4, <3>5
  <2> QED BY <1>8, <2>1, <2>2, <2>3, SendIs DEF Replay, TypeOK
<1>9. CASE SendSweep
  <2>1. queue' \in Seq(Events) /\ Len(queue') <= QueueSize
    <3>1. queue \in Seq(Events) /\ Everything \in Events /\ QueueSize \in Nat
      BY FeedConstants DEF TypeOK, Events
    <3>2. Len(queue) <= QueueSize
      BY DEF TypeOK
    <3>3. CASE Len(queue) < QueueSize /\ queue' = Append(queue, Everything)
      BY <3>1, <3>3
    <3>4. CASE queue' = queue
      BY <3>1, <3>2, <3>4
    <3> QED BY <1>9, <3>3, <3>4 DEF SendSweep
  <2> QED BY <1>9, <2>1 DEF SendSweep, TypeOK
<1>10. CASE Flush
  BY <1>10 DEF Flush, TypeOK
<1> QED BY <1>1, <1>2, <1>3, <1>4, <1>5, <1>6, <1>7, <1>8, <1>9, <1>10 DEF PumpStep

LEMMA ControlTyped ==
    ASSUME TypeOK, Handle \/ ControlStep \/ ScanFails \/ Restart
    PROVE  TypeOK'
<1>1. CASE Handle
  <2>1. queue' \in Seq(Events) /\ Len(queue') <= QueueSize /\ Head(queue) \in Events
    BY <1>1, FeedConstants DEF Handle, TypeOK
  <2>2. faults' \in 0 .. MaxFaults
    BY <1>1, FeedConstants DEF Handle, Broken, NoFault, TypeOK
  <2>3. /\ seen' \in [Paths -> 0 .. Len(journal)]
        /\ dropped' \subseteq Paths /\ missed' \subseteq Paths
    BY <1>1, <2>1, CompareTyped DEF Handle, Events, TypeOK
  <2>4. sweep' \in BOOLEAN
    BY <1>1 DEF Handle, TypeOK
  <2> QED BY <1>1, <2>1, <2>2, <2>3, <2>4 DEF Handle, TypeOK
<1>2. CASE BeginSweep
  BY <1>2 DEF BeginSweep, TypeOK
<1>3. ASSUME NEW p \in Paths, Scan(p) PROVE TypeOK'
  BY <1>3, CompareTyped DEF Scan, TypeOK
<1>4. CASE ScanFails
  <2>1. faults' \in 0 .. MaxFaults
    BY <1>4, FeedConstants DEF ScanFails, Broken, TypeOK
  <2> QED BY <1>4, <2>1 DEF ScanFails, Again, TypeOK
<1>5. CASE Restart
  <2>1. faults' \in 0 .. MaxFaults
    BY <1>5, FeedConstants DEF Restart, Broken, TypeOK
  <2>2. pump' \in [at : Positions, last : 0 .. Len(journal), todo : Seq(1 .. Len(journal)),
                   full : BOOLEAN]
    BY <1>5, PumpTyped DEF Restart, Positions
  <2>3. queue' \in Seq(Events) /\ Len(queue') <= QueueSize
    BY <1>5, FeedConstants DEF Restart
  <2>4. wire' \in Seq(0 .. Len(journal)) /\ linked' \in BOOLEAN /\ sweep' \in BOOLEAN
    BY <1>5, EmptySeq DEF Restart
  <2>5. journal' = journal /\ first' = first /\ disk' = disk /\ seen' = seen
        /\ dropped' = dropped /\ missed' = missed
    BY <1>5 DEF Restart
  <2>6. cursor' \in 0 .. Len(journal) /\ spilled' \subseteq Paths /\ scan' \subseteq Paths
    BY <1>5 DEF Restart, TypeOK
  <2> QED BY <2>1, <2>2, <2>3, <2>4, <2>5, <2>6 DEF TypeOK
<1> QED BY <1>1, <1>2, <1>3, <1>4, <1>5 DEF ControlStep

LEMMA TypeStep == TypeOK /\ [Next]_vars => TypeOK'
<1>1. TypeOK /\ UNCHANGED vars => TypeOK'
  BY DEF TypeOK, vars
<1> QED BY <1>1, PublishTyped, PumpStepTyped, ControlTyped DEF Next

LEMMA TypeInit == Init => TypeOK
<1> SUFFICES ASSUME Init PROVE TypeOK
  OBVIOUS
<1>1. journal \in Seq(Events) /\ Len(journal) \in Nat /\ Cursor \in 0 .. Len(journal)
  BY FeedConstants DEF Init, Events
<1>2. pump \in [at : Positions, last : 0 .. Len(journal), todo : Seq(1 .. Len(journal)),
                full : BOOLEAN]
  BY <1>1 DEF Init, Pump, Positions
<1>3. seen \in [Paths -> 0 .. Len(journal)]
  BY <1>1 DEF Init
<1>4. queue \in Seq(Events) /\ Len(queue) <= QueueSize /\ faults \in 0 .. MaxFaults
  BY FeedConstants DEF Init
<1>5. wire \in Seq(0 .. Len(journal)) /\ linked \in BOOLEAN /\ sweep \in BOOLEAN
  BY EmptySeq DEF Init
<1>6. first \in Nat /\ cursor \in 0 .. Len(journal) /\ disk \in 0 .. Len(journal)
  BY <1>1 DEF Init
<1>7. /\ spilled \subseteq Paths /\ dropped \subseteq Paths
      /\ missed \subseteq Paths /\ scan \subseteq Paths
  BY DEF Init
<1> QED BY <1>1, <1>2, <1>3, <1>4, <1>5, <1>6, <1>7 DEF TypeOK

\* Every reachable state is well-typed; the channel stays within its capacity.
THEOREM FeedIsTyped == Spec => []TypeOK
BY TypeInit, TypeStep, PTL DEF Spec

-----------------------------------------------------------------------------
(* What the daemon knows of stays known.                                   *)

\* A path is marked as compared with its latest change or not at all, and only a
\* comparison takes back that one of its events was dropped, or one missed.
LEMMA SeenOf ==
    ASSUME TypeOK, Next, ~\E e \in Events : Publish(e), NEW p \in Paths
    PROVE  \/ /\ seen'[p] = seen[p] /\ (p \in dropped => p \in dropped')
              /\ p \in missed => p \in missed'
           \/ seen'[p] = Latest(p)
<1>1. ASSUME NEW q \in Paths, Compare(q)
      PROVE  \/ /\ seen'[p] = seen[p] /\ (p \in dropped => p \in dropped')
                /\ p \in missed => p \in missed'
             \/ seen'[p] = Latest(p)
  BY <1>1 DEF Compare, TypeOK
<1>2. Handle => \/ seen' = seen /\ dropped \subseteq dropped' /\ missed \subseteq missed'
                \/ \E q \in Paths : Compare(q)
  <2>1. queue # <<>> => Head(queue) \in Events
    BY DEF TypeOK
  <2> QED BY <2>1 DEF Handle, Events
<1>3. \/ seen' = seen /\ dropped \subseteq dropped' /\ missed \subseteq missed'
      \/ \E q \in Paths : Compare(q)
  BY <1>2 DEF Next, Disconnect, Subscribe, PumpStep, EndReconcile, StartUp, Confirmed, Receive,
       ReadBatch, Replay, SendSweep, Flush, ControlStep, BeginSweep, Scan, ScanFails, Restart
<1> QED BY <1>1, <1>3

\* A change that was not compared before a publication was not compared after it.
LEMMA StillUnseen ==
    ASSUME TypeOK, Next, ~\E e \in Events : Publish(e), NEW p \in Paths, Unseen(p)'
    PROVE  /\ Unseen(p) /\ seen'[p] = seen[p]
           /\ p \in dropped => p \in dropped'
           /\ p \in missed => p \in missed'
<1>1. Latest(p)' = Latest(p) /\ Latest(p) \in Nat
  <2>1. Latest(p) \in 0 .. Len(journal) /\ Len(journal) \in Nat
    BY LatestIs DEF TypeOK
  <2> QED BY <2>1, SameJournal, JournalOf
<1>2. seen'[p] < Latest(p)
  BY <1>1 DEF Unseen
<1>3. seen'[p] # Latest(p)
  BY <1>1, <1>2
<1> QED BY <1>2, <1>3, SeenOf DEF Unseen

\* The channel gives up its head only.
LEMMA HandleIs ==
    ASSUME TypeOK, Handle, NEW p \in Paths, InQueue(p)
    PROVE  InQueue(p)' \/ Head(queue) \in {p, Everything}
<1>1. queue \in Seq(Events) /\ queue # <<>> /\ queue' = Tail(queue)
  BY DEF Handle, TypeOK
<1>2. PICK i \in DOMAIN queue : queue[i] \in {p, Everything}
  BY DEF InQueue
<1>3. CASE i = 1
  BY <1>1, <1>2, <1>3
<1>4. CASE i # 1
  <2>1. i - 1 \in DOMAIN queue' /\ queue'[i - 1] = queue[i]
    BY <1>1, <1>2, <1>4
  <2> QED BY <1>2, <2>1 DEF InQueue
<1> QED BY <1>3, <1>4

\* What leaves the channel is compared, dropped or becomes a sweep; a sweep that
\* fails is asked for again.
LEMMA KeptStays ==
    ASSUME TypeOK, Next, NEW p \in Paths, Kept(p), Unseen(p)'
    PROVE  Kept(p)'
<1>1. ASSUME NEW e \in Events, Publish(e)
      PROVE  Kept(p)'
  BY <1>1 DEF Publish, Kept, InQueue
<1> SUFFICES ASSUME ~\E e \in Events : Publish(e)
             PROVE  Kept(p)'
  BY <1>1
<1>2. seen'[p] = seen[p] /\ (p \in dropped => p \in dropped')
  BY StillUnseen
<1>3. ~Compare(p)
  <2>1. Latest(p)' = Latest(p) /\ Latest(p) \in Nat
    <3>1. Latest(p) \in 0 .. Len(journal) /\ Len(journal) \in Nat
      BY LatestIs DEF TypeOK
    <3> QED BY <3>1, SameJournal, JournalOf
  <2>2. ~(seen'[p] = Latest(p))
    BY <2>1 DEF Unseen
  <2> QED BY <2>2 DEF Compare, TypeOK
<1>4. CASE Disconnect \/ Subscribe \/ EndReconcile \/ StartUp \/ Confirmed \/ Flush
  BY <1>4 DEF Disconnect, Subscribe, EndReconcile, StartUp, Confirmed, Flush, Kept, InQueue
<1>5. CASE Receive \/ Replay
  <2>1. PICK e \in Events : Send(e)
    <3>1. CASE Receive
      <4>1. wire \in Seq(0 .. Len(journal)) /\ wire # <<>> /\ Head(wire) # 0
        BY <3>1 DEF Receive, TypeOK
      <4>2. Head(wire) \in 1 .. Len(journal) /\ Len(journal) \in Nat
        BY <4>1 DEF TypeOK
      <4>3. journal[Head(wire)] \in Events
        BY <4>2 DEF TypeOK
      <4> QED BY <3>1, <4>3 DEF Receive
    <3>2. CASE Replay
      <4> DEFINE todo == pump.todo
      <4>1. todo \in Seq(1 .. Len(journal)) /\ todo # <<>>
        BY <3>2 DEF Replay, TypeOK
      <4>2. Send(journal[Head(todo)])
        BY <3>2 DEF Replay
      <4> HIDE DEF todo
      <4>3. Head(todo) \in 1 .. Len(journal) /\ Len(journal) \in Nat
        BY <4>1 DEF TypeOK
      <4>4. journal[Head(todo)] \in Events
        BY <4>3 DEF TypeOK
      <4> QED BY <4>2, <4>4
    <3> QED BY <1>5, <3>1, <3>2
  <2>2. InQueue(p) => InQueue(p)'
    BY <2>1, SendIs DEF InQueue
  <2>3. spilled = {} /\ sweep' = sweep /\ scan' = scan /\ dropped' = dropped
    BY <1>5 DEF Receive, Replay
  <2> QED BY <2>2, <2>3 DEF Kept
<1>6. CASE ReadBatch
  <2>1. spilled' = spilled /\ queue' = queue /\ scan' = scan
    BY <1>6 DEF ReadBatch
  <2>2. sweep => sweep'
    BY <1>6 DEF ReadBatch, GiveUpReplay, NextBatch
  <2> QED BY <1>2, <2>1, <2>2 DEF Kept, InQueue
<1>7. CASE SendSweep
  <2>1. InQueue(p) => InQueue(p)'
    <3>1. queue \in Seq(Events)
      BY DEF TypeOK
    <3> QED BY <1>7, <3>1 DEF SendSweep, InQueue
  <2>2. p \in spilled => p \in dropped' \/ InQueue(p)'
    <3>1. CASE queue' = Append(queue, Everything)
      <4>1. queue \in Seq(Events)
        BY DEF TypeOK
      <4>2. Len(queue) + 1 \in DOMAIN queue' /\ queue'[Len(queue) + 1] = Everything
        BY <3>1, <4>1
      <4> QED BY <4>2 DEF InQueue
    <3> QED BY <1>7, <3>1 DEF SendSweep
  <2>3. sweep' = sweep /\ scan' = scan
    BY <1>7 DEF SendSweep
  <2> QED BY <1>2, <2>1, <2>2, <2>3 DEF Kept
<1>8. CASE Handle
  <2>1. InQueue(p) => InQueue(p)' \/ sweep' \/ p \in dropped'
    <3>1. InQueue(p) => InQueue(p)' \/ Head(queue) \in {p, Everything}
      BY <1>8, HandleIs
    <3>2. Head(queue) = Everything => sweep'
      BY <1>8 DEF Handle
    <3>3. Head(queue) = p => p \in dropped'
      BY <1>3, <1>8, FeedConstants DEF Handle
    <3> QED BY <3>1, <3>2, <3>3
  <2>2. spilled' = spilled /\ scan' = scan /\ (sweep => sweep')
    BY <1>8 DEF Handle
  <2> QED BY <1>2, <2>1, <2>2 DEF Kept
<1>9. CASE BeginSweep
  BY <1>9 DEF BeginSweep, Kept, InQueue
<1>10. ASSUME NEW q \in Paths, Scan(q)
       PROVE  Kept(p)'
  BY <1>2, <1>3, <1>10 DEF Scan, Kept, InQueue
<1>11. CASE ScanFails
  BY <1>11 DEF ScanFails, Again, Kept, InQueue
<1>12. CASE Restart
  BY <1>12 DEF Restart, Kept
<1> QED BY <1>4, <1>5, <1>6, <1>7, <1>8, <1>9, <1>10, <1>11, <1>12 DEF Next, PumpStep, ControlStep

\* What is known up to a position of the journal stays known.
LEMMA KnownStays ==
    ASSUME TypeOK, Next, NEW k \in 0 .. Len(journal), KnownUpTo(k)
    PROVE  \A p \in Paths : Unseen(p)' /\ Latest(p)' <= k => Kept(p)'
<1> SUFFICES ASSUME NEW p \in Paths, Unseen(p)', Latest(p)' <= k
             PROVE  Kept(p)'
  OBVIOUS
<1>1. Latest(p) \in 0 .. Len(journal) /\ Len(journal) \in Nat
  BY LatestIs DEF TypeOK
<1>2. ASSUME NEW e \in Events, Publish(e)
      PROVE  Unseen(p) /\ Latest(p) <= k
  <2>1. journal \in Seq(Events) /\ journal' = Append(journal, e) /\ seen' = seen
    BY <1>2 DEF Publish, TypeOK
  <2>2. e \notin {p, Everything}
    <3>1. e \in {p, Everything} => Latest(p)' = Len(journal) + 1
      BY <2>1, Published
    <3> QED BY <1>1, <3>1
  <2>3. Latest(p)' = Latest(p)
    BY <2>1, <2>2, Published
  <2> QED BY <2>1, <2>3 DEF Unseen
<1>3. ASSUME ~\E e \in Events : Publish(e)
      PROVE  Unseen(p) /\ Latest(p) <= k
  BY <1>3, StillUnseen, SameJournal, JournalOf
<1>4. Kept(p)
  BY <1>2, <1>3 DEF KnownUpTo
<1> QED BY <1>4, KeptStays

-----------------------------------------------------------------------------
(* The pump.                                                               *)

PumpInvariant == TypeOK /\ BatchInv /\ PumpInv /\ CursorInv

\* A pump that starts to listen, or to replay, has no batch.
LEMMA NoBatch ==
    ASSUME TypeOK, CursorInv, NEW position \in {"startup", "replaying"}, Resume(position)
    PROVE  pump'.todo = <<>> /\ pump'.at = position /\ pump'.last = cursor
<1>1. cursor # 0
  BY DEF CursorInv
<1> QED BY <1>1 DEF Resume, Pump

\* A head that is taken leaves a run of entries behind.
LEMMA RunOf ==
    ASSUME NEW n \in Nat, NEW todo \in Seq(1 .. n), todo # <<>>,
           \A i \in DOMAIN todo : todo[i] = todo[1] + i - 1
    PROVE  /\ Head(todo) = todo[1] /\ todo[1] \in 1 .. n
           /\ Tail(todo) = <<>> => Last(todo) = todo[1]
           /\ Tail(todo) # <<>> =>
                 /\ Tail(todo)[1] = todo[1] + 1 /\ Last(Tail(todo)) = Last(todo)
                 /\ \A i \in DOMAIN Tail(todo) : Tail(todo)[i] = Tail(todo)[1] + i - 1
<1>1. Len(todo) \in Nat \ {0} /\ DOMAIN todo = 1 .. Len(todo) /\ todo[1] \in 1 .. n
  OBVIOUS
<1>2. Tail(todo) = <<>> => Last(todo) = todo[1]
  BY <1>1 DEF Last
<1>3. ASSUME Tail(todo) # <<>>
      PROVE  /\ Tail(todo)[1] = todo[1] + 1 /\ Last(Tail(todo)) = Last(todo)
             /\ \A i \in DOMAIN Tail(todo) : Tail(todo)[i] = Tail(todo)[1] + i - 1
  <2>1. Len(todo) > 1 /\ Len(Tail(todo)) = Len(todo) - 1
    BY <1>1, <1>3
  <2>2. \A i \in 1 .. Len(todo) - 1 : Tail(todo)[i] = todo[i + 1]
    BY <1>1, <2>1
  <2>3. \A i \in 1 .. Len(todo) - 1 : Tail(todo)[i] = todo[1] + i
    <3> SUFFICES ASSUME NEW i \in 1 .. Len(todo) - 1
                 PROVE  Tail(todo)[i] = todo[1] + i
      OBVIOUS
    <3> DEFINE x == todo[1]
               y == Tail(todo)[i]
    <3>1. i + 1 \in DOMAIN todo /\ y = todo[i + 1]
      BY <1>1, <2>2
    <3>2. y = x + (i + 1) - 1
      BY <3>1
    <3>3. x \in Nat /\ i \in Nat
      BY <1>1
    <3> HIDE DEF x, y
    <3>4. y = x + i
      BY <3>2, <3>3
    <3> QED BY <3>4 DEF x, y
  <2>4. Last(Tail(todo)) = Last(todo)
    BY <1>1, <2>1, <2>2 DEF Last
  <2> QED BY <1>1, <2>1, <2>3, <2>4
<1> QED BY <1>1, <1>2, <1>3

\* What the entries of a batch left out stays given up.
LEMMA GapStays ==
    ASSUME TypeOK, Next, NEW p \in Paths, NEW k \in 1 .. Len(journal), Concerns(k, p)',
           seen'[p] < k, Concerns(k, p) /\ seen[p] < k => p \in dropped
    PROVE  p \in dropped'
<1>1. ASSUME NEW e \in Events, Publish(e)
      PROVE  p \in dropped'
  <2>1. journal \in Seq(Events) /\ journal' = Append(journal, e) /\ seen' = seen
        /\ dropped' = dropped
    BY <1>1 DEF Publish, TypeOK
  <2>2. Concerns(k, p)
    BY <2>1, Published
  <2> QED BY <2>1, <2>2
<1>2. ASSUME ~\E e \in Events : Publish(e)
      PROVE  p \in dropped'
  <2>1. Concerns(k, p)
    BY <1>2, JournalOf, SameJournal
  <2>2. k <= Latest(p) /\ Latest(p) \in Nat /\ k \in Nat
    <3>1. Len(journal) \in Nat
      BY DEF TypeOK
    <3> QED BY <2>1, <3>1, LatestIs
  <2>3. seen'[p] # Latest(p)
    BY <2>2
  <2> QED BY <1>2, <2>1, <2>3, SeenOf
<1> QED BY <1>1, <1>2

\* What the subscriber hears of, it hears of until it listens.
LEMMA HeardStays ==
    ASSUME TypeOK, Next, NEW k, Heard(k), ~Confirmed, ~Receive, ~Restart
    PROVE  Heard(k)'
<1>1. wire \in Seq(0 .. Len(journal)) /\ Len(journal) \in Nat
  BY DEF TypeOK
<1>2. ASSUME NEW x, wire' = Append(wire, x), linked' = linked
      PROVE  Heard(k)'
  <2>1. \A i \in DOMAIN wire : i \in DOMAIN wire' /\ wire'[i] = wire[i]
    BY <1>1, <1>2
  <2> QED BY <1>2, <2>1 DEF Heard
<1>3. ASSUME NEW e \in Events, Publish(e)
      PROVE  Heard(k)'
  <2>1. CASE linked
    BY <1>2, <1>3, <2>1 DEF Publish
  <2>2. CASE ~linked
    BY <1>3, <2>2 DEF Publish, Heard
  <2> QED BY <2>1, <2>2
<1>4. CASE Subscribe
  <2>1. wire' = Append(wire, 0)
    BY <1>4 DEF Subscribe
  <2>2. Len(wire) + 1 \in DOMAIN wire' /\ wire'[Len(wire) + 1] = 0
    BY <1>1, <2>1
  <2> QED BY <2>2 DEF Heard
<1>5. CASE Disconnect
  BY <1>5 DEF Disconnect, Heard
<1>6. CASE UNCHANGED link
  BY <1>6 DEF Heard
<1> QED BY <1>3, <1>4, <1>5, <1>6 DEF Next, PumpStep, EndReconcile, StartUp, ReadBatch, Replay,
      SendSweep, Flush, Handle, ControlStep, BeginSweep, Scan, ScanFails

LEMMA PumpInvStep ==
    ASSUME PumpInvariant, Next
    PROVE  PumpInv'
<1>1. TypeOK /\ PumpInv /\ CursorInv
  BY DEF PumpInvariant
<1>2. CASE EndReconcile
  BY <1>1, <1>2 DEF EndReconcile, Pump, PumpInv, At
<1>3. CASE StartUp
  <2>1. pump'.at = "startup"
    BY <1>1, <1>3, NoBatch DEF StartUp
  <2> QED BY <1>1, <1>3, <2>1 DEF StartUp, PumpInv, At
<1>4. CASE Confirmed
  <2>1. pump'.at = "replaying" /\ pump'.last = cursor
    BY <1>1, <1>4, NoBatch DEF Confirmed
  <2> QED BY <1>1, <2>1 DEF CursorInv, PumpInv
<1>5. CASE ReadBatch
  <2>1. CASE NextBatch
    <3>1. pump'.at = pump.at /\ pump'.last = pump.last
      BY <1>1, <2>1, BatchIs
    <3> QED BY <1>1, <1>5, <3>1 DEF ReadBatch, Replaying, PumpInv
  <2>2. CASE pump' = Pump("listening")
    BY <2>2 DEF Pump, PumpInv
  <2> QED BY <1>5, <2>1, <2>2 DEF ReadBatch, GiveUpReplay
<1>6. CASE Replay
  <2> DEFINE todo == pump.todo
  <2>1. CASE pump' = Pump("listening")
    BY <2>1 DEF Pump, PumpInv
  <2>2. CASE pump' = [pump EXCEPT !.todo = Tail(pump.todo), !.last = Head(pump.todo)]
    <3>1. todo \in Seq(1 .. Len(journal)) /\ todo # <<>> /\ Len(journal) \in Nat
      BY <1>1, <1>6 DEF Replay, TypeOK
    <3>2. Head(todo) # 0
      <4> HIDE DEF todo
      <4> QED BY <3>1
    <3>3. pump'.at = pump.at /\ pump'.last = Head(todo)
      BY <1>1, <2>2 DEF TypeOK
    <3> QED BY <1>1, <1>6, <3>2, <3>3 DEF Replay, Replaying, PumpInv
  <2> QED BY <1>6, <2>1, <2>2 DEF Replay
<1>7. CASE Restart
  BY <1>7 DEF Restart, Pump, PumpInv
<1>8. CASE Subscribe
  BY <1>1, <1>8 DEF Subscribe, PumpInv
<1>9. ASSUME pump' = pump, linked' => linked
      PROVE  PumpInv'
  BY <1>1, <1>9 DEF PumpInv
<1> QED BY <1>2, <1>3, <1>4, <1>5, <1>6, <1>7, <1>8, <1>9 DEF Next, PumpStep, Publish, Disconnect,
      Receive, SendSweep, Flush, Handle, ControlStep, BeginSweep, Scan, ScanFails

\* A batch starts where the replay has come to, or where the stream does if what is
\* missing was given up; its end is the end of the journal or what is heard of.
LEMMA BatchInvStep ==
    ASSUME PumpInvariant, Next
    PROVE  BatchInv'
<1>1. TypeOK /\ BatchInv /\ PumpInv /\ CursorInv
  BY DEF PumpInvariant
<1>2. pump.todo \in Seq(1 .. Len(journal)) /\ Len(journal) \in Nat /\ pump.last \in Nat
  BY <1>1 DEF TypeOK
<1>3. CASE pump'.todo = <<>>
  BY <1>3 DEF BatchInv
<1>4. ASSUME pump' = pump, pump.todo # <<>>
      PROVE  BatchInv'
  <2>1. /\ Replaying /\ pump.last < pump.todo[1]
        /\ \A i \in DOMAIN pump.todo : pump.todo[i] = pump.todo[1] + i - 1
    BY <1>1, <1>4 DEF BatchInv
  <2>2. pump.todo[1] \in 1 .. Len(journal) /\ Last(pump.todo) \in 1 .. Len(journal)
    <3> DEFINE todo == pump.todo
    <3>1. todo \in Seq(1 .. Len(journal)) /\ todo # <<>>
      BY <1>2, <1>4
    <3>2. todo[1] \in 1 .. Len(journal) /\ Last(todo) \in 1 .. Len(journal)
      <4> HIDE DEF todo
      <4> QED BY <3>1 DEF Last
    <3> QED BY <3>2
  <2>3. ASSUME NEW p \in Paths, NEW k \in pump.last + 1 .. pump.todo[1] - 1,
               Concerns(k, p)', seen'[p] < k
        PROVE  p \in dropped'
    <3>1. k \in 1 .. Len(journal)
      BY <1>2, <2>2, <2>3
    <3>2. Concerns(k, p) /\ seen[p] < k => p \in dropped
      BY <1>1, <1>4, <2>3 DEF BatchInv
    <3> QED BY <1>1, <2>3, <3>1, <3>2, GapStays
  <2>4. ASSUME ~pump.full, NEW k \in Last(pump.todo) + 1 .. Len(journal)'
        PROVE  Heard(k)'
    <3>1. CASE k \in 1 .. Len(journal)
      <4>1. Heard(k)
        BY <1>1, <1>4, <2>2, <2>4, <3>1 DEF BatchInv
      <4>2. ~Confirmed /\ ~Receive /\ ~Restart
        BY <1>1, <1>4, <2>1 DEF Confirmed, Receive, Restart, At, Pump, Replaying
      <4> QED BY <1>1, <4>1, <4>2, HeardStays
    <3>2. CASE k \notin 1 .. Len(journal)
      <4>1. PICK e \in Events : Publish(e)
        BY <2>2, <2>4, <3>2, JournalOf
      <4>2. journal \in Seq(Events) /\ journal' = Append(journal, e)
        BY <1>1, <4>1 DEF Publish, TypeOK
      <4>3. Len(journal') = Len(journal) + 1
        BY <4>2
      <4>4. k = Len(journal')
        BY <1>2, <2>2, <2>4, <3>2, <4>3
      <4>5. CASE linked
        <5>1. wire' = Append(wire, k) /\ wire \in Seq(0 .. Len(journal))
          BY <1>1, <4>1, <4>4, <4>5 DEF Publish, TypeOK
        <5>2. Len(wire) + 1 \in DOMAIN wire' /\ wire'[Len(wire) + 1] = k
          BY <5>1
        <5> QED BY <5>2 DEF Heard
      <4>6. CASE ~linked
        BY <4>1, <4>6 DEF Publish, Heard
      <4> QED BY <4>5, <4>6
    <3> QED BY <3>1, <3>2
  <2> QED BY <1>4, <2>1, <2>3, <2>4 DEF BatchInv, Replaying
<1>5. CASE ReadBatch /\ NextBatch
  <2>1. /\ pump'.at = pump.at /\ pump'.last = pump.last /\ Oldest \in Nat
        /\ pump'.todo # <<>> /\ pump'.todo[1] = Oldest
        /\ \A i \in DOMAIN pump'.todo : pump'.todo[i] = Oldest + i - 1
        /\ ~pump'.full => Last(pump'.todo) = Len(journal)
    BY <1>1, <1>5, BatchIs
  <2>2. journal' = journal /\ seen' = seen /\ Replaying /\ first \in Nat
    BY <1>1, <1>5 DEF ReadBatch, TypeOK
  <2>3. pump.last < Oldest
    BY <1>2, <2>2 DEF Oldest, Behind
  <2>4. ASSUME NEW p \in Paths, NEW k \in pump.last + 1 .. Oldest - 1, Concerns(k, p)
        PROVE  p \in dropped'
    <3>1. Behind /\ Oldest = first
      BY <1>2, <2>2, <2>4 DEF Oldest, Behind
    <3>2. p \in Skipped
      BY <2>4, <3>1 DEF Skipped
    <3>3. Next500 # <<>>
      BY <1>5 DEF NextBatch
    <3>4. pump' # Pump("listening")
      BY <2>1 DEF Pump
    <3>5. dropped' = dropped \cup Skipped
      BY <1>5, <3>1, <3>3, <3>4 DEF ReadBatch, GiveUpReplay
    <3> QED BY <3>2, <3>5
  <2>5. \A k, p : Concerns(k, p)' <=> Concerns(k, p)
    BY <2>2, SameJournal
  <2>6. ~pump'.full => Last(pump'.todo) + 1 .. Len(journal)' = {}
    BY <1>2, <2>1, <2>2
  <2> QED BY <2>1, <2>2, <2>3, <2>4, <2>5, <2>6 DEF BatchInv, Replaying
<1>6. CASE Replay /\ pump'.todo # <<>>
  <2> DEFINE todo == pump.todo
             rest == Tail(todo)
  <2>1. /\ todo \in Seq(1 .. Len(journal)) /\ todo # <<>>
        /\ \A i \in DOMAIN todo : todo[i] = todo[1] + i - 1
    BY <1>1, <1>6 DEF Replay, BatchInv, TypeOK
  <2>2. pump' = [pump EXCEPT !.todo = rest, !.last = Head(todo)]
    BY <1>6 DEF Replay, Pump
  <2>3. /\ pump'.at = pump.at /\ pump'.last = Head(todo) /\ pump'.todo = rest
        /\ pump'.full = pump.full
    BY <1>1, <2>2 DEF TypeOK
  <2>4. /\ Head(todo) = todo[1] /\ todo[1] \in 1 .. Len(journal)
        /\ rest[1] = todo[1] + 1 /\ Last(rest) = Last(todo)
        /\ \A i \in DOMAIN rest : rest[i] = rest[1] + i - 1
    <3> HIDE DEF todo
    <3> QED BY <1>2, <1>6, <2>1, <2>3, RunOf
  <2>5. journal' = journal /\ wire' = wire /\ linked' = linked /\ Replaying
    BY <1>6 DEF Replay
  <2>6. ~pump.full => \A k \in Last(rest) + 1 .. Len(journal) : Heard(k)'
    BY <1>1, <2>1, <2>4, <2>5 DEF BatchInv, Heard
  <2>7. pump'.last < rest[1] /\ pump'.last + 1 .. rest[1] - 1 = {} /\ pump'.last # 0
    <3> DEFINE x == todo[1]
               y == rest[1]
    <3>1. pump'.last = x /\ x \in Nat \ {0} /\ y = x + 1
      <4> HIDE DEF todo, rest
      <4> QED BY <1>2, <2>3, <2>4
    <3> HIDE DEF x, y
    <3>2. pump'.last < y /\ pump'.last + 1 .. y - 1 = {} /\ pump'.last # 0
      BY <3>1
    <3> QED BY <3>2 DEF y
  <2> HIDE DEF todo, rest
  <2> QED BY <2>3, <2>4, <2>5, <2>6, <2>7 DEF BatchInv, Replaying
<1>7. \/ pump' = pump \/ pump'.todo = <<>>
      \/ ReadBatch /\ NextBatch
      \/ Replay /\ pump'.todo # <<>>
  <2>1. CASE EndReconcile \/ Restart
    BY <2>1 DEF EndReconcile, Restart, Pump
  <2>2. CASE StartUp \/ Confirmed
    BY <1>1, <2>2, NoBatch DEF StartUp, Confirmed
  <2>3. CASE ReadBatch
    BY <2>3 DEF ReadBatch, GiveUpReplay, Pump
  <2>4. CASE Replay
    BY <2>4
  <2> QED BY <2>1, <2>2, <2>3, <2>4 DEF Next, PumpStep, Publish, Disconnect, Subscribe, Receive,
        SendSweep, Flush, Handle, ControlStep, BeginSweep, Scan, ScanFails
<1> QED BY <1>3, <1>4, <1>5, <1>6, <1>7

\* An entry of a batch that is dispatched is known of, and so is what the batch
\* left out before it.
LEMMA ReplayKnows ==
    ASSUME PumpInvariant, Next, Replay
    PROVE  \A p \in Paths : Unseen(p)' /\ Latest(p)' <= Head(pump.todo) => Kept(p)'
<1> DEFINE todo == pump.todo
           k == Head(todo)
<1>1. TypeOK /\ BatchInv /\ PumpInv /\ CursorInv
  BY DEF PumpInvariant
<1>2. /\ todo \in Seq(1 .. Len(journal)) /\ todo # <<>> /\ Len(journal) \in Nat
      /\ \A i \in DOMAIN todo : todo[i] = todo[1] + i - 1
      /\ pump.last < todo[1] /\ pump.last \in 0 .. Len(journal) /\ Replaying
  BY <1>1 DEF Replay, BatchInv, TypeOK
<1>3. k = todo[1] /\ k \in 1 .. Len(journal)
  <2> HIDE DEF todo
  <2> QED BY <1>2, RunOf
<1>4. SUFFICES ASSUME NEW p \in Paths, Unseen(p)', Latest(p)' <= k
               PROVE  Kept(p)'
  OBVIOUS
<1>5. journal' = journal /\ seen' = seen /\ dropped' = dropped /\ spilled = {}
      /\ Send(journal[k])
  BY DEF Replay
<1>6. Latest(p) <= k /\ Latest(p)' = Latest(p) /\ Unseen(p)
  BY <1>4, <1>5, SameJournal DEF Unseen
<1>7. /\ Latest(p) \in 0 .. Len(journal) /\ seen[p] < Latest(p) /\ seen[p] \in Nat
      /\ Concerns(Latest(p), p)
  <2>1. Latest(p) \in 0 .. Len(journal) /\ (Latest(p) # 0 => Concerns(Latest(p), p))
    BY <1>2, LatestIs
  <2>2. seen[p] \in Nat
    BY <1>1 DEF TypeOK
  <2> QED BY <1>6, <2>1, <2>2 DEF Unseen
<1>8. CASE Latest(p) <= pump.last
  <2>1. KnownUpTo(pump.last)
    BY <1>1, <1>2 DEF CursorInv
  <2> QED BY <1>1, <1>2, <1>4, <1>6, <1>8, <2>1, KnownStays
<1>9. CASE Latest(p) \in pump.last + 1 .. todo[1] - 1
  <2>1. p \in dropped
    BY <1>1, <1>2, <1>7, <1>9 DEF BatchInv
  <2> QED BY <1>5, <2>1 DEF Kept
<1>10. CASE Latest(p) = k
  <2>1. journal[k] \in Events /\ journal[k] \in {p, Everything}
    BY <1>1, <1>3, <1>7, <1>10 DEF Concerns, TypeOK
  <2>2. p \in spilled' \/ \E i \in DOMAIN queue' : queue'[i] \in {p, Everything}
    BY <1>1, <1>5, <2>1, SendIs
  <2> QED BY <2>2 DEF Kept, InQueue
<1> HIDE DEF k, todo
<1>11. Latest(p) <= pump.last \/ Latest(p) \in pump.last + 1 .. todo[1] - 1 \/ Latest(p) = k
  BY <1>2, <1>3, <1>6, <1>7
<1> QED BY <1>8, <1>9, <1>10, <1>11

LEMMA CursorInvStep ==
    ASSUME PumpInvariant, Next
    PROVE  CursorInv'
<1>1. TypeOK /\ BatchInv /\ PumpInv /\ CursorInv
  BY DEF PumpInvariant
<1>2. /\ cursor \in 1 .. Len(journal) /\ disk # 0 /\ first \in 1 .. Len(journal)
      /\ Len(journal) \in Nat /\ pump.last \in 0 .. Len(journal)
  BY <1>1 DEF CursorInv, TypeOK
<1>3. first' \in 1 .. Len(journal)'
  <2>1. ASSUME NEW e \in Events, Publish(e)
        PROVE  first' \in 1 .. Len(journal)'
    BY <1>2, <2>1 DEF Publish
  <2> QED BY <1>2, <2>1, JournalOf
<1>4. CASE Replay
  <2> DEFINE todo == pump.todo
             k == Head(todo)
  <2>1. todo \in Seq(1 .. Len(journal)) /\ todo # <<>>
    BY <1>1, <1>4 DEF Replay, TypeOK
  <2>2. k \in 1 .. Len(journal)
    <3> HIDE DEF todo
    <3> QED BY <2>1
  <2>3. disk' = disk /\ (cursor' = cursor \/ cursor' = k)
        /\ (pump' = Pump("listening") \/ pump' = [pump EXCEPT !.todo = Tail(todo), !.last = k])
    BY <1>4 DEF Replay
  <2>4. \A p \in Paths : Unseen(p)' /\ Latest(p)' <= k => Kept(p)'
    BY <1>4, ReplayKnows
  <2>5. \A p \in Paths : Unseen(p)' /\ Latest(p)' <= cursor => Kept(p)'
    BY <1>1, <1>2, KnownStays DEF CursorInv
  <2>6. cursor' # 0 /\ \A p \in Paths : Unseen(p)' /\ Latest(p)' <= cursor' => Kept(p)'
    BY <1>2, <2>2, <2>3, <2>4, <2>5
  <2>7. Replaying' => pump'.last = k
    <3>1. CASE pump' = Pump("listening")
      BY <3>1 DEF Pump, Replaying
    <3>2. CASE pump' = [pump EXCEPT !.todo = Tail(todo), !.last = k]
      <4>1. pump \in [at : Positions, last : 0 .. Len(journal), todo : Seq(1 .. Len(journal)),
                     full : BOOLEAN]
        BY <1>1 DEF TypeOK
      <4> HIDE DEF k, todo
      <4> QED BY <3>2, <4>1
    <3> QED BY <2>3, <3>1, <3>2
  <2> QED BY <1>2, <1>3, <2>3, <2>4, <2>6, <2>7 DEF CursorInv, KnownUpTo
<1>5. CASE Restart
  <2>1. cursor' = disk /\ disk' = disk /\ scan' = Paths /\ ~Replaying'
    BY <1>5 DEF Restart, Pump, Replaying
  <2> QED BY <1>2, <1>3, <2>1 DEF CursorInv, KnownUpTo, Kept
<1>6. CASE ~Replay /\ ~Restart
  <2>1. cursor' = cursor /\ disk' \in {disk, cursor}
    BY <1>6 DEF Next, PumpStep, Publish, Disconnect, Subscribe, EndReconcile, StartUp, Confirmed,
         Receive, ReadBatch, SendSweep, Flush, Handle, ControlStep, BeginSweep, Scan, ScanFails
  <2>2. \A p \in Paths : Unseen(p)' /\ Latest(p)' <= cursor => Kept(p)'
    BY <1>1, <1>2, KnownStays DEF CursorInv
  <2>3. Replaying' => \/ pump'.last = cursor
                      \/ Replaying /\ pump'.last = pump.last
    <3>1. CASE EndReconcile
      BY <3>1 DEF EndReconcile, Pump, Replaying
    <3>2. CASE StartUp \/ Confirmed
      <4>1. Resume("startup") \/ Resume("replaying")
        BY <3>2 DEF StartUp, Confirmed
      <4>2. ASSUME NEW at \in {"startup", "replaying"}, Resume(at)
            PROVE  pump'.last = cursor
        BY <1>1, <4>2, NoBatch
      <4>3. pump'.last = cursor
        BY <4>1, <4>2, Zenon
      <4> QED BY <4>3
    <3>3. CASE ReadBatch
      <4>1. CASE NextBatch
        BY <1>1, <3>3, <4>1, BatchIs DEF ReadBatch
      <4>2. CASE pump' = Pump("listening")
        BY <4>2 DEF Pump, Replaying
      <4> QED BY <3>3, <4>1, <4>2 DEF ReadBatch, GiveUpReplay
    <3>4. CASE pump' = pump
      BY <3>4 DEF Replaying
    <3> QED BY <1>6, <3>1, <3>2, <3>3, <3>4 DEF Next, PumpStep, Publish, Disconnect, Subscribe,
          Receive, SendSweep, Flush, Handle, ControlStep, BeginSweep, Scan, ScanFails
  <2>4. Replaying => \A p \in Paths : Unseen(p)' /\ Latest(p)' <= pump.last => Kept(p)'
    BY <1>1, <1>2, KnownStays DEF CursorInv
  <2> QED BY <1>2, <1>3, <2>1, <2>2, <2>3, <2>4 DEF CursorInv, KnownUpTo
<1> QED BY <1>4, <1>5, <1>6

LEMMA PumpInvariantStep == PumpInvariant /\ [Next]_vars => PumpInvariant'
<1>1. ASSUME PumpInvariant, UNCHANGED vars
      PROVE  PumpInvariant'
  <2>1. TypeOK'
    BY <1>1, TypeStep DEF PumpInvariant
  <2>2. /\ \A p : Latest(p)' = Latest(p)
        /\ \A k, p : Concerns(k, p)' <=> Concerns(k, p)
    BY <1>1, SameJournal DEF vars
  <2>3. BatchInv'
    BY <1>1, <2>2 DEF PumpInvariant, BatchInv, Replaying, Heard, vars
  <2>4. PumpInv'
    BY <1>1 DEF PumpInvariant, PumpInv, vars
  <2>5. CursorInv'
    BY <1>1, <2>2 DEF PumpInvariant, CursorInv, KnownUpTo, Unseen, Kept, InQueue, Replaying, vars
  <2> QED BY <2>1, <2>3, <2>4, <2>5 DEF PumpInvariant
<1>2. PumpInvariant /\ Next => PumpInvariant'
  <2> SUFFICES ASSUME PumpInvariant, Next PROVE PumpInvariant'
    OBVIOUS
  <2>1. TypeOK'
    BY TypeStep DEF PumpInvariant
  <2> QED BY <2>1, BatchInvStep, PumpInvStep, CursorInvStep DEF PumpInvariant
<1> QED BY <1>1, <1>2

LEMMA PumpInvariantInit == cursor # 0 /\ Init => PumpInvariant
<1> SUFFICES ASSUME cursor # 0, Init PROVE PumpInvariant
  OBVIOUS
<1>1. TypeOK
  BY TypeInit
<1>2. BatchInv /\ PumpInv
  BY DEF Init, Pump, BatchInv, PumpInv
<1>3. cursor # 0 /\ disk # 0 /\ first \in 1 .. Len(journal)
  BY FeedConstants DEF Init
<1>4. (\A p \in Paths : Kept(p)) /\ ~Replaying
  BY DEF Init, Pump, Kept, Replaying
<1> QED BY <1>1, <1>2, <1>3, <1>4 DEF PumpInvariant, CursorInv, KnownUpTo

-----------------------------------------------------------------------------
(* Nothing is forgotten.                                                   *)

\* A message of the path, or a confirmation that brings a replay, is on the wire.
Awaited(p) == \E i \in DOMAIN wire : wire[i] = 0 \/ Concerns(wire[i], p)

Forthcoming(p) ==
    \/ Kept(p) \/ ~linked \/ Awaited(p)
    \/ Replaying /\ Latest(p) > pump.last

LEMMA HeardIsAwaited ==
    ASSUME NEW p, NEW k, Concerns(k, p), Heard(k)
    PROVE  ~linked \/ Awaited(p)
BY DEF Heard, Awaited, Concerns

\* What a subscriber hears of, it still hears of until it takes it from the wire.
LEMMA WireStays ==
    ASSUME TypeOK, Next, ~\E e \in Events : Publish(e), NEW p \in Paths,
           ~linked \/ Awaited(p), ~Confirmed, ~Receive, ~Restart
    PROVE  ~linked' \/ Awaited(p)'
<1>1. \A k : Concerns(k, p)' <=> Concerns(k, p)
  BY SameJournal, JournalOf
<1>2. wire \in Seq(0 .. Len(journal))
  BY DEF TypeOK
<1>3. CASE Subscribe
  <2>1. wire' = Append(wire, 0)
    BY <1>3 DEF Subscribe
  <2>2. Len(wire) + 1 \in DOMAIN wire' /\ wire'[Len(wire) + 1] = 0
    BY <1>2, <2>1
  <2> QED BY <2>2 DEF Awaited
<1>4. CASE Disconnect
  BY <1>4 DEF Disconnect
<1>5. CASE UNCHANGED link
  BY <1>1, <1>5 DEF Awaited
<1> QED BY <1>3, <1>4, <1>5 DEF Next, PumpStep, EndReconcile, StartUp, ReadBatch, Replay,
      SendSweep, Flush, Handle, ControlStep, BeginSweep, Scan, ScanFails

\* A message that is not the first one stays on the wire.
LEMMA TailOfWire ==
    ASSUME TypeOK, wire # <<>>, wire' = Tail(wire), journal' = journal, NEW p, Awaited(p)
    PROVE  Awaited(p)' \/ Head(wire) = 0 \/ Concerns(Head(wire), p)
<1>1. wire \in Seq(0 .. Len(journal))
  BY DEF TypeOK
<1>2. PICK i \in DOMAIN wire : wire[i] = 0 \/ Concerns(wire[i], p)
  BY DEF Awaited
<1>3. CASE i = 1
  BY <1>1, <1>2, <1>3
<1>4. CASE i # 1
  <2>1. i - 1 \in DOMAIN wire' /\ wire'[i - 1] = wire[i]
    BY <1>1, <1>2, <1>4
  <2>2. PICK k : k = wire[i]
    OBVIOUS
  <2>3. k = 0 \/ Concerns(k, p)'
    BY <1>2, <2>2, SameJournal
  <2> QED BY <2>1, <2>2, <2>3 DEF Awaited, Concerns
<1> QED BY <1>3, <1>4

\* A change that is published goes on the wire, if there is a subscriber.
LEMMA PublishTells ==
    ASSUME TypeOK, NEW e \in Events, Publish(e), NEW p \in Paths,
           Unseen(p) => Forthcoming(p), Unseen(p)'
    PROVE  Forthcoming(p)'
<1>1. /\ journal \in Seq(Events) /\ Len(journal) \in Nat /\ wire \in Seq(0 .. Len(journal))
      /\ journal' = Append(journal, e) /\ seen' = seen /\ linked' = linked /\ pump' = pump
  BY DEF Publish, TypeOK
<1>2. \A i \in DOMAIN wire : i \in DOMAIN wire' /\ wire'[i] = wire[i]
  BY <1>1 DEF Publish
<1>3. CASE e \in {p, Everything}
  <2>1. CASE linked
    <3>1. wire' = Append(wire, Len(journal'))
      BY <2>1 DEF Publish
    <3>2. Len(wire) + 1 \in DOMAIN wire' /\ wire'[Len(wire) + 1] = Len(journal)'
      BY <1>1, <3>1
    <3>3. Concerns(Len(journal), p)'
      BY <1>1, <1>3, Published
    <3> QED BY <3>2, <3>3 DEF Forthcoming, Awaited
  <2>2. CASE ~linked
    BY <1>1, <2>2 DEF Forthcoming
  <2> QED BY <2>1, <2>2
<1>4. CASE e \notin {p, Everything}
  <2>1. Latest(p)' = Latest(p)
    BY <1>1, <1>4, Published
  <2>2. Forthcoming(p)
    BY <1>1, <2>1 DEF Unseen
  <2>3. Kept(p) => Kept(p)'
    BY DEF Publish, Kept, InQueue
  <2>4. Awaited(p) => Awaited(p)'
    <3> SUFFICES ASSUME NEW i \in DOMAIN wire, wire[i] = 0 \/ Concerns(wire[i], p)
                 PROVE  Awaited(p)'
      BY DEF Awaited
    <3>1. PICK k : k = wire[i]
      OBVIOUS
    <3>2. k \in 0 .. Len(journal) /\ i \in DOMAIN wire' /\ wire'[i] = k
      BY <1>1, <1>2, <3>1
    <3>3. \A n \in 1 .. Len(journal) : Concerns(n, p)' <=> Concerns(n, p)
      BY <1>1, Published
    <3>4. k = 0 \/ (k \in 1 .. Len(journal) /\ Concerns(k, p))
      BY <1>1, <3>1, <3>2
    <3>5. k = 0 \/ Concerns(k, p)'
      BY <3>3, <3>4
    <3> QED BY <3>2, <3>5 DEF Awaited, Concerns
  <2> QED BY <1>1, <2>1, <2>2, <2>3, <2>4 DEF Forthcoming, Replaying
<1> QED BY <1>3, <1>4

\* A confirmation starts a replay from the cursor, behind which everything is known.
LEMMA ConfirmationReplays ==
    ASSUME PumpInvariant, CursorInv', Confirmed, NEW p \in Paths, Unseen(p)'
    PROVE  Forthcoming(p)'
<1>1. pump'.at = "replaying" /\ pump'.last = cursor /\ cursor # 0 /\ cursor' = cursor
  BY NoBatch DEF PumpInvariant, CursorInv, Confirmed
<1>2. CASE Latest(p)' <= cursor
  BY <1>1, <1>2 DEF CursorInv, KnownUpTo, Forthcoming
<1>3. CASE ~(Latest(p)' <= cursor)
  <2>1. cursor \in Nat /\ Latest(p)' \in Nat
    <3>1. TypeOK /\ journal' = journal /\ Len(journal) \in Nat
      BY DEF PumpInvariant, Confirmed, TypeOK
    <3>2. Latest(p)' = Latest(p) /\ Latest(p) \in 0 .. Len(journal)
      BY <3>1, SameJournal, LatestIs
    <3> QED BY <3>1, <3>2 DEF TypeOK
  <2> QED BY <1>1, <1>3, <2>1 DEF Forthcoming, Replaying
<1> QED BY <1>2, <1>3

\* A message that is taken from the wire reaches the channel.
LEMMA ReceptionTells ==
    ASSUME TypeOK, Next, Receive, NEW p \in Paths, Forthcoming(p), Unseen(p)'
    PROVE  Forthcoming(p)'
<1>1. /\ wire # <<>> /\ wire' = Tail(wire) /\ Head(wire) # 0 /\ linked' = linked
      /\ journal' = journal /\ Send(journal[Head(wire)]) /\ ~Replaying
  BY DEF Receive, At, Replaying
<1>2. CASE Kept(p)
  BY <1>2, KeptStays DEF Forthcoming
<1>3. CASE Awaited(p)
  <2>1. Awaited(p)' \/ Concerns(Head(wire), p)
    BY <1>1, <1>3, TailOfWire
  <2>2. Head(wire) \in 1 .. Len(journal)
    <3>1. wire \in Seq(0 .. Len(journal)) /\ wire # <<>>
      BY <1>1 DEF TypeOK
    <3> QED BY <1>1, <3>1
  <2>3. journal[Head(wire)] \in Events
    BY <2>2 DEF TypeOK
  <2>4. Concerns(Head(wire), p)
          => p \in spilled' \/ \E i \in DOMAIN queue' : queue'[i] \in {p, Everything}
    BY <1>1, <2>3, SendIs DEF Concerns
  <2> QED BY <2>1, <2>4 DEF Forthcoming, Kept, InQueue
<1> QED BY <1>1, <1>2, <1>3 DEF Forthcoming

\* A replay that ends found nothing further, asks for a sweep, or is not needed
\* because the daemon has not subscribed.
LEMMA BatchTells ==
    ASSUME PumpInvariant, Next, ReadBatch, NEW p \in Paths, Latest(p) > pump.last, Unseen(p)'
    PROVE  Forthcoming(p)'
<1>1. /\ journal' = journal /\ linked' = linked /\ Replaying /\ Latest(p)' = Latest(p)
      /\ Latest(p) \in 0 .. Len(journal) /\ pump.last \in Nat /\ Len(journal) \in Nat
      /\ first \in 1 .. Len(journal)
  <2>1. TypeOK /\ Len(journal) \in Nat
    BY DEF PumpInvariant, TypeOK
  <2>2. journal' = journal /\ linked' = linked /\ Replaying
    BY DEF ReadBatch
  <2> QED BY <2>1, <2>2, SameJournal, LatestIs DEF PumpInvariant, CursorInv, TypeOK
<1>2. CASE NextBatch
  <2>1. pump'.at = pump.at /\ pump'.last = pump.last
    BY <1>2, BatchIs DEF PumpInvariant
  <2> QED BY <1>1, <2>1 DEF Replaying, Forthcoming
<1>3. CASE GiveUpReplay
  BY <1>1, <1>3 DEF GiveUpReplay, PumpInvariant, PumpInv, Replaying, At, Forthcoming, Kept
<1>4. Next500 # <<>>
  <2>1. Oldest \in Nat /\ Oldest <= Len(journal)
    BY <1>1 DEF Oldest, Behind
  <2>2. 1 \in DOMAIN Next500
    BY <1>1, <2>1 DEF Next500
  <2> QED BY <2>2
<1> QED BY <1>2, <1>3, <1>4 DEF ReadBatch

\* What a replay has dispatched is known of, and what follows a last batch is heard
\* of.
LEMMA ReplayTells ==
    ASSUME PumpInvariant, Next, Replay, NEW p \in Paths, Unseen(p)'
    PROVE  Forthcoming(p)'
<1> DEFINE todo == pump.todo
           k == Head(todo)
<1>1. TypeOK /\ BatchInv
  BY DEF PumpInvariant
<1>2. /\ todo \in Seq(1 .. Len(journal)) /\ todo # <<>> /\ Len(journal) \in Nat /\ Replaying
      /\ \A i \in DOMAIN todo : todo[i] = todo[1] + i - 1
  BY <1>1 DEF Replay, BatchInv, TypeOK
<1>3. /\ k = todo[1] /\ k \in 1 .. Len(journal)
      /\ Tail(todo) = <<>> => Last(todo) = k
  <2> HIDE DEF todo
  <2> QED BY <1>2, RunOf
<1>4. journal' = journal /\ wire' = wire /\ linked' = linked
  BY DEF Replay
<1>5. /\ Latest(p)' = Latest(p) /\ Latest(p) \in 0 .. Len(journal)
      /\ Latest(p) # 0 => Concerns(Latest(p), p)
  BY <1>2, <1>4, SameJournal, LatestIs
<1>6. CASE Latest(p) <= k
  BY <1>5, <1>6, ReplayKnows DEF Forthcoming
<1>7. CASE Latest(p) > k
  <2>1. CASE pump' = [pump EXCEPT !.todo = Tail(todo), !.last = k]
    <3>1. pump'.at = pump.at /\ pump'.last = k
      <4>1. pump \in [at : Positions, last : 0 .. Len(journal), todo : Seq(1 .. Len(journal)),
                     full : BOOLEAN]
        BY <1>1 DEF TypeOK
      <4> HIDE DEF k, todo
      <4> QED BY <2>1, <4>1
    <3> HIDE DEF k, todo
    <3> QED BY <1>2, <1>3, <1>5, <1>7, <3>1 DEF Replaying, Forthcoming
  <2>2. CASE Tail(todo) = <<>> /\ ~pump.full
    <3>1. Last(todo) = k /\ Latest(p) \in k + 1 .. Len(journal) /\ Concerns(Latest(p), p)
      <4> HIDE DEF k, todo
      <4> QED BY <1>2, <1>3, <1>5, <1>7, <2>2
    <3>2. Heard(Latest(p))
      BY <1>1, <1>2, <2>2, <3>1 DEF BatchInv
    <3>3. ~linked \/ Awaited(p)
      BY <3>1, <3>2, HeardIsAwaited
    <3> QED BY <1>4, <3>3, SameJournal DEF Forthcoming, Awaited
  <2> QED BY <2>1, <2>2 DEF Replay
<1>8. Latest(p) <= k \/ Latest(p) > k
  <2> HIDE DEF k
  <2> QED BY <1>2, <1>3, <1>5
<1> QED BY <1>6, <1>7, <1>8

LEMMA ForthcomingStays ==
    ASSUME PumpInvariant, PumpInvariant', Next, NEW p \in Paths,
           Unseen(p) => Forthcoming(p), Unseen(p)'
    PROVE  Forthcoming(p)'
<1>1. TypeOK /\ CursorInv'
  BY DEF PumpInvariant
<1>2. ASSUME NEW e \in Events, Publish(e)
      PROVE  Forthcoming(p)'
  BY <1>1, <1>2, PublishTells
<1> SUFFICES ASSUME ~\E e \in Events : Publish(e)
             PROVE  Forthcoming(p)'
  BY <1>2
<1>3. Forthcoming(p) /\ Latest(p)' = Latest(p)
  BY <1>1, StillUnseen, SameJournal, JournalOf
<1>4. CASE Confirmed
  BY <1>1, <1>4, ConfirmationReplays
<1>5. CASE Receive
  BY <1>1, <1>3, <1>5, ReceptionTells
<1>6. CASE Restart
  BY <1>6 DEF Restart, Forthcoming, Kept
<1>7. CASE Kept(p)
  BY <1>1, <1>7, KeptStays DEF Forthcoming
<1>8. CASE (~linked \/ Awaited(p)) /\ ~Confirmed /\ ~Receive /\ ~Restart
  BY <1>1, <1>8, WireStays DEF Forthcoming
<1>9. CASE Replaying /\ Latest(p) > pump.last
  <2>1. CASE ReadBatch
    BY <1>9, <2>1, BatchTells
  <2>2. CASE Replay
    BY <2>2, ReplayTells
  <2>3. CASE pump' = pump
    BY <1>3, <1>9, <2>3 DEF Forthcoming, Replaying
  <2>4. ~EndReconcile /\ ~StartUp
    BY <1>9 DEF EndReconcile, StartUp, Replaying, At
  <2> QED BY <1>4, <1>5, <1>6, <2>1, <2>2, <2>3, <2>4 DEF Next, PumpStep, Disconnect, Subscribe,
        SendSweep, Flush, Handle, ControlStep, BeginSweep, Scan, ScanFails
<1> QED BY <1>3, <1>4, <1>5, <1>6, <1>7, <1>8, <1>9 DEF Forthcoming

-----------------------------------------------------------------------------
(* With and without a cursor.                                              *)

\* What the daemon heard of, or no subscription delivered.
Delivered(p) == Kept(p) \/ OnTheWire(p) \/ p \in missed

DeliveredInv == \A p \in Paths : Unseen(p) => Delivered(p)

\* A change is published to a subscriber or missed.
LEMMA PublishDelivers ==
    ASSUME TypeOK, NEW e \in Events, Publish(e), NEW p \in Paths,
           Unseen(p) => Delivered(p), Unseen(p)'
    PROVE  Delivered(p)'
<1>1. /\ journal \in Seq(Events) /\ Len(journal) \in Nat /\ wire \in Seq(0 .. Len(journal))
      /\ journal' = Append(journal, e) /\ seen' = seen /\ missed \subseteq missed'
  BY DEF Publish, TypeOK
<1>2. \A i \in DOMAIN wire : i \in DOMAIN wire' /\ wire'[i] = wire[i]
  BY <1>1 DEF Publish
<1>3. CASE e \in {p, Everything}
  <2>1. CASE linked
    <3>1. wire' = Append(wire, Len(journal'))
      BY <2>1 DEF Publish
    <3>2. Len(wire) + 1 \in DOMAIN wire' /\ wire'[Len(wire) + 1] = Len(journal')
      BY <1>1, <3>1
    <3>3. Concerns(Len(journal), p)' /\ Len(journal') # 0
      BY <1>1, <1>3, Published
    <3> QED BY <3>2, <3>3 DEF Delivered, OnTheWire
  <2>2. CASE ~linked
    <3>1. p \in Named(e)
      BY <1>3 DEF Named
    <3> QED BY <2>2, <3>1 DEF Publish, Delivered
  <2> QED BY <2>1, <2>2
<1>4. CASE e \notin {p, Everything}
  <2>1. Delivered(p)
    <3>1. Latest(p)' = Latest(p)
      BY <1>1, <1>4, Published
    <3> QED BY <1>1, <3>1 DEF Unseen
  <2>2. Kept(p) => Kept(p)'
    BY DEF Publish, Kept, InQueue
  <2>3. OnTheWire(p) => OnTheWire(p)'
    <3> SUFFICES ASSUME NEW i \in DOMAIN wire, wire[i] # 0, Concerns(wire[i], p)
                 PROVE  OnTheWire(p)'
      BY DEF OnTheWire
    <3>1. PICK k : k = wire[i]
      OBVIOUS
    <3>2. k \in 1 .. Len(journal) /\ i \in DOMAIN wire' /\ wire'[i] = k
      BY <1>1, <1>2, <3>1
    <3>3. Concerns(k, p)'
      BY <1>1, <3>1, <3>2, Published
    <3> QED BY <3>2, <3>3 DEF OnTheWire, Concerns
  <2> QED BY <1>1, <2>1, <2>2, <2>3 DEF Delivered
<1> QED BY <1>3, <1>4

\* A message is lost with its connection, or taken by the pump.
LEMMA MessageStays ==
    ASSUME TypeOK, Next, ~\E e \in Events : Publish(e), NEW p \in Paths, OnTheWire(p), ~Restart
    PROVE  Delivered(p)'
<1>1. wire \in Seq(0 .. Len(journal)) /\ Len(journal) \in Nat /\ journal' = journal
  BY JournalOf DEF TypeOK
<1>2. PICK i \in DOMAIN wire : wire[i] # 0 /\ Concerns(wire[i], p)
  BY DEF OnTheWire
<1>3. PICK k : k = wire[i]
  OBVIOUS
<1>4. k # 0 /\ k \in 1 .. Len(journal) /\ Concerns(k, p) /\ Concerns(k, p)'
  BY <1>1, <1>2, <1>3, SameJournal
<1>5. ASSUME NEW j \in DOMAIN wire', wire'[j] = k
      PROVE  Delivered(p)'
  BY <1>4, <1>5 DEF Delivered, OnTheWire, Concerns
<1>6. CASE Disconnect
  <2>1. PICK n \in 0 .. Len(wire) :
           /\ wire' = SubSeq(wire, 1, n)
           /\ missed' = missed \cup {q \in Paths : \E j \in n + 1 .. Len(wire) :
                                        wire[j] # 0 /\ Concerns(wire[j], q)}
    BY <1>6 DEF Disconnect
  <2>2. CASE i <= n
    <3>1. i \in DOMAIN wire' /\ wire'[i] = k
      BY <1>1, <1>3, <2>1, <2>2
    <3> QED BY <1>5, <3>1
  <2>3. CASE ~(i <= n)
    <3>1. i \in n + 1 .. Len(wire)
      BY <1>1, <2>3
    <3> QED BY <1>2, <2>1, <3>1 DEF Delivered
  <2> QED BY <2>2, <2>3
<1>7. CASE Subscribe
  <2>1. i \in DOMAIN wire' /\ wire'[i] = k
    BY <1>1, <1>3, <1>7 DEF Subscribe
  <2> QED BY <1>5, <2>1
<1>8. CASE Confirmed \/ Receive
  <2>1. wire # <<>> /\ wire' = Tail(wire)
    BY <1>8 DEF Confirmed, Receive
  <2>2. CASE i # 1
    <3>1. i - 1 \in DOMAIN wire' /\ wire'[i - 1] = k
      BY <1>1, <1>3, <2>1, <2>2
    <3> QED BY <1>5, <3>1
  <2>3. CASE i = 1
    <3>1. Head(wire) = k /\ Receive
      BY <1>1, <1>3, <1>4, <1>8, <2>3 DEF Confirmed
    <3>2. Send(journal[k]) /\ journal[k] \in Events
      <4>1. journal \in Seq(Events)
        BY DEF TypeOK
      <4> QED BY <1>4, <3>1, <4>1 DEF Receive
    <3>3. p \in spilled' \/ \E j \in DOMAIN queue' : queue'[j] \in {p, Everything}
      BY <1>4, <3>2, SendIs DEF Concerns
    <3> QED BY <3>3 DEF Delivered, Kept, InQueue
  <2> QED BY <2>2, <2>3
<1>9. CASE UNCHANGED link
  BY <1>3, <1>5, <1>9
<1> QED BY <1>6, <1>7, <1>8, <1>9 DEF Next, PumpStep, EndReconcile, StartUp, ReadBatch, Replay,
      SendSweep, Flush, Handle, ControlStep, BeginSweep, Scan, ScanFails

LEMMA DeliveredStays ==
    ASSUME TypeOK, Next, DeliveredInv, NEW p \in Paths, Unseen(p)'
    PROVE  Delivered(p)'
<1>1. ASSUME NEW e \in Events, Publish(e)
      PROVE  Delivered(p)'
  BY <1>1, PublishDelivers DEF DeliveredInv
<1> SUFFICES ASSUME ~\E e \in Events : Publish(e)
             PROVE  Delivered(p)'
  BY <1>1
<1>2. Delivered(p) /\ (p \in missed => p \in missed')
  BY StillUnseen DEF DeliveredInv
<1>3. CASE Restart
  BY <1>3 DEF Restart, Delivered, Kept
<1>4. CASE Kept(p)
  BY <1>4, KeptStays DEF Delivered
<1>5. CASE OnTheWire(p) /\ ~Restart
  BY <1>5, MessageStays
<1>6. CASE p \in missed
  BY <1>2, <1>6 DEF Delivered
<1> QED BY <1>2, <1>3, <1>4, <1>5, <1>6 DEF Delivered

\* A daemon without a cursor never gets one: only a replay writes it, and a replay
\* starts from one.
NoCursor == cursor = 0 /\ disk = 0 /\ pump.last = 0

LEMMA NoCursorStays ==
    ASSUME TypeOK, NoCursor, [Next]_vars
    PROVE  NoCursor'
<1>1. ~Replaying
  BY DEF NoCursor, Replaying
<1>2. \A position : Pump(position).last = 0
  BY DEF Pump
<1>3. CASE StartUp \/ Confirmed
  BY <1>2, <1>3 DEF StartUp, Confirmed, Resume, NoCursor
<1>4. CASE EndReconcile \/ Restart
  BY <1>2, <1>4 DEF EndReconcile, Restart, NoCursor
<1>5. CASE Flush
  BY <1>5 DEF Flush, NoCursor
<1>6. CASE UNCHANGED <<cursor, disk, pump>>
  BY <1>6 DEF NoCursor
<1> QED BY <1>1, <1>3, <1>4, <1>5, <1>6 DEF Next, PumpStep, Publish, Disconnect, Subscribe, Receive,
      ReadBatch, Replay, SendSweep, Handle, ControlStep, BeginSweep, Scan, ScanFails, vars

\* With a cursor, what no subscription delivered is forthcoming.
WithCursor == PumpInvariant /\ \A p \in Paths : Unseen(p) => Forthcoming(p)

LEMMA WithCursorStays == WithCursor /\ [Next]_vars => WithCursor'
<1> SUFFICES ASSUME WithCursor, [Next]_vars PROVE WithCursor'
  OBVIOUS
<1>1. PumpInvariant'
  BY PumpInvariantStep DEF WithCursor
<1>2. CASE Next
  <2>1. \A p \in Paths : Unseen(p)' => Forthcoming(p)'
    BY <1>1, <1>2, ForthcomingStays DEF WithCursor
  <2> QED BY <1>1, <2>1 DEF WithCursor
<1>3. CASE UNCHANGED vars
  <2>1. /\ \A p : Latest(p)' = Latest(p)
        /\ \A k, p : Concerns(k, p)' <=> Concerns(k, p)
    BY <1>3, SameJournal DEF vars
  <2>2. \A p \in Paths : Unseen(p)' => Forthcoming(p)'
    BY <1>3, <2>1 DEF WithCursor, Unseen, Forthcoming, Kept, InQueue, Awaited, Replaying, vars
  <2> QED BY <1>1, <2>2 DEF WithCursor
<1> QED BY <1>2, <1>3

FeedInv == TypeOK /\ DeliveredInv /\ (NoCursor \/ WithCursor)

LEMMA FeedInvInit == Init => FeedInv
<1> SUFFICES ASSUME Init PROVE FeedInv
  OBVIOUS
<1>1. TypeOK
  BY TypeInit
<1>2. \A p \in Paths : Kept(p)
  BY DEF Init, Kept
<1>3. CASE cursor = 0
  BY <1>1, <1>2, <1>3 DEF Init, Pump, NoCursor, FeedInv, DeliveredInv, Delivered
<1>4. CASE cursor # 0
  <2>1. PumpInvariant
    BY <1>4, PumpInvariantInit
  <2> QED BY <1>1, <1>2, <2>1 DEF FeedInv, DeliveredInv, Delivered, WithCursor, Forthcoming
<1> QED BY <1>3, <1>4

LEMMA FeedInvStep == FeedInv /\ [Next]_vars => FeedInv'
<1> SUFFICES ASSUME FeedInv, [Next]_vars PROVE FeedInv'
  OBVIOUS
<1>1. TypeOK'
  BY TypeStep DEF FeedInv
<1>2. DeliveredInv'
  <2>1. CASE Next
    BY <2>1, DeliveredStays DEF FeedInv, DeliveredInv
  <2>2. CASE UNCHANGED vars
    <3>1. /\ \A p : Latest(p)' = Latest(p)
          /\ \A k, p : Concerns(k, p)' <=> Concerns(k, p)
      BY <2>2, SameJournal DEF vars
    <3> QED BY <2>2, <3>1 DEF FeedInv, DeliveredInv, Delivered, Unseen, Kept, InQueue, OnTheWire,
              vars
  <2> QED BY <2>1, <2>2
<1> QED BY <1>1, <1>2, NoCursorStays, WithCursorStays DEF FeedInv

\* A change that another client published and that this daemon has neither compared
\* nor taken off its channel without effect is on its way if the daemon's subscription
\* delivered it, and due in a replay if it did not and the daemon has a cursor, whatever
\* disconnects, trimming, failed replays and sweeps, and restarts came in between
\* (remoteSubscriptionPump, handleRemoteEvent).  It holds of the daemons that this code
\* starts, which have no cursor, and of those that find one in their state file.
THEOREM NothingIsForgotten == Spec => []NothingForgotten
<1>1. FeedInv => NothingForgotten
  <2> SUFFICES ASSUME FeedInv, NEW p \in Paths, Unseen(p)
               PROVE  \/ p \in dropped \cup spilled
                      \/ OnTheWire(p) \/ InQueue(p) \/ sweep \/ p \in scan
                      \/ p \in missed /\ (cursor = 0 \/ ReplayIsDue(p))
    BY DEF NothingForgotten
  <2>1. Kept(p) \/ OnTheWire(p) \/ p \in missed
    BY DEF FeedInv, DeliveredInv, Delivered
  <2>2. cursor = 0 \/ Forthcoming(p)
    BY DEF FeedInv, NoCursor, WithCursor
  <2>3. Awaited(p) => OnTheWire(p) \/ \E i \in DOMAIN wire : wire[i] = 0
    BY DEF Awaited, OnTheWire
  <2> QED BY <2>1, <2>2, <2>3 DEF Kept, Forthcoming, ReplayIsDue
<1> QED BY <1>1, FeedInvInit, FeedInvStep, PTL DEF Spec
==============================================================================
