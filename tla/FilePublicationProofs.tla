------------------------ MODULE FilePublicationProofs -----------------------
(***************************************************************************)
(* Proofs about FilePublication for every set of operations and names and  *)
(* every value of its bounds: the types, when an operation takes effect,   *)
(* and why the answer of a call stays true.                                *)
(***************************************************************************)
EXTENDS FilePublication, FiniteSetTheorems, TLAPS

USE DEF InodeIds

\* A call that may reach Redis carries a request for an allocated inode id.
WellFormed ==
    \A o \in Ops :
      /\ req[o] = NoRequest <=> pc[o] = "idle"
      /\ pc[o] # "idle" /\ ~req[o].create => req[o].id # 0
      /\ pc[o] # "idle" /\ req[o].kind # "write" => ~req[o].create
      /\ line[o] \/ late[o] > 0 => pc[o] # "idle" /\ req[o].id # 0
      /\ pc[o] \in {"copied", "staged", "sent", "unsure"} => req[o].id # 0

TypeInv == TypeOK /\ WellFormed

LEMMA BaseTypes ==
    /\ BaseInode \in [InodeIds -> InodeRecord \cup {NoKey}]
    /\ BaseContent \in [InodeIds -> Bytes \cup {NoKey}]
    /\ BaseFiles \in Int
    /\ BaseTop \in 0..MaxInode /\ Base \in [Names -> 0..MaxInode]
<1>1. BaseInode \in [InodeIds -> InodeRecord \cup {NoKey}]
  BY DEF BaseInode, InodeRecord, Revs
<1>2. BaseContent \in [InodeIds -> Bytes \cup {NoKey}]
  BY DEF BaseContent, Bytes, Imported, Revs
<1>3. BaseFiles \in Int
  <2>1. IsFiniteSet({n \in Names : Base[n] # 0})
    BY BoundsAssumption, FS_Subset
  <2> QED
    BY <2>1, FS_CardinalityType DEF BaseFiles
<1>4. BaseTop \in 0..MaxInode /\ Base \in [Names -> 0..MaxInode]
  BY BaseAssumption, BoundsAssumption
<1> QED
  BY <1>1, <1>2, <1>3, <1>4

LEMMA InitTypes == Init => TypeInv
<1> SUFFICES ASSUME Init PROVE TypeInv
  OBVIOUS
<1> USE IdsAssumption, BoundsAssumption, BaseAssumption, BaseTypes DEF Init
<1>1. ServerTypeOK
  <2>1. journal \in Seq(Entry)
    OBVIOUS
  <2>2. {n \in InodeIds : BaseInode[n] # NoKey} \subseteq InodeIds
    OBVIOUS
  <2> QED
    BY <2>1, <2>2 DEF ServerTypeOK
<1>2. ClientTypeOK
  BY DEF ClientTypeOK, Answers
<1>3. WellFormed
  BY DEF WellFormed, NoRequest
<1> QED
  BY <1>1, <1>2, <1>3 DEF TypeInv, TypeOK

\* The script of a well-formed request keeps the types of the Redis state.
LEMMA RunTypes ==
    ASSUME ServerTypeOK, NEW o \in Ops, req[o] \in Request, req[o].id # 0,
           req[o].kind # "write" => ~req[o].create, Run(o)
    PROVE  ServerTypeOK'
<1> DEFINE r == req[o]
<1>0. /\ r.id \in InodeIds /\ r.name \in Names /\ r.size \in Nat /\ r.epoch \in Nat
      /\ r.kind \in {"write", "delta", "update", "delete"}
  BY BoundsAssumption DEF Request
<1>1. CASE Reply(o) # "commit"
  BY <1>1 DEF Run, server, tree, ServerTypeOK
<1>2. CASE Reply(o) = "commit"
  <2>1. Effect(o) /\ dirty' = TRUE /\ UNCHANGED <<epoch, open, parent, next, leases>>
    BY <1>2 DEF Run
  <2>2. journal' \in Seq(Entry)
    <3> DEFINE e == [op |-> o, kind |-> r.kind, name |-> r.name, id |-> r.id, epoch |-> epoch]
    <3>1. e \in Entry
      BY <1>0 DEF Entry, ServerTypeOK
    <3>2. journal' = Append(journal, e)
      BY <1>2 DEF Run
    <3>3. journal \in Seq(Entry)
      BY DEF ServerTypeOK
    <3> HIDE DEF e
    <3> QED
      BY <3>1, <3>2, <3>3
  <2>3. CASE r.kind = "update"
    <3>1. UpdateEffect(o) /\ inode[r.id] # NoKey
      BY <2>1, <2>3, <1>2 DEF Effect, Reply, UpdateReply, AsExpected
    <3>2. inode' \in [InodeIds -> InodeRecord \cup {NoKey}]
      BY <3>1, <1>0 DEF UpdateEffect, ServerTypeOK, InodeRecord, Revs
    <3> QED
      BY <3>1, <3>2, <2>1, <2>2 DEF UpdateEffect, ServerTypeOK
  <2>4. CASE r.kind = "delete"
    <3>1. DeleteEffect(o) /\ inode[r.id] \in InodeRecord
      BY <2>1, <2>4, <1>2, <1>0 DEF Effect, Reply, DeleteReply, AsExpected, ServerTypeOK
    <3>2. total' \in Int /\ files' \in Int
      BY <3>1 DEF DeleteEffect, ServerTypeOK, InodeRecord
    <3>3. dirents' \in [Names -> 0..MaxInode]
      BY <3>1, <1>0, BoundsAssumption DEF DeleteEffect, ServerTypeOK
    <3> QED
      BY <3>1, <3>2, <3>3, <2>1, <2>2, <1>0 DEF DeleteEffect, ServerTypeOK
  <2>5. CASE r.kind \in {"write", "delta"}
    <3>1. PublishEffect(o) /\ stage[o] # NoKey
      BY <2>1, <2>5, <1>2 DEF Effect, Reply, PublishReply, StageGone
    <3>2. total' \in Int /\ files' \in Int
      BY <3>1, <1>0 DEF PublishEffect, PreviousSize, ServerTypeOK, InodeRecord
    <3>3. dirents' \in [Names -> 0..MaxInode]
      BY <3>1, <1>0 DEF PublishEffect, ServerTypeOK
    <3>4. inode' \in [InodeIds -> InodeRecord \cup {NoKey}]
      BY <3>1, <1>0 DEF PublishEffect, ServerTypeOK, InodeRecord, Revs
    <3>5. /\ content' \in [InodeIds -> Bytes \cup {NoKey}]
          /\ stage' \in [Ops -> Bytes \cup {NoKey}]
      BY <3>1, <1>0 DEF PublishEffect, ServerTypeOK
    <3>6. retired' \subseteq Ops /\ receipts' \subseteq Ops /\ unindexed' \subseteq InodeIds
      BY <3>1, <1>0 DEF PublishEffect, ServerTypeOK
    <3> QED
      BY <3>2, <3>3, <3>4, <3>5, <3>6, <2>1, <2>2 DEF ServerTypeOK
  <2> QED
    BY <2>3, <2>4, <2>5, <1>0
<1> QED
  BY <1>1, <1>2

\* Steps that touch only one side keep the other side's types.
LEMMA ServerFrame == ServerTypeOK /\ UNCHANGED server => ServerTypeOK'
<1> QED
  BY DEF server, tree, ServerTypeOK

LEMMA ClientFrame ==
    ClientTypeOK /\ WellFormed /\ UNCHANGED <<wire, pc, req, answer>> => ClientTypeOK' /\ WellFormed'
<1> QED
  BY DEF wire, ClientTypeOK, WellFormed

\* A call that returns keeps its request and has left the idle state.
LEMMA ReturnTypes ==
    ASSUME ClientTypeOK, NEW o \in Ops, NEW a \in Answers, Return(o, a)
    PROVE  /\ answer' \in [Ops -> Answers]
           /\ pc' \in [Ops -> {"idle", "observed", "copied", "staged", "sent", "unsure",
                               "returning", "done", "leaked"}]
           /\ pc' = [pc EXCEPT ![o] = "returning"]
<1> QED
  BY DEF Return, ClientTypeOK

\* Every step preserves types and well-formedness.
LEMMA TypesPreserved == TypeInv /\ [Next]_vars => TypeInv'
<1> SUFFICES ASSUME TypeInv, [Next]_vars PROVE TypeInv'
  OBVIOUS
<1> USE IdsAssumption, BoundsAssumption
<1>t. ServerTypeOK /\ ClientTypeOK /\ WellFormed
  BY DEF TypeInv, TypeOK
<1>r. ASSUME NEW o \in Ops, pc[o] # "idle"
      PROVE  /\ req[o] \in Request
             /\ req[o].kind # "write" => ~req[o].create
             /\ ~req[o].create => req[o].id # 0
  BY <1>t, <1>r DEF WellFormed, ClientTypeOK
<1>1. ASSUME NEW o \in Ops, NEW n \in Names, NEW k \in Kinds, NEW s \in Sizes,
             Observe(o, n, k, s)
      PROVE  TypeInv'
  <2> DEFINE q == [kind |-> k, name |-> n, create |-> dirents[n] = 0, id |-> dirents[n],
                   rev |-> IF dirents[n] = 0 THEN NoRev ELSE inode[dirents[n]].rev,
                   had |-> IF dirents[n] = 0 THEN 0 ELSE inode[dirents[n]].size,
                   saw |-> IF dirents[n] = 0 \/ content[dirents[n]] = NoKey
                           THEN NoKey ELSE content[dirents[n]].by,
                   size |-> IF k \in {"write", "delta"} THEN s ELSE 0, epoch |-> epoch]
  <2>1. q \in Request
    <3>1. dirents[n] \in 0..MaxInode
      BY <1>t DEF ServerTypeOK
    <3>2. CASE dirents[n] = 0
      BY <3>1, <3>2, <1>t DEF Request, Revs, ServerTypeOK
    <3>3. CASE dirents[n] # 0
      <4>1. inode[dirents[n]] \in InodeRecord
        BY <3>1, <3>3, <1>1, <1>t DEF Observe, ServerTypeOK
      <4>2. content[dirents[n]] \in Bytes \cup {NoKey}
        BY <3>1, <3>3, <1>t DEF ServerTypeOK
      <4> QED
        BY <3>1, <3>3, <4>1, <4>2, <1>t DEF Request, Revs, InodeRecord, Bytes, ServerTypeOK
    <3> QED
      BY <3>2, <3>3
  <2>2. /\ req' = [req EXCEPT ![o] = q] /\ pc[o] = "idle"
        /\ pc' = [pc EXCEPT ![o] = "observed"]
        /\ UNCHANGED <<server, wire, answer>>
    BY <1>1 DEF Observe
  <2>3. /\ q.kind # "write" => ~q.create
        /\ ~q.create => q.id # 0
    BY <1>1 DEF Observe
  <2> HIDE DEF q
  <2>4. ServerTypeOK'
    BY <2>2, <1>t DEF server, tree, ServerTypeOK
  <2>5. ClientTypeOK'
    BY <2>1, <2>2, <1>t DEF wire, ClientTypeOK
  <2>6. WellFormed'
    BY <2>1, <2>2, <2>3, <1>t DEF wire, WellFormed, ClientTypeOK, NoRequest
  <2> QED
    BY <2>4, <2>5, <2>6 DEF TypeInv, TypeOK
<1>2. ASSUME NEW o \in Ops, RefuseEarly(o) PROVE TypeInv'
  BY <1>2, <1>t DEF RefuseEarly, Return, server, tree, wire, TypeInv, TypeOK, ServerTypeOK,
     ClientTypeOK, WellFormed, Answers
<1>3. ASSUME NEW o \in Ops, StageFull(o) PROVE TypeInv'
  <2>1. pc[o] = "observed" /\ req[o] \in Request
    BY <1>3, <1>r DEF StageFull
  <2>2. stage' \in [Ops -> Bytes \cup {NoKey}]
    BY <1>3, <1>t DEF StageFull, ServerTypeOK, Bytes, Revs
  <2>3. CASE req[o].create
    <3>1. /\ next' = next + 1 /\ next' \in 1..MaxInode
          /\ req' = [req EXCEPT ![o] = [@ EXCEPT !.id = next']]
      BY <1>3, <2>3, <1>t DEF StageFull, ServerTypeOK
    <3>2. [req[o] EXCEPT !.id = next'] \in Request
      BY <2>1, <3>1 DEF Request
    <3>3. ServerTypeOK'
      BY <1>3, <2>2, <3>1, <1>t DEF StageFull, tree, ServerTypeOK
    <3>4. ClientTypeOK'
      BY <1>3, <3>1, <3>2, <1>t DEF StageFull, wire, ClientTypeOK
    <3>5. WellFormed'
      <4>1. ASSUME NEW x \in Ops, x # o PROVE req'[x] = req[x] /\ pc'[x] = pc[x]
        BY <1>3, <3>1, <4>1, <1>t DEF StageFull, ClientTypeOK
      <4>2. /\ req'[o] \in Request /\ req'[o].id # 0 /\ pc'[o] = "staged"
            /\ req'[o].kind # "write" => ~req'[o].create
        BY <1>3, <1>r, <2>1, <3>1, <3>2, <1>t DEF StageFull, ClientTypeOK, Request
      <4> QED
        BY <1>3, <4>1, <4>2, <1>t DEF StageFull, wire, WellFormed, NoRequest
    <3> QED
      BY <3>3, <3>4, <3>5 DEF TypeInv, TypeOK
  <2>4. CASE ~req[o].create
    BY <1>3, <2>1, <2>2, <2>4, <1>t DEF StageFull, tree, wire, TypeInv, TypeOK, ServerTypeOK,
       ClientTypeOK, WellFormed
  <2> QED
    BY <2>3, <2>4
<1>4. ASSUME NEW o \in Ops, CopyLive(o) PROVE TypeInv'
  <2>1. req[o] \in Request /\ req[o].id \in InodeIds
    BY <1>4, <1>r DEF CopyLive, Request
  <2>2. content[req[o].id] \in Bytes \cup {NoKey}
    BY <2>1, <1>t DEF ServerTypeOK
  <2>3. ServerTypeOK'
    <3>1. stage' \in [Ops -> Bytes \cup {NoKey}]
      BY <1>4, <2>2, <1>t DEF CopyLive, ServerTypeOK
    <3> QED
      BY <1>4, <3>1, <1>t DEF CopyLive, tree, ServerTypeOK
  <2>4. ClientTypeOK' /\ WellFormed'
    <3>1. pc[o] = "observed" /\ UNCHANGED <<wire, req>>
      BY <1>4 DEF CopyLive
    <3>2. CASE pc' = [pc EXCEPT ![o] = "copied"] /\ UNCHANGED answer
      BY <3>1, <3>2, <2>1, <1>t DEF wire, ClientTypeOK, WellFormed
    <3>3. CASE Return(o, "conflict")
      BY <3>1, <3>3, <2>1, <1>t DEF Return, wire, ClientTypeOK, WellFormed, Answers
    <3> QED
      BY <1>4, <3>2, <3>3 DEF CopyLive
  <2> QED
    BY <2>3, <2>4 DEF TypeInv, TypeOK
<1>5. ASSUME NEW o \in Ops, PatchStage(o) PROVE TypeInv'
  <2>1. [by |-> o, over |-> IF stage[o] = NoKey THEN NoKey ELSE stage[o].by] \in Bytes
    BY <1>t DEF ServerTypeOK, Bytes, Revs
  <2> QED
    BY <1>5, <2>1, <1>t DEF PatchStage, tree, wire, TypeInv, TypeOK, ServerTypeOK,
       ClientTypeOK, WellFormed
<1>6. ASSUME NEW o \in Ops, Send(o) PROVE TypeInv'
  BY <1>6, <1>t, <1>r DEF Send, server, tree, TypeInv, TypeOK, ServerTypeOK, ClientTypeOK, WellFormed
<1>7. ASSUME NEW o \in Ops, ExecuteAndReply(o) \/ ExecuteSilently(o) \/ ExecuteLate(o)
      PROVE  TypeInv'
  <2>1. /\ line[o] \/ late[o] > 0
        /\ Run(o) /\ UNCHANGED <<req, sends>>
    BY <1>7 DEF ExecuteAndReply, ExecuteSilently, ExecuteLate
  <2>2. /\ pc[o] # "idle" /\ req[o].id # 0 /\ req[o] \in Request
        /\ req[o].kind # "write" => ~req[o].create
    BY <2>1, <1>t, <1>r DEF WellFormed
  <2>3. ServerTypeOK'
    BY <2>1, <2>2, <1>t, RunTypes
  <2>4. (IF Reply(o) = "commit" THEN "ok" ELSE Reply(o)) \in Answers
    BY DEF Reply, UpdateReply, DeleteReply, PublishReply, Answers
  <2>5. ClientTypeOK' /\ WellFormed'
    <3>1. CASE ExecuteAndReply(o)
      <4>1. PICK a \in Answers : Return(o, a)
        BY <3>1, <2>4 DEF ExecuteAndReply
      <4> QED
        BY <3>1, <4>1, <2>2, <1>t, ReturnTypes DEF ExecuteAndReply, ClientTypeOK, WellFormed
    <3>2. CASE ExecuteSilently(o)
      BY <3>2, <2>2, <1>t DEF ExecuteSilently, ClientTypeOK, WellFormed
    <3>3. CASE ExecuteLate(o)
      BY <3>3, <2>2, <1>t DEF ExecuteLate, ClientTypeOK, WellFormed
    <3> QED
      BY <1>7, <3>1, <3>2, <3>3
  <2> QED
    BY <2>3, <2>5 DEF TypeInv, TypeOK
<1>8. ASSUME NEW o \in Ops, LoseRequest(o) \/ Retransmit(o) \/ GiveUp(o) \/ ReadReceipt(o)
      PROVE  TypeInv'
  <2>1. UNCHANGED server
    BY <1>8 DEF LoseRequest, Retransmit, GiveUp, ReadReceipt
  <2>2. pc[o] # "idle" /\ req[o].id # 0 /\ UNCHANGED req
    BY <1>8, <1>t DEF LoseRequest, Retransmit, GiveUp, ReadReceipt, wire, WellFormed
  <2>3. Abandon(o) => late' \in [Ops -> Nat]
    BY <1>t DEF Abandon, ClientTypeOK
  <2>4. ClientTypeOK' /\ WellFormed'
    <3>1. CASE LoseRequest(o)
      BY <3>1, <2>2, <1>t DEF LoseRequest, ClientTypeOK, WellFormed
    <3>2. CASE Retransmit(o)
      BY <3>2, <2>2, <2>3, <1>t DEF Retransmit, Abandon, ClientTypeOK, WellFormed
    <3>3. CASE GiveUp(o)
      <4>1. /\ pc' = [pc EXCEPT ![o] = "unsure"] \/ pc' = [pc EXCEPT ![o] = "returning"]
            /\ answer' \in [Ops -> Answers]
        BY <3>3, <1>t DEF GiveUp, Return, ClientTypeOK, Answers
      <4> QED
        BY <3>3, <4>1, <2>2, <2>3, <1>t DEF GiveUp, Abandon, ClientTypeOK, WellFormed
    <3>4. CASE ReadReceipt(o)
      <4>1. PICK a \in Answers : Return(o, a)
        BY <3>4 DEF ReadReceipt, Answers
      <4> QED
        BY <3>4, <4>1, <2>2, <1>t, ReturnTypes DEF ReadReceipt, wire, ClientTypeOK, WellFormed
    <3> QED
      BY <1>8, <3>1, <3>2, <3>3, <3>4
  <2> QED
    BY <2>1, <2>4, <1>t, ServerFrame DEF TypeInv, TypeOK
<1>9. ASSUME NEW o \in Ops, Finish(o) PROVE TypeInv'
  <2>1. stage' \in [Ops -> Bytes \cup {NoKey}] /\ retired' \subseteq Ops
    BY <1>9, <1>t DEF Finish, ServerTypeOK
  <2>2. ServerTypeOK'
    BY <1>9, <2>1, <1>t DEF Finish, tree, ServerTypeOK
  <2>3. /\ pc[o] = "returning" /\ UNCHANGED <<wire, req, answer>>
        /\ pc' = [pc EXCEPT ![o] = "done"] \/ pc' = [pc EXCEPT ![o] = "leaked"]
    BY <1>9 DEF Finish
  <2>4. ClientTypeOK' /\ WellFormed'
    BY <2>3, <1>t DEF wire, ClientTypeOK, WellFormed
  <2> QED
    BY <2>2, <2>4 DEF TypeInv, TypeOK
<1>14. ASSUME NEW o \in Ops, ExpireStage(o) \/ ExpireLease(o) PROVE TypeInv'
  <2>1. stage' \in [Ops -> Bytes \cup {NoKey}] /\ leases' \subseteq Native
    BY <1>14, <1>t DEF ExpireStage, ExpireLease, ServerTypeOK
  <2>2. ServerTypeOK'
    BY <1>14, <2>1, <1>t DEF ExpireStage, ExpireLease, tree, ServerTypeOK
  <2>3. UNCHANGED <<wire, pc, req, answer>>
    BY <1>14 DEF ExpireStage, ExpireLease
  <2> QED
    BY <2>2, <2>3, <1>t, ClientFrame DEF TypeInv, TypeOK
<1>10. CASE RemoveParent
  <2>1. UNCHANGED <<wire, pc, req, answer>>
    BY <1>10 DEF RemoveParent
  <2>2. ServerTypeOK'
    BY <1>10, <1>t DEF RemoveParent, ServerTypeOK
  <2> QED
    BY <2>1, <2>2, <1>t, ClientFrame DEF TypeInv, TypeOK
<1>11. CASE StartRestore
  <2>1. UNCHANGED <<wire, pc, req, answer>>
    BY <1>11 DEF StartRestore
  <2>2. /\ dirents' \in [Names -> 0..MaxInode]
        /\ inode' \in [InodeIds -> InodeRecord \cup {NoKey}]
        /\ content' \in [InodeIds -> Bytes \cup {NoKey}]
        /\ stage' \in [Ops -> Bytes \cup {NoKey}]
    BY <1>11 DEF StartRestore
  <2>3. open' \in BOOLEAN /\ parent' \in BOOLEAN /\ dirty' \in BOOLEAN
    BY <1>11 DEF StartRestore
  <2>7. epoch' \in Nat /\ next' \in 0..MaxInode /\ files' \in Int /\ total' \in Int
    BY <1>11, <1>t DEF StartRestore, ServerTypeOK
  <2>4. /\ retired' \subseteq Ops /\ receipts' \subseteq Ops /\ unindexed' \subseteq InodeIds
        /\ leases' \subseteq Native /\ journal' \in Seq(Entry)
    BY <1>11, <1>t DEF StartRestore, ServerTypeOK
  <2>5. ServerTypeOK'
    BY <2>2, <2>3, <2>4, <2>7 DEF ServerTypeOK
  <2> QED
    BY <2>1, <2>5, <1>t, ClientFrame DEF TypeInv, TypeOK
<1>12. CASE FinishRestore
  <2>1. UNCHANGED <<wire, pc, req, answer>>
    BY <1>12 DEF FinishRestore
  <2>2. unindexed' \subseteq InodeIds
    BY <1>12 DEF FinishRestore
  <2>3. open' \in BOOLEAN /\ parent' \in BOOLEAN /\ dirty' \in BOOLEAN
    BY <1>12 DEF FinishRestore
  <2>7. epoch' \in Nat /\ next' \in 0..MaxInode /\ files' \in Int /\ total' \in Int
    BY <1>12, <1>t, BaseTypes DEF FinishRestore, ServerTypeOK
  <2>4. /\ dirents' \in [Names -> 0..MaxInode]
        /\ inode' \in [InodeIds -> InodeRecord \cup {NoKey}]
        /\ content' \in [InodeIds -> Bytes \cup {NoKey}]
    BY <1>12, BaseTypes DEF FinishRestore
  <2>5. /\ stage' \in [Ops -> Bytes \cup {NoKey}] /\ retired' \subseteq Ops
        /\ receipts' \subseteq Ops /\ leases' \subseteq Native /\ journal' \in Seq(Entry)
    BY <1>12, <1>t DEF FinishRestore, ServerTypeOK
  <2>6. ServerTypeOK'
    BY <2>2, <2>3, <2>4, <2>5, <2>7 DEF ServerTypeOK
  <2> QED
    BY <2>1, <2>6, <1>t, ClientFrame DEF TypeInv, TypeOK
<1>13. CASE UNCHANGED vars
  BY <1>13, <1>t DEF vars, server, tree, wire, TypeInv, TypeOK, ServerTypeOK, ClientTypeOK, WellFormed
<1> QED
  BY <1>1, <1>2, <1>3, <1>4, <1>5, <1>6, <1>7, <1>8, <1>9, <1>10, <1>11, <1>12, <1>13, <1>14
  DEF Next

\* Every step of clients, scripts, network and restores keeps every type.
THEOREM TypeCorrect == Spec => []TypeOK
<1>1. Init => TypeInv
  BY InitTypes
<1>2. TypeInv /\ [Next]_vars => TypeInv'
  BY TypesPreserved
<1>3. TypeInv => TypeOK
  BY DEF TypeInv
<1> QED
  BY <1>1, <1>2, <1>3, PTL DEF Spec
-----------------------------------------------------------------------------
(***************************************************************************)
(* Why a script commits at most once, for every number of clients, names,  *)
(* retransmissions and restores.                                           *)
(***************************************************************************)

\* What an update or delete compared is gone for good once it committed.
Superseded(o) == Fenced(o) \/ inode[req[o].id] = NoKey \/ inode[req[o].id].rev # req[o].rev

\* Receipts and revisions are the marks that committed operations leave behind.
Marks ==
    /\ \A o \in Committed : req[o] # NoRequest
    /\ \A o \in Ops : o \in receipts <=> o \in Committed /\ Publishing(o)
    /\ \A o \in Ops : req[o] # NoRequest =>
         req[o].epoch \in 0..epoch /\ req[o].rev \in Committed \cup {NoRev}
    /\ \A i \in InodeIds : inode[i] # NoKey => inode[i].rev \in Committed \cup {NoRev}
    /\ \A o \in Committed : ~Publishing(o) => Superseded(o)

CommitInv == TypeInv /\ Marks /\ CommitOnce

LEMMA CommittedOps == ServerTypeOK => Committed \subseteq Ops
<1> SUFFICES ASSUME ServerTypeOK, NEW k \in 1..Len(journal) PROVE journal[k].op \in Ops
  BY DEF Committed
<1>1. journal[k] \in Entry
  BY DEF ServerTypeOK
<1> QED
  BY <1>1 DEF Entry

LEMMA CommittedAppend ==
    ASSUME ServerTypeOK, NEW e \in Entry, journal' = Append(journal, e)
    PROVE  /\ Committed' = Committed \cup {e.op}
           /\ CommitOnce /\ e.op \notin Committed => CommitOnce'
<1>1. /\ journal \in Seq(Entry) /\ Len(journal') = Len(journal) + 1 /\ Len(journal) \in Nat
      /\ \A k \in 1..Len(journal) : journal'[k] = journal[k]
      /\ journal'[Len(journal) + 1] = e
  BY DEF ServerTypeOK
<1>2. Committed' = Committed \cup {e.op}
  <2>1. ASSUME NEW x \in Committed' PROVE x \in Committed \cup {e.op}
    BY <1>1, <2>1 DEF Committed
  <2>2. ASSUME NEW x \in Committed \cup {e.op} PROVE x \in Committed'
    BY <1>1, <2>2 DEF Committed
  <2> QED
    BY <2>1, <2>2
<1>3. CommitOnce /\ e.op \notin Committed => CommitOnce'
  BY <1>1 DEF CommitOnce, Committed
<1> QED
  BY <1>2, <1>3

\* What one committing evaluation of the script of o does, and what it compared.
CommitFacts(o) ==
    /\ o \notin Committed /\ ~Fenced(o) /\ ~LeaseGone(o)
    /\ Publishing(o) \/ req[o].kind \in {"update", "delete"}
    /\ AsExpected(o)
    /\ req[o] \in Request /\ req[o].id \in InodeIds
    /\ Publishing(o) => parent
    /\ \A i \in InodeIds : i # req[o].id => inode'[i] = inode[i]
    /\ inode'[req[o].id] = NoKey \/ inode'[req[o].id].rev = o
    /\ req[o].kind = "delete" => inode'[req[o].id] = NoKey
    /\ \A n \in Names : dirents'[n] = dirents[n] \/ dirents'[n] \in {0, req[o].id}
    /\ receipts' = IF Publishing(o) THEN receipts \cup {o} ELSE receipts
    /\ Committed' = Committed \cup {o}
    /\ CommitOnce'
    /\ UNCHANGED <<epoch, open, parent, next, leases>>

LEMMA CommitStep ==
    ASSUME CommitInv, NEW o \in Ops, line[o] \/ late[o] > 0, Run(o), Reply(o) = "commit"
    PROVE  CommitFacts(o)
<1> USE IdsAssumption, BoundsAssumption
<1>0. /\ ServerTypeOK /\ ClientTypeOK /\ WellFormed
      /\ req[o] \in Request /\ req[o].id \in InodeIds /\ req[o].name \in Names
      /\ req[o] # NoRequest
  <2>1. ServerTypeOK /\ ClientTypeOK /\ WellFormed
    BY DEF CommitInv, TypeInv, TypeOK
  <2>2. req[o] # NoRequest /\ req[o].id # 0
    BY <2>1 DEF WellFormed
  <2>3. req[o] \in Request
    BY <2>1, <2>2 DEF ClientTypeOK
  <2> QED
    BY <2>1, <2>2, <2>3 DEF Request
<1>k. \/ req[o].kind = "update" /\ UpdateReply(o) = "commit" /\ UpdateEffect(o)
      \/ req[o].kind = "delete" /\ DeleteReply(o) = "commit" /\ DeleteEffect(o)
      \/ req[o].kind \in {"write", "delta"} /\ PublishReply(o) = "commit" /\ PublishEffect(o)
  BY DEF Run, Effect, Reply
<1>c. ~Publishing(o) <=> req[o].kind \in {"update", "delete"}
  BY <1>0 DEF Publishing, Request
<1>1. ~Fenced(o) /\ ~LeaseGone(o) /\ AsExpected(o) /\ (Publishing(o) => o \notin receipts /\ parent)
  <2>1. CASE req[o].kind = "update"
    BY <1>k, <1>c, <2>1 DEF UpdateReply
  <2>2. CASE req[o].kind = "delete"
    BY <1>k, <1>c, <2>2 DEF DeleteReply
  <2>3. CASE req[o].kind \in {"write", "delta"}
    BY <1>k, <1>c, <2>3 DEF PublishReply, Acknowledged, ParentGone
  <2> QED
    BY <1>k, <2>1, <2>2, <2>3
<1>2. o \notin Committed
  <2>1. CASE Publishing(o)
    BY <1>1, <2>1 DEF CommitInv, Marks
  <2>2. CASE ~Publishing(o)
    <3>1. ~req[o].create
      BY <1>0, <1>c, <2>2 DEF WellFormed
    <3>2. ~Superseded(o)
      BY <1>1, <3>1 DEF Superseded, AsExpected
    <3> QED
      BY <2>2, <3>2 DEF CommitInv, Marks
  <2> QED
    BY <2>1, <2>2
<1>3. /\ \A i \in InodeIds : i # req[o].id => inode'[i] = inode[i]
      /\ inode'[req[o].id] = NoKey \/ inode'[req[o].id].rev = o
      /\ req[o].kind = "delete" => inode'[req[o].id] = NoKey
  <2>1. inode \in [InodeIds -> InodeRecord \cup {NoKey}]
    BY <1>0 DEF ServerTypeOK
  <2>2. CASE UpdateEffect(o) /\ req[o].kind = "update"
    <3>1. inode[req[o].id] \in InodeRecord
      BY <2>1, <2>2, <1>k, <1>0 DEF UpdateReply, AsExpected, WellFormed
    <3> QED
      BY <2>1, <2>2, <3>1, <1>0 DEF UpdateEffect, InodeRecord
  <2>3. CASE DeleteEffect(o)
    BY <2>1, <2>3, <1>0 DEF DeleteEffect
  <2>4. CASE PublishEffect(o) /\ req[o].kind # "delete"
    BY <2>1, <2>4, <1>0 DEF PublishEffect
  <2> QED
    BY <1>k, <2>2, <2>3, <2>4
<1>4. \A n \in Names : dirents'[n] = dirents[n] \/ dirents'[n] \in {0, req[o].id}
  BY <1>k, <1>0 DEF UpdateEffect, DeleteEffect, PublishEffect, ServerTypeOK
<1>5. receipts' = IF Publishing(o) THEN receipts \cup {o} ELSE receipts
  BY <1>k, <1>c DEF UpdateEffect, DeleteEffect, PublishEffect
<1>6. Committed' = Committed \cup {o} /\ CommitOnce'
  <2> DEFINE e == [op |-> o, kind |-> req[o].kind, name |-> req[o].name,
                   id |-> req[o].id, epoch |-> epoch]
  <2>1. e \in Entry
    BY <1>0 DEF Entry, Request, ServerTypeOK
  <2>2. journal' = Append(journal, e) /\ e.op = o
    BY DEF Run
  <2> HIDE DEF e
  <2> QED
    BY <2>1, <2>2, <1>0, <1>2, CommittedAppend DEF CommitInv
<1>7. UNCHANGED <<epoch, open, parent, next, leases>>
  BY DEF Run
<1> QED
  BY <1>0, <1>1, <1>2, <1>3, <1>4, <1>5, <1>6, <1>7, <1>c DEF CommitFacts

\* Every other step leaves the journal and the receipts alone.
Quiet == UNCHANGED <<journal, receipts>>

LEMMA QuietCommitted == Quiet => Committed' = Committed /\ (CommitOnce => CommitOnce')
<1> QED
  BY DEF Quiet, Committed, CommitOnce

\* A committing evaluation keeps the marks.
LEMMA MarksCommit ==
    ASSUME CommitInv, NEW p \in Ops, CommitFacts(p), UNCHANGED req
    PROVE  Marks'
<1> USE IdsAssumption
<1>0. /\ Committed \subseteq Ops /\ Marks /\ ServerTypeOK /\ Committed' = Committed \cup {p}
      /\ req' = req /\ epoch' = epoch /\ open' = open
  BY CommittedOps DEF CommitInv, TypeInv, TypeOK, CommitFacts
<1>1. \A o \in Ops : Publishing(o)' <=> Publishing(o)
  BY <1>0 DEF Publishing
<1>2. req[p] # NoRequest
  BY DEF CommitFacts, NoRequest
<1>3. (\A o \in Committed : req[o] # NoRequest)'
  BY <1>0, <1>2 DEF Marks
<1>4. (\A o \in Ops : o \in receipts <=> o \in Committed /\ Publishing(o))'
  BY <1>0, <1>1 DEF Marks, CommitFacts
<1>5. (\A o \in Ops : req[o] # NoRequest =>
         req[o].epoch \in 0..epoch /\ req[o].rev \in Committed \cup {NoRev})'
  BY <1>0 DEF Marks
<1>6. (\A i \in InodeIds : inode[i] # NoKey => inode[i].rev \in Committed \cup {NoRev})'
  BY <1>0 DEF Marks, CommitFacts
<1>7. ASSUME NEW o \in Committed', ~Publishing(o)' PROVE Superseded(o)'
  <2>1. req[o] # NoRequest /\ o \in Ops /\ ~Publishing(o)
    BY <1>0, <1>1, <1>2, <1>7 DEF Marks
  <2>2. req[o].rev # p
    BY <1>0, <2>1 DEF Marks, CommitFacts
  <2>3. req[o].id \in InodeIds
    <3>1. WellFormed /\ ClientTypeOK
      BY DEF CommitInv, TypeInv, TypeOK
    <3>2. req[o] \in Request
      BY <2>1, <3>1 DEF ClientTypeOK
    <3>3. req[o].id # 0
      <4>1. req[o].kind # "write" /\ pc[o] # "idle"
        BY <2>1, <3>1 DEF Publishing, WellFormed
      <4> QED
        BY <4>1, <2>1, <3>1 DEF WellFormed
    <3> QED
      BY <3>2, <3>3 DEF Request
  <2>4. CASE req[o].id = req[p].id
    BY <1>0, <2>2, <2>4 DEF CommitFacts, Superseded
  <2>5. CASE req[o].id # req[p].id
    <3>1. o \in Committed /\ Superseded(o)
      BY <1>0, <2>1, <2>5, <1>7 DEF Marks
    <3> QED
      BY <1>0, <3>1, <2>3, <2>5 DEF CommitFacts, Superseded, Fenced
  <2> QED
    BY <2>4, <2>5
<1> QED
  BY <1>3, <1>4, <1>5, <1>6, <1>7 DEF Marks

\* So do the steps that commit nothing.
LEMMA MarksQuiet ==
    ASSUME CommitInv, Quiet,
           UNCHANGED <<inode, epoch, open>>,
           \A o \in Ops :
             /\ req[o] # NoRequest => req'[o] # NoRequest
             /\ req[o] # NoRequest => req'[o].kind = req[o].kind
             /\ req[o] # NoRequest /\ req[o].kind # "write" => req'[o] = req[o]
             /\ req'[o] # NoRequest => req'[o].epoch \in 0..epoch
             /\ req'[o] # NoRequest => req'[o].rev \in Committed \cup {NoRev}
    PROVE  Marks'
<1>0. /\ Committed \subseteq Ops /\ Marks /\ Committed' = Committed
      /\ inode' = inode /\ epoch' = epoch /\ open' = open /\ receipts' = receipts
  BY CommittedOps, QuietCommitted DEF CommitInv, TypeInv, TypeOK, Quiet
<1>1. \A o \in Ops : req[o] # NoRequest => (Publishing(o)' <=> Publishing(o))
  BY DEF Publishing
<1>2. (\A o \in Committed : req[o] # NoRequest)'
  BY <1>0 DEF Marks
<1>3. (\A o \in Ops : o \in receipts <=> o \in Committed /\ Publishing(o))'
  BY <1>0, <1>1 DEF Marks
<1>4. (\A o \in Ops : req[o] # NoRequest =>
         req[o].epoch \in 0..epoch /\ req[o].rev \in Committed \cup {NoRev})'
  BY <1>0
<1>5. (\A i \in InodeIds : inode[i] # NoKey => inode[i].rev \in Committed \cup {NoRev})'
  BY <1>0 DEF Marks
<1>6. ASSUME NEW o \in Committed', ~Publishing(o)' PROVE Superseded(o)'
  <2>1. o \in Ops /\ o \in Committed /\ req[o] # NoRequest /\ ~Publishing(o)
    BY <1>0, <1>1, <1>6 DEF Marks
  <2>2. req'[o] = req[o] /\ Superseded(o)
    BY <1>0, <2>1 DEF Marks, Publishing
  <2> QED
    BY <1>0, <2>2 DEF Superseded, Fenced
<1> QED
  BY <1>2, <1>3, <1>4, <1>5, <1>6 DEF Marks

\* A restore fences whatever was asked before it, so nothing has to be compared.
LEMMA MarksRestore ==
    ASSUME CommitInv, Quiet, UNCHANGED req,
           \/ epoch' = epoch /\ ~open'
           \/ epoch' = epoch + 1,
           \A i \in InodeIds : inode'[i] # NoKey => inode'[i].rev = NoRev
    PROVE  Marks'
<1>0. /\ Committed \subseteq Ops /\ Marks /\ Committed' = Committed /\ ServerTypeOK
      /\ req' = req /\ receipts' = receipts
  BY CommittedOps, QuietCommitted DEF CommitInv, TypeInv, TypeOK, Quiet
<1>1. \A o \in Ops : Publishing(o)' <=> Publishing(o)
  BY DEF Publishing
<1>2. \A o \in Ops : req[o] # NoRequest => req[o].epoch \in 0..epoch' /\ Fenced(o)'
  BY <1>0 DEF Marks, Fenced, ServerTypeOK
<1>3. ASSUME NEW o \in Committed' PROVE Superseded(o)'
  BY <1>0, <1>2 DEF Superseded, Marks
<1> QED
  BY <1>0, <1>1, <1>2, <1>3 DEF Marks

LEMMA CommitPreserved == CommitInv /\ [Next]_vars => CommitInv'
<1> SUFFICES ASSUME CommitInv, [Next]_vars PROVE CommitInv'
  OBVIOUS
<1> USE IdsAssumption
<1>t. TypeInv' /\ TypeInv /\ ServerTypeOK /\ ClientTypeOK /\ WellFormed /\ Marks /\ CommitOnce
  BY TypesPreserved DEF CommitInv, TypeInv, TypeOK
<1>f. ASSUME Quiet, UNCHANGED <<inode, epoch, open, req>> PROVE CommitInv'
  <2>1. Marks'
    BY <1>f, <1>t, MarksQuiet DEF Marks
  <2> QED
    BY <1>f, <1>t, <2>1, QuietCommitted DEF CommitInv
<1>1. ASSUME NEW o \in Ops, NEW n \in Names, NEW k \in Kinds, NEW s \in Sizes,
             Observe(o, n, k, s)
      PROVE  CommitInv'
  <2>1. Quiet /\ UNCHANGED <<inode, epoch, open>>
    BY <1>1 DEF Observe, server, tree, Quiet
  <2>2. req[o] = NoRequest /\ \A x \in Ops : x # o => req'[x] = req[x]
    BY <1>1, <1>t DEF Observe, WellFormed, ClientTypeOK
  <2>3. /\ req'[o] # NoRequest /\ req'[o].epoch = epoch
        /\ req'[o].rev \in Committed \cup {NoRev}
    <3>1. req'[o] # NoRequest
      BY <1>1, <1>t DEF Observe, TypeInv, WellFormed, ClientTypeOK
    <3>2. req'[o].epoch = epoch
      BY <1>1, <1>t DEF Observe, ClientTypeOK
    <3>3. req'[o].rev = IF dirents[n] = 0 THEN NoRev ELSE inode[dirents[n]].rev
      BY <1>1, <1>t DEF Observe, ClientTypeOK
    <3>4. dirents[n] # 0 => dirents[n] \in InodeIds /\ inode[dirents[n]] # NoKey
      BY <1>1, <1>t, BoundsAssumption DEF Observe, ServerTypeOK
    <3> QED
      BY <3>1, <3>2, <3>3, <3>4, <1>t DEF Marks
  <2>4. Marks'
    BY <1>t, <2>1, <2>2, <2>3, MarksQuiet DEF Marks, CommitInv, ServerTypeOK
  <2> QED
    BY <1>t, <2>1, <2>4, QuietCommitted DEF CommitInv
<1>2. ASSUME NEW o \in Ops, StageFull(o) PROVE CommitInv'
  <2>1. Quiet /\ UNCHANGED <<inode, epoch, open>>
    BY <1>2 DEF StageFull, tree, Quiet
  <2>2. /\ req[o] \in Request /\ req[o].kind = "write" /\ req[o] # NoRequest
        /\ \A x \in Ops : x # o => req'[x] = req[x]
    BY <1>2, <1>t DEF StageFull, WellFormed, ClientTypeOK
  <2>3. /\ req'[o] # NoRequest /\ req'[o].kind = "write"
        /\ req'[o].epoch = req[o].epoch /\ req'[o].rev = req[o].rev
    <3>1. CASE req[o].create
      <4>1. req'[o] = [req[o] EXCEPT !.id = next + 1]
        BY <1>2, <1>t, <2>2, <3>1 DEF StageFull, ClientTypeOK
      <4>2. [req[o] EXCEPT !.id = next + 1] # NoRequest
        <5>1. WellFormed' /\ pc'[o] = "staged"
          BY <1>2, <1>t DEF StageFull, TypeInv, ClientTypeOK
        <5> QED
          BY <4>1, <5>1 DEF WellFormed, NoRequest
      <4> QED
        BY <4>1, <4>2, <2>2 DEF Request
    <3>2. CASE ~req[o].create
      BY <1>2, <2>2, <3>2 DEF StageFull
    <3> QED
      BY <3>1, <3>2
  <2>4. Marks'
    BY <1>t, <2>1, <2>2, <2>3, MarksQuiet DEF Marks, CommitInv
  <2> QED
    BY <1>t, <2>1, <2>4, QuietCommitted DEF CommitInv
<1>3. ASSUME NEW o \in Ops, ExecuteAndReply(o) \/ ExecuteSilently(o) \/ ExecuteLate(o)
      PROVE  CommitInv'
  <2>1. (line[o] \/ late[o] > 0) /\ Run(o) /\ UNCHANGED req
    BY <1>3 DEF ExecuteAndReply, ExecuteSilently, ExecuteLate
  <2>2. CASE Reply(o) = "commit"
    <3>1. CommitFacts(o)
      BY <2>1, <2>2, CommitStep
    <3> QED
      BY <1>t, <2>1, <3>1, MarksCommit DEF CommitInv, CommitFacts
  <2>3. CASE Reply(o) # "commit"
    BY <2>1, <2>3, <1>f DEF Run, server, tree, Quiet
  <2> QED
    BY <2>2, <2>3
<1>4. CASE StartRestore
  <2>1. Quiet /\ UNCHANGED req /\ epoch' = epoch /\ ~open'
    BY <1>4 DEF StartRestore, Quiet
  <2>2. \A i \in InodeIds : inode'[i] = NoKey
    BY <1>4 DEF StartRestore
  <2> QED
    BY <1>t, <2>1, <2>2, MarksRestore, QuietCommitted DEF CommitInv
<1>5. CASE FinishRestore
  <2>1. Quiet /\ UNCHANGED req /\ epoch' = epoch + 1
    BY <1>5 DEF FinishRestore, Quiet
  <2>2. \A i \in InodeIds : inode'[i] # NoKey => inode'[i].rev = NoRev
    BY <1>5 DEF FinishRestore, BaseInode
  <2> QED
    BY <1>t, <2>1, <2>2, MarksRestore, QuietCommitted DEF CommitInv
<1>6. ASSUME NEW o \in Ops,
             \/ RefuseEarly(o) \/ Send(o) \/ LoseRequest(o) \/ Retransmit(o) \/ GiveUp(o)
             \/ ReadReceipt(o)
      PROVE  CommitInv'
  BY <1>6, <1>f DEF RefuseEarly, Send, LoseRequest, Retransmit, GiveUp, ReadReceipt, server, tree, Quiet
<1>7. ASSUME NEW o \in Ops,
             CopyLive(o) \/ PatchStage(o) \/ Finish(o) \/ ExpireStage(o) \/ ExpireLease(o)
      PROVE  CommitInv'
  BY <1>7, <1>f DEF CopyLive, PatchStage, Finish, ExpireStage, ExpireLease, tree, Quiet
<1>8. CASE RemoveParent
  BY <1>8, <1>f DEF RemoveParent, Quiet
<1>9. CASE UNCHANGED vars
  BY <1>9, <1>f DEF vars, server, tree, Quiet
<1> QED
  BY <1>1, <1>2, <1>3, <1>4, <1>5, <1>6, <1>7, <1>8, <1>9 DEF Next

LEMMA CommitInitially == Init => CommitInv
<1> SUFFICES ASSUME Init PROVE CommitInv
  OBVIOUS
<1>1. Committed = {} /\ CommitOnce
  BY DEF Init, Committed, CommitOnce
<1>2. \A i \in InodeIds : inode[i] # NoKey => inode[i].rev = NoRev
  BY DEF Init, BaseInode
<1>3. Marks
  BY <1>1, <1>2 DEF Marks, Init, Publishing
<1> QED
  BY <1>1, <1>3, InitTypes DEF CommitInv

\* However often the network repeats a script and however late a copy runs, an
\* operation commits at most once: publications by their receipt, updates and
\* deletes because what they compared never comes back under the same generation.
THEOREM CommitsOnce == Spec => []CommitOnce
<1>1. Init => CommitInv
  BY CommitInitially
<1>2. CommitInv /\ [Next]_vars => CommitInv'
  BY CommitPreserved
<1>3. CommitInv => CommitOnce
  BY DEF CommitInv
<1> QED
  BY <1>1, <1>2, <1>3, PTL DEF Spec
-----------------------------------------------------------------------------
(* Why the answer of a call stays true.                                    *)

\* Inode ids are allocated once per generation: nobody else asks for the id of
\* a creation that has not happened, and nothing lives there.
Allocated(o) == req[o] # NoRequest /\ req[o].id # 0 /\ ~Fenced(o)
FreshIds ==
    /\ open => \A i \in InodeIds : inode[i] # NoKey => i <= next
    /\ \A o \in Ops : Allocated(o) => req[o].id <= next
    /\ \A p \in Ops : Allocated(p) /\ req[p].create /\ p \notin Committed =>
         /\ inode[req[p].id] = NoKey
         /\ \A o \in Ops : o # p /\ Allocated(o) => req[o].id # req[p].id

Returned == {"returning", "done", "leaked"}

\* The scripts of a call run only after it was sent, its answer comes last.
Replies ==
    \A o \in Ops :
      /\ pc[o] \in {"idle", "observed", "copied", "staged"} => sends[o] = 0
      /\ sends[o] = 0 => ~line[o] /\ late[o] = 0 /\ o \notin Committed
      /\ answer[o] # "none" => pc[o] \in Returned

\* The request of o can not be accepted any more.
Dead(o) == \/ sends[o] = 0
           \/ Fenced(o) \/ LeaseGone(o)
           \/ ~req[o].create /\ (ParentGone \/ ~AsExpected(o))

Truth(o) ==
    /\ answer[o] = "ok" /\ req[o].kind # "delete" => o \in Committed
    /\ answer[o] = "ok" /\ req[o].kind = "delete" => Fenced(o) \/ inode[req[o].id] = NoKey
    /\ answer[o] \in {"changed", "lost"} /\ Publishing(o) => o \notin Committed /\ Dead(o)
    /\ answer[o] = "conflict" /\ Publishing(o) /\ ~req[o].create => o \notin Committed /\ Dead(o)

AnswerInv == CommitInv /\ FreshIds /\ Replies /\ \A o \in Ops : Truth(o)

\* Whatever happens, Redis sees nothing, one commit, or a part of a restore.
Still == /\ Quiet /\ UNCHANGED <<inode, dirents, epoch, open>>
         /\ parent' => parent
         /\ leases' \subseteq leases
Fencing == /\ Quiet /\ UNCHANGED <<req, sends>>
           /\ (epoch' = epoch /\ ~open') \/ epoch' = epoch + 1

LEMMA StepKinds ==
    ASSUME CommitInv, [Next]_vars
    PROVE  \/ Still
           \/ \E q \in Ops : CommitFacts(q) /\ sends[q] = sends'[q] /\ (line[q] \/ late[q] > 0)
                             /\ UNCHANGED <<req, sends>>
           \/ Fencing
<1>1. ASSUME NEW o \in Ops, ExecuteAndReply(o) \/ ExecuteSilently(o) \/ ExecuteLate(o)
      PROVE  Still \/ (CommitFacts(o) /\ (line[o] \/ late[o] > 0) /\ UNCHANGED <<req, sends>>)
  <2>1. (line[o] \/ late[o] > 0) /\ Run(o) /\ UNCHANGED <<req, sends>>
    BY <1>1 DEF ExecuteAndReply, ExecuteSilently, ExecuteLate
  <2>2. CASE Reply(o) = "commit"
    BY <2>1, <2>2, CommitStep
  <2>3. CASE Reply(o) # "commit"
    BY <2>1, <2>3 DEF Run, server, tree, Still, Quiet
  <2> QED
    BY <2>2, <2>3
<1>2. ASSUME NEW o \in Ops, NEW n \in Names, NEW k \in Kinds, NEW s \in Sizes, Observe(o, n, k, s)
      PROVE  Still
  BY <1>2 DEF Observe, server, tree, Still, Quiet
<1>3. ASSUME NEW o \in Ops,
             \/ RefuseEarly(o) \/ Send(o) \/ LoseRequest(o) \/ Retransmit(o) \/ GiveUp(o)
             \/ ReadReceipt(o)
      PROVE  Still
  BY <1>3 DEF RefuseEarly, Send, LoseRequest, Retransmit, GiveUp, ReadReceipt, server, tree, Still, Quiet
<1>4. ASSUME NEW o \in Ops,
             \/ StageFull(o) \/ CopyLive(o) \/ PatchStage(o) \/ Finish(o) \/ ExpireStage(o)
             \/ ExpireLease(o)
      PROVE  Still
  BY <1>4 DEF StageFull, CopyLive, PatchStage, Finish, ExpireStage, ExpireLease, tree, Still, Quiet
<1>5. CASE RemoveParent
  BY <1>5 DEF RemoveParent, Still, Quiet
<1>6. CASE StartRestore \/ FinishRestore
  BY <1>6 DEF StartRestore, FinishRestore, wire, Fencing, Quiet
<1>7. CASE UNCHANGED vars
  BY <1>7 DEF vars, server, tree, Still, Quiet
<1> QED
  BY <1>1, <1>2, <1>3, <1>4, <1>5, <1>6, <1>7 DEF Next

\* What a call answered, asked and sent is settled when it returns.
LEMMA Finality ==
    ASSUME ClientTypeOK, [Next]_vars, NEW o \in Ops, pc[o] \in Returned
    PROVE  /\ pc'[o] \in Returned
           /\ sends'[o] = sends[o] /\ answer'[o] = answer[o] /\ req'[o] = req[o]
<1> USE DEF Returned
<1>1. ASSUME NEW p \in Ops, NEW n \in Names, NEW k \in Kinds, NEW s \in Sizes, Observe(p, n, k, s)
      PROVE  p # o /\ UNCHANGED <<sends, answer>> /\ pc'[o] = pc[o] /\ req'[o] = req[o]
  BY <1>1 DEF Observe, wire, ClientTypeOK
<1>2. ASSUME NEW p \in Ops, RefuseEarly(p) \/ CopyLive(p) \/ ExecuteAndReply(p) \/ ReadReceipt(p)
                            \/ GiveUp(p)
      PROVE  p # o /\ UNCHANGED <<sends, req>> /\ pc'[o] = pc[o] /\ answer'[o] = answer[o]
  BY <1>2 DEF RefuseEarly, CopyLive, ExecuteAndReply, ReadReceipt, GiveUp, Return, wire, ClientTypeOK
<1>3. ASSUME NEW p \in Ops, StageFull(p) \/ PatchStage(p) \/ Send(p) \/ Retransmit(p)
      PROVE  /\ p # o /\ UNCHANGED answer
             /\ pc'[o] = pc[o] /\ req'[o] = req[o] /\ sends'[o] = sends[o]
  BY <1>3 DEF StageFull, PatchStage, Send, Retransmit, wire, ClientTypeOK
<1>4. ASSUME NEW p \in Ops, ExecuteSilently(p) \/ LoseRequest(p) \/ ExecuteLate(p)
                            \/ ExpireStage(p) \/ ExpireLease(p)
      PROVE  UNCHANGED <<pc, req, sends, answer>>
  BY <1>4 DEF ExecuteSilently, LoseRequest, ExecuteLate, ExpireStage, ExpireLease, wire
<1>5. ASSUME NEW p \in Ops, Finish(p)
      PROVE  UNCHANGED <<req, sends, answer>> /\ pc'[o] \in Returned
  BY <1>5 DEF Finish, wire, ClientTypeOK
<1>6. CASE RemoveParent \/ StartRestore \/ FinishRestore \/ UNCHANGED vars
  BY <1>6 DEF RemoveParent, StartRestore, FinishRestore, vars, wire
<1> QED
  BY <1>1, <1>2, <1>3, <1>4, <1>5, <1>6 DEF Next

\* The clients count their sends and answer last.
LEMMA RepliesPreserved ==
    ASSUME AnswerInv, [Next]_vars
    PROVE  Replies'
<1> USE DEF Returned
<1>t. ClientTypeOK /\ ServerTypeOK /\ WellFormed /\ Replies
  BY DEF AnswerInv, CommitInv, TypeInv, TypeOK
<1> DEFINE Clocked(o) == /\ pc[o] \in {"idle", "observed", "copied", "staged"} => sends[o] = 0
                         /\ sends[o] = 0 => ~line[o] /\ late[o] = 0
                         /\ answer[o] # "none" => pc[o] \in Returned
<1>1. \A o \in Ops : Clocked(o)'
  <2>c. \A o \in Ops : Clocked(o)
    BY <1>t DEF Replies
  <2>1. ASSUME NEW p \in Ops, NEW n \in Names, NEW k \in Kinds, NEW s \in Sizes, Observe(p, n, k, s)
        PROVE  \A o \in Ops : Clocked(o)'
    BY <2>1, <2>c, <1>t DEF Observe, wire, ClientTypeOK
  <2>2. ASSUME NEW p \in Ops, RefuseEarly(p) \/ CopyLive(p) \/ ReadReceipt(p)
        PROVE  \A o \in Ops : Clocked(o)'
    BY <2>2, <2>c, <1>t DEF RefuseEarly, CopyLive, ReadReceipt, Return, wire, ClientTypeOK
  <2>3. ASSUME NEW p \in Ops, StageFull(p) \/ PatchStage(p) \/ Finish(p)
        PROVE  \A o \in Ops : Clocked(o)'
    BY <2>3, <2>c, <1>t DEF StageFull, PatchStage, Finish, wire, ClientTypeOK
  <2>4. ASSUME NEW p \in Ops, Send(p) PROVE \A o \in Ops : Clocked(o)'
    BY <2>4, <2>c, <1>t DEF Send, ClientTypeOK
  <2>5. ASSUME NEW p \in Ops, ExecuteAndReply(p) PROVE \A o \in Ops : Clocked(o)'
    BY <2>5, <2>c, <1>t DEF ExecuteAndReply, Return, ClientTypeOK
  <2>6. ASSUME NEW p \in Ops, ExecuteSilently(p) \/ LoseRequest(p) PROVE \A o \in Ops : Clocked(o)'
    BY <2>6, <2>c, <1>t DEF ExecuteSilently, LoseRequest, ClientTypeOK
  <2>7. ASSUME NEW p \in Ops, ExecuteLate(p) PROVE \A o \in Ops : Clocked(o)'
    BY <2>7, <2>c, <1>t DEF ExecuteLate, ClientTypeOK
  <2>8. ASSUME NEW p \in Ops, Retransmit(p) PROVE \A o \in Ops : Clocked(o)'
    BY <2>8, <2>c, <1>t DEF Retransmit, Abandon, ClientTypeOK
  <2>9. ASSUME NEW p \in Ops, GiveUp(p) PROVE \A o \in Ops : Clocked(o)'
    BY <2>9, <2>c, <1>t DEF GiveUp, Abandon, Return, ClientTypeOK
  <2>10. ASSUME NEW p \in Ops, ExpireStage(p) \/ ExpireLease(p) PROVE \A o \in Ops : Clocked(o)'
    BY <2>10, <2>c DEF ExpireStage, ExpireLease, wire
  <2>11. CASE RemoveParent \/ StartRestore \/ FinishRestore \/ UNCHANGED vars
    BY <2>11, <2>c DEF RemoveParent, StartRestore, FinishRestore, vars, wire
  <2> HIDE DEF Clocked
  <2> QED
    BY <2>1, <2>2, <2>3, <2>4, <2>5, <2>6, <2>7, <2>8, <2>9, <2>10, <2>11 DEF Next
<1>2. ASSUME NEW o \in Ops, sends'[o] = 0 PROVE o \notin Committed'
  <2>1. sends[o] = 0
    <3>1. \A p \in Ops : Send(p) \/ Retransmit(p) => sends[o] = sends'[o] \/ o = p
      BY <1>t DEF Send, Retransmit, ClientTypeOK
    <3>2. \A p \in Ops : Send(p) \/ Retransmit(p) => sends'[p] # 0
      BY <1>t DEF Send, Retransmit, ClientTypeOK
    <3>3. (\E p \in Ops : Send(p) \/ Retransmit(p)) \/ UNCHANGED sends
      BY DEF Next, Observe, RefuseEarly, StageFull, CopyLive, PatchStage, ExecuteAndReply,
         ExecuteSilently, LoseRequest, ExecuteLate, GiveUp, ReadReceipt, Finish, ExpireStage,
         ExpireLease, RemoveParent, StartRestore, FinishRestore, wire, vars
    <3> QED
      BY <1>2, <3>1, <3>2, <3>3
  <2>2. o \notin Committed /\ ~line[o] /\ late[o] = 0
    BY <2>1, <1>t DEF Replies
  <2>3. Still \/ Fencing => Committed' = Committed
    BY QuietCommitted DEF Still, Fencing
  <2>4. ASSUME NEW q \in Ops, CommitFacts(q), line[q] \/ late[q] > 0 PROVE o \notin Committed'
    BY <2>2, <2>4 DEF CommitFacts
  <2> QED
    BY <2>2, <2>3, <2>4, StepKinds DEF AnswerInv
<1> QED
  BY <1>1, <1>2 DEF Replies

\* Allocation keeps ids apart; a commit only touches its own.
LEMMA FreshPreserved ==
    ASSUME AnswerInv, [Next]_vars
    PROVE  FreshIds'
<1> USE IdsAssumption, BoundsAssumption
<1>t. /\ CommitInv /\ ServerTypeOK /\ ClientTypeOK /\ WellFormed /\ FreshIds
      /\ TypeInv' /\ Marks
  BY TypesPreserved DEF AnswerInv, CommitInv, TypeInv, TypeOK
<1>1. ASSUME NEW o \in Ops, NEW n \in Names, NEW k \in Kinds, NEW s \in Sizes, Observe(o, n, k, s)
      PROVE  FreshIds'
  <2>1. /\ Quiet /\ UNCHANGED <<inode, epoch, open, next>> /\ open
        /\ \A x \in Ops : x # o => req'[x] = req[x]
        /\ req'[o].id = dirents[n] /\ (req'[o].create <=> dirents[n] = 0)
        /\ dirents[n] # 0 => inode[dirents[n]] # NoKey
    BY <1>1, <1>t DEF Observe, server, tree, Quiet, ClientTypeOK
  <2>2. dirents[n] # 0 => dirents[n] \in InodeIds /\ dirents[n] <= next
    BY <2>1, <1>t DEF FreshIds, ServerTypeOK
  <2>3. \A x \in Ops : x # o => (Allocated(x)' <=> Allocated(x))
    BY <2>1 DEF Allocated, Fenced
  <2>4. Committed' = Committed
    BY <2>1, QuietCommitted
  <2>5. (\A x \in Ops : Allocated(x) => req[x].id <= next)'
    BY <2>1, <2>2, <2>3, <1>t DEF FreshIds, Allocated
  <2>6. ASSUME NEW p \in Ops, Allocated(p)', req'[p].create, p \notin Committed'
        PROVE  /\ inode'[req'[p].id] = NoKey
               /\ \A x \in Ops : x # p /\ Allocated(x)' => req'[x].id # req'[p].id
    <3>1. p # o
      BY <2>1, <2>6 DEF Allocated
    <3>2. Allocated(p) /\ req[p].create /\ p \notin Committed /\ req'[p] = req[p]
      BY <2>1, <2>3, <2>4, <2>6, <3>1
    <3>3. inode[req[p].id] = NoKey
      BY <3>2, <1>t DEF FreshIds
    <3>4. ASSUME NEW x \in Ops, x # p, Allocated(x)' PROVE req'[x].id # req'[p].id
      <4>1. CASE x = o
        BY <4>1, <3>2, <3>3, <3>4, <2>1 DEF Allocated
      <4>2. CASE x # o
        BY <4>2, <2>1, <2>3, <3>2, <3>4, <1>t DEF FreshIds
      <4> QED
        BY <4>1, <4>2
    <3> QED
      BY <2>1, <3>2, <3>3, <3>4
  <2> QED
    BY <2>1, <2>5, <2>6, <1>t DEF FreshIds
<1>2. ASSUME NEW o \in Ops, StageFull(o) PROVE FreshIds'
  <2>1. /\ Quiet /\ UNCHANGED <<inode, epoch, open>>
        /\ \A x \in Ops : x # o => req'[x] = req[x]
    BY <1>2, <1>t DEF StageFull, tree, Quiet, ClientTypeOK
  <2>2. Committed' = Committed
    BY <2>1, QuietCommitted
  <2>3. CASE ~req[o].create
    <3>1. UNCHANGED <<req, next>>
      BY <1>2, <2>3 DEF StageFull
    <3>2. \A x \in Ops : Allocated(x)' <=> Allocated(x)
      BY <2>1, <3>1 DEF Allocated, Fenced
    <3> QED
      BY <2>1, <2>2, <3>1, <3>2, <1>t DEF FreshIds
  <2>4. CASE req[o].create
    <3>1. next' = next + 1 /\ next \in Nat /\ next' \in InodeIds
      BY <1>2, <2>4, <1>t DEF StageFull, ServerTypeOK
    <3>2. /\ req'[o].id = next + 1 /\ req'[o].create /\ req'[o].epoch = req[o].epoch
          /\ req[o] \in Request
      <4>1. req[o] \in Request
        BY <1>2, <1>t DEF StageFull, WellFormed, ClientTypeOK
      <4>2. req'[o] = [req[o] EXCEPT !.id = next + 1]
        BY <1>2, <2>4, <4>1, <1>t DEF StageFull, ClientTypeOK
      <4> QED
        BY <2>4, <4>1, <4>2 DEF Request
    <3>3. \A x \in Ops : x # o => (Allocated(x)' <=> Allocated(x))
      BY <2>1 DEF Allocated, Fenced
    <3>4. \A x \in Ops : Allocated(x) => req[x].id \in 1..next
      <4>1. \A x \in Ops : Allocated(x) => req[x] \in Request
        BY <1>t DEF Allocated, ClientTypeOK
      <4> QED
        BY <4>1, <1>t DEF FreshIds, Allocated, Request
    <3>5. open => inode[next + 1] = NoKey
      BY <3>1, <1>t DEF FreshIds
    <3>6. Allocated(o)' => open
      BY <2>1 DEF Allocated, Fenced
    <3>7. (\A x \in Ops : Allocated(x) => req[x].id <= next)'
      BY <3>1, <3>2, <3>3, <3>4, <2>1
    <3>8. (open => \A i \in InodeIds : inode[i] # NoKey => i <= next)'
      BY <2>1, <3>1, <1>t DEF FreshIds
    <3>9. ASSUME NEW p \in Ops, Allocated(p)', req'[p].create, p \notin Committed'
          PROVE  /\ inode'[req'[p].id] = NoKey
                 /\ \A x \in Ops : x # p /\ Allocated(x)' => req'[x].id # req'[p].id
      <4>1. CASE p = o
        BY <4>1, <2>1, <3>1, <3>2, <3>3, <3>4, <3>5, <3>6, <3>9
      <4>2. CASE p # o
        <5>1. /\ Allocated(p) /\ req[p].create /\ p \notin Committed /\ req'[p] = req[p]
              /\ inode[req[p].id] = NoKey
          BY <4>2, <2>1, <2>2, <3>3, <3>9, <1>t DEF FreshIds
        <5>2. ASSUME NEW x \in Ops, x # p, Allocated(x)' PROVE req'[x].id # req'[p].id
          <6>1. CASE x = o
            BY <6>1, <5>1, <3>1, <3>2, <3>4
          <6>2. CASE x # o
            BY <6>2, <5>1, <5>2, <2>1, <3>3, <1>t DEF FreshIds
          <6> QED
            BY <6>1, <6>2
        <5> QED
          BY <2>1, <5>1, <5>2
      <4> QED
        BY <4>1, <4>2
    <3> QED
      BY <3>7, <3>8, <3>9 DEF FreshIds
  <2> QED
    BY <2>3, <2>4
<1>3. ASSUME NEW q \in Ops, CommitFacts(q), UNCHANGED req PROVE FreshIds'
  <2>1. /\ \A x \in Ops : Allocated(x)' <=> Allocated(x)
        /\ UNCHANGED <<open, next, req>> /\ Committed' = Committed \cup {q}
    BY <1>3 DEF CommitFacts, Allocated, Fenced
  <2>2. /\ q \notin Committed /\ req[q].id \in InodeIds
        /\ \A i \in InodeIds : i # req[q].id => inode'[i] = inode[i]
        /\ Allocated(q)
    <3>1. req[q] # NoRequest /\ req[q].id # 0
      BY <1>3 DEF CommitFacts, NoRequest
    <3> QED
      BY <1>3, <3>1 DEF CommitFacts, Allocated
  <2>3. (open => \A i \in InodeIds : inode[i] # NoKey => i <= next)'
    BY <2>1, <2>2, <1>t DEF FreshIds
  <2>4. ASSUME NEW p \in Ops, Allocated(p)', req'[p].create, p \notin Committed'
        PROVE  inode'[req'[p].id] = NoKey
    <3>1. /\ p # q /\ Allocated(p) /\ req[p].create /\ p \notin Committed
          /\ inode[req[p].id] = NoKey
      BY <2>1, <2>4, <1>t DEF FreshIds
    <3>2. req[q].id # req[p].id
      BY <2>2, <3>1, <1>t DEF FreshIds
    <3>3. req[p].id \in InodeIds
      <4>1. req[p] \in Request
        BY <3>1, <1>t DEF Allocated, ClientTypeOK
      <4> QED
        BY <3>1, <4>1 DEF Allocated, Request
    <3> QED
      BY <2>1, <2>2, <3>1, <3>2, <3>3
  <2> QED
    BY <2>1, <2>3, <2>4, <1>t DEF FreshIds
<1>4. CASE StartRestore \/ FinishRestore
  <2>1. \A o \in Ops : ~Allocated(o)'
    BY <1>4, <1>t DEF StartRestore, FinishRestore, Allocated, Fenced, Marks, ServerTypeOK
  <2>2. (open => \A i \in InodeIds : inode[i] # NoKey => i <= next)'
    <3>1. CASE StartRestore
      BY <3>1 DEF StartRestore
    <3>2. CASE FinishRestore
      BY <3>2, BaseAssumption DEF FinishRestore, BaseInode
    <3> QED
      BY <1>4, <3>1, <3>2
  <2> QED
    BY <2>1, <2>2 DEF FreshIds
<1>5. ASSUME Quiet, UNCHANGED <<inode, epoch, open, next, req>> PROVE FreshIds'
  <2>1. Committed' = Committed /\ \A x \in Ops : Allocated(x)' <=> Allocated(x)
    BY <1>5, QuietCommitted DEF Allocated, Fenced
  <2> QED
    BY <1>5, <2>1, <1>t DEF FreshIds
<1>6. ASSUME NEW o \in Ops, ExecuteAndReply(o) \/ ExecuteSilently(o) \/ ExecuteLate(o)
      PROVE  FreshIds'
  <2>1. (line[o] \/ late[o] > 0) /\ Run(o) /\ UNCHANGED req
    BY <1>6 DEF ExecuteAndReply, ExecuteSilently, ExecuteLate
  <2>2. CASE Reply(o) = "commit"
    BY <2>1, <2>2, <1>3, <1>t, CommitStep
  <2>3. CASE Reply(o) # "commit"
    BY <2>1, <2>3, <1>5 DEF Run, server, tree, Quiet
  <2> QED
    BY <2>2, <2>3
<1>7. ASSUME NEW o \in Ops,
             \/ RefuseEarly(o) \/ Send(o) \/ LoseRequest(o) \/ Retransmit(o) \/ GiveUp(o)
             \/ ReadReceipt(o)
      PROVE  FreshIds'
  BY <1>7, <1>5 DEF RefuseEarly, Send, LoseRequest, Retransmit, GiveUp, ReadReceipt, server, tree, Quiet
<1>8. ASSUME NEW o \in Ops,
             CopyLive(o) \/ PatchStage(o) \/ Finish(o) \/ ExpireStage(o) \/ ExpireLease(o)
      PROVE  FreshIds'
  BY <1>8, <1>5 DEF CopyLive, PatchStage, Finish, ExpireStage, ExpireLease, tree, Quiet
<1>9. CASE RemoveParent \/ UNCHANGED vars
  BY <1>9, <1>5 DEF RemoveParent, vars, server, tree, Quiet
<1> QED
  BY <1>1, <1>2, <1>4, <1>6, <1>7, <1>8, <1>9 DEF Next

\* A request that lost its chance never gets it back: a fence, a lost lease, a
\* removed directory and a changed entry are all final for the call.
LEMMA DeadStays ==
    ASSUME AnswerInv, [Next]_vars, NEW o \in Ops, pc[o] \in Returned,
           Publishing(o), o \notin Committed, Dead(o)
    PROVE  o \notin Committed' /\ Dead(o)'
<1> USE IdsAssumption
<1>t. /\ CommitInv /\ ServerTypeOK /\ ClientTypeOK /\ WellFormed /\ Marks /\ Replies
      /\ Committed \subseteq Ops
  BY CommittedOps DEF AnswerInv, CommitInv, TypeInv, TypeOK
<1>1. sends'[o] = sends[o] /\ req'[o] = req[o] /\ req[o] # NoRequest
  BY <1>t, Finality DEF Publishing
<1>2. CASE Still
  <2>1. o \notin Committed'
    BY <1>2, QuietCommitted DEF Still
  <2>2. Dead(o)'
    BY <1>1, <1>2 DEF Still, Dead, Fenced, LeaseGone, ParentGone, AsExpected
  <2> QED
    BY <2>1, <2>2
<1>3. CASE Fencing
  <2>1. Fenced(o)'
    BY <1>1, <1>3, <1>t DEF Fencing, Fenced, Marks, ServerTypeOK
  <2> QED
    BY <1>3, <2>1, QuietCommitted DEF Fencing, Dead
<1>4. ASSUME NEW q \in Ops, CommitFacts(q), line[q] \/ late[q] > 0, UNCHANGED <<req, sends>>
      PROVE  o \notin Committed' /\ Dead(o)'
  <2>1. q # o
    <3>1. CASE sends[o] = 0
      BY <1>4, <1>t, <3>1 DEF Replies
    <3>2. CASE sends[o] # 0
      BY <1>4, <1>t, <3>2 DEF Dead, CommitFacts, ParentGone
    <3> QED
      BY <3>1, <3>2
  <2>2. o \notin Committed' /\ UNCHANGED <<epoch, open, parent, leases>>
    BY <1>4, <2>1 DEF CommitFacts
  <2>3. CASE sends[o] = 0 \/ Fenced(o) \/ LeaseGone(o) \/ (~req[o].create /\ ParentGone)
    BY <2>2, <2>3, <1>4 DEF Dead, Fenced, LeaseGone, ParentGone
  <2>4. CASE ~req[o].create /\ ~AsExpected(o)
    <3>1. req[o] \in Request /\ req[o].id \in InodeIds /\ req[o].name \in Names
      <4>1. req[o] \in Request
        BY <1>1, <1>t DEF ClientTypeOK
      <4>2. pc[o] # "idle" /\ ~req[o].create
        BY <2>4 DEF Returned
      <4>3. req[o].id # 0
        BY <4>2, <1>t DEF WellFormed
      <4> QED
        BY <4>1, <4>3 DEF Request
    <3>2. q # req[o].rev
      BY <1>1, <1>4, <1>t DEF Marks, CommitFacts
    <3>3. CASE req[q].id = req[o].id
      BY <3>2, <3>3, <1>4, <2>4 DEF CommitFacts, AsExpected, Dead
    <3>4. CASE req[q].id # req[o].id
      <4>1. inode'[req[o].id] = inode[req[o].id]
        BY <3>1, <3>4, <1>4 DEF CommitFacts
      <4>2. dirents'[req[o].name] = req[o].id => dirents[req[o].name] = req[o].id
        BY <3>1, <3>4, <1>4 DEF CommitFacts
      <4>3. ~AsExpected(o)'
        BY <4>1, <4>2, <1>1, <2>4 DEF AsExpected
      <4> QED
        BY <4>3, <1>1, <2>2, <2>4 DEF Dead
    <3> QED
      BY <3>3, <3>4
  <2> QED
    BY <2>2, <2>3, <2>4 DEF Dead
<1> QED
  BY <1>t, <1>2, <1>3, <1>4, StepKinds

\* A deleted inode stays deleted under the generation of its deletion.
LEMMA DeletedStays ==
    ASSUME AnswerInv, [Next]_vars, NEW o \in Ops, pc[o] \in Returned,
           req[o].kind = "delete", Fenced(o) \/ inode[req[o].id] = NoKey
    PROVE  (Fenced(o) \/ inode[req[o].id] = NoKey)'
<1> USE IdsAssumption
<1>t. /\ CommitInv /\ ServerTypeOK /\ ClientTypeOK /\ WellFormed /\ Marks /\ FreshIds
  BY DEF AnswerInv, CommitInv, TypeInv, TypeOK
<1>1. req'[o] = req[o]
  BY <1>t, Finality
<1>2. req[o] # NoRequest /\ req[o].id \in InodeIds
  <2>1. req[o] \in Request /\ req[o] # NoRequest
    BY <1>t DEF WellFormed, ClientTypeOK, Returned
  <2>2. req[o].id # 0
    BY <2>1, <1>t DEF WellFormed
  <2> QED
    BY <2>1, <2>2 DEF Request
<1>3. CASE Still
  BY <1>1, <1>3 DEF Still, Fenced
<1>4. CASE Fencing
  BY <1>1, <1>2, <1>4, <1>t DEF Fencing, Fenced, Marks, ServerTypeOK
<1>5. ASSUME NEW q \in Ops, CommitFacts(q) PROVE (Fenced(o) \/ inode[req[o].id] = NoKey)'
  <2>1. CASE Fenced(o)
    BY <1>1, <1>5, <2>1 DEF CommitFacts, Fenced
  <2>2. CASE ~Fenced(o) /\ q = o
    BY <1>1, <1>5, <2>2 DEF CommitFacts
  <2>3. CASE ~Fenced(o) /\ q # o
    <3>1. Allocated(o)
      BY <1>2, <2>3 DEF Allocated
    <3>2. req[q].id # req[o].id
      <4>1. CASE req[q].create
        <5>1. Allocated(q) /\ q \notin Committed
          BY <1>5 DEF CommitFacts, Allocated, NoRequest
        <5> QED
          BY <4>1, <5>1, <3>1, <2>3, <1>t DEF FreshIds
      <4>2. CASE ~req[q].create
        BY <4>2, <1>5, <2>3 DEF CommitFacts, AsExpected
      <4> QED
        BY <4>1, <4>2
    <3> QED
      BY <3>2, <1>1, <1>2, <1>5, <2>3 DEF CommitFacts
  <2> QED
    BY <2>1, <2>2, <2>3
<1> QED
  BY <1>t, <1>3, <1>4, <1>5, StepKinds

\* The reply of a script that commits nothing is true of the state it read.
LEMMA ReplyIsTrue ==
    ASSUME CommitInv, NEW o \in Ops, line[o] \/ late[o] > 0, Reply(o) # "commit"
    PROVE  /\ Reply(o) = "ok" /\ req[o].kind # "delete" => o \in Committed
           /\ Reply(o) = "ok" /\ req[o].kind = "delete" => inode[req[o].id] = NoKey
           /\ Reply(o) \in Refusals /\ Publishing(o) => o \notin Committed
           /\ Reply(o) = "changed" /\ Publishing(o) => Fenced(o)
           /\ Reply(o) = "lost" /\ Publishing(o) => LeaseGone(o)
           /\ Reply(o) = "conflict" /\ Publishing(o) => ParentGone \/ ~AsExpected(o)
<1> USE IdsAssumption
<1>t. ServerTypeOK /\ ClientTypeOK /\ WellFormed /\ Marks
  BY DEF CommitInv, TypeInv, TypeOK
<1>1. req[o] \in Request /\ req[o].id \in InodeIds /\ req[o] # NoRequest
  <2>1. req[o] # NoRequest /\ req[o].id # 0
    BY <1>t DEF WellFormed
  <2>2. req[o] \in Request
    BY <1>t, <2>1 DEF ClientTypeOK
  <2> QED
    BY <2>1, <2>2 DEF Request
<1>2. inode[req[o].id] # NoKey /\ inode[req[o].id].rev = o => o \in Committed
  BY <1>1, <1>t DEF Marks
<1>3. CASE req[o].kind = "update"
  BY <1>2, <1>3 DEF Reply, UpdateReply, Publishing
<1>4. CASE req[o].kind = "delete"
  BY <1>4 DEF Reply, DeleteReply, Publishing
<1>5. CASE req[o].kind \in {"write", "delta"}
  <2>1. Reply(o) = PublishReply(o) /\ Publishing(o)
    BY <1>1, <1>5 DEF Reply, Publishing
  <2>2. o \in receipts <=> o \in Committed
    BY <1>t, <2>1 DEF Marks
  <2> QED
    BY <1>2, <1>5, <2>1, <2>2 DEF PublishReply, Acknowledged, Refusals
<1> QED
  BY <1>1, <1>3, <1>4, <1>5 DEF Request

\* An answer is true when it is given, and stays true.
LEMMA TruthPreserved ==
    ASSUME AnswerInv, [Next]_vars
    PROVE  \A o \in Ops : Truth(o)'
<1> USE IdsAssumption
<1>t. /\ CommitInv /\ ServerTypeOK /\ ClientTypeOK /\ WellFormed /\ Marks /\ Replies
      /\ \A o \in Ops : Truth(o)
  BY DEF AnswerInv, CommitInv, TypeInv, TypeOK
<1>1. ASSUME NEW o \in Ops, pc[o] \in Returned PROVE Truth(o)'
  <2>1. answer'[o] = answer[o] /\ req'[o] = req[o]
    BY <1>1, <1>t, Finality
  <2>2. (Publishing(o)' <=> Publishing(o)) /\ Truth(o)
    BY <2>1, <1>t DEF Publishing
  <2>3. o \in Committed => o \in Committed'
    BY <1>t, StepKinds, QuietCommitted DEF Still, Fencing, CommitFacts
  <2> QED
    BY <1>1, <2>1, <2>2, <2>3, DeadStays, DeletedStays DEF Truth
<1>2. ASSUME NEW o \in Ops, answer'[o] = "none" PROVE Truth(o)'
  BY <1>2 DEF Truth
<1>3. ASSUME NEW o \in Ops, NEW a \in Answers, Return(o, a), NEW x \in Ops, x # o,
             pc[x] \notin Returned
      PROVE  Truth(x)'
  <2>1. answer'[x] = "none"
    BY <1>3, <1>t DEF Return, Replies, ClientTypeOK
  <2> QED
    BY <2>1, <1>2
<1>4. ASSUME UNCHANGED answer PROVE \A o \in Ops : Truth(o)'
  BY <1>4, <1>1, <1>2, <1>t DEF Replies
<1>5. ASSUME NEW o \in Ops, RefuseEarly(o) \/ (CopyLive(o) /\ Return(o, "conflict"))
      PROVE  \A x \in Ops : Truth(x)'
  <2>1. /\ Return(o, "conflict") /\ pc[o] = "observed" /\ sends[o] = 0
        /\ Quiet /\ UNCHANGED <<req, sends>>
    BY <1>5, <1>t DEF RefuseEarly, CopyLive, server, tree, wire, Quiet, Replies
  <2>2. answer'[o] = "conflict" /\ sends'[o] = 0 /\ o \notin Committed'
    BY <2>1, <1>t, QuietCommitted DEF Return, Replies, ClientTypeOK
  <2>3. Truth(o)'
    BY <2>2 DEF Truth, Dead
  <2> QED
    BY <2>1, <2>3, <1>1, <1>3 DEF Answers
<1>6. ASSUME NEW o \in Ops, ReadReceipt(o) PROVE \A x \in Ops : Truth(x)'
  <2>1. PICK a \in {"ok", "error"} : Return(o, a) /\ (a = "ok" => o \in receipts)
    BY <1>6 DEF ReadReceipt
  <2>2. Quiet /\ UNCHANGED req /\ answer'[o] = a
    BY <1>6, <2>1, <1>t DEF ReadReceipt, server, Quiet, Return, ClientTypeOK
  <2>3. a = "ok" => o \in Committed' /\ Publishing(o)
    BY <2>1, <2>2, <1>t, QuietCommitted DEF Marks
  <2>4. Truth(o)'
    BY <2>2, <2>3 DEF Truth, Publishing
  <2> QED
    BY <2>1, <2>4, <1>1, <1>3 DEF Answers
<1>7. ASSUME NEW o \in Ops, GiveUp(o) PROVE \A x \in Ops : Truth(x)'
  <2>1. CASE Return(o, "error")
    <3>1. answer'[o] = "error"
      BY <2>1, <1>t DEF Return, ClientTypeOK
    <3>2. Truth(o)'
      BY <3>1 DEF Truth
    <3> QED
      BY <2>1, <3>2, <1>1, <1>3 DEF Answers
  <2> QED
    BY <1>7, <2>1, <1>4 DEF GiveUp
<1>8. ASSUME NEW o \in Ops, ExecuteAndReply(o) PROVE \A x \in Ops : Truth(x)'
  <2> DEFINE a == IF Reply(o) = "commit" THEN "ok" ELSE Reply(o)
  <2>1. /\ line[o] /\ Run(o) /\ Return(o, a) /\ UNCHANGED req /\ pc[o] = "sent"
        /\ answer'[o] = a /\ a \in Answers
    <3>1. a \in Answers
      BY DEF Reply, UpdateReply, DeleteReply, PublishReply, Answers
    <3> QED
      BY <1>8, <3>1, <1>t DEF ExecuteAndReply, Return, ClientTypeOK
  <2>2. CASE Reply(o) = "commit"
    <3>1. CommitFacts(o) /\ answer'[o] = "ok"
      BY <2>1, <2>2, <1>t, CommitStep
    <3> QED
      BY <2>1, <3>1, <1>1, <1>3 DEF CommitFacts, Truth
  <2>3. CASE Reply(o) # "commit"
    <3>1. UNCHANGED server /\ answer'[o] = Reply(o) /\ Quiet
      BY <2>1, <2>3 DEF Run, server, Quiet
    <3>2. /\ Committed' = Committed /\ (Publishing(o)' <=> Publishing(o))
          /\ UNCHANGED <<epoch, open, parent, dirents, inode, leases, req>>
      BY <2>1, <3>1, QuietCommitted DEF Publishing, server, tree
    <3>3. Truth(o)'
      <4>1. answer'[o] = "ok" => Truth(o)'
        BY <2>1, <2>3, <3>1, <3>2, <1>t, ReplyIsTrue DEF Truth
      <4>2. answer'[o] \in {"changed", "lost"} /\ Publishing(o) => o \notin Committed' /\ Dead(o)'
        BY <2>1, <2>3, <3>1, <3>2, <1>t, ReplyIsTrue DEF Refusals, Dead, Fenced, LeaseGone
      <4>3. answer'[o] = "conflict" /\ Publishing(o) /\ ~req[o].create
               => o \notin Committed' /\ Dead(o)'
        BY <2>1, <2>3, <3>1, <3>2, <1>t, ReplyIsTrue DEF Refusals, Dead, ParentGone, AsExpected
      <4> QED
        BY <4>1, <4>2, <4>3, <3>2 DEF Truth
    <3> HIDE DEF a
    <3> QED
      BY <2>1, <3>3, <1>1, <1>3
  <2> QED
    BY <2>2, <2>3
<1> QED
  <2>1. \/ UNCHANGED answer
        \/ \E o \in Ops : \/ RefuseEarly(o) \/ (CopyLive(o) /\ Return(o, "conflict"))
                          \/ ReadReceipt(o) \/ GiveUp(o) \/ ExecuteAndReply(o)
    BY DEF Next, Observe, RefuseEarly, StageFull, CopyLive, PatchStage, Send,
       ExecuteSilently, LoseRequest, ExecuteLate, Retransmit, Finish, ExpireStage,
       ExpireLease, RemoveParent, StartRestore, FinishRestore, vars
  <2> QED
    BY <2>1, <1>4, <1>5, <1>6, <1>7, <1>8

LEMMA AnswersInitially == Init => AnswerInv
<1> SUFFICES ASSUME Init PROVE AnswerInv
  OBVIOUS
<1>1. CommitInv
  BY CommitInitially
<1>2. FreshIds
  BY BaseAssumption DEF Init, FreshIds, Allocated, BaseInode
<1>3. Replies /\ \A o \in Ops : Truth(o)
  BY DEF Init, Replies, Truth, Committed
<1> QED
  BY <1>1, <1>2, <1>3 DEF AnswerInv

\* What a call answered stays true: success means it committed (a delete: the
\* inode is gone for good), and a publication that was refused by a fence, a
\* lost lease or a conflict with an existing file never happens afterwards.
THEOREM AnswersStayTrue == Spec => []AnswersAreTrue
<1>1. Init => AnswerInv
  BY AnswersInitially
<1>2. AnswerInv /\ [Next]_vars => AnswerInv'
  BY CommitPreserved, FreshPreserved, RepliesPreserved, TruthPreserved DEF AnswerInv
<1>3. AnswerInv => AnswersAreTrue
  BY DEF AnswerInv, AnswersAreTrue, Truth, Refusals
<1> QED
  BY <1>1, <1>2, <1>3, PTL DEF Spec
=============================================================================
