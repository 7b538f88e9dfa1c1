----------------------- MODULE RootReplacementProofs -----------------------
(***************************************************************************)
(* Proofs about RootReplacement for every set of requests, every tree and  *)
(* every value of its bounds: the types and the fences; then that the      *)
(* clean marker is true and nothing unsaved is destroyed, that a deleted   *)
(* workspace does not reappear, and that restores keep the promise of      *)
(* PublishedTree.                                                          *)
(***************************************************************************)
EXTENDS RootReplacement, TLAPS

LEMMA TreeTypes == NoTree \in Trees /\ BaseTree \in Trees
  BY ReplacementConstants DEF NoTree, BaseTree, Trees

LEMMA InitTypes == Init => TypeOK
<1> SUFFICES ASSUME NEW opened \in Openings, InitWith(opened) PROVE TypeOK
  BY DEF Init
<1> USE ReplacementConstants, TreeTypes DEF InitWith
<1>1. gen \in Generations /\ NoGeneration \in Generations
  BY DEF Generations, NoGeneration, Phases, Savepoints
<1>2. saved \in [Savepoints -> Trees \cup {Absent}]
  OBVIOUS
<1>3. call \in [Calls -> Locals]
  BY <1>1 DEF Locals, Steps, Savepoints
<1> QED
  BY <1>1, <1>2, <1>3 DEF TypeOK, Savepoints

\* A call that steps to a position of its own or gives up stays well typed.
LEMMA GoTypes ==
    ASSUME call \in [Calls -> Locals], NEW c \in Calls, NEW s \in Steps, Go(c, s)
    PROVE  call' \in [Calls -> Locals]
  BY DEF Go, Locals

LEMMA RefusedTypes ==
    ASSUME TypeOK, NEW c \in Calls, NEW ok, Refused(c, ok)
    PROVE  TypeOK'
<1>1. call' \in [Calls -> Locals]
  BY GoTypes DEF Refused, TypeOK, Steps
<1> QED
  BY <1>1 DEF Refused, TypeOK, tree

LEMMA NextTypes == TypeOK /\ [Next]_vars => TypeOK'
<1> SUFFICES ASSUME TypeOK, [Next]_vars PROVE TypeOK'
  OBVIOUS
<1> USE TreeTypes
<1>0. gen \in Generations /\ changes \in Nat /\ \A c \in Calls : call[c] \in Locals
  BY DEF TypeOK
<1>1. ASSUME NEW c \in Calls, NEW job \in Offered,
             Acquire(c, job) \/ StartSave(c, job) \/ StartUpload(c, job)
      PROVE  TypeOK'
  <2>1. job \in Jobs
    BY ReplacementConstants
  <2>2. CASE Acquire(c, job)
    <3>1. call' \in [Calls -> Locals] /\ lock' \in Calls \cup {Nobody}
      <4>1. CASE lock = Nobody
        <5>1. PICK t \in Savepoints :
                call' = [call EXCEPT ![c].at = "locked", ![c].job = job,
                                       ![c].target = t]
          BY <2>2, <4>1 DEF Acquire, Savepoints
        <5>2. [call[c] EXCEPT !.at = "locked", !.job = job, !.target = t] \in Locals
          BY <1>0, <2>1 DEF Locals, Steps
        <5>3. call' \in [Calls -> Locals]
          BY <5>1, <5>2 DEF TypeOK
        <5> QED
          BY <2>2, <4>1, <5>3 DEF Acquire
      <4>2. CASE lock # Nobody
        <5>1. [call[c] EXCEPT !.at = "done", !.job = job] \in Locals
          BY <1>0, <2>1 DEF Locals, Steps
        <5>2. call' \in [Calls -> Locals]
          BY <2>2, <4>2, <5>1 DEF Acquire, TypeOK
        <5> QED
          BY <2>2, <4>2, <5>2 DEF Acquire, TypeOK
      <4> QED
        BY <4>1, <4>2
    <3> QED
      BY <2>2, <3>1 DEF Acquire, TypeOK, tree
  <2>3. CASE StartSave(c, job)
    <3>1. [call[c] EXCEPT !.at = "head", !.job = job] \in Locals
      BY <1>0, <2>1 DEF Locals, Steps
    <3>2. call' \in [Calls -> Locals]
      BY <2>3, <3>1 DEF StartSave, TypeOK
    <3> QED
      BY <2>3, <3>2 DEF StartSave, TypeOK, tree
  <2>4. CASE StartUpload(c, job)
    <3>1. PICK t \in Trees :
            call' = [call EXCEPT ![c].at = "verify", ![c].job = job,
                                   ![c].head = head, ![c].copy = t]
      BY <2>4 DEF StartUpload, Manifests
    <3>2. head \in Savepoints
      BY <2>4 DEF StartUpload, TypeOK
    <3>3. [call[c] EXCEPT !.at = "verify", !.job = job, !.head = head,
                          !.copy = t] \in Locals
      BY <1>0, <2>1, <3>2 DEF Locals, Steps
    <3>4. call' \in [Calls -> Locals]
      BY <3>1, <3>3 DEF TypeOK
    <3> QED
      BY <2>4, <3>4 DEF StartUpload, TypeOK, tree
  <2> QED
    BY <1>1, <2>2, <2>3, <2>4
<1>2. ASSUME NEW c \in Calls, ReadGeneration(c) PROVE TypeOK'
  <2>1. CASE Refused(c, Admissible(c))
    BY <2>1, RefusedTypes
  <2>2. CASE ~Refused(c, Admissible(c))
    <3>1. [call[c] EXCEPT !.at = "fence", !.gen = gen] \in Locals
      BY <1>0 DEF Locals, Steps
    <3>2. call' \in [Calls -> Locals]
      BY <1>2, <2>2, <3>1 DEF ReadGeneration, TypeOK
    <3> QED
      BY <1>2, <2>2, <3>2 DEF ReadGeneration, TypeOK, tree
  <2> QED
    BY <2>1, <2>2
<1>3. ASSUME NEW c \in Calls, Fence(c) PROVE TypeOK'
  <2>1. FirstPhase(c) \in Generations
    BY DEF FirstPhase, Tombstone, Generations, Phases, Savepoints
  <2>2. AfterFence(c) \in Steps /\ Manifest(c) \in Trees
    BY DEF AfterFence, Manifest, Steps
  <2>3. CASE Refused(c, Owns(c, call[c].gen))
    BY <2>3, RefusedTypes
  <2>4. CASE ~Refused(c, Owns(c, call[c].gen))
    <3>1. [call[c] EXCEPT !.at = AfterFence(c), !.gen = FirstPhase(c),
                          !.copy = Manifest(c)] \in Locals
      BY <1>0, <2>1, <2>2 DEF Locals
    <3>2. call' \in [Calls -> Locals]
      BY <1>3, <2>4, <3>1 DEF Fence, TypeOK
    <3> QED
      BY <1>3, <2>1, <2>4, <3>2 DEF Fence, TypeOK, tree
  <2> QED
    BY <2>3, <2>4
<1>4. ASSUME NEW c \in Calls, ReadHead(c) PROVE TypeOK'
  <2>1. CASE Refused(c, head # Absent)
    BY <2>1, RefusedTypes
  <2>2. CASE ~Refused(c, head # Absent)
    <3>1. head \in Savepoints
      BY <1>4, <2>2 DEF ReadHead, TypeOK
    <3>2. [call[c] EXCEPT !.at = "dirty", !.head = head] \in Locals
      BY <1>0, <3>1 DEF Locals, Steps
    <3>3. call' \in [Calls -> Locals]
      BY <1>4, <2>2, <3>2 DEF ReadHead, TypeOK
    <3> QED
      BY <1>4, <2>2, <3>3 DEF ReadHead, TypeOK, tree
  <2> QED
    BY <2>1, <2>2
<1>5. ASSUME NEW c \in Calls, ReadDirty(c) PROVE TypeOK'
  <2>1. CASE Refused(c, Restoring(c) \/ gen.phase = "open")
    BY <2>1, RefusedTypes
  <2>2. CASE ~Refused(c, Restoring(c) \/ gen.phase = "open")
    <3>1. PICK s \in Steps, g \in {gen, call[c].gen} :
            call' = [call EXCEPT ![c].at = s, ![c].gen = g]
      BY <1>5, <2>2 DEF ReadDirty, AfterSave, Steps
    <3>2. [call[c] EXCEPT !.at = s, !.gen = g] \in Locals
      <4>1. g \in Generations
        BY DEF TypeOK, Locals
      <4> QED
        BY <1>0, <4>1 DEF Locals
    <3>3. call' \in [Calls -> Locals]
      BY <3>1, <3>2 DEF TypeOK
    <3> QED
      BY <1>5, <2>2, <3>3 DEF ReadDirty, TypeOK, tree
  <2> QED
    BY <2>1, <2>2
<1>6. ASSUME NEW c \in Calls, ReadRoot(c) PROVE TypeOK'
  <2>1. call' \in [Calls -> Locals]
    <3>1. [call[c] EXCEPT !.at = "capture", !.copy = NoTree, !.todo = Paths,
                          !.changes = changes] \in Locals
      BY <1>0 DEF Locals, Steps
    <3>2. [call[c] EXCEPT !.at = "release", !.result = "missing"] \in Locals
      BY <1>0 DEF Locals, Steps
    <3>3. CASE RootExists
      BY <1>6, <3>1, <3>3 DEF ReadRoot, TypeOK
    <3>4. CASE ~RootExists
      BY <1>6, <3>2, <3>4 DEF ReadRoot, TypeOK
    <3> QED
      BY <3>3, <3>4
  <2> QED
    BY <1>6, <2>1 DEF ReadRoot, TypeOK, tree
<1>7. ASSUME NEW c \in Calls, NEW p \in Paths, Capture(c, p) PROVE TypeOK'
  <2>1. live[p] \in Versions \cup {Absent}
    BY DEF TypeOK, Trees
  <2>2. [call[c].copy EXCEPT ![p] = live[p]] \in Trees
    BY <2>1 DEF TypeOK, Trees, Locals
  <2> QED
    <3>1. PICK rest \in SUBSET Paths :
            call' = [call EXCEPT ![c].copy[p] = live[p], ![c].todo = rest,
                       ![c].at = IF rest = {} THEN "recheck" ELSE "capture"]
      BY <1>7 DEF Capture, TypeOK, Locals
    <3>2. \A s \in Steps :
            [call[c] EXCEPT !.copy[p] = live[p], !.todo = rest, !.at = s] \in Locals
      BY <2>2 DEF TypeOK, Locals
    <3>3. call' \in [Calls -> Locals]
      BY <3>1, <3>2 DEF TypeOK, Steps
    <3> QED
      BY <1>7, <3>3 DEF Capture, TypeOK, tree
<1>8. ASSUME NEW c \in Calls, Recheck(c) PROVE TypeOK'
  BY <1>8, RefusedTypes, GoTypes DEF Recheck, TypeOK, Steps, tree
<1>9. ASSUME NEW c \in Calls, Verify(c) PROVE TypeOK'
  <2>1. CASE Refused(c, MayCommit(c))
    BY <2>1, RefusedTypes
  <2>2. CASE ~Refused(c, MayCommit(c))
    <3>1. PICK s \in Steps, g \in {gen, call[c].gen} :
            call' = [call EXCEPT ![c].at = s, ![c].gen = g]
      BY <1>9, <2>2 DEF Verify, Steps
    <3>2. [call[c] EXCEPT !.at = s, !.gen = g] \in Locals
      <4>1. g \in Generations
        BY DEF TypeOK, Locals
      <4> QED
        BY <1>0, <4>1 DEF Locals
    <3>3. call' \in [Calls -> Locals]
      BY <3>1, <3>2 DEF TypeOK
    <3> QED
      BY <1>9, <2>2, <3>3 DEF Verify, TypeOK, tree
  <2> QED
    BY <2>1, <2>2
<1>10. ASSUME NEW c \in Calls, Commit(c) PROVE TypeOK'
  <2>1. AfterSave(c) \in Steps
    BY DEF AfterSave, Steps
  <2>2. CASE Refused(c, Current(c))
    BY <2>2, RefusedTypes
  <2>3. CASE ~Refused(c, Current(c))
    <3>1. call' \in [Calls -> Locals]
      BY <1>10, <2>1, <2>3, GoTypes DEF Commit, TypeOK
    <3>2. call[c].copy \in Trees /\ c \in Savepoints
      BY DEF TypeOK, Locals, Savepoints
    <3>3. saved' \in [Savepoints -> Trees \cup {Absent}]
      BY <1>10, <2>3, <3>2 DEF Commit, TypeOK
    <3> QED
      BY <1>10, <2>3, <3>1, <3>2, <3>3 DEF Commit, TypeOK
  <2> QED
    BY <2>2, <2>3
<1>11. ASSUME NEW c \in Calls, MarkCaptured(c) PROVE TypeOK'
  <2>1. AfterSave(c) \in Steps /\ call[c].head \in Savepoints
    BY DEF AfterSave, Steps, TypeOK, Locals
  <2> QED
    BY <1>11, <2>1, RefusedTypes, GoTypes DEF MarkCaptured, TypeOK
<1>12. ASSUME NEW c \in Calls, Claim(c) PROVE TypeOK'
  <2>1. [phase |-> "restoring", by |-> c] \in Generations
    BY DEF Generations, Phases, Savepoints
  <2>2. CASE Refused(c, Guarded(c))
    BY <2>2, RefusedTypes
  <2>3. CASE ~Refused(c, Guarded(c))
    <3>1. [call[c] EXCEPT !.at = "move", !.gen = [phase |-> "restoring", by |-> c]]
            \in Locals
      BY <1>0, <2>1 DEF Locals, Steps
    <3>2. call' \in [Calls -> Locals]
      BY <1>12, <2>3, <3>1 DEF Claim, TypeOK
    <3> QED
      BY <1>12, <2>1, <2>3, <3>2 DEF Claim, TypeOK, tree
  <2> QED
    BY <2>2, <2>3
<1>13. ASSUME NEW c \in Calls, MoveHead(c) PROVE TypeOK'
  <2>1. CASE Refused(c, Guarded(c) /\ head # Absent)
    BY <2>1, RefusedTypes
  <2>2. CASE ~Refused(c, Guarded(c) /\ head # Absent)
    <3>1. call[c].target \in Savepoints
      BY DEF TypeOK, Locals
    <3>2. saved[call[c].target] \in Trees \cup {Absent}
      BY <3>1 DEF TypeOK
    <3>3. call' \in [Calls -> Locals]
      <4>1. CASE saved[call[c].target] = Absent
        BY <1>13, <2>2, <4>1, GoTypes DEF MoveHead, TypeOK, Steps
      <4>2. CASE saved[call[c].target] # Absent
        <5>1. [call[c] EXCEPT !.at = "reset", !.copy = saved[call[c].target]]
                \in Locals
          BY <1>0, <3>2, <4>2 DEF Locals, Steps
        <5> QED
          BY <1>13, <2>2, <4>2, <5>1 DEF MoveHead, TypeOK
      <4> QED
        BY <4>1, <4>2
    <3> QED
      BY <1>13, <2>2, <3>1, <3>3 DEF MoveHead, TypeOK, tree
  <2> QED
    BY <2>1, <2>2
<1>14. ASSUME NEW c \in Calls, NEW p \in Paths, ResetNode(c, p) PROVE TypeOK'
  <2>1. [live EXCEPT ![p] = Absent] \in Trees
    BY DEF TypeOK, Trees
  <2> QED
    BY <1>14, <2>1, RefusedTypes DEF ResetNode, TypeOK
<1>15. ASSUME NEW c \in Calls, ResetMarkers(c) PROVE TypeOK'
  <2>1. CASE Refused(c, Guarded(c))
    BY <2>1, RefusedTypes
  <2>2. CASE ~Refused(c, Guarded(c))
    <3>1. PICK nodes \in SUBSET Paths :
            call' = [call EXCEPT ![c].at = "write", ![c].todo = nodes]
      BY <1>15, <2>2 DEF ResetMarkers
    <3>2. [call[c] EXCEPT !.at = "write", !.todo = nodes] \in Locals
      BY <1>0 DEF Locals, Steps
    <3>3. call' \in [Calls -> Locals]
      BY <3>1, <3>2 DEF TypeOK
    <3> QED
      BY <1>15, <2>2, <3>3 DEF ResetMarkers, TypeOK
  <2> QED
    BY <2>1, <2>2
<1>16. ASSUME NEW c \in Calls, NEW p \in Paths, WriteNode(c, p) PROVE TypeOK'
  <2>1. call[c].copy[p] \in Versions \cup {Absent}
    BY DEF TypeOK, Locals, Trees
  <2>2. [live EXCEPT ![p] = call[c].copy[p]] \in Trees
    BY <2>1 DEF TypeOK, Trees
  <2>3. CASE Refused(c, Guarded(c))
    BY <2>3, RefusedTypes
  <2>4. CASE ~Refused(c, Guarded(c))
    <3>1. [call[c] EXCEPT !.todo = @ \ {p}] \in Locals
      BY DEF TypeOK, Locals
    <3>2. call' \in [Calls -> Locals]
      BY <1>16, <2>4, <3>1 DEF WriteNode, TypeOK
    <3> QED
      BY <1>16, <2>2, <2>4, <3>2 DEF WriteNode, TypeOK
  <2> QED
    BY <2>3, <2>4
<1>17. ASSUME NEW c \in Calls, WriteInfo(c) \/ MarkClean(c) PROVE TypeOK'
  <2>1. call[c].target \in Savepoints
    BY DEF TypeOK, Locals
  <2>2. CASE WriteInfo(c)
    BY <2>2, RefusedTypes, GoTypes DEF WriteInfo, TypeOK, Steps
  <2>3. CASE MarkClean(c)
    BY <2>1, <2>3, RefusedTypes, GoTypes DEF MarkClean, TypeOK, Steps
  <2> QED
    BY <1>17, <2>2, <2>3
<1>18. ASSUME NEW c \in Calls, Open(c) PROVE TypeOK'
  <2>1. [phase |-> "open", by |-> c] \in Generations
    BY DEF Generations, Phases, Savepoints
  <2>2. call[c].copy \in Trees
    BY DEF TypeOK, Locals
  <2> QED
    BY <1>18, <2>1, <2>2, RefusedTypes, GoTypes DEF Open, TypeOK, Steps, tree
<1>19. ASSUME NEW c \in Calls, NEW p \in Paths, DropNode(c, p) PROVE TypeOK'
  <2>1. [live EXCEPT ![p] = Absent] \in Trees
    BY DEF TypeOK, Trees
  <2> QED
    BY <1>19, <2>1 DEF DropNode, TypeOK
<1>20. ASSUME NEW c \in Calls, NEW s \in Savepoints, DropSavepoint(c, s)
       PROVE  TypeOK'
  BY <1>20 DEF DropSavepoint, TypeOK, tree
<1>21. ASSUME NEW c \in Calls, DropMeta(c) \/ DropMarker(c) PROVE TypeOK'
  BY <1>21 DEF DropMeta, DropMarker, TypeOK, tree
<1>22. ASSUME NEW c \in Calls,
              EndDrop(c) \/ Release(c) \/ Fail(c) \/ Crash(c)
       PROVE  TypeOK'
  <2>1. call' \in [Calls -> Locals]
    BY <1>22, GoTypes DEF EndDrop, Release, Fail, Crash, TypeOK, Steps
  <2> QED
    BY <1>22, <2>1 DEF EndDrop, Release, Fail, Crash, TypeOK, tree
<1>23. ASSUME NEW p \in Paths, NEW v \in Versions \cup {Absent}, Publish(p, v)
       PROVE  TypeOK'
  <2>1. [live EXCEPT ![p] = v] \in Trees /\ [published EXCEPT ![p] = v] \in Trees
    BY DEF TypeOK, Trees
  <2> QED
    BY <1>23, <2>1 DEF Publish, TypeOK
<1>24. ASSUME MarkRootDirty \/ ExpireLock \/ UNCHANGED vars PROVE TypeOK'
  BY <1>24 DEF MarkRootDirty, ExpireLock, vars, TypeOK, tree
<1> QED
  BY <1>1, <1>2, <1>3, <1>4, <1>5, <1>6, <1>7, <1>8, <1>9, <1>10, <1>11, <1>12,
     <1>13, <1>14, <1>15, <1>16, <1>17, <1>18, <1>19, <1>20, <1>21, <1>22,
     <1>23, <1>24 DEF Next, Begin, Progress

(* Every variable keeps its type, for any requests, trees and bounds.      *)
THEOREM TypeCorrect == Spec => []TypeOK
<1> QED
  BY InitTypes, NextTypes, PTL DEF Spec
-----------------------------------------------------------------------------
(***************************************************************************)
(* An open workspace serves exactly what was published, with any number of *)
(* requests, expiring locks and crashes: proof of ServesPublished.         *)
(***************************************************************************)

Fencing(c) == [phase |-> "fencing", by |-> c]
Rewriting(c) == [phase |-> "restoring", by |-> c]

Reading == {"head", "dirty", "root", "capture", "recheck", "verify", "commit",
            "mark"}
Writing == {"reset", "write", "clean", "open"}

(* The generation a call holds once it has fenced its predecessor carries  *)
(* its own name, so no two calls hold the same one.                        *)
Placed(c) ==
    /\ call[c].at \in {"locked", "fence"} => call[c].job \in Replacing
    /\ call[c].at \in Reading /\ Restoring(c) => call[c].gen = Fencing(c)
    /\ At(c, "claim") => Restoring(c) /\ call[c].gen = Fencing(c)
    /\ call[c].at \in Writing \cup {"move"} => call[c].gen = Rewriting(c)
    /\ At(c, "drop") => call[c].gen = Tombstone

(* What the author of the current generation has already put in the keys.  *)
Built(c) ==
    gen = call[c].gen =>
        /\ At(c, "write") =>
             \A p \in Paths :
                live[p] = IF p \in call[c].todo THEN Absent ELSE call[c].copy[p]
        /\ call[c].at \in {"clean", "open"} => live = call[c].copy /\ info

TreeInv ==
    /\ TypeOK /\ ServesPublished
    /\ \A c \in Calls : Placed(c) /\ Built(c)

Step(c) == Begin(c) \/ Progress(c) \/ Fail(c) \/ Crash(c)

LEMMA InitTree == Init => TreeInv
<1> SUFFICES ASSUME NEW opened \in Openings, InitWith(opened), TypeOK
             PROVE  TreeInv
  BY InitTypes DEF Init
<1>1. ServesPublished
  BY ReplacementConstants DEF InitWith, ServesPublished, NoGeneration
<1>2. \A c \in Calls : Placed(c) /\ Built(c)
  BY DEF InitWith, Placed, Built, At, Reading, Writing
<1> QED
  BY <1>1, <1>2 DEF TreeInv

\* A step of one call leaves the locals of the others alone.
LEMMA Frame ==
    ASSUME TypeOK, NEW c \in Calls, Step(c), NEW d \in Calls, d # c
    PROVE  call'[d] = call[d]
<1> USE DEF TypeOK, Go, Refused
<1>1. CASE Begin(c)
  BY <1>1 DEF Begin, Acquire, StartSave, StartUpload
<1>2. CASE Fail(c) \/ Crash(c) \/ Release(c) \/ EndDrop(c)
  BY <1>2 DEF Fail, Crash, Release, EndDrop
<1>3. CASE ReadGeneration(c) \/ Fence(c) \/ ReadHead(c) \/ ReadDirty(c)
  BY <1>3 DEF ReadGeneration, Fence, ReadHead, ReadDirty
<1>4. CASE ReadRoot(c) \/ (\E p \in Paths : Capture(c, p)) \/ Recheck(c)
  BY <1>4 DEF ReadRoot, Capture, Recheck
<1>5. CASE Verify(c) \/ Commit(c) \/ MarkCaptured(c)
  BY <1>5 DEF Verify, Commit, MarkCaptured
<1>6. CASE Claim(c) \/ MoveHead(c)
  BY <1>6 DEF Claim, MoveHead
<1>7. CASE \E p \in Paths : ResetNode(c, p) \/ WriteNode(c, p) \/ DropNode(c, p)
  BY <1>7 DEF ResetNode, WriteNode, DropNode
<1>8. CASE ResetMarkers(c) \/ WriteInfo(c) \/ MarkClean(c) \/ Open(c)
  BY <1>8 DEF ResetMarkers, WriteInfo, MarkClean, Open
<1>9. CASE (\E s \in Savepoints : DropSavepoint(c, s)) \/ DropMeta(c)
           \/ DropMarker(c)
  BY <1>9 DEF DropSavepoint, DropMeta, DropMarker
<1> QED
  BY <1>1, <1>2, <1>3, <1>4, <1>5, <1>6, <1>7, <1>8, <1>9 DEF Step, Progress

\* A call keeps the generation that belongs to its position.
LEMMA PlacedStep ==
    ASSUME TypeOK, NEW c \in Calls, Placed(c), Step(c)
    PROVE  Placed(c)'
<1> USE DEF TypeOK, Locals, Placed, At, Is, Restoring, Reading, Writing, Go, Refused
<1>1. CASE Begin(c)
  BY <1>1 DEF Begin, Acquire, StartSave, StartUpload, Replacing, Saving
<1>2. CASE Fail(c) \/ Crash(c) \/ Release(c) \/ EndDrop(c)
  BY <1>2 DEF Fail, Crash, Release, EndDrop
<1>3. CASE ReadGeneration(c)
  BY <1>3 DEF ReadGeneration
<1>4. CASE Fence(c)
  BY <1>4 DEF Fence, FirstPhase, AfterFence, Replacing, Fencing, Rewriting
<1>5. CASE ReadHead(c) \/ ReadDirty(c)
  BY <1>5 DEF ReadHead, ReadDirty, AfterSave
<1>6. CASE ReadRoot(c) \/ (\E p \in Paths : Capture(c, p)) \/ Recheck(c)
  <2>1. CASE ReadRoot(c) \/ Recheck(c)
    BY <1>6, <2>1 DEF ReadRoot, Recheck
  <2>2. ASSUME NEW p \in Paths, Capture(c, p) PROVE Placed(c)'
    <3>1. /\ call'[c].at \in {"recheck", "capture"}
          /\ call'[c].job = call[c].job /\ call'[c].gen = call[c].gen
      BY <2>2 DEF Capture
    <3> QED
      BY <2>2, <3>1 DEF Capture
  <2> QED
    BY <1>6, <2>1, <2>2
<1>7. CASE Verify(c)
  BY <1>7 DEF Verify, SameAsHead
<1>8. CASE Commit(c) \/ MarkCaptured(c)
  BY <1>8 DEF Commit, MarkCaptured, AfterSave
<1>9. CASE Claim(c) \/ MoveHead(c)
  BY <1>9 DEF Claim, MoveHead, Rewriting
<1>10. CASE \E p \in Paths : ResetNode(c, p) \/ WriteNode(c, p) \/ DropNode(c, p)
  BY <1>10 DEF ResetNode, WriteNode, DropNode
<1>11. CASE ResetMarkers(c) \/ WriteInfo(c) \/ MarkClean(c) \/ Open(c)
  BY <1>11 DEF ResetMarkers, WriteInfo, MarkClean, Open
<1>12. CASE (\E s \in Savepoints : DropSavepoint(c, s)) \/ DropMeta(c)
            \/ DropMarker(c)
  BY <1>12 DEF DropSavepoint, DropMeta, DropMarker
<1> QED
  BY <1>1, <1>2, <1>3, <1>4, <1>5, <1>6, <1>7, <1>8, <1>9, <1>10, <1>11, <1>12
     DEF Step, Progress

\* Whoever changes the generation or the keys of the tree has its own
\* generation in place, or is about to open it.
Shown == <<gen, live, info, published>>
Opened(c) == [phase |-> "open", by |-> c]
LEMMA Effect ==
    ASSUME TypeOK, NEW c \in Calls, Placed(c), Step(c)
    PROVE  \/ UNCHANGED Shown
           \/ gen' \in {Fencing(c), Rewriting(c), Tombstone}
           \/ Open(c) /\ Guarded(c) /\ gen' = Opened(c)
<1> USE DEF Shown, Refused, Placed, At, Writing, tree, Guarded, Owns
<1>1. CASE Begin(c) \/ Fail(c) \/ Crash(c) \/ Release(c) \/ EndDrop(c)
  BY <1>1 DEF Begin, Acquire, StartSave, StartUpload, Fail, Crash, Release, EndDrop
<1>2. CASE Fence(c)
  BY <1>2 DEF Fence, FirstPhase, Fencing, Rewriting
<1>3. CASE ReadGeneration(c) \/ ReadHead(c) \/ ReadDirty(c) \/ ReadRoot(c)
           \/ (\E p \in Paths : Capture(c, p)) \/ Recheck(c)
  <2>1. CASE ReadGeneration(c) \/ ReadHead(c) \/ ReadDirty(c)
    BY <2>1 DEF ReadGeneration, ReadHead, ReadDirty
  <2>2. CASE ReadRoot(c) \/ (\E p \in Paths : Capture(c, p)) \/ Recheck(c)
    BY <2>2 DEF ReadRoot, Capture, Recheck
  <2> QED
    BY <1>3, <2>1, <2>2
<1>4. CASE Verify(c) \/ Commit(c) \/ MarkCaptured(c)
  BY <1>4 DEF Verify, Commit, MarkCaptured
<1>5. CASE Claim(c) \/ MoveHead(c)
  BY <1>5 DEF Claim, MoveHead, Rewriting
<1>6. CASE \E p \in Paths : ResetNode(c, p) \/ WriteNode(c, p) \/ DropNode(c, p)
  BY <1>6 DEF ResetNode, WriteNode, DropNode
<1>7. CASE ResetMarkers(c) \/ WriteInfo(c) \/ MarkClean(c)
  BY <1>7 DEF ResetMarkers, WriteInfo, MarkClean
<1>8. CASE Open(c)
  BY <1>8 DEF Open, Opened
<1>9. CASE (\E s \in Savepoints : DropSavepoint(c, s)) \/ DropMeta(c)
           \/ DropMarker(c)
  BY <1>9 DEF DropSavepoint, DropMeta, DropMarker
<1> QED
  BY <1>1, <1>2, <1>3, <1>4, <1>5, <1>6, <1>7, <1>8, <1>9 DEF Step, Progress

\* A step of one call cannot spoil what another has built: it would need
\* the generation that is the other's.
LEMMA BuiltOther ==
    ASSUME TreeInv, NEW c \in Calls, Step(c), NEW d \in Calls, d # c
    PROVE  Built(d)'
<1>1. call'[d] = call[d]
  BY Frame DEF TreeInv
<1>2. ASSUME UNCHANGED Shown PROVE Built(d)'
  BY <1>1, <1>2 DEF TreeInv, Built, Shown, At
<1>3. ASSUME gen' \in {Fencing(c), Rewriting(c), Tombstone, Opened(c)}
      PROVE  Built(d)'
  <2>1. SUFFICES ASSUME call[d].at \in {"write", "clean", "open"}
                 PROVE  gen' # call[d].gen
    BY <1>1, <2>1 DEF Built, At
  <2>2. call[d].gen = Rewriting(d)
    BY <2>1 DEF TreeInv, Placed, Writing
  <2> QED
    BY <1>3, <2>2 DEF Fencing, Rewriting, Tombstone, Opened
<1> QED
  BY <1>2, <1>3, Effect DEF TreeInv

\* What a call builds is what its manifest says.
LEMMA BuiltStep ==
    ASSUME TreeInv, NEW c \in Calls, Step(c), Placed(c)'
    PROVE  Built(c)'
<1> USE DEF TreeInv, TypeOK, Locals, Built, At, Go, Refused, Guarded, Owns, tree
<1>1. CASE call'[c].at \notin {"write", "clean", "open"}
  BY <1>1
<1>2. ASSUME NEW p \in Paths, WriteNode(c, p) PROVE Built(c)'
  <2>1. CASE Refused(c, Guarded(c))
    BY <2>1
  <2>2. CASE ~Refused(c, Guarded(c))
    <3>1. /\ call'[c].at = "write" /\ call'[c].copy = call[c].copy
          /\ call'[c].todo = call[c].todo \ {p}
          /\ live' = [live EXCEPT ![p] = call[c].copy[p]]
          /\ gen = call[c].gen /\ call[c].at = "write"
      BY <1>2, <2>2 DEF WriteNode
    <3>2. \A q \in Paths : live'[q] = IF q = p THEN call[c].copy[p] ELSE live[q]
      BY <3>1 DEF Trees
    <3> QED
      BY <3>1, <3>2
  <2> QED
    BY <2>1, <2>2
<1>3. ASSUME ResetMarkers(c) PROVE Built(c)'
  <2>1. CASE Refused(c, Guarded(c))
    BY <2>1
  <2>2. CASE ~Refused(c, Guarded(c))
    <3>1. /\ call'[c].at = "write" /\ call'[c].copy = call[c].copy
          /\ call'[c].todo = {q \in Paths : call[c].copy[q] # Absent}
          /\ live' = NoTree
      BY <1>3, <2>2 DEF ResetMarkers
    <3> QED
      BY <3>1 DEF NoTree
  <2> QED
    BY <2>1, <2>2
<1>4. ASSUME WriteInfo(c) PROVE Built(c)'
  <2>1. CASE Refused(c, Guarded(c))
    BY <2>1
  <2>2. CASE ~Refused(c, Guarded(c))
    <3>1. /\ call'[c].at = "clean" /\ call'[c].copy = call[c].copy
          /\ live' = live /\ info' = TRUE /\ gen = call[c].gen
          /\ call[c].at = "write" /\ call[c].todo = {}
      BY <1>4, <2>2 DEF WriteInfo
    <3>2. \A q \in Paths : live[q] = call[c].copy[q]
      BY <3>1
    <3>3. live \in Trees /\ call[c].copy \in Trees
      OBVIOUS
    <3>4. live = call[c].copy
      BY <3>2, <3>3 DEF Trees
    <3> QED
      BY <3>1, <3>4
  <2> QED
    BY <2>1, <2>2
<1>5. ASSUME MarkClean(c) PROVE Built(c)'
  BY <1>5 DEF MarkClean
<1>6. ASSUME call'[c].at \in {"write", "clean", "open"}
      PROVE  \/ \E p \in Paths : WriteNode(c, p)
             \/ ResetMarkers(c) \/ WriteInfo(c) \/ MarkClean(c)
  <2> USE <1>6, ReplacementConstants
  <2>1. ~Begin(c)
    <3>1. \A job \in Offered : ~Acquire(c, job)
      BY DEF Acquire
    <3>2. \A job \in Offered : ~StartSave(c, job)
      BY DEF StartSave
    <3>3. \A job \in Offered : ~StartUpload(c, job)
      BY DEF StartUpload
    <3> QED
      BY <3>1, <3>2, <3>3 DEF Begin
  <2>8. ~Fail(c) /\ ~Crash(c) /\ ~Release(c) /\ ~EndDrop(c)
    BY DEF Fail, Crash, Release, EndDrop
  <2>2. ~ReadGeneration(c) /\ ~Fence(c) /\ ~ReadHead(c) /\ ~ReadDirty(c)
    BY DEF ReadGeneration, Fence, AfterFence, ReadHead, ReadDirty, AfterSave
  <2>3. ~ReadRoot(c) /\ ~Recheck(c) /\ ~Verify(c)
    BY DEF ReadRoot, Recheck, Verify, SameAsHead
  <2>4. ASSUME NEW p \in Paths, Capture(c, p) PROVE FALSE
    <3>1. call'[c].at \in {"recheck", "capture"}
      BY <2>4 DEF Capture
    <3> QED
      BY <3>1
  <2>5. ~Commit(c) /\ ~MarkCaptured(c) /\ ~Claim(c) /\ ~MoveHead(c) /\ ~Open(c)
    BY DEF Commit, MarkCaptured, AfterSave, Claim, MoveHead, Open
  <2>6. ~\E p \in Paths : ResetNode(c, p) \/ DropNode(c, p)
    BY DEF ResetNode, DropNode
  <2>7. /\ ~\E s \in Savepoints : DropSavepoint(c, s)
        /\ ~DropMeta(c) /\ ~DropMarker(c)
    BY DEF DropSavepoint, DropMeta, DropMarker
  <2> QED
    BY <2>1, <2>2, <2>3, <2>4, <2>5, <2>6, <2>7, <2>8 DEF Step, Progress
<1> QED
  BY <1>1, <1>2, <1>3, <1>4, <1>5, <1>6

\* Clients change the tree and what is published together.
LEMMA ClientsTree ==
    ASSUME TreeInv,
           \/ \E p \in Paths, v \in Versions \cup {Absent} : Publish(p, v)
           \/ MarkRootDirty \/ ExpireLock \/ UNCHANGED vars
    PROVE  ServesPublished' /\ \A c \in Calls : Placed(c)' /\ Built(c)'
<1>1. UNCHANGED <<gen, call, info>>
  BY DEF Publish, MarkRootDirty, ExpireLock, vars, tree
<1>2. ServesPublished'
  BY <1>1 DEF TreeInv, TypeOK, Trees, ServesPublished, Publish, MarkRootDirty,
              ExpireLock, vars, tree
<1>3. ASSUME NEW c \in Calls PROVE Placed(c)' /\ Built(c)'
  <2>1. Placed(c)'
    BY <1>1 DEF TreeInv, Placed, At, Is, Restoring
  <2>2. live' = live \/ gen.phase = "open"
    BY DEF Publish, MarkRootDirty, ExpireLock, vars, tree
  <2>3. call[c].at \in {"write", "clean", "open"} => call[c].gen.phase # "open"
    <3>1. call[c].at \in Writing => call[c].gen = Rewriting(c)
      BY DEF TreeInv, Placed
    <3> QED
      BY <3>1 DEF Writing, Rewriting
  <2>4. Built(c)'
    BY <1>1, <2>2, <2>3 DEF TreeInv, Built, At
  <2> QED
    BY <2>1, <2>4
<1> QED
  BY <1>2, <1>3

LEMMA NextTree == TreeInv /\ [Next]_vars => TreeInv'
<1> SUFFICES ASSUME TreeInv, [Next]_vars PROVE TreeInv'
  OBVIOUS
<1>1. TypeOK'
  BY NextTypes DEF TreeInv
<1>2. ASSUME NEW c \in Calls, Step(c) PROVE TreeInv'
  <2>1. \A d \in Calls : Placed(d)'
    <3>1. Placed(c)'
      BY <1>2, PlacedStep DEF TreeInv
    <3>2. ASSUME NEW d \in Calls, d # c PROVE Placed(d)'
      BY <1>2, <3>2, Frame DEF TreeInv, Placed, At, Is, Restoring
    <3> QED
      BY <3>1, <3>2
  <2>2. \A d \in Calls : Built(d)'
    BY <1>2, <2>1, BuiltStep, BuiltOther
  <2>3. ServesPublished'
    <3>1. CASE UNCHANGED Shown
      BY <3>1 DEF TreeInv, ServesPublished, Shown
    <3>2. CASE gen' \in {Fencing(c), Rewriting(c), Tombstone}
      BY <3>2 DEF ServesPublished, Fencing, Rewriting, Tombstone
    <3>3. CASE Open(c) /\ Guarded(c) /\ gen' = Opened(c)
      <4>1. At(c, "open") /\ gen = call[c].gen
        BY <3>3 DEF Open, Guarded, Owns
      <4>2. live = call[c].copy /\ info
        BY <4>1 DEF TreeInv, Built, At
      <4> QED
        BY <3>3, <4>2 DEF Open, Refused, ServesPublished, tree
    <3> QED
      BY <1>2, <3>1, <3>2, <3>3, Effect DEF TreeInv
  <2> QED
    BY <1>1, <2>1, <2>2, <2>3 DEF TreeInv
<1>3. ASSUME ~\E c \in Calls : Step(c) PROVE TreeInv'
  BY <1>1, <1>3, ClientsTree DEF TreeInv, Next, Step
<1> QED
  BY <1>2, <1>3

(* While the workspace is open its keys hold exactly what clients          *)
(* published, however many requests replace, capture or delete it and      *)
(* whenever their locks expire.                                            *)
THEOREM OpenTreeIsWhole == Spec => []ServesPublished
<1>1. TreeInv => ServesPublished
  BY DEF TreeInv
<1> QED
  BY InitTree, NextTree, <1>1, PTL DEF Spec
-----------------------------------------------------------------------------
(* The clean marker, and the trees it speaks of.                           *)

Ended == {"release", "done", "crashed"}

(* A generation that was open is never opened again: the call that made it *)
(* has nothing left to do.                                                 *)
Past(g) == g.by \in Calls => call[g.by].at \in Ended

(* The calls that compare the generation later with one they read open.    *)
Holding(c) ==
    /\ call[c].at \in {"root", "capture", "recheck", "verify", "commit", "mark"}
    /\ ~Restoring(c)
    /\ Is(c, "upload") => At(c, "commit")

Holds(c) ==
    /\ call[c].changes <= changes
    /\ Holding(c) => call[c].gen.phase = "open" /\ Past(call[c].gen)
    /\ call[c].at \in {"head", "dirty", "root", "capture", "recheck", "mark"} =>
         ~Is(c, "upload")

(* As long as neither generation nor journal has moved, a capture agrees   *)
(* with the keys.                                                          *)
Captured(c) ==
    gen = call[c].gen /\ changes = call[c].changes /\ ~Is(c, "upload") =>
        /\ At(c, "capture") =>
             /\ live[Root] # Absent
             /\ \A p \in Paths : p \notin call[c].todo => call[c].copy[p] = live[p]
        /\ call[c].at \in {"recheck", "verify", "commit", "mark"} =>
             call[c].copy = live

(* A tree that turned out to be saved stays saved in its generation.       *)
Marked(c) ==
    gen = call[c].gen /\ At(c, "mark") => saved[call[c].head] = call[c].copy

(* What is written is the savepoint that the head already names.           *)
Aimed(c) ==
    gen = call[c].gen /\ call[c].at \in Writing =>
        /\ call[c].copy = saved[call[c].target] /\ head = call[c].target
        /\ At(c, "open") => rootHead = call[c].target

(* Only a workspace that was never used is created, and only once.         *)
Creating(c) ==
    /\ Is(c, "create") /\ call[c].at \in {"locked", "fence"} =>
         gen.phase = "none" /\ call[c].target = Base
    /\ At(c, "fence") /\ ~Is(c, "create") => call[c].gen.phase # "none"
CreatedOnce == \A c, d \in Calls : Is(c, "create") /\ Is(d, "create") => c = d
Pristine ==
    gen.phase = "none" =>
        head = Base /\ saved[Base] = BaseTree /\ published = NoTree

SaveInv ==
    /\ TreeInv /\ CleanMeansSaved /\ Pristine /\ CreatedOnce
    /\ gen.phase = "open" => Past(gen)
    /\ \A c \in Calls :
         Holds(c) /\ Captured(c) /\ Marked(c) /\ Aimed(c) /\ Creating(c)

(* What clients saw last is in a savepoint, or they have seen nothing.     *)
Kept == published = NoTree \/ \E s \in Savepoints : saved[s] = published

(* Without deletions: from the moment clients are fenced, the tree is      *)
(* either kept or still whole and known to be dirty.                       *)
KeptInv ==
    /\ SaveInv
    /\ gen.phase # "deleted" /\ \A c \in Calls : ~Is(c, "delete")
    /\ head \in Savepoints
    /\ gen.phase = "restoring" => Kept
    /\ gen.phase = "fencing" => Kept \/ (live = published /\ dirty # "0")
    /\ \A c \in Calls : At(c, "claim") /\ gen = call[c].gen => Kept

LEMMA InitSave == Init => SaveInv
<1> SUFFICES ASSUME NEW opened \in Openings, InitWith(opened), TreeInv
             PROVE  SaveInv
  BY InitTree DEF Init
<1> USE ReplacementConstants DEF InitWith, NoGeneration
<1>1. CleanMeansSaved /\ Pristine /\ CreatedOnce
  BY DEF CleanMeansSaved, Pristine, CreatedOnce, Savepoints, Is
<1>2. gen.phase = "open" => Past(gen)
  BY DEF Past
<1>3. \A c \in Calls : Holds(c) /\ Captured(c) /\ Marked(c) /\ Aimed(c) /\ Creating(c)
  BY DEF Holds, Holding, Captured, Marked, Aimed, Creating, At, Is, Writing
<1> QED
  BY <1>1, <1>2, <1>3 DEF SaveInv

\* Which action leads to which position.
LEMMA Arrivals ==
    ASSUME TypeOK, NEW c \in Calls, Step(c)
    PROVE  /\ call[c].at \in Ended => call'[c].at \in Ended
           /\ call'[c].at = "locked" => Begin(c)
           /\ call'[c].at = "fence" => ReadGeneration(c)
           /\ call'[c].at = "head" => Begin(c) \/ Fence(c)
           /\ call'[c].at = "dirty" => ReadHead(c)
           /\ call'[c].at = "root" => ReadDirty(c)
           /\ call'[c].at = "capture" => ReadRoot(c) \/ \E p \in Paths : Capture(c, p)
           /\ call'[c].at = "recheck" => \E p \in Paths : Capture(c, p)
           /\ call'[c].at = "verify" => Recheck(c) \/ Begin(c)
           /\ call'[c].at \in {"commit", "mark"} => Verify(c)
           /\ call'[c].at = "claim" =>
                Fence(c) \/ ReadDirty(c) \/ Commit(c) \/ MarkCaptured(c)
           /\ call'[c].at = "reset" =>
                Fence(c) \/ MoveHead(c) \/ \E p \in Paths : ResetNode(c, p)
           /\ call'[c].at = "write" =>
                ResetMarkers(c) \/ \E p \in Paths : WriteNode(c, p)
           /\ call'[c].at = "clean" => WriteInfo(c)
           /\ call'[c].at = "open" => MarkClean(c)
<1> USE ReplacementConstants DEF TypeOK, Locals, At, Go, Refused, Ended
<1>1. ASSUME NEW job \in Offered, Acquire(c, job)
      PROVE  call[c].at = "idle" /\ call'[c].at \in {"locked", "done"} /\ Begin(c)
  <2>1. Begin(c)
    BY <1>1 DEF Begin
  <2>2. call[c].at = "idle"
    BY <1>1 DEF Acquire
  <2>3. CASE lock = Nobody
    BY <1>1, <2>1, <2>2, <2>3 DEF Acquire
  <2>4. CASE lock # Nobody
    BY <1>1, <2>1, <2>2, <2>4 DEF Acquire
  <2> QED
    BY <2>3, <2>4
<1>2. ASSUME NEW job \in Offered, StartSave(c, job) \/ StartUpload(c, job)
      PROVE  call[c].at = "idle" /\ call'[c].at \in {"head", "verify"} /\ Begin(c)
  <2>1. Begin(c)
    BY <1>2 DEF Begin
  <2>2. CASE StartSave(c, job)
    BY <2>1, <2>2 DEF StartSave
  <2>3. CASE StartUpload(c, job)
    BY <2>1, <2>3 DEF StartUpload
  <2> QED
    BY <1>2, <2>2, <2>3
<1>3. CASE Fail(c) \/ Crash(c) \/ Release(c) \/ EndDrop(c)
  <2>1. call'[c].at \in Ended
    BY <1>3 DEF Fail, Crash, Release, EndDrop
  <2> QED
    BY <2>1
<1>4. CASE ReadGeneration(c) \/ ReadHead(c) \/ ReadDirty(c)
  <2>1. CASE ReadGeneration(c)
    BY <2>1 DEF ReadGeneration
  <2>2. CASE ReadHead(c)
    BY <2>2 DEF ReadHead
  <2>3. CASE ReadDirty(c)
    <3>1. call[c].at = "dirty"
          /\ call'[c].at \in {"claim", "release", "root"}
      BY <2>3 DEF ReadDirty, AfterSave
    <3> QED
      BY <2>3, <3>1
  <2> QED
    BY <1>4, <2>1, <2>2, <2>3
<1>5. CASE Fence(c)
  BY <1>5 DEF Fence, AfterFence
<1>6. CASE ReadRoot(c)
  BY <1>6 DEF ReadRoot
<1>7. ASSUME NEW p \in Paths, Capture(c, p)
      PROVE  call[c].at = "capture" /\ call'[c].at \in {"recheck", "capture"}
  BY <1>7 DEF Capture
<1>8. CASE Recheck(c) \/ Verify(c)
  BY <1>8 DEF Recheck, Verify
<1>9. CASE Commit(c) \/ MarkCaptured(c)
  BY <1>9 DEF Commit, MarkCaptured, AfterSave
<1>10. CASE Claim(c) \/ MoveHead(c)
  BY <1>10 DEF Claim, MoveHead
<1>11. ASSUME NEW p \in Paths, ResetNode(c, p)
       PROVE  call[c].at = "reset" /\ call'[c].at \in {"reset", "release"}
  BY <1>11 DEF ResetNode
<1>15. ASSUME NEW p \in Paths, WriteNode(c, p)
       PROVE  call[c].at = "write" /\ call'[c].at \in {"write", "release"}
  BY <1>15 DEF WriteNode
<1>12. CASE ResetMarkers(c) \/ WriteInfo(c)
  BY <1>12 DEF ResetMarkers, WriteInfo
<1>13. CASE MarkClean(c) \/ Open(c)
  BY <1>13 DEF MarkClean, Open
<1>14. CASE \/ \E p \in Paths : DropNode(c, p)
            \/ \E s \in Savepoints : DropSavepoint(c, s)
            \/ DropMeta(c) \/ DropMarker(c)
  <2>1. call' = call /\ call[c].at = "drop"
    BY <1>14 DEF DropNode, DropSavepoint, DropMeta, DropMarker
  <2> QED
    BY <2>1
<1> QED
  BY <1>1, <1>2, <1>3, <1>4, <1>5, <1>6, <1>7, <1>8, <1>9, <1>10, <1>11, <1>12,
     <1>13, <1>14, <1>15 DEF Step, Progress, Begin

\* What a call can do to savepoints, head and markers.
Committed(c) ==
    /\ At(c, "commit") /\ Current(c)
    /\ saved' = [saved EXCEPT ![c] = call[c].copy] /\ head' = c
    /\ Is(c, "upload") => dirty' = "1"
    /\ ~Is(c, "upload") => dirty' = "0" /\ rootHead' = c
    /\ UNCHANGED <<gen, live, published>>
Remarked(c) ==
    /\ At(c, "mark") /\ StillCaptured(c)
    /\ dirty' = "0" /\ rootHead' = call[c].head
    /\ UNCHANGED <<gen, head, saved, live, published>>

LEMMA Markers ==
    ASSUME TreeInv, NEW c \in Calls, Step(c)
    PROVE  /\ changes' = changes
           /\ \/ UNCHANGED <<saved, head, rootHead, dirty>>
              \/ Committed(c) \/ Remarked(c)
              \/ gen = Rewriting(c) /\ UNCHANGED saved
              \/ gen = Tombstone
<1> USE DEF TreeInv, Placed, Refused, At, Guarded, Owns, Writing, tree
<1>1. CASE Begin(c) \/ Fail(c) \/ Crash(c) \/ Release(c) \/ EndDrop(c)
  BY <1>1 DEF Begin, Acquire, StartSave, StartUpload, Fail, Crash, Release, EndDrop
<1>2. CASE ReadGeneration(c) \/ Fence(c) \/ ReadHead(c) \/ ReadDirty(c)
           \/ ReadRoot(c) \/ (\E p \in Paths : Capture(c, p)) \/ Recheck(c)
           \/ Verify(c) \/ Claim(c) \/ Open(c)
  <2>1. CASE ReadGeneration(c) \/ Fence(c) \/ ReadHead(c) \/ ReadDirty(c)
    BY <2>1 DEF ReadGeneration, Fence, ReadHead, ReadDirty
  <2>2. CASE ReadRoot(c) \/ Recheck(c)
    BY <2>2 DEF ReadRoot, Recheck
  <2>4. CASE \E p \in Paths : Capture(c, p)
    BY <2>4 DEF Capture
  <2>3. CASE Verify(c) \/ Claim(c) \/ Open(c)
    BY <2>3 DEF Verify, Claim, Open
  <2> QED
    BY <1>2, <2>1, <2>2, <2>3, <2>4
<1>3. CASE Commit(c)
  BY <1>3 DEF Commit, Committed
<1>4. CASE MarkCaptured(c)
  BY <1>4 DEF MarkCaptured, Remarked
<1>5. CASE MoveHead(c)
  BY <1>5 DEF MoveHead
<1>6. CASE \E p \in Paths : ResetNode(c, p) \/ WriteNode(c, p) \/ DropNode(c, p)
  BY <1>6 DEF ResetNode, WriteNode, DropNode
<1>7. CASE ResetMarkers(c) \/ WriteInfo(c) \/ MarkClean(c)
  BY <1>7 DEF ResetMarkers, WriteInfo, MarkClean
<1>8. CASE (\E s \in Savepoints : DropSavepoint(c, s)) \/ DropMeta(c)
           \/ DropMarker(c)
  BY <1>8 DEF DropSavepoint, DropMeta, DropMarker
<1> QED
  BY <1>1, <1>2, <1>3, <1>4, <1>5, <1>6, <1>7, <1>8 DEF Step, Progress

LEMMA EndedStays ==
    ASSUME TypeOK, NEW c \in Calls, Step(c), NEW d \in Calls, call[d].at \in Ended
    PROVE  call'[d].at \in Ended
  BY Frame, Arrivals

\* The job of a call is chosen when it begins.
LEMMA JobStays ==
    ASSUME TypeOK, NEW c \in Calls, Step(c), ~Begin(c)
    PROVE  call'[c].job = call[c].job /\ call'[c].target = call[c].target
<1> USE DEF TypeOK, Locals, Go, Refused
<1>1. CASE Fail(c) \/ Crash(c) \/ Release(c) \/ EndDrop(c)
  BY <1>1 DEF Fail, Crash, Release, EndDrop
<1>2. CASE ReadGeneration(c) \/ Fence(c) \/ ReadHead(c) \/ ReadDirty(c)
           \/ ReadRoot(c) \/ Recheck(c) \/ Verify(c)
  BY <1>2 DEF ReadGeneration, Fence, ReadHead, ReadDirty, ReadRoot, Recheck, Verify
<1>3. ASSUME NEW p \in Paths, Capture(c, p)
      PROVE  call'[c].job = call[c].job /\ call'[c].target = call[c].target
  BY <1>3 DEF Capture
<1>4. CASE Commit(c) \/ MarkCaptured(c) \/ Claim(c) \/ MoveHead(c)
  BY <1>4 DEF Commit, MarkCaptured, Claim, MoveHead
<1>5. CASE \E p \in Paths : ResetNode(c, p) \/ WriteNode(c, p) \/ DropNode(c, p)
  BY <1>5 DEF ResetNode, WriteNode, DropNode
<1>6. CASE ResetMarkers(c) \/ WriteInfo(c) \/ MarkClean(c) \/ Open(c)
  BY <1>6 DEF ResetMarkers, WriteInfo, MarkClean, Open
<1>7. CASE (\E s \in Savepoints : DropSavepoint(c, s)) \/ DropMeta(c)
           \/ DropMarker(c)
  BY <1>7 DEF DropSavepoint, DropMeta, DropMarker
<1> QED
  BY <1>1, <1>2, <1>3, <1>4, <1>5, <1>6, <1>7 DEF Step, Progress

-----------------------------------------------------------------------------
(* What a step of c does to the others.                                    *)

\* A call that reads or writes under its generation is not disturbed by
\* another: the generation would have changed for good.
Exclusive(d) ==
    \/ Holding(d)
    \/ Restoring(d) /\ call[d].at \in Reading
    \/ call[d].at \in Writing

LEMMA Undisturbed ==
    ASSUME SaveInv, NEW c \in Calls, Step(c), NEW d \in Calls, d # c,
           Exclusive(d), gen' = call[d].gen
    PROVE  /\ gen' = gen /\ live' = live
           /\ \A s \in Savepoints : saved[s] # Absent => saved'[s] = saved[s]
           /\ call[d].at \in Writing => UNCHANGED <<head, rootHead>>
<1> USE DEF SaveInv
<1>1. \/ call[d].gen \in {Fencing(d), Rewriting(d)}
      \/ Holding(d) /\ call[d].gen.phase = "open" /\ Past(call[d].gen)
  BY DEF TreeInv, Placed, Holds, Exclusive
<1>2. gen' \notin {Fencing(c), Rewriting(c), Tombstone}
  BY <1>1 DEF Fencing, Rewriting, Tombstone
<1>3. ~(Open(c) /\ Guarded(c) /\ gen' = Opened(c))
  <2>1. SUFFICES ASSUME Open(c), call[d].gen = Opened(c) PROVE FALSE
    OBVIOUS
  <2>2. call[c].at \in Ended
    BY <1>1, <2>1 DEF Fencing, Rewriting, Opened, Past
  <2> QED
    BY <2>1, <2>2 DEF Open, At, Ended
<1>4. gen' = gen /\ live' = live
  BY <1>2, <1>3, Effect DEF TreeInv, Shown
<1>5. gen # Rewriting(c) /\ gen # Tombstone
  BY <1>2, <1>4
<1>6. \A s \in Savepoints : saved[s] # Absent => saved'[s] = saved[s]
  BY <1>5, Markers DEF TreeInv, TypeOK, Committed, Current, Remarked
<1>7. ASSUME call[d].at \in Writing PROVE UNCHANGED <<head, rootHead>>
  <2>1. gen = Rewriting(d)
    BY <1>4, <1>7 DEF TreeInv, Placed
  <2>2. At(c, "commit") => gen # call[c].gen \/ Holding(c) \/ Restoring(c)
    BY DEF Holding, At, Is
  <2>3. At(c, "mark") => gen # call[c].gen \/ Holding(c) \/ Restoring(c)
    BY DEF Holds, Holding, At, Is
  <2>4. Holding(c) => call[c].gen.phase = "open"
    BY DEF Holds
  <2>5. Restoring(c) /\ (At(c, "commit") \/ At(c, "mark")) => call[c].gen = Fencing(c)
    BY DEF TreeInv, Placed, Reading, At
  <2>6. ~Committed(c)
    BY <2>1, <2>2, <2>4, <2>5 DEF Committed, Current, Rewriting, Fencing
  <2>7. ~Remarked(c)
    BY <2>1, <2>3, <2>4, <2>5 DEF Remarked, StillCaptured, Rewriting, Fencing
  <2> QED
    BY <1>5, <2>6, <2>7, Markers
<1> QED
  BY <1>4, <1>6, <1>7

\* Only the owner of the current generation moves it; what steps leave alone.
LEMMA Moves ==
    ASSUME TreeInv, NEW c \in Calls, Step(c)
    PROVE  /\ gen' # gen =>
                /\ gen = call[c].gen /\ UNCHANGED <<saved, live, dirty>>
                /\ \/ At(c, "fence") /\ gen' = FirstPhase(c) /\ published' = published
                   \/ At(c, "claim") /\ gen' = Rewriting(c) /\ published' = published
                   \/ gen = Rewriting(c) /\ gen'.phase = "open"
           /\ gen' = gen => published' = published
           /\ live' = live \/ gen \in {Rewriting(c), Tombstone}
           /\ head' \in {head, c, call[c].target} \/ gen = Tombstone
<1> USE DEF TreeInv, Placed, Refused, At, Writing, Guarded, Owns, tree
<1>1. CASE Begin(c) \/ Fail(c) \/ Crash(c) \/ Release(c) \/ EndDrop(c)
  BY <1>1 DEF Begin, Acquire, StartSave, StartUpload, Fail, Crash, Release, EndDrop
<1>2. CASE ReadGeneration(c) \/ ReadHead(c) \/ ReadDirty(c) \/ ReadRoot(c)
           \/ (\E p \in Paths : Capture(c, p)) \/ Recheck(c) \/ Verify(c)
           \/ Commit(c) \/ MarkCaptured(c) \/ MoveHead(c)
  <2>1. CASE ReadGeneration(c) \/ ReadHead(c) \/ ReadDirty(c)
    BY <2>1 DEF ReadGeneration, ReadHead, ReadDirty
  <2>2. CASE ReadRoot(c) \/ Recheck(c)
    BY <2>2 DEF ReadRoot, Recheck
  <2>4. CASE \E p \in Paths : Capture(c, p)
    BY <2>4 DEF Capture
  <2>3. CASE Verify(c) \/ Commit(c) \/ MarkCaptured(c) \/ MoveHead(c)
    BY <2>3 DEF Verify, Commit, MarkCaptured, MoveHead
  <2> QED
    BY <1>2, <2>1, <2>2, <2>3, <2>4
<1>3. CASE Fence(c) \/ Claim(c)
  BY <1>3 DEF Fence, Claim, Rewriting
<1>4. CASE Open(c)
  <2>1. CASE Refused(c, Guarded(c))
    BY <2>1
  <2>2. CASE ~Refused(c, Guarded(c))
    <3>1. /\ gen = call[c].gen /\ gen' = [phase |-> "open", by |-> c]
          /\ UNCHANGED <<saved, live, dirty, head>>
      BY <1>4, <2>2 DEF Open
    <3>2. gen = Rewriting(c)
      BY <1>4, <3>1 DEF Open
    <3>3. gen'.phase = "open" /\ gen.phase = "restoring"
      BY <3>1, <3>2 DEF Rewriting
    <3> QED
      BY <3>1, <3>2, <3>3
  <2> QED
    BY <2>1, <2>2
<1>5. CASE \/ \E p \in Paths : ResetNode(c, p) \/ WriteNode(c, p) \/ DropNode(c, p)
           \/ ResetMarkers(c) \/ WriteInfo(c) \/ MarkClean(c)
           \/ (\E s \in Savepoints : DropSavepoint(c, s))
           \/ DropMeta(c) \/ DropMarker(c)
  BY <1>5 DEF ResetNode, WriteNode, DropNode, ResetMarkers, WriteInfo, MarkClean,
              DropSavepoint, DropMeta, DropMarker
<1> QED
  BY <1>1, <1>2, <1>3, <1>4, <1>5 DEF Step, Progress

\* Every part of the invariant that is about another call stays true.
LEMMA OthersKeep ==
    ASSUME SaveInv, NEW c \in Calls, Step(c), NEW d \in Calls, d # c
    PROVE  Holds(d)' /\ Captured(d)' /\ Marked(d)' /\ Aimed(d)' /\ Creating(d)'
<1>1. call'[d] = call[d] /\ changes' = changes
  BY Frame, Markers DEF SaveInv, TreeInv
<1>2. Absent \notin Trees /\ call[d] \in Locals
  BY AbsentIsNoTree DEF Trees, SaveInv, TreeInv, TypeOK
<1>3. Holds(d)'
  <2>1. Holding(d)' => call[d].gen.phase = "open" /\ Past(call[d].gen)
    BY <1>1 DEF SaveInv, Holds, Holding, At, Is, Restoring
  <2>2. Past(call[d].gen) => Past(call[d].gen)'
    BY <1>1, EndedStays DEF Past, SaveInv, TreeInv
  <2> QED
    BY <1>1, <2>1, <2>2 DEF SaveInv, Holds, At, Is
<1>4. Captured(d)'
  <2>1. SUFFICES ASSUME gen' = call[d].gen, ~Is(d, "upload"),
                        call[d].at \in {"capture", "recheck", "verify", "commit", "mark"}
                 PROVE  gen' = gen /\ live' = live
    BY <1>1 DEF SaveInv, Captured, At, Is
  <2>2. Exclusive(d)
    BY <2>1 DEF Exclusive, Holding, Reading, At, Is
  <2> QED
    BY <2>1, <2>2, Undisturbed
<1>5. Marked(d)'
  <2>1. SUFFICES ASSUME gen' = call[d].gen, At(d, "mark")
                 PROVE  saved'[call[d].head] = call[d].copy
    BY <1>1 DEF Marked, At
  <2>2. Exclusive(d)
    BY <2>1 DEF SaveInv, Holds, Exclusive, Holding, Reading, At, Is
  <2>3. gen = call[d].gen
    BY <2>1, <2>2, Undisturbed
  <2>4. saved[call[d].head] = call[d].copy
    BY <2>1, <2>3 DEF SaveInv, Marked
  <2> QED
    BY <1>2, <2>1, <2>2, <2>4, Undisturbed DEF Locals
<1>6. Aimed(d)'
  <2>1. SUFFICES ASSUME gen' = call[d].gen, call[d].at \in Writing
                 PROVE  /\ call[d].copy = saved'[call[d].target]
                        /\ head' = call[d].target
                        /\ At(d, "open") => rootHead' = call[d].target
    BY <1>1 DEF Aimed, At
  <2>2. Exclusive(d)
    BY <2>1 DEF Exclusive
  <2>3. gen = call[d].gen /\ UNCHANGED <<head, rootHead>>
    BY <2>1, <2>2, Undisturbed
  <2>4. saved[call[d].target] = call[d].copy /\ head = call[d].target
        /\ (At(d, "open") => rootHead = call[d].target)
    BY <2>1, <2>3 DEF SaveInv, Aimed
  <2> QED
    BY <1>2, <2>1, <2>2, <2>3, <2>4, Undisturbed DEF Locals
<1>7. Creating(d)'
  <2>1. SUFFICES ASSUME Is(d, "create"), call[d].at \in {"locked", "fence"}
                 PROVE  gen' = gen
    BY <1>1 DEF SaveInv, Creating, At, Is
  <2>2. gen.phase = "none"
    BY <2>1 DEF SaveInv, Creating
  <2>3. gen \notin {Fencing(c), Rewriting(c)}
    BY <2>2 DEF Fencing, Rewriting
  <2>4. At(c, "fence") => gen # call[c].gen
    BY <2>1, <2>2 DEF SaveInv, Creating, CreatedOnce
  <2> QED
    BY <2>3, <2>4, Moves DEF SaveInv, TreeInv, Placed
<1> QED
  BY <1>3, <1>4, <1>5, <1>6, <1>7

-----------------------------------------------------------------------------
(* What a step of c does to itself.                                        *)

LEMMA ChangesRead ==
    ASSUME TypeOK, NEW c \in Calls, Step(c)
    PROVE  call'[c].changes \in {call[c].changes, changes}
<1> USE DEF TypeOK, Locals, Go, Refused
<1>1. ASSUME NEW job \in Offered, Acquire(c, job) \/ StartSave(c, job)
             \/ StartUpload(c, job)
      PROVE  call'[c].changes = call[c].changes
  BY <1>1 DEF Acquire, StartSave, StartUpload
<1>2. CASE Fail(c) \/ Crash(c) \/ Release(c) \/ EndDrop(c)
  BY <1>2 DEF Fail, Crash, Release, EndDrop
<1>3. CASE ReadGeneration(c) \/ Fence(c) \/ ReadHead(c) \/ ReadDirty(c)
           \/ ReadRoot(c) \/ Recheck(c) \/ Verify(c)
  BY <1>3 DEF ReadGeneration, Fence, ReadHead, ReadDirty, ReadRoot, Recheck, Verify
<1>4. ASSUME NEW p \in Paths, Capture(c, p)
      PROVE  call'[c].changes = call[c].changes
  BY <1>4 DEF Capture
<1>5. CASE Commit(c) \/ MarkCaptured(c) \/ Claim(c) \/ MoveHead(c)
  BY <1>5 DEF Commit, MarkCaptured, Claim, MoveHead
<1>6. CASE \E p \in Paths : ResetNode(c, p) \/ WriteNode(c, p) \/ DropNode(c, p)
  BY <1>6 DEF ResetNode, WriteNode, DropNode
<1>7. CASE ResetMarkers(c) \/ WriteInfo(c) \/ MarkClean(c) \/ Open(c)
  BY <1>7 DEF ResetMarkers, WriteInfo, MarkClean, Open
<1>8. CASE (\E s \in Savepoints : DropSavepoint(c, s)) \/ DropMeta(c)
           \/ DropMarker(c)
  BY <1>8 DEF DropSavepoint, DropMeta, DropMarker
<1> QED
  BY <1>1, <1>2, <1>3, <1>4, <1>5, <1>6, <1>7, <1>8 DEF Step, Progress, Begin

\* A call that begins is "locked", "head", "verify" or over.
LEMMA Begins ==
    ASSUME TypeOK, NEW c \in Calls, Begin(c)
    PROVE  /\ call'[c].at \in {"locked", "head", "verify", "done"}
           /\ call'[c].at = "locked" => call'[c].job \in Replacing
           /\ call'[c].at = "head" => call'[c].job \in Saving
           /\ call'[c].at = "verify" => call'[c].job = "upload"
           /\ call'[c].job = "create" => NeverUsed
           /\ call'[c].at = "locked" /\ call'[c].job = "create" =>
                call'[c].target = Base
           /\ UNCHANGED <<gen, saved, head, tree, published>>
           /\ call'[c].job \in Offered
<1> USE ReplacementConstants DEF TypeOK, Locals, At, Saving
<1>1. ASSUME NEW job \in Offered, Acquire(c, job)
      PROVE  /\ call'[c].at \in {"locked", "done"} /\ call'[c].job = job
             /\ job \in Replacing /\ (job = "create" => NeverUsed)
             /\ call'[c].at = "locked" /\ job = "create" => call'[c].target = Base
             /\ UNCHANGED <<gen, saved, head, tree, published>>
  <2>1. CASE lock = Nobody
    BY <1>1, <2>1 DEF Acquire
  <2>2. CASE lock # Nobody
    BY <1>1, <2>2 DEF Acquire
  <2> QED
    BY <2>1, <2>2
<1>2. ASSUME NEW job \in Offered, StartSave(c, job)
      PROVE  /\ call'[c].at = "head" /\ call'[c].job = job /\ job \in Saving
             /\ UNCHANGED <<gen, saved, head, tree, published>>
  BY <1>2 DEF StartSave
<1>3. ASSUME NEW job \in Offered, StartUpload(c, job)
      PROVE  /\ call'[c].at = "verify" /\ call'[c].job = job /\ job = "upload"
             /\ UNCHANGED <<gen, saved, head, tree, published>>
  BY <1>3 DEF StartUpload
<1> QED
  BY <1>1, <1>2, <1>3 DEF Begin

LEMMA HoldsOwn ==
    ASSUME SaveInv, NEW c \in Calls, Step(c)
    PROVE  Holds(c)'
<1> USE DEF SaveInv, TreeInv
<1>1. call'[c].changes <= changes'
  BY ChangesRead, Markers DEF Holds, TypeOK, Locals
<1>2. ASSUME call'[c].at \in {"head", "dirty", "root", "capture", "recheck", "mark"}
      PROVE  ~Is(c, "upload")'
  <2>1. CASE Begin(c)
    BY <1>2, <2>1, Begins DEF Is, Saving
  <2>2. CASE ~Begin(c)
    <3>1. call'[c].job = call[c].job
      BY <2>2, JobStays
    <3>2. CASE Fence(c)
      BY <3>1, <3>2 DEF Fence, Placed, At, Is, Replacing
    <3>3. CASE Verify(c) /\ call'[c].at = "mark"
      BY <3>1, <3>3 DEF Verify, Refused, Go, TypeOK, Locals, Is
    <3>4. CASE ~Fence(c) /\ ~Verify(c)
      <4>1. \/ ReadHead(c) \/ ReadDirty(c) \/ ReadRoot(c)
            \/ \E p \in Paths : Capture(c, p)
        BY <1>2, <2>2, <3>4, Arrivals
      <4>2. call[c].at \in {"head", "dirty", "root", "capture"}
        BY <4>1 DEF ReadHead, ReadDirty, ReadRoot, Capture, At
      <4> QED
        BY <3>1, <4>2 DEF Holds, Is
    <3>5. CASE Verify(c) /\ call'[c].at # "mark"
      <4>1. call[c].at = "verify" /\ call'[c].at \in {"commit", "release"}
        BY <3>5 DEF Verify, Refused, Go, At, TypeOK, Locals
      <4> QED
        BY <1>2, <4>1
    <3> QED
      BY <3>2, <3>3, <3>4, <3>5
  <2> QED
    BY <2>1, <2>2
<1>3. ASSUME Holding(c)' PROVE call'[c].gen.phase = "open" /\ Past(call[c].gen)'
  <2>1. Past(gen) /\ gen.by \in Calls => call'[gen.by].at \in Ended
    BY EndedStays DEF Past
  <2>2. Past(call[c].gen) /\ call[c].gen.by \in Calls =>
          call'[call[c].gen.by].at \in Ended
    BY EndedStays DEF Past
  <2>3. ~Begin(c)
    BY <1>3, Begins DEF Holding, At, Is, Saving
  <2>4. call'[c].job = call[c].job
    BY <2>3, JobStays
  <2>5. CASE ReadDirty(c)
    <3>1. call'[c].gen = gen /\ gen.phase = "open"
      BY <1>3, <2>4, <2>5 DEF ReadDirty, Refused, Go, Holding, Restoring, Is, TypeOK, Locals
    <3> QED
      BY <2>1, <3>1 DEF Past
  <2>6. CASE Verify(c) /\ Is(c, "upload")
    <3>1. call'[c].gen = gen /\ gen.phase = "open"
      BY <1>3, <2>6 DEF Verify, MayCommit, Refused, Go, Holding, At, Is, TypeOK, Locals
    <3> QED
      BY <2>1, <3>1 DEF Past
  <2>7. CASE ~ReadDirty(c) /\ ~(Verify(c) /\ Is(c, "upload"))
    <3>1. \/ ReadRoot(c) \/ Recheck(c) \/ Verify(c)
          \/ \E p \in Paths : Capture(c, p)
      BY <1>3, <2>3, <2>7, Arrivals DEF Holding
    <3>2. call'[c].gen = call[c].gen
      <4>1. CASE ReadRoot(c) \/ Recheck(c) \/ Verify(c)
        BY <2>7, <4>1 DEF ReadRoot, Recheck, Verify, Refused, Go, TypeOK, Locals
      <4>2. ASSUME NEW p \in Paths, Capture(c, p) PROVE call'[c].gen = call[c].gen
        BY <4>2 DEF Capture, TypeOK, Locals
      <4> QED
        BY <3>1, <4>1, <4>2
    <3>3. call[c].at \in {"root", "recheck", "verify", "capture"}
      BY <3>1 DEF ReadRoot, Recheck, Verify, Capture, At
    <3>4. Is(c, "upload") => At(c, "verify") /\ ~Verify(c)
      BY <2>7, <3>3 DEF Holds, At, Is
    <3>5. ~Is(c, "upload")
      BY <3>1, <3>4 DEF ReadRoot, Recheck, Capture, At
    <3>6. Holding(c)
      BY <1>3, <2>4, <3>3, <3>5 DEF Holding, Restoring, Is
    <3> QED
      BY <2>2, <3>2, <3>6 DEF Holds, Past
  <2> QED
    BY <2>5, <2>6, <2>7
<1> QED
  BY <1>1, <1>2, <1>3 DEF Holds

LEMMA CapturedOwn ==
    ASSUME SaveInv, NEW c \in Calls, Step(c)
    PROVE  Captured(c)'
<1> USE DEF SaveInv, TreeInv, TypeOK, Locals
<1>1. SUFFICES ASSUME call'[c].at \in {"capture", "recheck", "verify", "commit", "mark"},
                      gen' = call'[c].gen, changes' = call'[c].changes,
                      ~Is(c, "upload")'
               PROVE  Captured(c)'
  BY DEF Captured, At
<1>2. ~Begin(c)
  BY <1>1, Begins DEF Is
<1>3. CASE ReadRoot(c)
  <2>1. /\ call'[c].at = "capture" /\ call'[c].todo = Paths
        /\ live' = live /\ live[Root] # Absent
    BY <1>1, <1>3 DEF ReadRoot, RootExists, tree
  <2> QED
    BY <2>1 DEF Captured, At
<1>4. ASSUME NEW p \in Paths, Capture(c, p) PROVE Captured(c)'
  <2>1. /\ call[c].at = "capture" /\ UNCHANGED <<gen, live, changes>>
        /\ call'[c].gen = call[c].gen /\ call'[c].changes = call[c].changes
        /\ call'[c].job = call[c].job
    BY <1>4 DEF Capture, At, tree
  <2>2. /\ live[Root] # Absent
        /\ \A q \in Paths : q \notin call[c].todo => call[c].copy[q] = live[q]
    BY <1>1, <2>1 DEF Captured, At, Is
  <2>3. /\ call'[c].todo = call[c].todo \ {p}
        /\ call'[c].copy = [call[c].copy EXCEPT ![p] = live[p]]
        /\ call'[c].at = IF call[c].todo \ {p} = {} THEN "recheck" ELSE "capture"
    BY <1>4, <2>2 DEF Capture
  <2>4. \A q \in Paths : q \notin call'[c].todo => call'[c].copy[q] = live[q]
    BY <2>2, <2>3 DEF Trees
  <2>5. CASE call'[c].todo = {}
    <3>1. \A q \in Paths : call'[c].copy[q] = live[q]
      BY <2>4, <2>5
    <3>2. call'[c].copy \in Trees /\ live \in Trees
      BY <2>3 DEF Trees
    <3>3. call'[c].copy = live
      BY <3>1, <3>2 DEF Trees
    <3> QED
      BY <2>1, <2>3, <2>5, <3>3 DEF Captured, At
  <2>6. CASE call'[c].todo # {}
    BY <2>1, <2>2, <2>3, <2>4, <2>6 DEF Captured, At
  <2> QED
    BY <2>5, <2>6
<1>5. CASE Recheck(c)
  BY <1>1, <1>5 DEF Recheck, Refused, Go, Captured, At, Is, tree
<1>6. CASE Verify(c)
  <2>1. /\ call[c].at = "verify" /\ call'[c].at \in {"commit", "mark"}
        /\ UNCHANGED <<gen, live, changes>> /\ call'[c].copy = call[c].copy
        /\ call'[c].changes = call[c].changes /\ call'[c].job = call[c].job
        /\ ~Is(c, "upload") => call'[c].gen = call[c].gen
    BY <1>1, <1>6 DEF Verify, Refused, Go, At, Is, tree
  <2> QED
    BY <1>1, <2>1 DEF Captured, At, Is
<1> QED
  BY <1>1, <1>2, <1>3, <1>4, <1>5, <1>6, Arrivals

LEMMA MarkedOwn ==
    ASSUME SaveInv, NEW c \in Calls, Step(c)
    PROVE  Marked(c)'
<1> USE DEF SaveInv, TreeInv, TypeOK, Locals
<1>1. SUFFICES ASSUME call'[c].at = "mark" PROVE Marked(c)'
  BY DEF Marked, At
<1>2. Verify(c)
  BY <1>1, Arrivals
<1>3. /\ SameAsHead(c) /\ saved' = saved
      /\ call'[c].head = call[c].head /\ call'[c].copy = call[c].copy
  BY <1>1, <1>2 DEF Verify, Refused, Go
<1> QED
  BY <1>3 DEF Marked, SameAsHead

LEMMA AimedOwn ==
    ASSUME SaveInv, NEW c \in Calls, Step(c)
    PROVE  Aimed(c)'
<1> USE DEF SaveInv, TreeInv, TypeOK, Locals, Refused, Go, Guarded, Owns, tree
<1>1. SUFFICES ASSUME call'[c].at \in Writing PROVE Aimed(c)'
  BY DEF Aimed
<1> USE DEF At
<1>2. CASE Fence(c)
  <2>1. /\ call[c].at = "fence" /\ Is(c, "create") /\ gen = call[c].gen
        /\ call'[c].at = "reset" /\ call'[c].copy = BaseTree
        /\ call'[c].target = call[c].target /\ UNCHANGED <<head, saved>>
    BY <1>1, <1>2 DEF Fence, AfterFence, Manifest, Writing, Is
  <2>2. gen.phase = "none" /\ call[c].target = Base
    BY <2>1 DEF Creating
  <2> QED
    BY <2>1, <2>2 DEF Pristine, Aimed
<1>3. CASE MoveHead(c)
  <2>1. /\ call'[c].at = "reset" /\ head' = call[c].target /\ saved' = saved
        /\ call'[c].copy = saved[call[c].target]
        /\ call'[c].target = call[c].target
    BY <1>1, <1>3 DEF MoveHead, Writing
  <2> QED
    BY <2>1 DEF Aimed
<1>4. ASSUME NEW p \in Paths, ResetNode(c, p) PROVE Aimed(c)'
  BY <1>1, <1>4 DEF ResetNode, Aimed, Writing
<1>5. CASE ResetMarkers(c)
  BY <1>1, <1>5 DEF ResetMarkers, Aimed, Writing
<1>6. ASSUME NEW p \in Paths, WriteNode(c, p) PROVE Aimed(c)'
  BY <1>1, <1>6 DEF WriteNode, Aimed, Writing
<1>7. CASE WriteInfo(c) \/ MarkClean(c)
  BY <1>1, <1>7 DEF WriteInfo, MarkClean, Aimed, Writing
<1> QED
  BY <1>1, <1>2, <1>3, <1>4, <1>5, <1>6, <1>7, Arrivals DEF Writing

LEMMA CreatingOwn ==
    ASSUME SaveInv, NEW c \in Calls, Step(c)
    PROVE  Creating(c)' /\ CreatedOnce'
<1> USE DEF SaveInv, TreeInv
<1>1. ASSUME Is(c, "create")', call'[c].at \in {"locked", "fence"}
      PROVE  gen'.phase = "none" /\ call'[c].target = Base
  <2>1. CASE Begin(c)
    BY <1>1, <2>1, Begins DEF Is, NeverUsed, NoGeneration
  <2>2. CASE ~Begin(c)
    <3>1. ReadGeneration(c)
      BY <1>1, <2>2, Arrivals
    <3>2. /\ call'[c].job = call[c].job /\ call'[c].target = call[c].target
      BY <2>2, JobStays
    <3>3. At(c, "locked") /\ gen' = gen
      BY <3>1 DEF ReadGeneration, Refused
    <3> QED
      BY <1>1, <3>2, <3>3 DEF Creating, At, Is
  <2> QED
    BY <2>1, <2>2
<1>2. ASSUME At(c, "fence")', ~Is(c, "create")' PROVE call'[c].gen.phase # "none"
  <2>1. ReadGeneration(c) /\ ~Begin(c)
    BY <1>2, Arrivals, Begins DEF At
  <2>2. Is(c, "restore") \/ Is(c, "delete")
    BY <1>2, <2>1, JobStays DEF ReadGeneration, Placed, At, Is, Replacing
  <2>3. Admissible(c) /\ call'[c].gen = gen
    BY <1>2, <2>1 DEF ReadGeneration, Refused, Go, At, TypeOK, Locals
  <2> QED
    BY <2>2, <2>3 DEF Admissible, Is
<1>3. CreatedOnce'
  <2>1. SUFFICES ASSUME NEW d \in Calls, d # c, Is(c, "create")', Is(d, "create")
                 PROVE  FALSE
    BY Frame DEF CreatedOnce, Is
  <2>2. CASE Begin(c)
    BY <2>1, <2>2, Begins DEF Is, NeverUsed
  <2>3. CASE ~Begin(c)
    BY <2>1, <2>3, JobStays DEF Is, CreatedOnce
  <2> QED
    BY <2>2, <2>3
<1> QED
  BY <1>1, <1>2, <1>3 DEF Creating

-----------------------------------------------------------------------------
\* Under an open generation only checkpoints of that generation commit.
LEMMA OpenCommits ==
    ASSUME SaveInv, NEW c \in Calls, gen = call[c].gen,
           At(c, "commit") \/ At(c, "mark")
    PROVE  IF Restoring(c) THEN gen = Fencing(c) ELSE gen.phase = "open"
  BY DEF SaveInv, TreeInv, Placed, Holds, Holding, Reading, At, Is

LEMMA CleanStep ==
    ASSUME SaveInv, NEW c \in Calls, Step(c)
    PROVE  CleanMeansSaved'
<1> USE DEF SaveInv
<1>1. SUFFICES ASSUME gen'.phase = "open", dirty' = "0"
               PROVE  live' = saved'[head'] /\ rootHead' = head'
  BY DEF CleanMeansSaved
<1>2. CASE UNCHANGED Shown
  <2>1. gen' = gen /\ live' = live /\ gen.phase = "open"
    BY <1>1, <1>2 DEF Shown
  <2>2. gen # Rewriting(c) /\ gen # Tombstone /\ gen # Fencing(c)
    BY <2>1 DEF Rewriting, Tombstone, Fencing
  <2>3. CASE UNCHANGED <<saved, head, rootHead, dirty>>
    BY <1>1, <2>1, <2>3 DEF CleanMeansSaved
  <2>4. CASE Committed(c)
    <3>1. ~Is(c, "upload")
      BY <1>1, <2>4 DEF Committed
    <3>2. call[c].copy = live
      BY <2>4, <3>1 DEF Committed, Current, Unchanged, Captured, At
    <3>3. saved'[c] = call[c].copy /\ head' = c /\ rootHead' = c
      BY <2>4, <3>1 DEF Committed, TreeInv, TypeOK, Savepoints
    <3> QED
      BY <2>1, <3>2, <3>3
  <2>5. CASE Remarked(c)
    <3>1. ~Is(c, "upload")
      BY <2>5 DEF Remarked, Holds, At
    <3>2. call[c].copy = live /\ saved[call[c].head] = call[c].copy
      BY <2>5, <3>1 DEF Remarked, StillCaptured, Unchanged, Captured, Marked, At
    <3> QED
      BY <2>1, <2>5, <3>2 DEF Remarked, StillCaptured
  <2> QED
    BY <1>2, <2>2, <2>3, <2>4, <2>5, Markers
<1>3. CASE gen' \in {Fencing(c), Rewriting(c), Tombstone}
  BY <1>1, <1>3 DEF Fencing, Rewriting, Tombstone
<1>4. CASE Open(c) /\ Guarded(c) /\ gen' = Opened(c)
  <2>1. At(c, "open") /\ gen = call[c].gen
    BY <1>4 DEF Open, Guarded, Owns
  <2>2. live = call[c].copy
    BY <2>1 DEF TreeInv, Built, At
  <2>3. call[c].copy = saved[head] /\ rootHead = head
    BY <2>1 DEF Aimed, At, Writing
  <2>4. UNCHANGED <<live, saved, head, rootHead>>
    BY <1>4 DEF Open, Refused, tree
  <2> QED
    BY <2>2, <2>3, <2>4
<1> QED
  BY <1>2, <1>3, <1>4, Effect DEF TreeInv

LEMMA PristineStep ==
    ASSUME SaveInv, NEW c \in Calls, Step(c)
    PROVE  Pristine' /\ (gen'.phase = "open" => Past(gen)')
<1> USE DEF SaveInv
<1>1. CASE UNCHANGED Shown
  <2>1. gen' = gen /\ published' = published
    BY <1>1 DEF Shown
  <2>2. ASSUME gen.phase = "none" PROVE UNCHANGED <<saved, head>>
    <3>1. gen # Rewriting(c) /\ gen # Tombstone /\ gen # Fencing(c)
      BY <2>2 DEF Rewriting, Tombstone, Fencing
    <3>2. ~Committed(c)
      BY <2>2, <3>1, OpenCommits DEF Committed, Current
    <3>3. ~Remarked(c)
      BY <2>2, <3>1, OpenCommits DEF Remarked, StillCaptured
    <3> QED
      BY <3>1, <3>2, <3>3, Markers
  <2>3. Past(gen) => Past(gen)'
    BY <2>1, EndedStays DEF Past, TreeInv
  <2> QED
    BY <2>1, <2>2, <2>3 DEF Pristine
<1>2. CASE gen' \in {Fencing(c), Rewriting(c), Tombstone}
  BY <1>2 DEF Fencing, Rewriting, Tombstone, Pristine
<1>3. CASE Open(c) /\ Guarded(c) /\ gen' = Opened(c)
  <2>1. call'[c].at \in Ended
    BY <1>3 DEF Open, Refused, Go, Ended, TreeInv, TypeOK, Locals
  <2> QED
    BY <1>3, <2>1 DEF Opened, Pristine, Past
<1> QED
  BY <1>1, <1>2, <1>3, Effect DEF TreeInv

LEMMA ClientsSave ==
    ASSUME SaveInv,
           \/ \E p \in Paths, v \in Versions \cup {Absent} : Publish(p, v)
           \/ MarkRootDirty \/ ExpireLock \/ UNCHANGED vars
    PROVE  /\ CleanMeansSaved' /\ Pristine' /\ CreatedOnce'
           /\ gen'.phase = "open" => Past(gen)'
           /\ \A c \in Calls : Holds(c)' /\ Captured(c)' /\ Marked(c)'
                                 /\ Aimed(c)' /\ Creating(c)'
<1> USE DEF SaveInv
<1>1. /\ UNCHANGED <<gen, call, saved, head, rootHead>>
      /\ \/ UNCHANGED <<live, changes, published>>
         \/ changes' = changes + 1 /\ gen.phase = "open"
      /\ dirty' = "1" \/ UNCHANGED <<live, dirty>>
  BY DEF Publish, MarkRootDirty, ExpireLock, vars, tree
<1>2. CleanMeansSaved' /\ Pristine' /\ CreatedOnce'
  BY <1>1 DEF CleanMeansSaved, Pristine, CreatedOnce, Is
<1>3. gen'.phase = "open" => Past(gen)'
  BY <1>1 DEF Past
<1>4. ASSUME NEW c \in Calls
      PROVE  Holds(c)' /\ Captured(c)' /\ Marked(c)' /\ Aimed(c)' /\ Creating(c)'
  <2>1. call[c].changes \in Nat /\ changes \in Nat /\ call[c].changes <= changes
    BY DEF TreeInv, TypeOK, Locals, Holds
  <2>2. Holds(c)'
    BY <1>1, <2>1 DEF Holds, Holding, At, Is, Restoring, Past
  <2>3. Captured(c)'
    BY <1>1, <2>1 DEF Captured, At, Is
  <2>4. Marked(c)' /\ Aimed(c)' /\ Creating(c)'
    BY <1>1 DEF Marked, Aimed, Creating, At, Is
  <2> QED
    BY <2>2, <2>3, <2>4
<1> QED
  BY <1>2, <1>3, <1>4

LEMMA NextSave == SaveInv /\ [Next]_vars => SaveInv'
<1> SUFFICES ASSUME SaveInv, [Next]_vars PROVE SaveInv'
  OBVIOUS
<1>1. TreeInv'
  BY NextTree DEF SaveInv
<1>2. ASSUME NEW c \in Calls, Step(c) PROVE SaveInv'
  <2>1. ASSUME NEW d \in Calls
        PROVE  Holds(d)' /\ Captured(d)' /\ Marked(d)' /\ Aimed(d)' /\ Creating(d)'
    <3>1. CASE d = c
      BY <1>2, <3>1, HoldsOwn, CapturedOwn, MarkedOwn, AimedOwn, CreatingOwn
    <3>2. CASE d # c
      BY <1>2, <3>2, OthersKeep
    <3> QED
      BY <3>1, <3>2
  <2> QED
    BY <1>1, <1>2, <2>1, CreatingOwn, CleanStep, PristineStep DEF SaveInv
<1>3. ASSUME ~\E c \in Calls : Step(c) PROVE SaveInv'
  BY <1>1, <1>3, ClientsSave DEF SaveInv, Next, Step
<1> QED
  BY <1>2, <1>3

(* The clean marker of an open workspace is true: its tree is the one the  *)
(* head savepoint holds, whichever checkpoint or restore set the marker.   *)
THEOREM MarkerIsTrue == Spec => []CleanMeansSaved
<1>1. SaveInv => CleanMeansSaved
  BY DEF SaveInv
<1> QED
  BY InitSave, NextSave, <1>1, PTL DEF Spec

-----------------------------------------------------------------------------
(* Nothing unsaved is destroyed.                                           *)

LEMMA InitKept == Init => KeptInv
<1> SUFFICES ASSUME NEW opened \in Openings, InitWith(opened), SaveInv
             PROVE  KeptInv
  BY InitSave DEF Init
<1> QED
  BY DEF InitWith, NoGeneration, KeptInv, Is, At, Savepoints

LEMMA NoDeletions ==
    ASSUME "delete" \notin Offered, KeptInv, NEW c \in Calls, Step(c)
    PROVE  /\ gen' # Tombstone /\ gen'.phase # "deleted"
           /\ \A d \in Calls : ~Is(d, "delete")'
           /\ head' \in Savepoints
<1> USE DEF KeptInv, SaveInv, TreeInv
<1>1. gen # Tombstone
  BY DEF Tombstone
<1>2. gen' # Tombstone /\ gen'.phase # "deleted"
  <2>1. At(c, "fence") => FirstPhase(c) \in {Fencing(c), Rewriting(c)}
    BY DEF Placed, At, Is, Replacing, FirstPhase, Fencing, Rewriting
  <2> QED
    BY <1>1, <2>1, Moves DEF Fencing, Rewriting, Tombstone
<1>3. ASSUME NEW d \in Calls PROVE ~Is(d, "delete")'
  <2>1. CASE d # c
    BY <2>1, Frame DEF Is
  <2>2. CASE d = c /\ Begin(c)
    BY <2>2, Begins DEF Is
  <2>3. CASE d = c /\ ~Begin(c)
    BY <2>3, JobStays DEF Is
  <2> QED
    BY <2>1, <2>2, <2>3
<1>4. head' \in Savepoints
  BY <1>1, Moves DEF TypeOK, Locals, Savepoints
<1> QED
  BY <1>2, <1>3, <1>4

\* Without deletions, a savepoint that holds the published tree stays.
LEMMA KeptStays ==
    ASSUME KeptInv, NEW c \in Calls, Step(c), Kept, published' = published
    PROVE  Kept'
<1> USE DEF KeptInv, SaveInv, TreeInv, TypeOK
<1>1. gen # Tombstone
  BY DEF Tombstone
<1>2. published # Absent
  BY AbsentIsNoTree DEF Trees
<1>3. ASSUME NEW s \in Savepoints, saved[s] = published
      PROVE  saved'[s] = saved[s]
  BY <1>1, <1>2, <1>3, Markers DEF Committed, Current, Remarked
<1> QED
  BY <1>3 DEF Kept

\* The safety checkpoint keeps what is still whole.
LEMMA SafetyCheckpoint ==
    ASSUME KeptInv, NEW c \in Calls, Step(c), gen.phase = "fencing",
           Committed(c) \/ Remarked(c)
    PROVE  Kept'
<1> USE DEF KeptInv, SaveInv, TreeInv, TypeOK
<1>1. published' = published
  BY DEF Committed, Remarked
<1>2. CASE Kept
  BY <1>1, <1>2, KeptStays
<1>3. CASE live = published
  <2>1. gen = call[c].gen /\ (At(c, "commit") \/ At(c, "mark"))
    BY DEF Committed, Remarked, Current, StillCaptured
  <2>2. Restoring(c) /\ ~Is(c, "upload")
    BY <2>1, OpenCommits DEF Restoring, Is
  <2>3. call[c].copy = live
    BY <2>1, <2>2 DEF Committed, Remarked, Current, StillCaptured, Unchanged,
                      Captured, At
  <2>4. CASE Committed(c)
    <3>1. saved'[c] = published' /\ c \in Savepoints
      BY <1>1, <1>3, <2>3, <2>4 DEF Committed, Savepoints
    <3> QED
      BY <3>1 DEF Kept
  <2>5. CASE Remarked(c)
    <3>1. saved'[call[c].head] = published' /\ call[c].head \in Savepoints
      BY <1>1, <1>3, <2>1, <2>3, <2>5 DEF Remarked, Marked, Locals
    <3> QED
      BY <3>1 DEF Kept
  <2> QED
    BY <2>4, <2>5
<1> QED
  BY <1>2, <1>3

\* Fencing a generation: what it leaves is kept, or whole and dirty.
LEMMA FencedTree ==
    ASSUME KeptInv, NEW c \in Calls, Step(c), At(c, "fence"), gen' # gen
    PROVE  /\ gen' = Fencing(c) \/ gen' = Rewriting(c)
           /\ gen' = Rewriting(c) => Kept'
           /\ Kept' \/ (live' = published' /\ dirty' # "0")
           /\ gen.phase = "restoring" => Kept'
<1> USE DEF KeptInv, SaveInv, TreeInv, TypeOK
<1>1. /\ gen = call[c].gen /\ gen' = FirstPhase(c) /\ published' = published
      /\ UNCHANGED <<saved, live, dirty>>
  <2>1. gen'.phase # "open"
    <3>1. Fence(c) \/ Fail(c) \/ Crash(c)
      BY DEF Step, Progress, Begin, Acquire, StartSave, StartUpload,
             ReadGeneration, ReadHead, ReadDirty, ReadRoot, Capture, Recheck,
             Verify, Commit, MarkCaptured, Claim, MoveHead, ResetNode,
             ResetMarkers, WriteNode, WriteInfo, MarkClean, Open, DropNode,
             DropSavepoint, DropMeta, DropMarker, EndDrop, Release, At
    <3>2. gen' = FirstPhase(c)
      BY <3>1 DEF Fence, Fail, Crash, Refused
    <3> QED
      BY <3>2 DEF FirstPhase, Tombstone
  <2> QED
    BY <2>1, Moves DEF At
<1>2. Kept => Kept'
  BY <1>1 DEF Kept
<1>3. Is(c, "restore") \/ Is(c, "create")
  BY DEF Placed, At, Is, Replacing
<1>4. CASE Is(c, "create")
  <2>1. Kept
    BY <1>4 DEF Creating, At, Is, Pristine, Kept
  <2> QED
    BY <1>1, <1>2, <1>4, <2>1 DEF FirstPhase, Is, Rewriting
<1>5. CASE Is(c, "restore")
  <2>1. gen' = Fencing(c) /\ Fencing(c) # Rewriting(c)
    <3>1. Fencing(c).phase # Rewriting(c).phase
      BY DEF Fencing, Rewriting
    <3>2. FirstPhase(c) = Fencing(c)
      BY <1>5 DEF FirstPhase, Fencing, Is
    <3> QED
      BY <1>1, <3>1, <3>2
  <2>2. gen.phase \in {"open", "fencing", "restoring"}
    BY <1>1, <1>5 DEF Creating, Is, Generations, Phases
  <2>3. CASE gen.phase = "open"
    <3>1. live = published /\ (dirty = "0" => Kept)
      BY <2>3 DEF ServesPublished, CleanMeansSaved, Kept
    <3> QED
      BY <1>1, <1>2, <2>1, <2>3, <3>1
  <2>4. CASE gen.phase \in {"fencing", "restoring"}
    BY <1>1, <1>2, <2>1, <2>4
  <2> QED
    BY <2>2, <2>3, <2>4
<1> QED
  BY <1>3, <1>4, <1>5

LEMMA ClaimKept ==
    ASSUME KeptInv, NEW c \in Calls, Step(c), NEW d \in Calls,
           At(d, "claim")', gen' = call'[d].gen
    PROVE  Kept'
<1> USE DEF KeptInv, SaveInv, TreeInv, TypeOK
<1>1. Placed(d)' /\ gen' = Fencing(d)
  <2>1. Placed(d)'
    BY PlacedStep, Frame DEF Placed, At, Restoring, Is
  <2> QED
    BY <2>1 DEF Placed, Fencing
<1>2. gen'.phase = "fencing" /\ gen'.by = d
  BY <1>1 DEF Fencing
<1>3. CASE d # c
  <2>1. call'[d] = call[d]
    BY <1>3, Frame
  <2>2. gen' = gen
    <3>1. SUFFICES ASSUME gen' # gen PROVE FALSE
      OBVIOUS
    <3>2. gen' = Rewriting(c) \/ gen' = FirstPhase(c)
      BY <1>2, <3>1, Moves
    <3> QED
      BY <1>2, <1>3, <3>2 DEF FirstPhase, Rewriting, Tombstone
  <2>3. Kept /\ published' = published
    BY <2>1, <2>2, Moves DEF At
  <2> QED
    BY <2>3, KeptStays
<1>4. CASE d = c
  <2>1. CASE Fence(c)
    <3>1. gen' # gen => Kept'
      <4>1. SUFFICES ASSUME gen' # gen PROVE Kept'
        OBVIOUS
      <4>2. At(c, "fence") /\ Is(c, "restore")
        BY <1>2, <2>1, <4>1 DEF Fence, Refused, FirstPhase, Tombstone, Is
      <4>3. call[c].gen.phase = "restoring"
        BY <1>4, <2>1, <4>1, <4>2 DEF Fence, Refused, AfterFence, Locals, At, Is
      <4>4. gen.phase = "restoring"
        BY <4>1, <4>3, Moves
      <4> QED
        BY <4>1, <4>2, <4>4, FencedTree
    <3>2. gen' # gen
      <4>1. SUFFICES ASSUME gen' = gen PROVE FALSE
        OBVIOUS
      <4>2. call'[c].at = "claim" /\ ~Refused(c, Owns(c, call[c].gen))
        BY <1>4 DEF Refused, Go, At, Locals
      <4>3. gen' = FirstPhase(c) /\ call[c].gen = gen /\ call[c].gen.phase = "restoring"
        BY <2>1, <4>2 DEF Fence, Owns, AfterFence, Locals, Is
      <4> QED
        BY <1>2, <4>1, <4>3
    <3> QED
      BY <3>1, <3>2
  <2>2. CASE ReadDirty(c)
    <3>1. /\ gen' = gen /\ published' = published /\ dirty = "0"
      BY <1>4, <2>2 DEF ReadDirty, Refused, Go, KnownClean, At, Locals
    <3>2. Kept
      BY <1>2, <3>1
    <3> QED
      BY <3>1, <3>2, KeptStays
  <2>3. CASE Commit(c) \/ MarkCaptured(c)
    <3>1. ~Refused(c, Current(c)) /\ ~Refused(c, StillCaptured(c))
      BY <1>4 DEF Refused, Go, At, Locals
    <3>2. gen' = gen /\ (Committed(c) \/ Remarked(c))
      BY <2>3, <3>1 DEF Commit, MarkCaptured, Committed, Remarked
    <3> QED
      BY <1>2, <3>2, SafetyCheckpoint
  <2> QED
    BY <1>4, <2>1, <2>2, <2>3, Arrivals DEF At
<1> QED
  BY <1>3, <1>4

LEMMA NextKept ==
    ASSUME "delete" \notin Offered
    PROVE  KeptInv /\ [Next]_vars => KeptInv'
<1> SUFFICES ASSUME KeptInv, [Next]_vars PROVE KeptInv'
  OBVIOUS
<1>1. SaveInv'
  BY NextSave DEF KeptInv
<1>2. ASSUME NEW c \in Calls, Step(c) PROVE KeptInv'
  <2> USE DEF KeptInv, SaveInv, TreeInv
  <2>1. CASE gen' = gen
    <3>1. published' = published
      BY <1>2, <2>1, Moves
    <3>2. Kept => Kept'
      BY <1>2, <3>1, KeptStays
    <3>3. ASSUME gen.phase = "fencing", ~Kept'
          PROVE  live' = published' /\ dirty' # "0"
      <4>1. gen # Rewriting(c) /\ gen # Tombstone
        BY <3>3 DEF Rewriting, Tombstone
      <4>2. UNCHANGED <<saved, head, rootHead, dirty>>
        BY <1>2, <3>3, <4>1, Markers, SafetyCheckpoint
      <4> QED
        BY <1>2, <3>1, <3>2, <3>3, <4>1, <4>2, Moves
    <3> QED
      BY <1>1, <1>2, <2>1, <3>2, <3>3, ClaimKept, NoDeletions
  <2>2. CASE gen' # gen
    <3>1. CASE At(c, "fence")
      BY <1>1, <1>2, <2>2, <3>1, FencedTree, ClaimKept, NoDeletions
             DEF Fencing, Rewriting
    <3>2. CASE gen' = Rewriting(c) /\ At(c, "claim") /\ published' = published
      <4>1. Kept'
        BY <1>2, <2>2, <3>2, Moves, KeptStays
      <4> QED
        BY <1>1, <1>2, <4>1, NoDeletions
    <3>3. CASE gen'.phase = "open"
      BY <1>1, <1>2, <3>3, ClaimKept, NoDeletions
    <3> QED
      BY <1>2, <2>2, <3>1, <3>2, <3>3, Moves
  <2> QED
    BY <2>1, <2>2
<1>3. ASSUME ~\E c \in Calls : Step(c) PROVE KeptInv'
  <2>1. /\ UNCHANGED <<gen, call, saved, head>>
        /\ gen.phase = "open" \/ UNCHANGED <<live, published, dirty>>
    BY <1>3 DEF Next, Step, Publish, MarkRootDirty, ExpireLock, vars, tree
  <2>2. ASSUME NEW c \in Calls, At(c, "claim"), gen = call[c].gen
        PROVE  gen.phase # "open"
    <3>1. gen = Fencing(c)
      BY <2>2 DEF KeptInv, SaveInv, TreeInv, Placed
    <3> QED
      BY <3>1 DEF Fencing
  <2> QED
    BY <1>1, <2>1, <2>2 DEF KeptInv, Kept, At, Is
<1> QED
  BY <1>2, <1>3

(* Where workspaces are not deleted, a restore deletes no key before what  *)
(* clients had published is in a savepoint, whichever restores crashed or  *)
(* lost their lock before it.                                              *)
THEOREM RestoreIsSafe ==
    ASSUME "delete" \notin Offered
    PROVE  Spec => []SafeToDestroy
<1>1. KeptInv => SafeToDestroy
  BY DEF KeptInv, SafeToDestroy, Kept
<1>2. Init => KeptInv
  BY InitKept
<1>3. KeptInv /\ [Next]_vars => KeptInv'
  BY NextKept
<1> QED
  BY <1>1, <1>2, <1>3, PTL DEF Spec

-----------------------------------------------------------------------------
(* Nothing is written under a tombstone.                                   *)

\* Whoever finds the tombstone is a deletion, or has nothing to write.
LEMMA UnderTombstone ==
    ASSUME SaveInv, NEW c \in Calls, Step(c), gen = Tombstone
    PROVE  /\ \A s \in Savepoints : saved'[s] \in {saved[s], Absent}
           /\ \A p \in Paths : live'[p] \in {live[p], Absent}
           /\ head' \in {head, Absent} /\ dirty' \in {dirty, Absent}
<1> USE DEF SaveInv, TreeInv, TypeOK, Trees, tree
<1>1. ~Guarded(c) \/ ~(call[c].at \in Writing \cup {"move", "claim"})
  <2>1. call[c].at \in Writing \cup {"move", "claim"} => call[c].gen.phase # "deleted"
    <3>1. call[c].gen = Fencing(c) \/ call[c].gen = Rewriting(c)
          \/ call[c].at \notin Writing \cup {"move", "claim"}
      BY DEF Placed, At
    <3> QED
      BY <3>1 DEF Fencing, Rewriting
  <2>2. gen.phase = "deleted"
    BY DEF Tombstone
  <2> QED
    BY <2>1, <2>2 DEF Guarded, Owns
<1>2. ~(At(c, "commit") /\ Current(c)) /\ ~(At(c, "mark") /\ StillCaptured(c))
  BY OpenCommits DEF Current, StillCaptured, Fencing, Tombstone
<1>3. CASE UNCHANGED <<saved, live, head, dirty>>
  BY <1>3
<1>4. CASE \E p \in Paths : DropNode(c, p)
  BY <1>4 DEF DropNode
<1>5. CASE (\E s \in Savepoints : DropSavepoint(c, s)) \/ DropMeta(c) \/ DropMarker(c)
  BY <1>5 DEF DropSavepoint, DropMeta, DropMarker
<1>6. \/ UNCHANGED <<saved, live, head, dirty>>
      \/ \E p \in Paths : DropNode(c, p)
      \/ (\E s \in Savepoints : DropSavepoint(c, s)) \/ DropMeta(c) \/ DropMarker(c)
  <2> USE DEF Refused
  <2>7. CASE Begin(c)
    BY <2>7, Begins
  <2>1. CASE Fail(c) \/ Crash(c) \/ Release(c) \/ EndDrop(c)
    BY <2>1 DEF Fail, Crash, Release, EndDrop
  <2>2. CASE ReadGeneration(c) \/ Fence(c) \/ ReadHead(c) \/ ReadDirty(c)
             \/ ReadRoot(c) \/ Recheck(c) \/ Verify(c)
    BY <2>2 DEF ReadGeneration, Fence, ReadHead, ReadDirty, ReadRoot, Recheck, Verify
  <2>3. CASE \E p \in Paths : Capture(c, p)
    BY <2>3 DEF Capture
  <2>4. CASE Commit(c) \/ MarkCaptured(c)
    BY <1>2, <2>4 DEF Commit, MarkCaptured
  <2>5. CASE Claim(c) \/ MoveHead(c) \/ ResetMarkers(c) \/ WriteInfo(c)
             \/ MarkClean(c) \/ Open(c)
    BY <1>1, <2>5 DEF Claim, MoveHead, ResetMarkers, WriteInfo, MarkClean, Open,
                      At, Writing
  <2>6. CASE \E p \in Paths : ResetNode(c, p) \/ WriteNode(c, p)
    BY <1>1, <2>6 DEF ResetNode, WriteNode, At, Writing
  <2> QED
    BY <2>1, <2>2, <2>3, <2>4, <2>5, <2>6, <2>7 DEF Step, Progress
<1> QED
  BY <1>3, <1>4, <1>5, <1>6

(* A deletion is final while its tombstone stands: no checkpoint, marker,  *)
(* head or node that is gone comes back, whichever captures, replacements  *)
(* and mutations were under way when the workspace was deleted.            *)
THEOREM NothingReappears == Spec => DeletionIsFinal
<1> DEFINE Final ==
      gen = Tombstone =>
        /\ \A s \in Savepoints : saved[s] = Absent => saved'[s] = Absent
        /\ \A p \in Paths : live[p] = Absent => live'[p] = Absent
        /\ head = Absent => head' = Absent
        /\ dirty = Absent => dirty' = Absent
<1>1. ASSUME SaveInv, Next PROVE Final
  <2>1. ASSUME NEW c \in Calls, Step(c) PROVE Final
    BY <1>1, <2>1, UnderTombstone
  <2>2. ASSUME ~\E c \in Calls : Step(c) PROVE Final
    <3>1. gen.phase = "open" \/ UNCHANGED <<saved, live, head, dirty>>
      BY <1>1, <2>2 DEF Next, Step, Publish, MarkRootDirty, ExpireLock, tree
    <3> QED
      BY <3>1 DEF Tombstone
  <2> QED
    BY <2>1, <2>2
<1>2. SaveInv /\ [Next]_vars => [Final]_vars
  BY <1>1
<1> HIDE DEF Final
<1>3. Spec => [][Final]_vars
  BY InitSave, NextSave, <1>2, PTL DEF Spec
<1> QED
  BY <1>3 DEF DeletionIsFinal, Final

-----------------------------------------------------------------------------
(* What clients are promised: the refinement of PublishedTree.             *)

(* A restore takes over from one that stopped between fencing clients and  *)
(* rewriting the tree, and finds a tree that is not the published one: an  *)
(* earlier restore had begun to rewrite it.  It then takes the tree for    *)
(* what clients published, and its safety checkpoint holds a mixture.      *)
TornTakeover(c) ==
    /\ Fence(c) /\ Owns(c, call[c].gen)
    /\ gen.phase = "fencing" /\ live # published

\* A call has no savepoint and no job before it begins.
Fresh(c) == At(c, "idle") => Is(c, "none") /\ saved[c] = Absent

\* A restore that captures does so from a tree nobody has touched yet.
FencedWhole(c) ==
    Restoring(c) /\ call[c].at \in Reading /\ gen = call[c].gen
        => live = published

PromiseInv == KeptInv /\ \A c \in Calls : Fresh(c) /\ FencedWhole(c)

LEMMA InitPromise == Init => PromiseInv
<1> SUFFICES ASSUME NEW opened \in Openings, InitWith(opened), KeptInv
             PROVE  PromiseInv
  BY InitKept DEF Init
<1> QED
  BY ReplacementConstants
     DEF InitWith, PromiseInv, Fresh, FencedWhole, At, Is, Savepoints, Reading

\* Nobody steps back to the beginning.
LEMMA BegunStays ==
    ASSUME TypeOK, NEW c \in Calls, Step(c)
    PROVE  call'[c].at # "idle"
<1> USE DEF TypeOK, Locals, Go, Refused, At
<1>1. CASE Begin(c)
  BY <1>1, Begins
<1>2. CASE Fail(c) \/ Crash(c) \/ Release(c) \/ EndDrop(c)
  BY <1>2 DEF Fail, Crash, Release, EndDrop
<1>3. CASE ReadGeneration(c) \/ Fence(c) \/ ReadHead(c) \/ ReadDirty(c)
           \/ ReadRoot(c) \/ Recheck(c) \/ Verify(c)
  BY <1>3 DEF ReadGeneration, Fence, ReadHead, ReadDirty, ReadRoot, Recheck, Verify,
              AfterFence, AfterSave
<1>4. CASE \E p \in Paths : Capture(c, p)
  BY <1>4 DEF Capture
<1>5. CASE Commit(c) \/ MarkCaptured(c) \/ Claim(c) \/ MoveHead(c)
  BY <1>5 DEF Commit, MarkCaptured, Claim, MoveHead, AfterSave
<1>6. CASE \E p \in Paths : ResetNode(c, p) \/ WriteNode(c, p) \/ DropNode(c, p)
  BY <1>6 DEF ResetNode, WriteNode, DropNode
<1>7. CASE ResetMarkers(c) \/ WriteInfo(c) \/ MarkClean(c) \/ Open(c)
  BY <1>7 DEF ResetMarkers, WriteInfo, MarkClean, Open
<1>8. CASE (\E s \in Savepoints : DropSavepoint(c, s)) \/ DropMeta(c)
           \/ DropMarker(c)
  BY <1>8 DEF DropSavepoint, DropMeta, DropMarker
<1> QED
  BY <1>1, <1>2, <1>3, <1>4, <1>5, <1>6, <1>7, <1>8 DEF Step, Progress

\* Where nothing is deleted a savepoint is only ever added, by its call.
LEMMA SavedBy ==
    ASSUME KeptInv, NEW c \in Calls, Step(c)
    PROVE  saved' = saved \/ Committed(c)
  BY Markers DEF KeptInv, SaveInv, Tombstone, Remarked

LEMMA FreshStep ==
    ASSUME KeptInv, \A d \in Calls : Fresh(d), NEW c \in Calls, Step(c),
           NEW d \in Calls
    PROVE  Fresh(d)'
<1> USE DEF KeptInv, SaveInv, TreeInv
<1>1. CASE d = c
  BY <1>1, BegunStays DEF Fresh, At
<1>2. CASE d # c
  <2>1. call'[d] = call[d] /\ d \in Savepoints /\ saved'[d] = saved[d]
    BY <1>2, Frame, SavedBy DEF Committed, TypeOK, Savepoints
  <2> QED
    BY <2>1 DEF Fresh, At, Is
<1> QED
  BY <1>1, <1>2

LEMMA FencedWholeStep ==
    ASSUME PromiseInv, NEW c \in Calls, Step(c), ~TornTakeover(c), NEW d \in Calls
    PROVE  FencedWhole(d)'
<1> USE DEF PromiseInv, KeptInv, SaveInv, TreeInv
<1>1. SUFFICES ASSUME call'[d].job = "restore", call'[d].at \in Reading,
                      gen' = call'[d].gen
               PROVE  live' = published'
  BY DEF FencedWhole, Restoring, Is
<1>2. gen' = Fencing(d)
  <2>1. Placed(d)'
    BY PlacedStep, Frame DEF Placed, At, Restoring, Is
  <2> QED
    BY <1>1, <2>1 DEF Placed, Restoring, Is
<1>3. CASE d = c /\ Fence(c)
  <2>1. At(c, "fence") /\ Owns(c, call[c].gen) /\ gen' = FirstPhase(c)
    BY <1>1, <1>3 DEF Fence, Refused, Go, Reading, TypeOK, Locals
  <2>2. Is(c, "restore") /\ call[c].gen.phase # "restoring"
    BY <1>1, <1>3, <2>1 DEF Fence, Refused, Go, AfterFence, Reading, TypeOK, Locals, Is
  <2>3. gen.phase \in {"open", "fencing"}
    BY <2>1, <2>2 DEF Owns, Creating, Is, TypeOK, Generations, Phases
  <2>4. live = published
    BY <1>3, <2>1, <2>3 DEF TornTakeover, ServesPublished
  <2> QED
    BY <1>1, <1>3, <2>4 DEF Fence, Refused, Go, Reading, TypeOK, Locals, tree
<1>4. CASE d = c /\ ~Fence(c)
  <2>1. ~Begin(c)
    BY <1>1, <1>4, Begins DEF Reading, Saving
  <2>2. call[c].at \in Reading
    <3>1. \/ ReadHead(c) \/ ReadDirty(c) \/ ReadRoot(c) \/ Recheck(c) \/ Verify(c)
          \/ \E p \in Paths : Capture(c, p)
      BY <1>1, <1>4, <2>1, Arrivals DEF Reading
    <3>2. ASSUME NEW p \in Paths, Capture(c, p) PROVE call[c].at = "capture"
      BY <3>2 DEF Capture, At
    <3> QED
      BY <3>1, <3>2 DEF Reading, ReadHead, ReadDirty, ReadRoot, Recheck, Verify, At
  <2>3. Restoring(c)
    BY <1>1, <1>4, <2>1, JobStays DEF Restoring, Is
  <2>4. call[c].gen = Fencing(c)
    BY <2>2, <2>3 DEF Placed
  <2>5. gen' = gen
    <3>1. SUFFICES ASSUME gen' # gen PROVE FALSE
      OBVIOUS
    <3>2. gen = Fencing(c)
      BY <2>4, <3>1, Moves
    <3> QED
      BY <1>2, <1>4, <3>1, <3>2
  <2>6. gen # Rewriting(c) /\ gen # Tombstone
    BY <1>2, <2>5 DEF Fencing, Rewriting, Tombstone
  <2> QED
    BY <1>2, <1>4, <2>2, <2>3, <2>4, <2>5, <2>6, Moves DEF FencedWhole
<1>5. CASE d # c
  <2>1. call'[d] = call[d]
    BY <1>5, Frame
  <2>2. gen' = gen
    <3>1. SUFFICES ASSUME gen' # gen PROVE FALSE
      OBVIOUS
    <3>2. gen' \in {FirstPhase(c), Rewriting(c)} \/ gen'.phase = "open"
      BY <3>1, Moves
    <3> QED
      BY <1>2, <1>5, <3>2 DEF FirstPhase, Fencing, Rewriting, Tombstone
  <2>3. gen # Rewriting(c) /\ gen # Tombstone
    BY <1>2, <2>2 DEF Fencing, Rewriting, Tombstone
  <2> QED
    BY <1>1, <2>1, <2>2, <2>3, Moves DEF FencedWhole, Restoring, Is
<1> QED
  BY <1>3, <1>4, <1>5

LEMMA NextPromise ==
    ASSUME "delete" \notin Offered
    PROVE  PromiseInv /\ [Next]_vars /\ (\A c \in Calls : ~TornTakeover(c))
             => PromiseInv'
<1> SUFFICES ASSUME PromiseInv, [Next]_vars, \A c \in Calls : ~TornTakeover(c)
             PROVE  PromiseInv'
  OBVIOUS
<1>1. KeptInv'
  BY NextKept DEF PromiseInv
<1>2. ASSUME NEW c \in Calls, Step(c) PROVE PromiseInv'
  BY <1>1, <1>2, FreshStep, FencedWholeStep DEF PromiseInv
<1>3. ASSUME ~\E c \in Calls : Step(c) PROVE PromiseInv'
  <2>1. /\ UNCHANGED <<gen, call, saved>>
        /\ gen.phase = "open" \/ UNCHANGED <<live, published>>
    BY <1>3 DEF Next, Step, Publish, MarkRootDirty, ExpireLock, vars, tree
  <2>2. ASSUME NEW c \in Calls, Restoring(c), call[c].at \in Reading, gen = call[c].gen
        PROVE  gen.phase # "open"
    <3>1. gen = Fencing(c)
      BY <2>2 DEF PromiseInv, KeptInv, SaveInv, TreeInv, Placed
    <3> QED
      BY <3>1 DEF Fencing
  <2> QED
    BY <1>1, <2>1, <2>2 DEF PromiseInv, Fresh, FencedWhole, At, Is, Restoring
<1> QED
  BY <1>2, <1>3

\* What a client of the workspace notices of a step.
Uploads == {c \in Calls : Is(c, "upload")}
PublishedSteps ==
    \/ UNCHANGED <<published, saved, gen.phase = "open", Uploads>>
    \/ Promised!Publish \/ Promised!Close
    \/ \E s \in Savepoints : \/ Promised!Save(s) \/ Promised!Announce(s)
                             \/ Promised!Upload(s) \/ Promised!Reopen(s)

\* A request that begins announces at most an upload.
LEMMA BeginIsAnnounced ==
    ASSUME PromiseInv, NEW c \in Calls, Begin(c)
    PROVE  PublishedSteps
<1> USE DEF PromiseInv, KeptInv, SaveInv, TreeInv
<1>1. UNCHANGED <<gen, saved, published>>
  BY Begins
<1>2. At(c, "idle")
  BY DEF Begin, Acquire, StartSave, StartUpload
<1>3. Is(c, "none") /\ saved[c] = Absent /\ c \in Savepoints
  BY <1>2 DEF Fresh, Savepoints
<1>4. \A d \in Calls : d # c => call'[d] = call[d]
  BY Frame DEF Step
<1>5. CASE call'[c].job = "upload"
  <2>1. Uploads' = Uploads \cup {c}
    BY <1>4, <1>5 DEF Uploads, Is
  <2>2. Promised!Announce(c)
    BY <1>1, <1>3, <2>1 DEF Promised!Announce, Uploads
  <2> QED
    BY <1>3, <2>2 DEF PublishedSteps
<1>6. CASE call'[c].job # "upload"
  <2>1. Uploads' = Uploads
    BY <1>3, <1>4, <1>6 DEF Uploads, Is
  <2> QED
    BY <1>1, <2>1 DEF PublishedSteps
<1> QED
  BY <1>5, <1>6

\* A checkpoint is the published tree, or what a client uploaded.
LEMMA CommitIsPromised ==
    ASSUME PromiseInv, NEW c \in Calls, Step(c), Committed(c), Uploads' = Uploads
    PROVE  PublishedSteps
<1> USE DEF PromiseInv, KeptInv, SaveInv, TreeInv, TypeOK, Locals
<1>1. /\ At(c, "commit") /\ gen = call[c].gen /\ saved[c] = Absent
      /\ saved' = [saved EXCEPT ![c] = call[c].copy] /\ call[c].copy \in Trees
      /\ UNCHANGED <<gen, live, published>> /\ c \in Savepoints
  BY DEF Committed, Current, Savepoints
<1>2. CASE Is(c, "upload")
  <2>1. gen.phase = "open"
    BY <1>1, <1>2, OpenCommits DEF Restoring, Is
  <2>2. Promised!Upload(c)
    BY <1>1, <1>2, <2>1 DEF Promised!Upload, Trees, Uploads
  <2> QED
    BY <1>1, <2>2 DEF PublishedSteps
<1>3. CASE ~Is(c, "upload")
  <2>1. call[c].copy = live
    BY <1>1, <1>3 DEF Committed, Current, Unchanged, Captured, At
  <2>2. live = published
    <3>1. CASE Restoring(c)
      BY <1>1, <3>1 DEF FencedWhole, At, Reading
    <3>2. CASE ~Restoring(c)
      BY <1>1, <3>2, OpenCommits DEF ServesPublished
    <3> QED
      BY <3>1, <3>2
  <2>3. Promised!Save(c)
    BY <1>1, <1>3, <2>1, <2>2 DEF Promised!Save, Uploads
  <2> QED
    BY <1>1, <2>3 DEF PublishedSteps
<1> QED
  BY <1>2, <1>3

\* A generation opens with the savepoint that was asked for.
LEMMA OpeningIsPromised ==
    ASSUME PromiseInv, NEW c \in Calls, Step(c), gen' # gen, gen'.phase = "open",
           Uploads' = Uploads
    PROVE  PublishedSteps
<1> USE DEF PromiseInv, KeptInv, SaveInv, TreeInv, TypeOK, Locals
<1>1. Open(c) /\ Guarded(c)
  BY Effect DEF Shown, Fencing, Rewriting, Tombstone
<1>2. /\ At(c, "open") /\ gen = Rewriting(c) /\ UNCHANGED saved
      /\ published' = call[c].copy /\ gen = call[c].gen
  BY <1>1 DEF Open, Guarded, Owns, Refused, Placed, At, Writing
<1>3. /\ published' = saved[call[c].target] /\ saved[call[c].target] # Absent
      /\ call[c].target \in Savepoints
  BY <1>2, AbsentIsNoTree DEF Aimed, At, Writing, Trees
<1>4. gen.phase # "open"
  BY <1>2 DEF Rewriting
<1>5. Promised!Reopen(call[c].target)
  BY <1>2, <1>3, <1>4 DEF Promised!Reopen, Uploads
<1> QED
  BY <1>3, <1>5 DEF PublishedSteps

LEMMA StepIsPromised ==
    ASSUME PromiseInv, NEW c \in Calls, Step(c)
    PROVE  PublishedSteps
<1> USE DEF PromiseInv, KeptInv, SaveInv, TreeInv
<1>1. CASE Begin(c)
  BY <1>1, BeginIsAnnounced
<1>2. CASE ~Begin(c)
  <2>1. Uploads' = Uploads
    <3>1. \A d \in Calls : call'[d].job = call[d].job
      BY <1>2, Frame, JobStays
    <3> QED
      BY <3>1 DEF Uploads, Is
  <2>2. CASE Committed(c)
    BY <2>1, <2>2, CommitIsPromised
  <2>3. CASE saved' = saved /\ gen' = gen
    <3>1. published' = published
      BY <2>3, Moves
    <3> QED
      BY <2>1, <2>3, <3>1 DEF PublishedSteps
  <2>4. CASE saved' = saved /\ gen' # gen
    <3>1. CASE gen'.phase = "open"
      BY <2>1, <2>4, <3>1, OpeningIsPromised
    <3>2. CASE gen'.phase # "open"
      <4>1. published' = published
        BY <2>4, <3>2, Moves
      <4>2. CASE gen.phase = "open"
        BY <2>1, <2>4, <3>2, <4>1, <4>2 DEF PublishedSteps, Promised!Close, Uploads
      <4>3. CASE gen.phase # "open"
        BY <2>1, <2>4, <3>2, <4>1, <4>3 DEF PublishedSteps
      <4> QED
        BY <4>2, <4>3
    <3> QED
      BY <3>1, <3>2
  <2> QED
    BY <2>2, <2>3, <2>4, SavedBy
<1> QED
  BY <1>1, <1>2

LEMMA ClientsArePromised ==
    ASSUME PromiseInv,
           \/ \E p \in Paths, v \in Versions \cup {Absent} : Publish(p, v)
           \/ MarkRootDirty \/ ExpireLock \/ UNCHANGED vars
    PROVE  PublishedSteps
<1>1. Uploads' = Uploads /\ UNCHANGED <<gen, saved>>
  BY DEF Publish, MarkRootDirty, ExpireLock, vars, Uploads, Is
<1>2. CASE published' = published
  BY <1>1, <1>2 DEF PublishedSteps
<1>3. CASE \E p \in Paths, v \in Versions \cup {Absent} : Publish(p, v)
  BY <1>1, <1>3 DEF PublishedSteps, Promised!Publish, Publish, Uploads
<1> QED
  BY <1>2, <1>3 DEF MarkRootDirty, ExpireLock, vars

(* Where workspaces are not deleted, requests and clients together keep    *)
(* the promise of PublishedTree: each checkpoint is the published tree of  *)
(* one moment, and a tree is replaced only while it is closed, by one of   *)
(* the savepoints.  It is the promise of every behaviour without a torn    *)
(* takeover, and a torn takeover does break it.                            *)
THEOREM PromiseKept ==
    ASSUME "delete" \notin Offered
    PROVE  Spec /\ [][\A c \in Calls : ~TornTakeover(c)]_vars
             => ImplementsPublishedTree
<1> DEFINE Whole == \A c \in Calls : ~TornTakeover(c)
<1>1. Init => Promised!Init
  <2> SUFFICES ASSUME NEW opened \in Openings, InitWith(opened)
               PROVE  Promised!Init
    BY DEF Init
  <2> QED
    BY ReplacementConstants DEF InitWith, NoGeneration, Promised!Init, Is
<1>2. ASSUME PromiseInv, [Next]_vars
      PROVE  [Promised!Next]_<<published, saved, gen.phase = "open", Uploads>>
  <2>1. PublishedSteps
    BY <1>2, StepIsPromised, ClientsArePromised DEF Next, Step
  <2> QED
    BY <2>1 DEF PublishedSteps, Promised!Next
<1>3. PromiseInv /\ [Next]_vars /\ [Whole]_vars => PromiseInv'
  <2>1. ASSUME PromiseInv, UNCHANGED vars PROVE PromiseInv'
    <3>1. KeptInv'
      BY <2>1, NextKept DEF PromiseInv
    <3> QED
      BY <2>1, <3>1 DEF PromiseInv, vars, tree, Fresh, FencedWhole, At, Is, Restoring
  <2> QED
    BY <2>1, NextPromise
<1> HIDE DEF Whole
<1>4. Spec /\ [][Whole]_vars => Promised!Spec
  BY InitPromise, <1>1, <1>2, <1>3, PTL DEF Spec, Promised!Spec, Uploads
<1> QED
  BY <1>4 DEF ImplementsPublishedTree, Whole
=============================================================================
