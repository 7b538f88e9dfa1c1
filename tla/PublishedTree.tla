--------------------------- MODULE PublishedTree ---------------------------
(***************************************************************************)
(* What the control plane promises about the tree of a workspace: clients  *)
(* change it while it is open, savepoints are whole trees that never       *)
(* change, a savepoint of the live tree is the published tree itself, and  *)
(* a tree is replaced only while the workspace is closed and only by one   *)
(* of its savepoints.                                                      *)
(***************************************************************************)
CONSTANTS Paths, Versions, Absent, Savepoints, Base, BaseTree, NoTree

VARIABLES
    tree,     \* what clients see, or saw last
    saved,    \* the savepoints
    open,     \* clients are admitted
    uploads   \* savepoints whose content a client announced to provide

Init ==
    /\ open \in BOOLEAN
    /\ tree = IF open THEN BaseTree ELSE NoTree
    /\ saved = [s \in Savepoints |-> IF s = Base THEN BaseTree ELSE Absent]
    /\ uploads = {}

Publish ==
    /\ open
    /\ \E p \in Paths, v \in Versions \cup {Absent} :
         tree' = [tree EXCEPT ![p] = v]
    /\ UNCHANGED <<saved, open, uploads>>

Save(s) ==
    /\ saved[s] = Absent /\ s \notin uploads
    /\ saved' = [saved EXCEPT ![s] = tree]
    /\ UNCHANGED <<tree, open, uploads>>

Announce(s) ==
    /\ saved[s] = Absent /\ uploads' = uploads \cup {s}
    /\ UNCHANGED <<tree, saved, open>>

Upload(s) ==
    /\ open /\ saved[s] = Absent /\ s \in uploads
    /\ \E t \in [Paths -> Versions \cup {Absent}] :
         saved' = [saved EXCEPT ![s] = t]
    /\ UNCHANGED <<tree, open, uploads>>

Close == open /\ open' = FALSE /\ UNCHANGED <<tree, saved, uploads>>

Reopen(s) ==
    /\ ~open /\ open' = TRUE
    /\ saved[s] # Absent /\ tree' = saved[s]
    /\ UNCHANGED <<saved, uploads>>

Next ==
    \/ Publish \/ Close
    \/ \E s \in Savepoints : Save(s) \/ Announce(s) \/ Upload(s) \/ Reopen(s)

Spec == Init /\ [][Next]_<<tree, saved, open, uploads>>
=============================================================================
