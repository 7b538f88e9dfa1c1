----------------------------- MODULE MCSyncPath -----------------------------
(***************************************************************************)
(* Bounds for SyncPath: three changes in any order, of user, peers,        *)
(* crashes and sweep requests, and one waiting file event (more are merged *)
(* by the watcher).  Two changes show every hazard of two actors; the      *)
(* third lets a peer return to what a daemon already gave up.              *)
(***************************************************************************)
EXTENDS SyncPath
=============================================================================
