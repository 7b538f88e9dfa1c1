------------------------- MODULE MCFilePublication -------------------------
(***************************************************************************)
(* Instances of FilePublication for TLC.                                   *)
(***************************************************************************)
EXTENDS FilePublication, TLC

CONSTANTS o1, o2, o3, f

OneFile == f :> 2               \* the checkpoint has f as inode 2

OpsSymmetry == Permutations(Ops)
=============================================================================
