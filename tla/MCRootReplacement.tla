------------------------- MODULE MCRootReplacement -------------------------
(***************************************************************************)
(* Instances of RootReplacement for TLC.                                   *)
(***************************************************************************)
EXTENDS RootReplacement, TLC

CONSTANTS c1, c2, c3, root, a, b, v1, v2

(* Calls differ by their job alone, and a job is chosen when a call begins.*)
CallSymmetry == Permutations(Calls)
=============================================================================
