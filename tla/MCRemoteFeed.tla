---------------------------- MODULE MCRemoteFeed ----------------------------
(***************************************************************************)
(* Instances of RemoteFeed for TLC.                                        *)
(***************************************************************************)
EXTENDS RemoteFeed

CONSTANTS a, b

OneEarlier == <<a>>
=============================================================================
