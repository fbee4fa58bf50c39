----------------------------- MODULE MCBridges -----------------------------
(***************************************************************************)
(* Bridges for TLC: the bridge of a device that stopped, of the one that   *)
(* started, and one more; one object each of two coordinators, and more.   *)
(***************************************************************************)
EXTENDS Bridges, TLC

MCSymmetry == Permutations(BridgeObjects) \cup Permutations(Objects)
=============================================================================
