----------------------------- MODULE MCControl -----------------------------
(***************************************************************************)
(* Control for TLC: two Indigo threads.                                    *)
(***************************************************************************)
EXTENDS Control, TLC

CONSTANTS a, b

MCCallers == {a, b}
MCRetryAfters == {1}
MCSymmetry == Permutations(MCCallers)
=============================================================================
