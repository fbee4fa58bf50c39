----------------------------- MODULE MCRequests -----------------------------
(***************************************************************************)
(* Requests for TLC: two threads, a 429 that is waited out and one that is *)
(* raised.                                                                 *)
(***************************************************************************)
EXTENDS Requests, TLC

CONSTANTS a, b

MCCallers == {a, b}
MCRetryAfters == {0, 1, 3}
MCSymmetry == Permutations(MCCallers)
=============================================================================
