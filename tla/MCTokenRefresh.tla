--------------------------- MODULE MCTokenRefresh ---------------------------
(***************************************************************************)
(* TokenRefresh for TLC: the supervisor and a thread that makes requests,  *)
(* with more tokens than they can refer to at once.                        *)
(***************************************************************************)
EXTENDS TokenRefresh

CONSTANT a

MCRequesters == {a}
MCTokens == 1 .. 10
MCGateWaits == {1}
=============================================================================
