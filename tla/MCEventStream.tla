--------------------------- MODULE MCEventStream ---------------------------
(***************************************************************************)
(* EventStream for TLC.  The ticks keep the order of the real delays:      *)
(* ReconnectMin < ReconnectMax < StableSeconds < ReconnectExtended, and    *)
(* ZombieAfter not below StableSeconds.                                    *)
(***************************************************************************)
EXTENDS EventStream

MCGateWaits == {1, 2}
=============================================================================
