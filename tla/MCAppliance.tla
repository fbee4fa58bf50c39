---------------------------- MODULE MCAppliance ----------------------------
(***************************************************************************)
(* Appliance for TLC.  The ticks keep the order of the real delays:        *)
(* Grace < first backoffs < FreshWindow < ParkedRetry; a pass has two GETs, *)
(* the one of the appliance and one that stands for all the others.        *)
(***************************************************************************)
EXTENDS Appliance

\* A 429 imposes a short wait, one the GET sits out, or a long one.
MCGateWaits == {1, 2}

\* Every answer; those the API documents; none that fails.
AnyAnswer == {"full", "bare", "error", "raise"}
Documented == {"full", "error"}
NoFailure == {"full"}
=============================================================================
