---------------------------- MODULE MCLifecycle ----------------------------
(***************************************************************************)
(* Lifecycle for TLC: a client of the service and one of the simulator.    *)
(***************************************************************************)
EXTENDS Lifecycle

CONSTANTS prod, sim

MCConfigs == {prod, sim}
MCSimulated == {sim}
=============================================================================
