---------------------------- MODULE MCBridgeRuns ----------------------------
(* Bounded instances of BridgeRuns for TLC. *)
EXTENDS BridgeRuns
=============================================================================
