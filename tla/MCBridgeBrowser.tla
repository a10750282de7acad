--------------------------- MODULE MCBridgeBrowser ---------------------------
(* Bounded instances of BridgeBrowser for TLC. *)
EXTENDS BridgeBrowser
=============================================================================
