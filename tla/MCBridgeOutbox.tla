--------------------------- MODULE MCBridgeOutbox ---------------------------
(* BridgeOutbox on a small instance: all its constants are values of the .cfg. *)
EXTENDS BridgeOutbox
=============================================================================
