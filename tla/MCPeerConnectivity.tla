------------------------- MODULE MCPeerConnectivity -------------------------
(***************************************************************************)
(* The nodes of the instances that TLC checks.  The bounds on connections, *)
(* changes and restarts are constants of the module itself.                *)
(***************************************************************************)
EXTENDS PeerConnectivity

CONSTANTS n1, n2
=============================================================================
