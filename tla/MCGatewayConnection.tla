------------------------ MODULE MCGatewayConnection -------------------------
(* Small instances of GatewayConnection. *)
EXTENDS GatewayConnection, TLC

Symmetric == Permutations(Tasks)
=============================================================================
