---------------------------- MODULE MCGatewayApp ----------------------------
(* Instances of GatewayApp for TLC. *)
EXTENDS GatewayApp, TLC

Symmetry == Permutations(Requests)
=============================================================================
