-------------------------- MODULE MCGatewayRegistry --------------------------
(* Instances of GatewayRegistry for TLC: the first node has two addresses, *)
(* every other node one.                                                   *)
EXTENDS GatewayRegistry

MCShare == [n \in Nodes |-> IF n = 0 THEN {1, 2} ELSE {n + 2}]
=============================================================================
