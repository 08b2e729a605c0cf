--------------------------- MODULE MCGatewayRouting ---------------------------
(* An instance of GatewayRouting for TLC: one CVM that asks to be gated at *)
(* its first two boots and not at its third, one that never does.          *)
EXTENDS GatewayRouting

CONSTANTS i1, i2

MCGatedBoots == {<<i1, 1>>, <<i1, 2>>}
=============================================================================
