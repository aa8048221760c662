--------------------------- MODULE MCGatewayCall ----------------------------
(***************************************************************************)
(* Small instances of GatewayCall for TLC. Two policies: none, and two     *)
(* retries whose second delay is cut by the maximum (2, then 3 ticks).     *)
(***************************************************************************)

EXTENDS GatewayCall

TwoRetries == [max_retries |-> 2, initial_backoff |-> 2, max_backoff |-> 3]

MCPolicies == {NONE, TwoRetries}

MCCodes == {-1, 0, 1}

=============================================================================
