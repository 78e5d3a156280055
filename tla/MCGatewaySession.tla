--------------------------- MODULE MCGatewaySession ---------------------------
(***************************************************************************)
(* GatewaySession for TLC: two connections that share a session.           *)
(***************************************************************************)
EXTENDS GatewaySession

CONSTANTS ws1, ws2

TwoConns == {ws1, ws2}
=============================================================================
