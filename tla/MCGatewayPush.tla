---------------------------- MODULE MCGatewayPush ----------------------------
(* Instances of GatewayPush for TLC.                                        *)
EXTENDS GatewayPush
=============================================================================
