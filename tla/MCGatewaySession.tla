-------------------------- MODULE MCGatewaySession --------------------------
(* A client that sends four messages.                                      *)
EXTENDS GatewaySession

Played == [c \in Clients |-> 4]
=============================================================================
