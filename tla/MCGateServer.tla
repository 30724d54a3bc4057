---------------------------- MODULE MCGateServer ----------------------------
(* Two connections, as TCP and as websocket connections.                    *)
EXTENDS GateServer
=============================================================================
