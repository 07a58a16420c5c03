---------------------------- MODULE MCWebSocketHub ----------------------------
(* WebSocketHub with two clients, two publishers and small channels. *)
EXTENDS WebSocketHub

CONSTANTS c1, c2, p1, p2
=============================================================================
