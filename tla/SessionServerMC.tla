-------------------------- MODULE SessionServerMC --------------------------
(* Instances of SessionServer for TLC: two connections, each of which may  *)
(* come back as often as it likes in any role (transfer, lease request or  *)
(* plain client).                                                          *)
EXTENDS SessionServer

CONSTANTS c1, c2

MCClients == {c1, c2}
=============================================================================
