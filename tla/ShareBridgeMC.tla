---------------------------- MODULE ShareBridgeMC ----------------------------
(* An instance of ShareBridge for TLC: one hub port and one connection     *)
(* that comes back in any role.                                            *)
EXTENDS ShareBridge

CONSTANTS e1, c1

MCEndpoints == {e1}
MCClients   == {c1}
=============================================================================
