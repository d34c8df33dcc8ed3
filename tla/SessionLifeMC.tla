--------------------------- MODULE SessionLifeMC ---------------------------
(* Instances of SessionLife for TLC: one user who gives every command, or  *)
(* one who opens and stops the session while another one runs sio check.   *)
EXTENDS SessionLife

CONSTANTS c1, c2

MCOneUser  == {c1}
MCTwoUsers == {c1, c2}
MCAllOps   == [c \in MCOneUser |-> AllOps]
MCSomeOps  == [c \in MCTwoUsers |-> IF c = c1 THEN {"open", "stop"} ELSE {"check"}]
=============================================================================
