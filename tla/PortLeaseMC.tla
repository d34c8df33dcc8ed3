---------------------------- MODULE PortLeaseMC ----------------------------
(* Instances of PortLease for TLC: two connections that ask for releases   *)
(* and acquires over and over, one that writes, and MaxOpens opens.        *)
EXTENDS PortLease

CONSTANTS r1, r2, w1

MCRequests == {r1, r2}
MCWriters  == {w1}
=============================================================================
