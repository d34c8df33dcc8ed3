------------------------------ MODULE ZModemMC ------------------------------
(* Instances of ZModem for TLC: a batch of two files. *)
EXTENDS ZModem

MCSize == <<2, 1>>
=============================================================================
