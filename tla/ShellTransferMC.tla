--------------------------- MODULE ShellTransferMC ---------------------------
(* Instances of ShellTransfer for TLC; the configurations give the bounds. *)
EXTENDS ShellTransfer
=============================================================================
