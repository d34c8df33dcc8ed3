---------------------------- MODULE CaptureLogMC ----------------------------
(* Instances of CaptureLog for TLC: the shell's own connection and one     *)
(* other, a queue of one chunk, so that it is full at once, two chunks on  *)
(* the port and two clears.                                                *)
EXTENDS CaptureLog

CONSTANTS me, other

MCSources == {me, other}
=============================================================================
