----------------------------- MODULE ZResumeMC -----------------------------
(* Instances of ZResume for TLC; the configurations give the bounds.       *)
EXTENDS ZResume
=============================================================================
