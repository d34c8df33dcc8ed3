------------------------------ MODULE ZOutcome ------------------------------
(***************************************************************************)
(* What a ZMODEM batch reports: the outcome of the session from the status *)
(* of each file, and the exit code of sio sz and sio rz. Scripts branch on *)
(* it, so a batch in which a file was refused or failed must not look done.*)
(***************************************************************************)
EXTENDS Naturals

\* A batch: how many files ended with each status.
Batches == [ok : Nat, resumed : Nat, skipped : Nat, refused : Nat, failed : Nat]

\* The switch of the code, case by case in its order; no file at all is ok.
sessionOutcome(n) ==
    IF n.refused + n.failed = 0
    THEN IF n.resumed > 0 THEN "resumed"
         ELSE IF n.ok > 0 \/ n.skipped = 0 THEN "ok" ELSE "skipped"
    ELSE IF n.ok + n.resumed + n.skipped > 0 THEN "partial"
         ELSE IF n.failed = 0 THEN "refused" ELSE "failed"

\* finish: how the session as a whole ended comes first.
finish(err, n) == IF err = "none" THEN sessionOutcome(n) ELSE err

Errors == {"none", "cancelled", "failed"}

transferExit(outcome) ==
    [ok |-> 0, failed |-> 1, skipped |-> 3, resumed |-> 4, cancelled |-> 5, refused |-> 6,
     partial |-> 7][outcome]
=============================================================================
