---------------------------- MODULE PortOwnership ----------------------------
(***************************************************************************)
(* What a session worker promises about its physical serial port when the  *)
(* port can be lent to another program: the worker lets go of the device   *)
(* first and says so second, and takes it back first and says so second.   *)
(* Whoever reads the marker file therefore never finds "lent" while the    *)
(* worker still sits on the device.                                        *)
(*                                                                         *)
(* PortLease is the detailed module; it implements this one.               *)
(***************************************************************************)

VARIABLES
    holds,   \* the worker has the device open
    lent,    \* what it tells other programs: the port.released marker exists
    shut     \* the worker is shutting down

ownershipVars == <<holds, lent, shut>>

OwnershipInit == holds = TRUE /\ lent = FALSE /\ shut = FALSE

LetGo    == holds /\ ~lent /\ holds' = FALSE /\ UNCHANGED <<lent, shut>>

Lend     == ~holds /\ ~lent /\ lent' = TRUE /\ UNCHANGED <<holds, shut>>

TakeBack == ~holds /\ lent /\ holds' = TRUE /\ UNCHANGED <<lent, shut>>

Return   == holds /\ lent /\ lent' = FALSE /\ UNCHANGED <<holds, shut>>

Shut     == ~shut /\ shut' = TRUE /\ UNCHANGED <<holds, lent>>

\* A worker on its way out may finish what it was telling, and only ever
\* drops the device.
WindDown == /\ shut
            /\ shut' = TRUE
            /\ holds' \in {holds, FALSE}
            /\ lent' \in BOOLEAN

OwnershipNext == LetGo \/ Lend \/ TakeBack \/ Return \/ Shut \/ WindDown

OwnershipSpec == OwnershipInit /\ [][OwnershipNext]_ownershipVars
=============================================================================
