------------------------- MODULE SessionServerProofs -------------------------
(***************************************************************************)
(* Theorems about SessionServer, for every set of connections: the claim,  *)
(* the release and the write in flight exclude each other as the comments  *)
(* of the code say, nothing is left behind by a connection that is gone,   *)
(* and the one gap between the claim check and the lock lets at most one   *)
(* chunk of a connection through.                                          *)
(***************************************************************************)
EXTENDS SessionServer, TLAPS

(* Every variable keeps its type.                                          *)
THEOREM TypeCorrect == Spec => []TypeOK
<1> USE ServerAssumption DEF TypeOK, Steps
<1>1. Init => TypeOK
  <2> SUFFICES ASSUME Init PROVE TypeOK
    OBVIOUS
  <2>1. clients \subseteq Clients /\ targets \subseteq Clients
    BY DEF Init
  <2>2. up \in [Clients -> BOOLEAN] /\ claimed \in [Clients -> BOOLEAN]
    BY Zenon DEF Init
  <2>3. pc \in [Clients -> Steps] /\ stray \in [Clients -> 0 .. 2]
    BY DEF Init
  <2>4. /\ owner \in Clients \cup {NoOne} /\ writeMu \in Clients \cup {NoOne}
        /\ reader \in {"read", "route", "snapshot", "send", "exit"}
        /\ closer \in {"running", "leaseClosed", "clientsClosed", "done"}
    BY DEF Init
  <2>5. lent \in BOOLEAN /\ down \in BOOLEAN
    BY Zenon DEF Init
  <2> QED
    BY <2>1, <2>2, <2>3, <2>4, <2>5
<1>2. TypeOK /\ [Next]_vars => TypeOK'
  <2> SUFFICES ASSUME TypeOK, [Next]_vars PROVE TypeOK'
    OBVIOUS
  <2> USE DEF connVars, claimVars, leaseVars, readerVars
  <2>1. ASSUME NEW c \in Clients, Connect(c) PROVE TypeOK'
    BY <2>1 DEF Connect, Goto
  <2>2. ASSUME NEW c \in Clients, HangUp(c) PROVE TypeOK'
    BY <2>2 DEF HangUp
  <2>3. ASSUME NEW c \in Clients, ReadRequest(c) PROVE TypeOK'
    BY <2>3 DEF ReadRequest, Goto
  <2>4. ASSUME NEW c \in Clients, ReadConn(c) PROVE TypeOK'
    BY <2>4 DEF ReadConn, Goto
  <2>5. ASSUME NEW c \in Clients, ClaimTaken(c) PROVE TypeOK'
    BY <2>5 DEF ClaimTaken, Goto, CanLock, Allows
  <2>6. ASSUME NEW c \in Clients, ClaimBusy(c) PROVE TypeOK'
    BY <2>6 DEF ClaimBusy, Goto, CanLock, Allows
  <2>7. ASSUME NEW c \in Clients, Granted(c) PROVE TypeOK'
    BY <2>7 DEF Granted, Goto
  <2>8. ASSUME NEW c \in Clients, Refused(c) PROVE TypeOK'
    BY <2>8 DEF Refused, Goto
  <2>9. ASSUME NEW c \in Clients, ReleaseStarts(c) PROVE TypeOK'
    BY <2>9 DEF ReleaseStarts, Goto, CanLock, Allows, Closed
  <2>10. ASSUME NEW c \in Clients, ReleaseRefused(c) PROVE TypeOK'
    BY <2>10 DEF ReleaseRefused, Goto, CanLock
  <2>11. ASSUME NEW c \in Clients, ReleaseEnds(c) PROVE TypeOK'
    BY <2>11 DEF ReleaseEnds, Goto
  <2>12. ASSUME NEW c \in Clients, AcquireStarts(c) PROVE TypeOK'
    BY <2>12 DEF AcquireStarts, Goto, CanLock
  <2>13. ASSUME NEW c \in Clients, AcquireEnds(c) PROVE TypeOK'
    BY <2>13 DEF AcquireEnds, Goto
  <2>14. ASSUME NEW c \in Clients, ForwardChecks(c) PROVE TypeOK'
    BY <2>14 DEF ForwardChecks, Goto, Allows
  <2>15. ASSUME NEW c \in Clients, WriteDropped(c) PROVE TypeOK'
    BY <2>15 DEF WriteDropped, Goto, CanLock
  <2>16. ASSUME NEW c \in Clients, WriteStarts(c) PROVE TypeOK'
    BY <2>16 DEF WriteStarts, Goto, CanLock, Closed, Allows
  <2>17. ASSUME NEW c \in Clients, WriteEnds(c) PROVE TypeOK'
    BY <2>17 DEF WriteEnds, Goto
  <2>18. ASSUME NEW c \in Clients, Send(c) PROVE TypeOK'
    BY <2>18 DEF Send
  <2>19. ASSUME NEW c \in Clients, SendFails(c) PROVE TypeOK'
    BY <2>19 DEF SendFails, ReleaseClaim
  <2>20. ASSUME NEW c \in Clients, Leave(c) PROVE TypeOK'
    BY <2>20 DEF Leave, Goto
  <2>21. ASSUME NEW c \in Clients, Removed(c) PROVE TypeOK'
    BY <2>21 DEF Removed, Goto, ReleaseClaim
  <2>22. ASSUME NEW c \in Clients, NoticeOthers(c) PROVE TypeOK'
    BY <2>22 DEF NoticeOthers, Goto
  <2>23. CASE ReadPort
    BY <2>23 DEF ReadPort
  <2>24. CASE RouteToOwner
    BY <2>24 DEF RouteToOwner
  <2>25. CASE RouteToAll
    BY <2>25 DEF RouteToAll
  <2>26. CASE Snapshot
    BY <2>26 DEF Snapshot
  <2>27. CASE Sent
    BY <2>27 DEF Sent
  <2>28. CASE ShutdownBegins
    BY <2>28 DEF ShutdownBegins
  <2>29. CASE CloseClients
    BY <2>29 DEF CloseClients
  <2>30. CASE CloseListener
    BY <2>30 DEF CloseListener
  <2>31. CASE UNCHANGED vars
    BY <2>31 DEF vars
  <2>32. QED
    BY <2>1, <2>2, <2>3, <2>4, <2>5, <2>6, <2>7, <2>8, <2>9, <2>10, <2>11, <2>12, <2>13, <2>14,
       <2>15, <2>16, <2>17, <2>18, <2>19, <2>20, <2>21, <2>22, <2>23, <2>24, <2>25, <2>26,
       <2>27, <2>28, <2>29, <2>30, <2>31
    DEF Next, HandlerStep, HandlerLocks, ReadLoop, Shutdown
<1>3. QED
  BY <1>1, <1>2, PTL DEF Spec

(* The inductive invariant.                                                *)
THEOREM ServerInvCorrect == Spec => []ServerInv
<1> USE ServerAssumption
<1>1. Init => ServerInv
  BY DEF Init, ServerInv, LockInv, OwnerInv, StrayInv
<1>2. TypeOK /\ ServerInv /\ [Next]_vars => ServerInv'
  <2> SUFFICES ASSUME TypeOK, ServerInv, [Next]_vars PROVE ServerInv'
    OBVIOUS
  <2> USE DEF TypeOK, Steps, ServerInv, LockInv, OwnerInv, StrayInv,
              connVars, claimVars, leaseVars, readerVars
  <2>1. ASSUME NEW c \in Clients, Connect(c) PROVE ServerInv'
    BY <2>1 DEF Connect, Goto
  <2>2. ASSUME NEW c \in Clients, HangUp(c) PROVE ServerInv'
    BY <2>2 DEF HangUp
  <2>3. ASSUME NEW c \in Clients, ReadRequest(c) PROVE ServerInv'
    BY <2>3 DEF ReadRequest, Goto
  <2>4. ASSUME NEW c \in Clients, ReadConn(c) PROVE ServerInv'
    BY <2>4 DEF ReadConn, Goto
  <2>5. ASSUME NEW c \in Clients, ClaimTaken(c) PROVE ServerInv'
    BY <2>5 DEF ClaimTaken, Goto, CanLock, Allows
  <2>6. ASSUME NEW c \in Clients, ClaimBusy(c) PROVE ServerInv'
    BY <2>6 DEF ClaimBusy, Goto, CanLock, Allows
  <2>7. ASSUME NEW c \in Clients, Granted(c) PROVE ServerInv'
    BY <2>7 DEF Granted, Goto
  <2>8. ASSUME NEW c \in Clients, Refused(c) PROVE ServerInv'
    BY <2>8 DEF Refused, Goto
  <2>9. ASSUME NEW c \in Clients, ReleaseStarts(c) PROVE ServerInv'
    BY <2>9 DEF ReleaseStarts, Goto, CanLock, Allows, Closed
  <2>10. ASSUME NEW c \in Clients, ReleaseRefused(c) PROVE ServerInv'
    BY <2>10 DEF ReleaseRefused, Goto, CanLock
  <2>11. ASSUME NEW c \in Clients, ReleaseEnds(c) PROVE ServerInv'
    BY <2>11 DEF ReleaseEnds, Goto
  <2>12. ASSUME NEW c \in Clients, AcquireStarts(c) PROVE ServerInv'
    BY <2>12 DEF AcquireStarts, Goto, CanLock
  <2>13. ASSUME NEW c \in Clients, AcquireEnds(c) PROVE ServerInv'
    BY <2>13 DEF AcquireEnds, Goto
  <2>14. ASSUME NEW c \in Clients, ForwardChecks(c) PROVE ServerInv'
    BY <2>14 DEF ForwardChecks, Goto, Allows
  <2>15. ASSUME NEW c \in Clients, WriteDropped(c) PROVE ServerInv'
    BY <2>15 DEF WriteDropped, Goto, CanLock
  <2>16. ASSUME NEW c \in Clients, WriteStarts(c) PROVE ServerInv'
    BY <2>16 DEF WriteStarts, Goto, CanLock, Closed, Allows
  <2>17. ASSUME NEW c \in Clients, WriteEnds(c) PROVE ServerInv'
    BY <2>17 DEF WriteEnds, Goto
  <2>18. ASSUME NEW c \in Clients, Send(c) PROVE ServerInv'
    BY <2>18 DEF Send
  <2>19. ASSUME NEW c \in Clients, SendFails(c) PROVE ServerInv'
    BY <2>19 DEF SendFails, ReleaseClaim
  <2>20. ASSUME NEW c \in Clients, Leave(c) PROVE ServerInv'
    BY <2>20 DEF Leave, Goto
  <2>21. ASSUME NEW c \in Clients, Removed(c) PROVE ServerInv'
    BY <2>21 DEF Removed, Goto, ReleaseClaim
  <2>22. ASSUME NEW c \in Clients, NoticeOthers(c) PROVE ServerInv'
    BY <2>22 DEF NoticeOthers, Goto
  <2>23. CASE ReadPort
    BY <2>23 DEF ReadPort
  <2>24. CASE RouteToOwner
    BY <2>24 DEF RouteToOwner
  <2>25. CASE RouteToAll
    BY <2>25 DEF RouteToAll
  <2>26. CASE Snapshot
    BY <2>26 DEF Snapshot
  <2>27. CASE Sent
    BY <2>27 DEF Sent
  <2>28. CASE ShutdownBegins
    BY <2>28 DEF ShutdownBegins
  <2>29. CASE CloseClients
    BY <2>29 DEF CloseClients
  <2>30. CASE CloseListener
    BY <2>30 DEF CloseListener
  <2>31. CASE UNCHANGED vars
    BY <2>31 DEF vars
  <2>32. QED
    BY <2>1, <2>2, <2>3, <2>4, <2>5, <2>6, <2>7, <2>8, <2>9, <2>10, <2>11, <2>12, <2>13, <2>14,
       <2>15, <2>16, <2>17, <2>18, <2>19, <2>20, <2>21, <2>22, <2>23, <2>24, <2>25, <2>26,
       <2>27, <2>28, <2>29, <2>30, <2>31
    DEF Next, HandlerStep, HandlerLocks, ReadLoop, Shutdown
<1>3. QED
  BY <1>1, <1>2, TypeCorrect, PTL DEF Spec

(* No transfer is granted while a release is closing the port.             *)
THEOREM NoClaimWhileLendingHolds == Spec => []NoClaimWhileLending
<1>1. ServerInv => NoClaimWhileLending
  BY DEF ServerInv, LockInv, NoClaimWhileLending
<1>2. QED
  BY <1>1, ServerInvCorrect, PTL

(* A write in flight keeps its port.                                       *)
THEOREM NoWriteWhileLentHolds == Spec => []NoWriteWhileLent
<1>1. ServerInv => NoWriteWhileLent
  BY ServerAssumption DEF ServerInv, LockInv, NoWriteWhileLent
<1>2. QED
  BY <1>1, ServerInvCorrect, PTL

(* Claim, lending and write never meet on the port.                        *)
THEOREM PortKeptHolds == Spec => []PortKept
<1>1. NoClaimWhileLending /\ NoWriteWhileLent => PortKept
  BY DEF PortKept
<1>2. QED
  BY <1>1, NoClaimWhileLendingHolds, NoWriteWhileLentHolds, PTL

(* A connection that is gone holds nothing.                                *)
THEOREM DepartedHoldsNothingHolds == Spec => []DepartedHoldsNothing
<1>1. ServerInv => DepartedHoldsNothing
  BY DEF ServerInv, LockInv, OwnerInv, DepartedHoldsNothing
<1>2. QED
  BY <1>1, ServerInvCorrect, PTL

(* At most one chunk of each other connection reaches a claimed port.      *)
THEOREM StrayBoundedHolds == Spec => []StrayBounded
<1>1. ServerInv => StrayBounded
  BY DEF ServerInv, StrayInv, StrayBounded
<1>2. QED
  BY <1>1, ServerInvCorrect, PTL
=============================================================================
