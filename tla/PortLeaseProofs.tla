--------------------------- MODULE PortLeaseProofs ---------------------------
(***************************************************************************)
(* Theorems about PortLease, for every set of connections and every number *)
(* of opens: the lease never closes a handle under a read or a write and   *)
(* loses no handle; on a port that honours the read timeout, a port marked *)
(* released is closed, and the lease implements PortOwnership.             *)
(***************************************************************************)
EXTENDS PortLease, TLAPS

USE DEF NoPort, Handles

(* Every variable keeps its type.                                          *)
THEOREM TypeCorrect == Spec => []TypeOK
<1> USE ActorsAssumption, BoundsAssumption
<1>1. Init => TypeOK
  <2> SUFFICES ASSUME Init PROVE TypeOK
    OBVIOUS
  <2>1. pc \in [Requests \cup Writers -> RequestSteps \cup WriterSteps]
    BY DEF Init, RequestSteps, WriterSteps
  <2>2. /\ \A r \in Requests : pc[r] \in RequestSteps
        /\ \A w \in Writers : pc[w] \in WriterSteps
    BY DEF Init, RequestSteps, WriterSteps
  <2>3. open \subseteq 1 .. MaxOpens
    BY DEF Init
  <2>4. /\ released \in BOOLEAN /\ closed \in BOOLEAN /\ idleDone \in BOOLEAN
        /\ borrowed \in BOOLEAN /\ readFailed \in BOOLEAN /\ marker \in BOOLEAN
    BY Zenon DEF Init
  <2>5. /\ {port, opens, readPort, retiring, newPort, writePort, closePort} \subseteq 0 .. MaxOpens
        /\ reader \in ReaderSteps /\ closer \in {"running", "closing", "done"}
        /\ reader \notin {"reading", "read", "closing"}
        /\ writeMu \in Requests \cup Writers \cup {NoOne}
    BY DEF Init, ReaderSteps
  <2>6. QED
    BY <2>1, <2>2, <2>3, <2>4, <2>5 DEF TypeOK
<1>2. TypeOK /\ [Next]_vars => TypeOK'
  <2> SUFFICES ASSUME TypeOK, [Next]_vars PROVE TypeOK'
    OBVIOUS
  <2> USE DEF TypeOK, ReaderSteps, RequestSteps, WriterSteps,
              leaseVars, deviceVars, readerVars, serverVars, closeVars
  <2>1. CASE WaitPortClosed
    BY <2>1 DEF WaitPortClosed
  <2>2. CASE WaitPortCloses
    BY <2>2 DEF WaitPortCloses
  <2>3. CASE WaitPortParks
    BY <2>3 DEF WaitPortParks
  <2>4. CASE WaitPortReturns
    BY <2>4 DEF WaitPortReturns
  <2>5. CASE ReadReturns
    BY <2>5 DEF ReadReturns
  <2>6. CASE RetireCloses
    BY <2>6 DEF RetireCloses
  <2>7. CASE RetireClosed
    BY <2>7 DEF RetireClosed
  <2>8. CASE RetireKeeps
    BY <2>8 DEF RetireKeeps
  <2>9. CASE CloseRetired
    BY <2>9 DEF CloseRetired
  <2>10. CASE FinishIdle
    BY <2>10 DEF FinishIdle, SignalIdle
  <2>11. ASSUME NEW r \in Requests, Release(r) PROVE TypeOK'
    BY <2>11 DEF Release, Broadcast
  <2>12. ASSUME NEW r \in Requests, ReleaseIdle(r) PROVE TypeOK'
    BY <2>12 DEF ReleaseIdle, Idle
  <2>13. ASSUME NEW r \in Requests, ReleaseTimeout(r) PROVE TypeOK'
    BY <2>13 DEF ReleaseTimeout
  <2>14. ASSUME NEW r \in Requests, ReleaseNotify(r) PROVE TypeOK'
    BY <2>14 DEF ReleaseNotify, Notify
  <2>15. ASSUME NEW r \in Requests, Acquire(r) PROVE TypeOK'
    BY <2>15 DEF Acquire
  <2>16. ASSUME NEW r \in Requests, AcquireOpens(r) PROVE TypeOK'
    <3>1. opens' \in 1 .. MaxOpens
      BY <2>16 DEF AcquireOpens
    <3>2. open' \subseteq 1 .. MaxOpens
      BY <3>1, <2>16 DEF AcquireOpens
    <3>3. QED
      BY <3>1, <3>2, <2>16 DEF AcquireOpens
  <2>17. ASSUME NEW r \in Requests, AcquireFails(r) PROVE TypeOK'
    BY <2>17 DEF AcquireFails
  <2>18. ASSUME NEW r \in Requests, AcquireInstalls(r) PROVE TypeOK'
    <3>1. /\ released' \in BOOLEAN /\ idleDone' \in BOOLEAN /\ closed' \in BOOLEAN
          /\ borrowed' \in BOOLEAN /\ readFailed' \in BOOLEAN /\ marker' \in BOOLEAN
      BY <2>18, Zenon DEF AcquireInstalls
    <3>2. /\ open' \subseteq 1 .. MaxOpens
          /\ port' \in Handles /\ opens' \in Handles /\ readPort' \in Handles
          /\ retiring' \in Handles /\ newPort' \in Handles
          /\ writePort' \in Handles /\ closePort' \in Handles
          /\ reader' \in ReaderSteps /\ closer' \in {"running", "closing", "done"}
          /\ writeMu' \in Requests \cup Writers \cup {NoOne}
          /\ reader' \in {"reading", "read"} => readPort' # NoPort
          /\ reader' = "closing" => retiring' # NoPort
      BY <2>18 DEF AcquireInstalls, Broadcast
    <3>3. pc' = [pc EXCEPT ![r] = "acqNotify"]
      BY <2>18 DEF AcquireInstalls
    <3>4. /\ pc' \in [Requests \cup Writers -> RequestSteps \cup WriterSteps]
          /\ \A q \in Requests : pc'[q] \in RequestSteps
          /\ \A w \in Writers : pc'[w] \in WriterSteps
      BY <3>3
    <3>5. QED
      BY <3>1, <3>2, <3>4
  <2>19. ASSUME NEW r \in Requests, AcquireDrops(r) PROVE TypeOK'
    BY <2>19 DEF AcquireDrops
  <2>20. ASSUME NEW r \in Requests, AcquireNotify(r) PROVE TypeOK'
    <3>1. marker' \in BOOLEAN
      BY <2>20, Zenon DEF AcquireNotify, Notify
    <3>2. pc' = [pc EXCEPT ![r] = "idle"]
      BY <2>20 DEF AcquireNotify
    <3>3. /\ pc' \in [Requests \cup Writers -> RequestSteps \cup WriterSteps]
          /\ \A q \in Requests : pc'[q] \in RequestSteps
          /\ \A w \in Writers : pc'[w] \in WriterSteps
      BY <3>2
    <3>4. /\ writeMu' = NoOne
          /\ UNCHANGED <<port, released, closed, idleDone, open, opens, borrowed, reader,
                         readPort, readFailed, retiring, newPort, writePort,
                         closer, closePort>>
      BY <2>20 DEF AcquireNotify
    <3>5. QED
      BY <3>1, <3>3, <3>4
  <2>21. ASSUME NEW w \in Writers, Write(w) PROVE TypeOK'
    BY <2>21 DEF Write, current
  <2>22. ASSUME NEW w \in Writers, WriteReturns(w) PROVE TypeOK'
    BY <2>22 DEF WriteReturns
  <2>23. CASE Close
    BY <2>23 DEF Close, SignalIdle, Broadcast
  <2>24. CASE CloseHandle
    BY <2>24 DEF CloseHandle
  <2>25. CASE Borrow
    BY <2>25 DEF Borrow
  <2>26. CASE GiveBack
    <3>1. borrowed' \in BOOLEAN
      BY <2>26, Zenon DEF GiveBack
    <3>2. UNCHANGED <<port, released, closed, idleDone, open, opens, reader, readPort,
                      readFailed, retiring, writeMu, pc, newPort, writePort,
                      closer, closePort, marker>>
      BY <2>26 DEF GiveBack
    <3>3. QED
      BY <3>1, <3>2
  <2>27. CASE UNCHANGED vars
    BY <2>27 DEF vars
  <2>28. QED
    BY <2>1, <2>2, <2>3, <2>4, <2>5, <2>6, <2>7, <2>8, <2>9, <2>10, <2>11, <2>12, <2>13,
       <2>14, <2>15, <2>16, <2>17, <2>18, <2>19, <2>20, <2>21, <2>22, <2>23, <2>24, <2>25, <2>26, <2>27
    DEF Next, ReadLoop, Request, RequestProceeds
<1>3. QED
  BY <1>1, <1>2, PTL DEF Spec

(* The safe part of the inductive invariant needs no assumption about how  *)
(* long a read or a Close takes.                                           *)
THEOREM SafeCorrect == Spec => []SafeInv
<1> USE ActorsAssumption, BoundsAssumption
<1>1. Init => SafeInv
  BY DEF Init, SafeInv, MutexInv, HandleInv, LeaseInv
<1>2. TypeOK /\ TypeOK' /\ SafeInv /\ [Next]_vars => SafeInv'
  <2> SUFFICES ASSUME TypeOK, TypeOK', SafeInv, [Next]_vars PROVE SafeInv'
    OBVIOUS
  <2> USE DEF TypeOK, SafeInv, MutexInv, HandleInv, LeaseInv,
              ReaderSteps, RequestSteps, WriterSteps,
              leaseVars, deviceVars, readerVars, serverVars, closeVars
  <2>1. CASE WaitPortClosed
    BY <2>1 DEF WaitPortClosed
  <2>2. CASE WaitPortCloses
    BY <2>2 DEF WaitPortCloses
  <2>3. CASE WaitPortParks
    BY <2>3 DEF WaitPortParks
  <2>4. CASE WaitPortReturns
    BY <2>4 DEF WaitPortReturns
  <2>5. CASE ReadReturns
    BY <2>5 DEF ReadReturns
  <2>6. CASE RetireCloses
    <3>1. MutexInv'
      BY <2>6 DEF RetireCloses
    <3>2. HandleInv'
      BY <2>6, SMTT(40) DEF RetireCloses
    <3>3. LeaseInv'
      BY <2>6, SMTT(40) DEF RetireCloses
    <3>4. QED
      BY <3>1, <3>2, <3>3
  <2>7. CASE RetireClosed
    BY <2>7 DEF RetireClosed
  <2>8. CASE RetireKeeps
    BY <2>8 DEF RetireKeeps
  <2>9. CASE CloseRetired
    BY <2>9 DEF CloseRetired
  <2>10. CASE FinishIdle
    <3>1. MutexInv'
      BY <2>10 DEF FinishIdle, SignalIdle
    <3>2. HandleInv'
      BY <2>10, SMTT(40) DEF FinishIdle, SignalIdle
    <3>3. LeaseInv'
      BY <2>10, SMTT(40) DEF FinishIdle, SignalIdle
    <3>4. QED
      BY <3>1, <3>2, <3>3
  <2>11. ASSUME NEW r \in Requests, Release(r) PROVE SafeInv'
    BY <2>11 DEF Release, Broadcast
  <2>12. ASSUME NEW r \in Requests, ReleaseIdle(r) PROVE SafeInv'
    BY <2>12 DEF ReleaseIdle, Idle
  <2>13. ASSUME NEW r \in Requests, ReleaseTimeout(r) PROVE SafeInv'
    BY <2>13 DEF ReleaseTimeout
  <2>14. ASSUME NEW r \in Requests, ReleaseNotify(r) PROVE SafeInv'
    BY <2>14 DEF ReleaseNotify, Notify
  <2>15. ASSUME NEW r \in Requests, Acquire(r) PROVE SafeInv'
    BY <2>15 DEF Acquire
  <2>16. ASSUME NEW r \in Requests, AcquireOpens(r) PROVE SafeInv'
    <3>1. MutexInv'
      BY <2>16 DEF AcquireOpens
    <3>2. HandleInv'
      BY <2>16, SMTT(40) DEF AcquireOpens
    <3>3. LeaseInv'
      BY <2>16, SMTT(40) DEF AcquireOpens
    <3>4. QED
      BY <3>1, <3>2, <3>3
  <2>17. ASSUME NEW r \in Requests, AcquireFails(r) PROVE SafeInv'
    BY <2>17 DEF AcquireFails
  <2>18. ASSUME NEW r \in Requests, AcquireInstalls(r) PROVE SafeInv'
    <3>1. MutexInv'
      BY <2>18 DEF AcquireInstalls, Broadcast
    <3>2. HandleInv'
      BY <2>18, SMTT(40) DEF AcquireInstalls, Broadcast
    <3>3. LeaseInv'
      BY <2>18, SMTT(40) DEF AcquireInstalls, Broadcast
    <3>4. QED
      BY <3>1, <3>2, <3>3
  <2>19. ASSUME NEW r \in Requests, AcquireDrops(r) PROVE SafeInv'
    BY <2>19 DEF AcquireDrops
  <2>20. ASSUME NEW r \in Requests, AcquireNotify(r) PROVE SafeInv'
    BY <2>20 DEF AcquireNotify, Notify
  <2>21. ASSUME NEW w \in Writers, Write(w) PROVE SafeInv'
    BY <2>21 DEF Write, current
  <2>22. ASSUME NEW w \in Writers, WriteReturns(w) PROVE SafeInv'
    BY <2>22 DEF WriteReturns
  <2>23. CASE Close
    BY <2>23 DEF Close, SignalIdle, Broadcast
  <2>24. CASE CloseHandle
    BY <2>24 DEF CloseHandle
  <2>25. CASE Borrow
    BY <2>25 DEF Borrow
  <2>26. CASE GiveBack
    BY <2>26 DEF GiveBack
  <2>27. CASE UNCHANGED vars
    BY <2>27 DEF vars
  <2>28. QED
    BY <2>1, <2>2, <2>3, <2>4, <2>5, <2>6, <2>7, <2>8, <2>9, <2>10, <2>11, <2>12, <2>13,
       <2>14, <2>15, <2>16, <2>17, <2>18, <2>19, <2>20, <2>21, <2>22, <2>23, <2>24, <2>25, <2>26, <2>27
    DEF Next, ReadLoop, Request, RequestProceeds
<1>3. QED
  BY <1>1, <1>2, TypeCorrect, PTL DEF Spec

(* Until shutdown, no handle is closed under a read or a write.            *)
THEOREM NoUseAfterCloseHolds == Spec => []NoUseAfterClose
<1>1. TypeOK /\ SafeInv => NoUseAfterClose
  BY DEF SafeInv, HandleInv, LeaseInv, NoUseAfterClose
<1>2. QED
  BY <1>1, TypeCorrect, SafeCorrect, PTL

(* Every open handle is still known to whoever has to close it.            *)
THEOREM NoHandleLeakHolds == Spec => []NoHandleLeak
<1>1. SafeInv => NoHandleLeak
  BY DEF SafeInv, HandleInv, NoHandleLeak
<1>2. QED
  BY <1>1, SafeCorrect, PTL

(* Handles are safe on every port, also when a release times out.          *)
THEOREM HandlesSafeHolds == Spec => []HandlesSafe
<1>1. NoUseAfterClose /\ NoHandleLeak => HandlesSafe
  BY DEF HandlesSafe
<1>2. QED
  BY <1>1, NoUseAfterCloseHolds, NoHandleLeakHolds, PTL

(* On a port whose reads and Close end within portLeaseReleaseWait, the    *)
(* idle signal says that the handle is closed, and the marker follows the  *)
(* lease.                                                                  *)
THEOREM PromptCorrect == ASSUME SlowPort = FALSE PROVE Spec => []PromptInv
<1> USE ActorsAssumption, BoundsAssumption
<1>1. Init => PromptInv
  BY DEF Init, PromptInv
<1>2. TypeOK /\ TypeOK' /\ SafeInv /\ SafeInv' /\ PromptInv /\ [Next]_vars => PromptInv'
  <2> SUFFICES ASSUME TypeOK, TypeOK', SafeInv, SafeInv', PromptInv, [Next]_vars
               PROVE PromptInv'
    OBVIOUS
  <2> USE DEF PromptInv, TypeOK, SafeInv, MutexInv, HandleInv, LeaseInv,
              ReaderSteps, RequestSteps, WriterSteps,
              leaseVars, deviceVars, readerVars, serverVars, closeVars
  <2>1. CASE WaitPortClosed
    BY <2>1 DEF WaitPortClosed
  <2>2. CASE WaitPortCloses
    BY <2>2 DEF WaitPortCloses
  <2>3. CASE WaitPortParks
    BY <2>3 DEF WaitPortParks
  <2>4. CASE WaitPortReturns
    BY <2>4 DEF WaitPortReturns
  <2>5. CASE ReadReturns
    BY <2>5 DEF ReadReturns
  <2>6. CASE RetireCloses
    BY <2>6 DEF RetireCloses
  <2>7. CASE RetireClosed
    BY <2>7 DEF RetireClosed
  <2>8. CASE RetireKeeps
    BY <2>8 DEF RetireKeeps
  <2>9. CASE CloseRetired
    BY <2>9 DEF CloseRetired
  <2>10. CASE FinishIdle
    BY <2>10 DEF FinishIdle, SignalIdle
  <2>11. ASSUME NEW r \in Requests, Release(r) PROVE PromptInv'
    BY <2>11 DEF Release, Broadcast
  <2>12. ASSUME NEW r \in Requests, ReleaseIdle(r) PROVE PromptInv'
    BY <2>12 DEF ReleaseIdle, Idle
  <2>13. ASSUME NEW r \in Requests, ReleaseTimeout(r) PROVE PromptInv'
    BY <2>13 DEF ReleaseTimeout
  <2>14. ASSUME NEW r \in Requests, ReleaseNotify(r) PROVE PromptInv'
    BY <2>14 DEF ReleaseNotify, Notify
  <2>15. ASSUME NEW r \in Requests, Acquire(r) PROVE PromptInv'
    BY <2>15 DEF Acquire
  <2>16. ASSUME NEW r \in Requests, AcquireOpens(r) PROVE PromptInv'
    BY <2>16 DEF AcquireOpens
  <2>17. ASSUME NEW r \in Requests, AcquireFails(r) PROVE PromptInv'
    BY <2>17 DEF AcquireFails
  <2>18. ASSUME NEW r \in Requests, AcquireInstalls(r) PROVE PromptInv'
    BY <2>18 DEF AcquireInstalls, Broadcast
  <2>19. ASSUME NEW r \in Requests, AcquireDrops(r) PROVE PromptInv'
    BY <2>19 DEF AcquireDrops
  <2>20. ASSUME NEW r \in Requests, AcquireNotify(r) PROVE PromptInv'
    BY <2>20 DEF AcquireNotify, Notify
  <2>21. ASSUME NEW w \in Writers, Write(w) PROVE PromptInv'
    BY <2>21 DEF Write, current
  <2>22. ASSUME NEW w \in Writers, WriteReturns(w) PROVE PromptInv'
    BY <2>22 DEF WriteReturns
  <2>23. CASE Close
    BY <2>23 DEF Close, SignalIdle, Broadcast
  <2>24. CASE CloseHandle
    BY <2>24 DEF CloseHandle
  <2>25. CASE Borrow
    BY <2>25 DEF Borrow
  <2>26. CASE GiveBack
    BY <2>26 DEF GiveBack
  <2>27. CASE UNCHANGED vars
    BY <2>27 DEF vars
  <2>28. QED
    BY <2>1, <2>2, <2>3, <2>4, <2>5, <2>6, <2>7, <2>8, <2>9, <2>10, <2>11, <2>12, <2>13,
       <2>14, <2>15, <2>16, <2>17, <2>18, <2>19, <2>20, <2>21, <2>22, <2>23, <2>24, <2>25, <2>26, <2>27
    DEF Next, ReadLoop, Request, RequestProceeds
<1>3. QED
  BY <1>1, <1>2, TypeCorrect, SafeCorrect, PTL DEF Spec

(* A port marked released is closed.                                       *)
THEOREM ReleasedPortIsFreeHolds ==
  ASSUME SlowPort = FALSE PROVE Spec => []ReleasedPortIsFree
<1>1. TypeOK /\ SafeInv /\ PromptInv => ReleasedPortIsFree
  BY DEF SafeInv, MutexInv, HandleInv, LeaseInv, PromptInv, ReleasedPortIsFree,
         TypeOK, ReaderSteps, RequestSteps
<1>2. QED
  BY <1>1, TypeCorrect, SafeCorrect, PromptCorrect, PTL

(* The client of a release is told it is done only when no handle is open. *)
THEOREM DoneMeansClosedHolds ==
  ASSUME SlowPort = FALSE PROVE Spec => []DoneMeansClosed
<1>1. TypeOK /\ SafeInv /\ PromptInv => DoneMeansClosed
  <2> SUFFICES ASSUME TypeOK, SafeInv, PromptInv, ~closed,
                      NEW r \in Requests, pc[r] = "relNotify"
               PROVE open = {}
    BY DEF DoneMeansClosed
  <2>1. port = NoPort /\ reader \in {"top", "parked", "exit"}
    BY DEF PromptInv
  <2>2. retiring = NoPort /\ closePort = NoPort
    BY <2>1 DEF SafeInv, LeaseInv
  <2>3. writeMu = r
    BY DEF SafeInv, MutexInv
  <2>4. newPort = NoPort
    BY <2>3 DEF SafeInv, MutexInv, HandleInv
  <2>5. QED
    BY <2>1, <2>2, <2>4, BoundsAssumption DEF SafeInv, HandleInv, TypeOK, NoPort
<1>2. QED
  BY <1>1, TypeCorrect, SafeCorrect, PromptCorrect, PTL

(* Between requests the marker says what the lease is.                     *)
THEOREM MarkerAtRestHolds ==
  ASSUME SlowPort = FALSE PROVE Spec => []MarkerAtRest
<1>1. TypeOK /\ SafeInv /\ PromptInv => MarkerAtRest
  BY ActorsAssumption DEF SafeInv, MutexInv, PromptInv, MarkerAtRest, TypeOK
<1>2. QED
  BY <1>1, TypeCorrect, SafeCorrect, PromptCorrect, PTL

(* On a prompt port the marker, the answer to a release and the lease      *)
(* agree with the device.                                                  *)
THEOREM LeaseHonestHolds ==
  ASSUME SlowPort = FALSE PROVE Spec => []LeaseHonest
<1>1. ReleasedPortIsFree /\ MarkerAtRest /\ DoneMeansClosed => LeaseHonest
  BY DEF LeaseHonest
<1>2. QED
  BY <1>1, ReleasedPortIsFreeHolds, MarkerAtRestHolds, DoneMeansClosedHolds, PTL

(* With prompt ports every step of the lease is a step of the ownership    *)
(* protocol or changes nothing of it: CloseRetired lets go, ReleaseNotify  *)
(* lends, AcquireInstalls takes back and AcquireNotify returns.            *)
THEOREM LeaseRefinesOwnership ==
  ASSUME SlowPort = FALSE PROVE Spec => LeaseImplementsOwnership
<1> USE ActorsAssumption, BoundsAssumption
<1> DEFINE Holds == open \ {newPort} # {}
           Quiet == UNCHANGED <<open, newPort, marker, closed>>
           Step  == [Ownership!OwnershipNext]_(Ownership!ownershipVars)
<1> USE DEF leaseVars, deviceVars, readerVars, serverVars, closeVars
<1>1. Init => Ownership!OwnershipInit
  BY DEF Init, Ownership!OwnershipInit
<1>2. Quiet => Step
  BY DEF Ownership!ownershipVars
<1>3. TypeOK /\ TypeOK' /\ closed /\ closed' /\ (Holds' => Holds) => Step
  <2> SUFFICES ASSUME TypeOK, TypeOK', closed, closed', Holds' => Holds PROVE Step
    OBVIOUS
  <2>1. marker' \in BOOLEAN
    BY DEF TypeOK
  <2>2. closed' = TRUE
    BY DEF TypeOK
  <2>3. QED
    BY <2>1, <2>2 DEF Ownership!OwnershipNext, Ownership!WindDown
<1>4. ASSUME TypeOK, TypeOK', SafeInv, SafeInv', PromptInv, PromptInv', [Next]_vars
      PROVE Step
  <2> USE <1>4
  <2>1. CASE ReadLoop
    <3>1. CASE CloseRetired
      <4>1. CASE closed
        BY <1>3, <3>1, <4>1 DEF CloseRetired
      <4>2. CASE ~closed
        <5>1. ~marker /\ marker' = marker /\ closed' = closed
          BY <3>1, <4>2 DEF CloseRetired, PromptInv, SafeInv, MutexInv, HandleInv, LeaseInv, TypeOK,
           ReaderSteps, RequestSteps, WriterSteps
        <5>2. open \subseteq {retiring, newPort}
          BY <3>1, <4>2 DEF CloseRetired, PromptInv, SafeInv, MutexInv, HandleInv, LeaseInv, TypeOK,
           ReaderSteps, RequestSteps, WriterSteps
        <5>3. ~Holds'
          BY <3>1, <5>2 DEF CloseRetired
        <5>4. QED
          BY <5>1, <5>3 DEF Ownership!OwnershipNext, Ownership!LetGo,
                            Ownership!ownershipVars
      <4>3. QED
        BY <4>1, <4>2
    <3>2. CASE ReadLoop /\ ~CloseRetired
      BY <1>2, <3>2 DEF ReadLoop, WaitPortClosed, WaitPortCloses, WaitPortParks, WaitPortReturns, ReadReturns, RetireCloses, RetireClosed, RetireKeeps, FinishIdle, SignalIdle
    <3>3. QED
      BY <2>1, <3>1, <3>2
  <2>2. ASSUME NEW r \in Requests, ReleaseNotify(r) PROVE Step
    <3>1. marker' = TRUE /\ closed' = closed /\ Holds' = Holds
      BY <2>2 DEF ReleaseNotify, Notify
    <3>2. CASE closed
      BY <1>3, <3>1, <3>2
    <3>3. CASE ~closed
      <4>1. ~marker
        BY <2>2, <3>3 DEF ReleaseNotify, PromptInv
      <4>2. open \subseteq {newPort}
        BY <2>2, <3>3 DEF ReleaseNotify, PromptInv, SafeInv, MutexInv, HandleInv, LeaseInv, TypeOK,
           ReaderSteps, RequestSteps, WriterSteps
      <4>3. ~Holds
        BY <4>2
      <4>4. QED
        BY <3>1, <4>1, <4>3 DEF Ownership!OwnershipNext, Ownership!Lend
    <3>4. QED
      BY <3>2, <3>3
  <2>3. ASSUME NEW r \in Requests, AcquireOpens(r) PROVE Step
    <3>1. ~Holds /\ ~Holds' /\ UNCHANGED <<marker, closed>>
      BY <2>3 DEF AcquireOpens
    <3>2. QED
      BY <3>1 DEF Ownership!ownershipVars
  <2>4. ASSUME NEW r \in Requests, AcquireInstalls(r) PROVE Step
    <3>1. ~closed /\ UNCHANGED <<marker, closed>>
      BY <2>4 DEF AcquireInstalls
    <3>2. marker = TRUE
      BY <2>4, <3>1 DEF AcquireInstalls, PromptInv, TypeOK
    <3>3. open \subseteq {newPort} /\ newPort \in open /\ 0 \notin open
      BY <2>4, <3>1 DEF AcquireInstalls, PromptInv, SafeInv, MutexInv, HandleInv, LeaseInv, TypeOK,
           ReaderSteps, RequestSteps, WriterSteps
    <3>4. open' = open /\ newPort' = 0
      BY <2>4 DEF AcquireInstalls
    <3>5. ~Holds /\ Holds'
      BY <3>3, <3>4
    <3>6. QED
      BY <3>1, <3>2, <3>5 DEF Ownership!OwnershipNext, Ownership!TakeBack
  <2>5. ASSUME NEW r \in Requests, AcquireDrops(r) PROVE Step
    <3>1. closed /\ closed' /\ (Holds' => Holds)
      BY <2>5 DEF AcquireDrops, SafeInv, HandleInv
    <3>2. QED
      BY <1>3, <3>1
  <2>6. ASSUME NEW r \in Requests, AcquireNotify(r) PROVE Step
    <3>1. marker' = FALSE /\ closed' = closed /\ Holds' = Holds
      BY <2>6 DEF AcquireNotify, Notify
    <3>2. CASE closed
      BY <1>3, <3>1, <3>2
    <3>3. CASE ~closed
      <4>1. marker
        BY <2>6, <3>3 DEF AcquireNotify, PromptInv
      <4>2. Holds
        BY <2>6, <3>3 DEF AcquireNotify, PromptInv, SafeInv, MutexInv, HandleInv, LeaseInv, TypeOK,
           ReaderSteps, RequestSteps, WriterSteps
      <4>3. QED
        BY <3>1, <4>1, <4>2 DEF Ownership!OwnershipNext, Ownership!Return
    <3>4. QED
      BY <3>2, <3>3
  <2>7. ASSUME NEW r \in Requests,
               \/ Release(r) \/ ReleaseIdle(r) \/ ReleaseTimeout(r)
               \/ Acquire(r) \/ AcquireFails(r)
        PROVE Step
    BY <1>2, <2>7 DEF Release, ReleaseIdle, ReleaseTimeout, Acquire, AcquireFails
  <2>8. ASSUME NEW w \in Writers, Write(w) \/ WriteReturns(w) PROVE Step
    BY <1>2, <2>8 DEF Write, WriteReturns
  <2>9. CASE Close
    <3>1. closed' = TRUE /\ marker' = marker /\ Holds' = Holds
      BY <2>9 DEF Close
    <3>2. ~closed
      BY <2>9 DEF Close, SafeInv, LeaseInv
    <3>3. QED
      BY <3>1, <3>2 DEF Ownership!OwnershipNext, Ownership!Shut
  <2>10. CASE CloseHandle
    <3>1. closed /\ closed' /\ (Holds' => Holds)
      BY <2>10 DEF CloseHandle, SafeInv, LeaseInv
    <3>2. QED
      BY <1>3, <3>1
  <2>11. CASE Borrow \/ GiveBack
    BY <1>2, <2>11 DEF Borrow, GiveBack
  <2>12. CASE UNCHANGED vars
    BY <1>2, <2>12 DEF vars
  <2>13. QED
    BY <2>1, <2>2, <2>3, <2>4, <2>5, <2>6, <2>7, <2>8, <2>9, <2>10, <2>11, <2>12
    DEF Next, Request, RequestProceeds
<1>5. QED
  BY <1>1, <1>4, TypeCorrect, SafeCorrect, PromptCorrect, PTL
  DEF Spec, LeaseImplementsOwnership, Ownership!OwnershipSpec

=============================================================================
