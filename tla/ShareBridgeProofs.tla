------------------------- MODULE ShareBridgeProofs -------------------------
(***************************************************************************)
(* Theorems about ShareBridge, for every set of hub ports and clients, any *)
(* queue capacity and any number of chunks.                                *)
(***************************************************************************)
EXTENDS ShareBridge, TLAPS

(* Every variable keeps its type, and no queue outgrows its capacity.      *)
THEOREM TypeCorrect == Spec => []TypeOK
<1> USE BridgeAssumption DEF TypeOK, Steps, Writers
<1>1. Init => TypeOK
  <2> SUFFICES ASSUME Init PROVE TypeOK
    OBVIOUS
  <2>1. up \in [Clients -> BOOLEAN] /\ crashed \in BOOLEAN
    BY Zenon DEF Init
  <2>2. QED
    BY <2>1 DEF Init
<1>2. TypeOK /\ [Next]_vars => TypeOK'
  <2> SUFFICES ASSUME TypeOK, [Next]_vars PROVE TypeOK'
    OBVIOUS
  <2> USE DEF clientVars, claimVars, lineVars, readerVars, hubVars, closeVars
  <2>1. ASSUME NEW p \in Endpoints \cup {Device}, OpenPort(p) PROVE TypeOK'
    BY <2>1 DEF OpenPort
  <2>2. CASE OpenFails
    BY <2>2 DEF OpenFails
  <2>3. CASE Start
    BY <2>3 DEF Start
  <2>4. CASE ReadDevice
    BY <2>4 DEF ReadDevice
  <2>5. CASE ReadFails
    BY <2>5 DEF ReadFails
  <2>6. CASE HubServed
    BY <2>6 DEF HubServed
  <2>7. ASSUME NEW e \in Endpoints, HubEnqueue(e) PROVE TypeOK'
    BY <2>7 DEF HubEnqueue
  <2>8. ASSUME NEW e \in Endpoints, HubPanics(e) PROVE TypeOK'
    BY <2>8 DEF HubPanics
  <2>9. CASE RouteToOwner
    BY <2>9 DEF RouteToOwner
  <2>10. CASE RouteToAll
    BY <2>10 DEF RouteToAll
  <2>11. CASE Snapshot
    BY <2>11 DEF Snapshot
  <2>12. ASSUME NEW c \in Clients, Send(c) PROVE TypeOK'
    BY <2>12 DEF Send
  <2>13. ASSUME NEW c \in Clients, SendFails(c) PROVE TypeOK'
    BY <2>13 DEF SendFails, ReleaseClaim
  <2>14. CASE Sent
    BY <2>14 DEF Sent
  <2>15. ASSUME NEW e \in Endpoints, HubTakes(e) PROVE TypeOK'
    <3>1. queue[e] \in Seq(0 .. MaxChunks) /\ Len(queue[e]) <= Capacity /\ queue[e] # << >>
      BY <2>15 DEF HubTakes
    <3>2. /\ Head(queue[e]) \in 0 .. MaxChunks /\ Tail(queue[e]) \in Seq(0 .. MaxChunks)
          /\ Len(Tail(queue[e])) <= Capacity
      BY <3>1
    <3>3. /\ writing' = [writing EXCEPT ![e] = Head(queue[e])]
          /\ queue' = [queue EXCEPT ![e] = Tail(queue[e])]
      BY <2>15 DEF HubTakes
    <3>4. /\ writing' \in [Endpoints -> 0 .. MaxChunks]
          /\ queue' \in [Endpoints -> Seq(0 .. MaxChunks)]
          /\ \A f \in Endpoints : Len(queue'[f]) <= Capacity
      BY <3>2, <3>3
    <3>5. /\ UNCHANGED <<clientVars, lineVars, readerVars, said, heard, hubDone, closeVars>>
          /\ UNCHANGED crashed
      BY <2>15 DEF HubTakes
    <3>6. QED
      BY <3>4, <3>5
  <2>16. ASSUME NEW e \in Endpoints, HubWritten(e) PROVE TypeOK'
    <3>1. writing[e] \in 0 .. MaxChunks /\ heard[e] \in Seq(0 .. MaxChunks)
      OBVIOUS
    <3>2. Append(heard[e], writing[e]) \in Seq(0 .. MaxChunks)
      BY <3>1
    <3>3. heard' \in [Endpoints -> Seq(0 .. MaxChunks)]
      <4>1. heard' = heard \/ heard' = [heard EXCEPT ![e] = Append(heard[e], writing[e])]
        BY <2>16 DEF HubWritten
      <4>2. CASE heard' = heard
        BY <4>2
      <4>3. CASE heard' = [heard EXCEPT ![e] = Append(heard[e], writing[e])]
        <5> DEFINE H == Seq(0 .. MaxChunks)
        <5>1. heard \in [Endpoints -> H] /\ Append(heard[e], writing[e]) \in H
          BY <3>2
        <5> HIDE DEF H
        <5>2. QED
          BY <4>3, <5>1 DEF H
      <4>4. QED
        BY <4>1, <4>2, <4>3
    <3>4. writing' \in [Endpoints -> 0 .. MaxChunks]
      BY <2>16 DEF HubWritten
    <3>5. QED
      BY <2>16, <3>3, <3>4 DEF HubWritten
  <2>17. ASSUME NEW e \in Endpoints, HubReturns(e) PROVE TypeOK'
    BY <2>17 DEF HubReturns
  <2>18. ASSUME NEW c \in Clients, Accept(c) PROVE TypeOK'
    BY <2>18 DEF Accept, Goto
  <2>19. ASSUME NEW c \in Clients, AddClient(c) PROVE TypeOK'
    BY <2>19 DEF AddClient, Goto
  <2>20. ASSUME NEW c \in Clients, HangUp(c) PROVE TypeOK'
    BY <2>20 DEF HangUp
  <2>21. ASSUME NEW c \in Clients, ReadClaim(c) PROVE TypeOK'
    BY <2>21 DEF ReadClaim, Checked, Allows, Goto
  <2>22. ASSUME NEW c \in Clients, ClaimGranted(c) PROVE TypeOK'
    BY <2>22 DEF ClaimGranted, Allows, Goto
  <2>23. ASSUME NEW c \in Clients, ClaimRefused(c) PROVE TypeOK'
    BY <2>23 DEF ClaimRefused, Allows, Goto
  <2>24. ASSUME NEW c \in Clients, Leave(c) PROVE TypeOK'
    BY <2>24 DEF Leave, Goto
  <2>25. ASSUME NEW c \in Clients, Removed(c) PROVE TypeOK'
    BY <2>25 DEF Removed, ReleaseClaim, Goto
  <2>26. ASSUME NEW w \in Writers, ReadInput(w) PROVE TypeOK'
    <3>1. PICK step \in {"checked", "read", "leave", "exit"} : pc' = [pc EXCEPT ![w] = step]
      BY <2>26 DEF ReadInput, Checked, Goto, Gone
    <3>2. pc' \in [Writers -> Steps]
      BY <3>1
    <3>3. /\ UNCHANGED <<clientVars, claimVars, writeMu, readerVars, said, heard, hubVars>>
          /\ UNCHANGED <<closeVars, crashed>>
      BY <2>26 DEF ReadInput
    <3>4. QED
      BY <3>2, <3>3
  <2>27. ASSUME NEW w \in Writers, WriteStarts(w) PROVE TypeOK'
    BY <2>27 DEF WriteStarts, Goto
  <2>28. ASSUME NEW w \in Writers, WriteEnds(w) PROVE TypeOK'
    BY <2>28 DEF WriteEnds, Goto, Gone
  <2>29. CASE CloseBegins
    BY <2>29 DEF CloseBegins
  <2>30. ASSUME NEW e \in Endpoints, CloseChannel(e) PROVE TypeOK'
    BY <2>30 DEF CloseChannel
  <2>31. ASSUME NEW e \in Endpoints, ClosePort(e) PROVE TypeOK'
    BY <2>31 DEF ClosePort
  <2>32. CASE CloseClients
    BY <2>32 DEF CloseClients
  <2>33. CASE Closed
    BY <2>33 DEF Closed
  <2>34. CASE UNCHANGED vars
    BY <2>34 DEF vars
  <2>35. QED
    BY <2>1, <2>2, <2>3, <2>4, <2>5, <2>6, <2>7, <2>8, <2>9, <2>10, <2>11, <2>12, <2>13,
       <2>14, <2>15, <2>16, <2>17, <2>18, <2>19, <2>20, <2>21, <2>22, <2>23, <2>24,
       <2>25, <2>26, <2>27, <2>28, <2>29, <2>30, <2>31, <2>32, <2>33, <2>34
    DEF Next, Step, ReadLoop, HubStep, HubWriter, ClientStep, WriterStep, Closing
<1>3. QED
  BY <1>1, <1>2, PTL DEF Spec

(* How far the bridge has closed.                                          *)
THEOREM CloseInvCorrect == Spec => []CloseInv
<1> USE BridgeAssumption DEF Writers
<1>1. Init => CloseInv
  BY DEF Init, CloseInv
<1>2. TypeOK /\ CloseInv /\ [Next]_vars => CloseInv'
  <2> SUFFICES ASSUME TypeOK, CloseInv, [Next]_vars PROVE CloseInv'
    OBVIOUS
  <2> USE DEF TypeOK, CloseInv, clientVars, claimVars, lineVars, readerVars, hubVars, closeVars
  <2>1. ASSUME NEW p \in Endpoints \cup {Device}, OpenPort(p) PROVE CloseInv'
    BY <2>1 DEF OpenPort
  <2>2. CASE OpenFails
    BY <2>2 DEF OpenFails
  <2>3. CASE Start
    BY <2>3 DEF Start
  <2>4. CASE ReadDevice
    BY <2>4 DEF ReadDevice
  <2>5. CASE ReadFails
    BY <2>5 DEF ReadFails
  <2>6. CASE HubServed
    BY <2>6 DEF HubServed
  <2>7. ASSUME NEW e \in Endpoints, HubEnqueue(e) PROVE CloseInv'
    BY <2>7 DEF HubEnqueue
  <2>8. ASSUME NEW e \in Endpoints, HubPanics(e) PROVE CloseInv'
    BY <2>8 DEF HubPanics
  <2>9. CASE RouteToOwner
    BY <2>9 DEF RouteToOwner
  <2>10. CASE RouteToAll
    BY <2>10 DEF RouteToAll
  <2>11. CASE Snapshot
    BY <2>11 DEF Snapshot
  <2>12. ASSUME NEW c \in Clients, Send(c) PROVE CloseInv'
    BY <2>12 DEF Send
  <2>13. ASSUME NEW c \in Clients, SendFails(c) PROVE CloseInv'
    BY <2>13 DEF SendFails, ReleaseClaim
  <2>14. CASE Sent
    BY <2>14 DEF Sent
  <2>15. ASSUME NEW e \in Endpoints, HubTakes(e) PROVE CloseInv'
    BY <2>15 DEF HubTakes
  <2>16. ASSUME NEW e \in Endpoints, HubWritten(e) PROVE CloseInv'
    BY <2>16 DEF HubWritten
  <2>17. ASSUME NEW e \in Endpoints, HubReturns(e) PROVE CloseInv'
    BY <2>17 DEF HubReturns
  <2>18. ASSUME NEW c \in Clients, Accept(c) PROVE CloseInv'
    BY <2>18 DEF Accept, Goto
  <2>19. ASSUME NEW c \in Clients, AddClient(c) PROVE CloseInv'
    BY <2>19 DEF AddClient, Goto
  <2>20. ASSUME NEW c \in Clients, HangUp(c) PROVE CloseInv'
    BY <2>20 DEF HangUp
  <2>21. ASSUME NEW c \in Clients, ReadClaim(c) PROVE CloseInv'
    BY <2>21 DEF ReadClaim, Checked, Allows, Goto
  <2>22. ASSUME NEW c \in Clients, ClaimGranted(c) PROVE CloseInv'
    BY <2>22 DEF ClaimGranted, Allows, Goto
  <2>23. ASSUME NEW c \in Clients, ClaimRefused(c) PROVE CloseInv'
    BY <2>23 DEF ClaimRefused, Allows, Goto
  <2>24. ASSUME NEW c \in Clients, Leave(c) PROVE CloseInv'
    BY <2>24 DEF Leave, Goto
  <2>25. ASSUME NEW c \in Clients, Removed(c) PROVE CloseInv'
    BY <2>25 DEF Removed, ReleaseClaim, Goto
  <2>26. ASSUME NEW w \in Writers, ReadInput(w) PROVE CloseInv'
    BY <2>26 DEF ReadInput, Checked, Allows, Goto, Gone, Alive
  <2>27. ASSUME NEW w \in Writers, WriteStarts(w) PROVE CloseInv'
    BY <2>27 DEF WriteStarts, Goto
  <2>28. ASSUME NEW w \in Writers, WriteEnds(w) PROVE CloseInv'
    BY <2>28 DEF WriteEnds, Goto, Gone
  <2>29. CASE CloseBegins
    BY <2>29 DEF CloseBegins
  <2>30. ASSUME NEW e \in Endpoints, CloseChannel(e) PROVE CloseInv'
    BY <2>30 DEF CloseChannel
  <2>31. ASSUME NEW e \in Endpoints, ClosePort(e) PROVE CloseInv'
    BY <2>31 DEF ClosePort
  <2>32. CASE CloseClients
    BY <2>32 DEF CloseClients
  <2>33. CASE Closed
    BY <2>33 DEF Closed
  <2>34. CASE UNCHANGED vars
    BY <2>34 DEF vars
  <2>35. QED
    BY <2>1, <2>2, <2>3, <2>4, <2>5, <2>6, <2>7, <2>8, <2>9, <2>10, <2>11, <2>12, <2>13,
       <2>14, <2>15, <2>16, <2>17, <2>18, <2>19, <2>20, <2>21, <2>22, <2>23, <2>24,
       <2>25, <2>26, <2>27, <2>28, <2>29, <2>30, <2>31, <2>32, <2>33, <2>34
    DEF Next, Step, ReadLoop, HubStep, HubWriter, ClientStep, WriterStep, Closing
<1>3. QED
  BY <1>1, <1>2, TypeCorrect, PTL DEF Spec

(* Who holds the lock and the claim, and what slips through under a claim. *)
THEOREM LineInvCorrect == Spec => []LineInv
<1> USE BridgeAssumption DEF Writers
<1>1. Init => LineInv
  BY DEF Init, LineInv
<1>2. TypeOK /\ CloseInv /\ LineInv /\ [Next]_vars => LineInv'
  <2> SUFFICES ASSUME TypeOK, CloseInv, LineInv, [Next]_vars PROVE LineInv'
    OBVIOUS
  <2> USE DEF TypeOK, Steps, LineInv, clientVars, claimVars, lineVars, readerVars, hubVars,
              closeVars
  <2>1. ASSUME NEW p \in Endpoints \cup {Device}, OpenPort(p) PROVE LineInv'
    BY <2>1 DEF OpenPort
  <2>2. CASE OpenFails
    BY <2>2 DEF OpenFails
  <2>3. CASE Start
    BY <2>3 DEF Start, CloseInv
  <2>4. CASE ReadDevice
    BY <2>4 DEF ReadDevice
  <2>5. CASE ReadFails
    BY <2>5 DEF ReadFails
  <2>6. CASE HubServed
    BY <2>6 DEF HubServed
  <2>7. ASSUME NEW e \in Endpoints, HubEnqueue(e) PROVE LineInv'
    BY <2>7 DEF HubEnqueue
  <2>8. ASSUME NEW e \in Endpoints, HubPanics(e) PROVE LineInv'
    BY <2>8 DEF HubPanics
  <2>9. CASE RouteToOwner
    BY <2>9 DEF RouteToOwner
  <2>10. CASE RouteToAll
    BY <2>10 DEF RouteToAll
  <2>11. CASE Snapshot
    BY <2>11 DEF Snapshot
  <2>12. ASSUME NEW c \in Clients, Send(c) PROVE LineInv'
    BY <2>12 DEF Send
  <2>13. ASSUME NEW c \in Clients, SendFails(c) PROVE LineInv'
    BY <2>13 DEF SendFails, ReleaseClaim
  <2>14. CASE Sent
    BY <2>14 DEF Sent
  <2>15. ASSUME NEW e \in Endpoints, HubTakes(e) PROVE LineInv'
    BY <2>15 DEF HubTakes
  <2>16. ASSUME NEW e \in Endpoints, HubWritten(e) PROVE LineInv'
    BY <2>16 DEF HubWritten
  <2>17. ASSUME NEW e \in Endpoints, HubReturns(e) PROVE LineInv'
    BY <2>17 DEF HubReturns
  <2>18. ASSUME NEW c \in Clients, Accept(c) PROVE LineInv'
    BY <2>18 DEF Accept, Goto
  <2>19. ASSUME NEW c \in Clients, AddClient(c) PROVE LineInv'
    BY <2>19 DEF AddClient, Goto
  <2>20. ASSUME NEW c \in Clients, HangUp(c) PROVE LineInv'
    BY <2>20 DEF HangUp
  <2>21. ASSUME NEW c \in Clients, ReadClaim(c) PROVE LineInv'
    BY <2>21 DEF ReadClaim, Checked, Allows, Goto
  <2>22. ASSUME NEW c \in Clients, ClaimGranted(c) PROVE LineInv'
    BY <2>22 DEF ClaimGranted, Allows, Goto
  <2>23. ASSUME NEW c \in Clients, ClaimRefused(c) PROVE LineInv'
    BY <2>23 DEF ClaimRefused, Allows, Goto
  <2>24. ASSUME NEW c \in Clients, Leave(c) PROVE LineInv'
    BY <2>24 DEF Leave, Goto
  <2>25. ASSUME NEW c \in Clients, Removed(c) PROVE LineInv'
    BY <2>25 DEF Removed, ReleaseClaim, Goto
  <2>26. ASSUME NEW w \in Writers, ReadInput(w) PROVE LineInv'
    BY <2>26 DEF ReadInput, Checked, Allows, Goto, Gone, Alive
  <2>27. ASSUME NEW w \in Writers, WriteStarts(w) PROVE LineInv'
    BY <2>27 DEF WriteStarts, Goto
  <2>28. ASSUME NEW w \in Writers, WriteEnds(w) PROVE LineInv'
    <3>1. PICK step \in {"read", Gone(w)} : pc' = [pc EXCEPT ![w] = step]
      BY <2>28 DEF WriteEnds, Goto
    <3>2. step \in {"read", "leave", "exit"} /\ (w \in Clients => step # "exit")
      BY <3>1 DEF Gone
    <3>3. writeMu = w /\ writeMu' = NoOne /\ UNCHANGED <<clients, owner, stray>>
      BY <2>28 DEF WriteEnds
    <3>4. pc'[w] = step /\ \A v \in Writers : v # w => pc'[v] = pc[v]
      BY <3>1
    <3>5. \A v \in Writers : (writeMu' = v) <=> (pc'[v] = "writing")
      BY <3>2, <3>3, <3>4
    <3>6. \A c \in Clients :
             /\ owner' = c => pc'[c] \in {"read", "checked", "writing", "leave", "removed"}
             /\ pc'[c] \in {"none", "accepted", "removed"} => c \notin clients'
      BY <3>2, <3>3, <3>4
    <3>7. QED
      BY <3>2, <3>3, <3>4, <3>5, <3>6
  <2>29. CASE CloseBegins
    BY <2>29 DEF CloseBegins
  <2>30. ASSUME NEW e \in Endpoints, CloseChannel(e) PROVE LineInv'
    BY <2>30 DEF CloseChannel
  <2>31. ASSUME NEW e \in Endpoints, ClosePort(e) PROVE LineInv'
    BY <2>31 DEF ClosePort
  <2>32. CASE CloseClients
    BY <2>32 DEF CloseClients
  <2>33. CASE Closed
    BY <2>33 DEF Closed
  <2>34. CASE UNCHANGED vars
    BY <2>34 DEF vars
  <2>35. QED
    BY <2>1, <2>2, <2>3, <2>4, <2>5, <2>6, <2>7, <2>8, <2>9, <2>10, <2>11, <2>12, <2>13,
       <2>14, <2>15, <2>16, <2>17, <2>18, <2>19, <2>20, <2>21, <2>22, <2>23, <2>24,
       <2>25, <2>26, <2>27, <2>28, <2>29, <2>30, <2>31, <2>32, <2>33, <2>34
    DEF Next, Step, ReadLoop, HubStep, HubWriter, ClientStep, WriterStep, Closing
<1>3. QED
  BY <1>1, <1>2, TypeCorrect, CloseInvCorrect, PTL DEF Spec

(* The chunks of a hub port are numbers.                                   *)
LEMMA ChunkTypes ==
    ASSUME TypeOK, NEW e \in Endpoints
    PROVE  /\ said \in Nat /\ writing[e] \in Nat /\ Len(heard[e]) \in Nat
           /\ Len(queue[e]) \in Nat
           /\ \A i \in 1 .. Len(queue[e]) : queue[e][i] \in Nat
           /\ \A k \in 1 .. Len(heard[e]) : heard[e][k] \in Nat
<1>1. queue[e] \in Seq(0 .. MaxChunks) /\ heard[e] \in Seq(0 .. MaxChunks)
  BY DEF TypeOK
<1>2. said \in Nat /\ writing[e] \in Nat
  BY BridgeAssumption DEF TypeOK
<1>3. QED
  BY <1>1, <1>2, BridgeAssumption

(* The order of chunks in a queue, at its writer and at its program.       *)
THEOREM QueueInvCorrect == Spec => []QueueInv
<1> USE BridgeAssumption DEF Writers
<1>1. Init => QueueInv
  BY DEF Init, QueueInv, QueueOf, Older
<1>2. TypeOK /\ QueueInv /\ [Next]_vars => QueueInv'
  <2> SUFFICES ASSUME TypeOK, QueueInv, [Next]_vars PROVE QueueInv'
    OBVIOUS
  <2> USE DEF TypeOK, QueueInv, QueueOf, Older, clientVars, claimVars, lineVars, readerVars, hubVars,
              closeVars
  <2>1. ASSUME NEW p \in Endpoints \cup {Device}, OpenPort(p) PROVE QueueInv'
    BY <2>1 DEF OpenPort
  <2>2. CASE OpenFails
    BY <2>2 DEF OpenFails
  <2>3. CASE Start
    BY <2>3 DEF Start
  <2>4. CASE ReadDevice
    <3> SUFFICES ASSUME NEW e \in Endpoints PROVE QueueOf(e)'
      BY DEF QueueInv, QueueOf
    <3>1. /\ said' = said + 1 /\ queue' = queue /\ writing' = writing /\ heard' = heard
          /\ said \in Nat
      BY <2>4 DEF ReadDevice
    <3>2. \A n \in Nat : Older(e, n) => Older(e, n)'
      BY <3>1 DEF Older
    <3>3. /\ writing[e] \in Nat
          /\ \A i \in 1 .. Len(queue[e]) : queue[e][i] \in Nat
          /\ \A k \in 1 .. Len(heard[e]) : heard[e][k] \in Nat
      OBVIOUS
    <3>4. QED
      BY <3>1, <3>2, <3>3 DEF QueueOf
  <2>5. CASE ReadFails
    BY <2>5 DEF ReadFails
  <2>6. CASE HubServed
    BY <2>6 DEF HubServed
  <2>7. ASSUME NEW e \in Endpoints, HubEnqueue(e) PROVE QueueInv'
    <3> SUFFICES ASSUME NEW f \in Endpoints PROVE QueueOf(f)'
      BY DEF QueueInv, QueueOf
    <3>1. /\ said' = said /\ reader' = reader /\ writing' = writing /\ heard' = heard
          /\ reader = "hub" /\ e \in todo /\ todo' = todo \ {e} /\ said \in Nat
      BY <2>7 DEF HubEnqueue
    <3>2. \A n \in Nat : Older(f, n) => Older(f, n)'
      BY <3>1 DEF Older
    <3>3. /\ writing[f] \in Nat /\ Len(queue[f]) \in Nat /\ Len(heard[f]) \in Nat
          /\ \A i \in 1 .. Len(queue[f]) : queue[f][i] \in Nat
          /\ \A k \in 1 .. Len(heard[f]) : heard[f][k] \in Nat
      BY ChunkTypes
    <3>4. QueueOf(f) /\ QueueOf(e)
      BY DEF QueueInv
    <3>5. queue'[f] = queue[f] \/ (f = e /\ queue'[e] = Append(queue[e], said))
      <4> HIDE DEF QueueInv, QueueOf, Older
      <4>1. queue \in [Endpoints -> Seq(0 .. MaxChunks)]
        BY DEF TypeOK
      <4> HIDE DEF TypeOK
      <4>2. QED
        BY <2>7, <4>1 DEF HubEnqueue
    <3>6. queue[e] \in Seq(Nat)
      <4> HIDE DEF QueueInv, QueueOf, Older
      <4>1. queue[e] \in Seq(0 .. MaxChunks) /\ 0 .. MaxChunks \subseteq Nat
        BY DEF TypeOK
      <4>2. QED
        BY <4>1
    <3> HIDE DEF TypeOK, QueueInv, QueueOf, Older
    <3>7. CASE queue'[f] = queue[f]
      BY <3>1, <3>2, <3>3, <3>4, <3>7 DEF QueueOf
    <3>8. CASE f = e /\ queue'[e] = Append(queue[e], said)
      <4>1. /\ Len(queue'[e]) = Len(queue[e]) + 1
            /\ queue'[e][Len(queue[e]) + 1] = said
            /\ \A i \in 1 .. Len(queue[e]) : queue'[e][i] = queue[e][i]
        BY <3>1, <3>6, <3>8
      <4>2. /\ \A i \in 1 .. Len(queue[e]) : queue[e][i] < said
            /\ writing[e] < said
            /\ \A k \in 1 .. Len(heard[e]) : heard[e][k] < said
        BY <3>1, <3>4 DEF QueueOf, Older
      <4>3. Older(e, said)'
        BY <3>1 DEF Older
      <4>4. ASSUME NEW i \in 1 .. Len(queue'[e])
            PROVE  /\ Older(e, queue[e][i])' /\ writing'[e] < queue'[e][i]
                   /\ \A j \in 1 .. Len(queue'[e]) : i < j => queue'[e][i] < queue'[e][j]
                   /\ \A k \in 1 .. Len(heard'[e]) : heard'[e][k] < queue'[e][i]
        <5>1. CASE i = Len(queue[e]) + 1
          BY <3>1, <3>3, <3>8, <4>1, <4>2, <4>3, <5>1
        <5>2. CASE i \in 1 .. Len(queue[e])
          <6>1. Older(e, queue[e][i]) /\ writing[e] < queue[e][i] /\ queue'[e][i] = queue[e][i]
            BY <3>4, <4>1, <5>2 DEF QueueOf
          <6>2. ASSUME NEW j \in 1 .. Len(queue'[e]), i < j PROVE queue'[e][i] < queue'[e][j]
            BY <3>3, <3>4, <3>8, <4>1, <4>2, <5>2, <6>2 DEF QueueOf
          <6>3. \A k \in 1 .. Len(heard'[e]) : heard'[e][k] < queue'[e][i]
            BY <3>1, <3>4, <5>2, <6>1 DEF QueueOf
          <6>4. QED
            BY <3>1, <3>2, <3>3, <3>8, <5>2, <6>1, <6>2, <6>3
        <5>3. QED
          BY <3>3, <3>8, <4>1, <5>1, <5>2
      <4>5. Older(e, writing[e])' /\ \A k \in 1 .. Len(heard'[e]) : Older(e, heard[e][k])'
        BY <3>1, <3>2, <3>3, <3>4, <3>8 DEF QueueOf
      <4>6. \A k \in 1 .. Len(heard'[e]) : writing'[e] # 0 => heard'[e][k] < writing'[e]
        BY <3>1, <3>4 DEF QueueOf
      <4>7. QED
        BY <3>8, <4>4, <4>5, <4>6 DEF QueueOf
    <3>9. QED
      BY <3>5, <3>7, <3>8
  <2>8. ASSUME NEW e \in Endpoints, HubPanics(e) PROVE QueueInv'
    BY <2>8 DEF HubPanics
  <2>9. CASE RouteToOwner
    BY <2>9 DEF RouteToOwner
  <2>10. CASE RouteToAll
    BY <2>10 DEF RouteToAll
  <2>11. CASE Snapshot
    BY <2>11 DEF Snapshot
  <2>12. ASSUME NEW c \in Clients, Send(c) PROVE QueueInv'
    BY <2>12 DEF Send
  <2>13. ASSUME NEW c \in Clients, SendFails(c) PROVE QueueInv'
    BY <2>13 DEF SendFails, ReleaseClaim
  <2>14. CASE Sent
    BY <2>14 DEF Sent
  <2>15. ASSUME NEW e \in Endpoints, HubTakes(e) PROVE QueueInv'
    <3> SUFFICES ASSUME NEW f \in Endpoints PROVE QueueOf(f)'
      BY DEF QueueInv, QueueOf
    <3>1. CASE f # e
      BY <2>15, <3>1 DEF HubTakes, QueueOf
    <3>2. CASE f = e
      <4>1. /\ queue'[e] = Tail(queue[e]) /\ writing'[e] = queue[e][1] /\ heard'[e] = heard[e]
            /\ said' = said /\ reader' = reader /\ todo' = todo /\ Len(queue[e]) \in Nat \ {0}
        BY <2>15 DEF HubTakes
      <4>2. /\ Len(queue'[e]) = Len(queue[e]) - 1
            /\ \A i \in 1 .. Len(queue'[e]) : queue'[e][i] = queue[e][i + 1]
        BY <4>1
      <4>3. \A i \in 1 .. Len(queue[e]) : queue[e][i] \in Nat
        BY ChunkTypes
      <4>4. \A i \in 1 .. Len(queue'[e]) : i + 1 \in 1 .. Len(queue[e]) /\ queue[e][i + 1] \in Nat
        BY <4>1, <4>2, <4>3
      <4>5. ASSUME NEW i \in 1 .. Len(queue'[e])
            PROVE  /\ Older(e, queue[e][i])' /\ writing'[e] < queue'[e][i]
                   /\ \A j \in 1 .. Len(queue'[e]) : i < j => queue'[e][i] < queue'[e][j]
        <5>1. /\ i + 1 \in 1 .. Len(queue[e]) /\ queue'[e][i] = queue[e][i + 1]
              /\ 1 \in 1 .. Len(queue[e]) /\ 1 < i + 1
          BY <4>1, <4>2, <4>4
        <5>2. Older(e, queue[e][i + 1]) /\ writing'[e] < queue[e][i + 1]
          BY <4>1, <5>1
        <5>3. ASSUME NEW j \in 1 .. Len(queue'[e]), i < j PROVE queue'[e][i] < queue'[e][j]
          <6>1. j + 1 \in 1 .. Len(queue[e]) /\ queue'[e][j] = queue[e][j + 1] /\ i + 1 < j + 1
            BY <4>2, <4>4, <5>3
          <6>2. QED
            BY <5>1, <6>1
        <5>4. QED
          BY <4>1, <5>1, <5>2, <5>3
      <4>6. Older(e, writing[e])'
        BY <4>1, ChunkTypes
      <4>7. ASSUME NEW k \in 1 .. Len(heard'[e])
            PROVE  /\ Older(e, heard[e][k])' /\ heard'[e][k] < writing'[e]
                   /\ \A i \in 1 .. Len(queue'[e]) : heard'[e][k] < queue'[e][i]
        <5>1. k \in 1 .. Len(heard[e]) /\ heard'[e][k] = heard[e][k] /\ 1 \in 1 .. Len(queue[e])
          BY <4>1
        <5>2. ASSUME NEW i \in 1 .. Len(queue'[e]) PROVE heard'[e][k] < queue'[e][i]
          BY <4>2, <4>4, <5>1
        <5>3. QED
          BY <4>1, <5>1, <5>2
      <4>8. QED
        BY <3>2, <4>5, <4>6, <4>7 DEF QueueOf
    <3>3. QED
      BY <3>1, <3>2
  <2>16. ASSUME NEW e \in Endpoints, HubWritten(e) PROVE QueueInv'
    <3> SUFFICES ASSUME NEW f \in Endpoints PROVE QueueOf(f)'
      BY DEF QueueInv, QueueOf
    <3>1. CASE f # e
      BY <2>16, <3>1 DEF HubWritten, QueueOf
    <3>3. CASE f = e /\ heard' = heard
      <4> HIDE DEF QueueInv, QueueOf, Older
      <4>1. /\ queue' = queue /\ writing'[e] = 0 /\ said' = said /\ reader' = reader /\ todo' = todo
        BY <2>16 DEF HubWritten
      <4>2. said \in Nat /\ writing[e] \in Nat /\ \A i \in 1 .. Len(queue[e]) : queue[e][i] \in Nat
        BY ChunkTypes
      <4>3. QED
        BY <3>3, <4>1, <4>2 DEF QueueInv, QueueOf, Older
    <3>2. CASE f = e /\ heard' = [heard EXCEPT ![e] = Append(@, writing[e])]
      <4>1. /\ queue' = queue /\ writing'[e] = 0 /\ heard'[e] = Append(heard[e], writing[e])
            /\ said' = said /\ reader' = reader /\ todo' = todo /\ writing[e] # 0
        BY <2>16, <3>2 DEF HubWritten
      <4>2. /\ Len(heard'[e]) = Len(heard[e]) + 1 /\ heard'[e][Len(heard[e]) + 1] = writing[e]
            /\ \A k \in 1 .. Len(heard[e]) : heard'[e][k] = heard[e][k]
        BY <4>1
      <4>3. /\ said \in Nat /\ writing[e] \in Nat /\ Len(heard[e]) \in Nat
            /\ \A i \in 1 .. Len(queue[e]) : queue[e][i] \in Nat
            /\ \A k \in 1 .. Len(heard[e]) : heard[e][k] \in Nat
        BY ChunkTypes
      <4>4. QueueOf(e)
        BY DEF QueueInv
      <4> HIDE DEF TypeOK, QueueInv
      <4>5. \A i \in 1 .. Len(queue'[e]) :
              /\ Older(e, queue[e][i])' /\ writing'[e] < queue'[e][i]
              /\ \A j \in 1 .. Len(queue'[e]) : i < j => queue'[e][i] < queue'[e][j]
        BY <4>1, <4>3, <4>4
      <4>6. Older(e, writing[e])'
        BY <4>1, <4>3, <4>4
      <4>7. \A k \in 1 .. Len(heard[e]) :
              /\ Older(e, heard[e][k]) /\ writing'[e] = 0
              /\ \A i \in 1 .. Len(queue'[e]) : heard[e][k] < queue'[e][i]
        BY <4>1, <4>3, <4>4
      <4>8. /\ Older(e, writing[e])
            /\ \A i \in 1 .. Len(queue'[e]) : writing[e] < queue'[e][i]
        BY <4>1, <4>3, <4>4
      <4>9. \A k \in 1 .. Len(heard'[e]) : k \in 1 .. Len(heard[e]) \/ k = Len(heard[e]) + 1
        BY <4>2, <4>3
      <4>10. \A k \in 1 .. Len(heard'[e]) :
              /\ Older(e, heard[e][k])'
              /\ writing'[e] # 0 => heard'[e][k] < writing'[e]
              /\ \A i \in 1 .. Len(queue'[e]) : heard'[e][k] < queue'[e][i]
        <5>1. SUFFICES ASSUME NEW k \in 1 .. Len(heard'[e])
                       PROVE  /\ Older(e, heard[e][k])'
                              /\ \A i \in 1 .. Len(queue'[e]) : heard'[e][k] < queue'[e][i]
          BY <4>1
        <5>2. CASE k \in 1 .. Len(heard[e])
          BY <4>1, <4>2, <4>7, <5>2
        <5>3. CASE k = Len(heard[e]) + 1
          BY <4>1, <4>2, <4>8, <5>3
        <5>4. QED
          BY <4>9, <5>2, <5>3
      <4>11. QED
        BY <3>2, <4>5, <4>6, <4>10 DEF QueueOf
    <3>4. QED
      BY <2>16, <3>1, <3>2, <3>3 DEF HubWritten
  <2>17. ASSUME NEW e \in Endpoints, HubReturns(e) PROVE QueueInv'
    BY <2>17 DEF HubReturns
  <2>18. ASSUME NEW c \in Clients, Accept(c) PROVE QueueInv'
    BY <2>18 DEF Accept, Goto
  <2>19. ASSUME NEW c \in Clients, AddClient(c) PROVE QueueInv'
    BY <2>19 DEF AddClient, Goto
  <2>20. ASSUME NEW c \in Clients, HangUp(c) PROVE QueueInv'
    BY <2>20 DEF HangUp
  <2>21. ASSUME NEW c \in Clients, ReadClaim(c) PROVE QueueInv'
    BY <2>21 DEF ReadClaim, Checked, Allows, Goto
  <2>22. ASSUME NEW c \in Clients, ClaimGranted(c) PROVE QueueInv'
    BY <2>22 DEF ClaimGranted, Allows, Goto
  <2>23. ASSUME NEW c \in Clients, ClaimRefused(c) PROVE QueueInv'
    BY <2>23 DEF ClaimRefused, Allows, Goto
  <2>24. ASSUME NEW c \in Clients, Leave(c) PROVE QueueInv'
    BY <2>24 DEF Leave, Goto
  <2>25. ASSUME NEW c \in Clients, Removed(c) PROVE QueueInv'
    BY <2>25 DEF Removed, ReleaseClaim, Goto
  <2>26. ASSUME NEW w \in Writers, ReadInput(w) PROVE QueueInv'
    BY <2>26 DEF ReadInput, Checked, Allows, Goto, Gone, Alive
  <2>27. ASSUME NEW w \in Writers, WriteStarts(w) PROVE QueueInv'
    BY <2>27 DEF WriteStarts, Goto
  <2>28. ASSUME NEW w \in Writers, WriteEnds(w) PROVE QueueInv'
    BY <2>28 DEF WriteEnds, Goto, Gone
  <2>29. CASE CloseBegins
    BY <2>29 DEF CloseBegins
  <2>30. ASSUME NEW e \in Endpoints, CloseChannel(e) PROVE QueueInv'
    BY <2>30 DEF CloseChannel
  <2>31. ASSUME NEW e \in Endpoints, ClosePort(e) PROVE QueueInv'
    BY <2>31 DEF ClosePort
  <2>32. CASE CloseClients
    BY <2>32 DEF CloseClients
  <2>33. CASE Closed
    BY <2>33 DEF Closed
  <2>34. CASE UNCHANGED vars
    BY <2>34 DEF vars
  <2>35. QED
    BY <2>1, <2>2, <2>3, <2>4, <2>5, <2>6, <2>7, <2>8, <2>9, <2>10, <2>11, <2>12, <2>13,
       <2>14, <2>15, <2>16, <2>17, <2>18, <2>19, <2>20, <2>21, <2>22, <2>23, <2>24,
       <2>25, <2>26, <2>27, <2>28, <2>29, <2>30, <2>31, <2>32, <2>33, <2>34
    DEF Next, Step, ReadLoop, HubStep, HubWriter, ClientStep, WriterStep, Closing
<1>3. QED
  BY <1>1, <1>2, TypeCorrect, PTL DEF Spec

(* A client that is gone holds neither the claim nor the lock.             *)
THEOREM DepartedHoldsNothingHolds == Spec => []DepartedHoldsNothing
<1>1. LineInv => DepartedHoldsNothing
  BY DEF LineInv, DepartedHoldsNothing, Writers
<1>2. QED
  BY <1>1, LineInvCorrect, PTL

(* At most one chunk of each other writer is on the line under a claim.    *)
THEOREM StrayBoundedHolds == Spec => []StrayBounded
<1>1. LineInv => StrayBounded
  BY DEF LineInv, StrayBounded
<1>2. QED
  BY <1>1, LineInvCorrect, PTL

(* A bridge that has returned holds no port and owes no chunk.             *)
THEOREM ReturnedHoldsNothingHolds == Spec => []ReturnedHoldsNothing
<1>1. CloseInv => ReturnedHoldsNothing
  BY DEF CloseInv, ReturnedHoldsNothing
<1>2. QED
  BY <1>1, CloseInvCorrect, PTL

(* What is gone, a client or the bridge itself, holds nothing.             *)
THEOREM GoneHoldsNothingHolds == Spec => []GoneHoldsNothing
<1>1. ReturnedHoldsNothing /\ DepartedHoldsNothing => GoneHoldsNothing
  BY DEF GoneHoldsNothing
<1>2. QED
  BY <1>1, ReturnedHoldsNothingHolds, DepartedHoldsNothingHolds, PTL

(* The bridge implements the fan-out.                                      *)
THEOREM BridgeRefinesFanOut == Spec => BridgeFansOut
<1>1. Init => Fan!FanInit
  BY DEF Init, Fan!FanInit
<1>2. TypeOK /\ QueueInv /\ [Next]_vars => [Fan!FanNext]_(Fan!fanVars)
  <2> SUFFICES ASSUME TypeOK, QueueInv, [Next]_vars PROVE [Fan!FanNext]_(Fan!fanVars)
    OBVIOUS
  <2> USE DEF Fan!fanVars, TypeOK
  <2>1. ASSUME NEW p \in Endpoints \cup {Device}, OpenPort(p) PROVE [Fan!FanNext]_(Fan!fanVars)
    BY <2>1 DEF OpenPort
  <2>2. CASE OpenFails
    BY <2>2 DEF OpenFails
  <2>3. CASE Start
    BY <2>3 DEF Start
  <2>4. CASE ReadDevice
    <3>1. Fan!Say
      BY <2>4 DEF ReadDevice, Fan!Say
    <3>2. QED
      BY <3>1 DEF Fan!FanNext
  <2>5. CASE ReadFails
    BY <2>5 DEF ReadFails
  <2>6. CASE HubServed
    BY <2>6 DEF HubServed
  <2>7. ASSUME NEW e \in Endpoints, HubEnqueue(e) PROVE [Fan!FanNext]_(Fan!fanVars)
    BY <2>7 DEF HubEnqueue
  <2>8. ASSUME NEW e \in Endpoints, HubPanics(e) PROVE [Fan!FanNext]_(Fan!fanVars)
    BY <2>8 DEF HubPanics
  <2>9. CASE RouteToOwner
    BY <2>9 DEF RouteToOwner
  <2>10. CASE RouteToAll
    BY <2>10 DEF RouteToAll
  <2>11. CASE Snapshot
    BY <2>11 DEF Snapshot
  <2>12. ASSUME NEW c \in Clients, Send(c) PROVE [Fan!FanNext]_(Fan!fanVars)
    BY <2>12 DEF Send
  <2>13. ASSUME NEW c \in Clients, SendFails(c) PROVE [Fan!FanNext]_(Fan!fanVars)
    BY <2>13 DEF SendFails
  <2>14. CASE Sent
    BY <2>14 DEF Sent
  <2>15. ASSUME NEW e \in Endpoints, HubTakes(e) PROVE [Fan!FanNext]_(Fan!fanVars)
    BY <2>15 DEF HubTakes
  <2>16. ASSUME NEW e \in Endpoints, HubWritten(e) PROVE [Fan!FanNext]_(Fan!fanVars)
    <3>1. CASE heard' = heard
      BY <2>16, <3>1 DEF HubWritten
    <3>2. CASE heard' = [heard EXCEPT ![e] = Append(@, writing[e])]
      <4>1. writing[e] \in 1 .. said
        BY <2>16 DEF HubWritten, QueueInv, QueueOf, Older
      <4>2. \A i \in DOMAIN heard[e] : heard[e][i] < writing[e]
        BY <2>16 DEF HubWritten, QueueInv, QueueOf
      <4>3. Fan!Hear(e)
        BY <2>16, <3>2, <4>1, <4>2 DEF HubWritten, Fan!Hear
      <4>4. QED
        BY <4>3 DEF Fan!FanNext
    <3>3. QED
      BY <2>16, <3>1, <3>2 DEF HubWritten
  <2>17. ASSUME NEW e \in Endpoints, HubReturns(e) PROVE [Fan!FanNext]_(Fan!fanVars)
    BY <2>17 DEF HubReturns
  <2>18. ASSUME NEW c \in Clients, Accept(c) PROVE [Fan!FanNext]_(Fan!fanVars)
    BY <2>18 DEF Accept
  <2>19. ASSUME NEW c \in Clients, AddClient(c) PROVE [Fan!FanNext]_(Fan!fanVars)
    BY <2>19 DEF AddClient
  <2>20. ASSUME NEW c \in Clients, HangUp(c) PROVE [Fan!FanNext]_(Fan!fanVars)
    BY <2>20 DEF HangUp
  <2>21. ASSUME NEW c \in Clients, ReadClaim(c) PROVE [Fan!FanNext]_(Fan!fanVars)
    BY <2>21 DEF ReadClaim
  <2>22. ASSUME NEW c \in Clients, ClaimGranted(c) PROVE [Fan!FanNext]_(Fan!fanVars)
    BY <2>22 DEF ClaimGranted
  <2>23. ASSUME NEW c \in Clients, ClaimRefused(c) PROVE [Fan!FanNext]_(Fan!fanVars)
    BY <2>23 DEF ClaimRefused
  <2>24. ASSUME NEW c \in Clients, Leave(c) PROVE [Fan!FanNext]_(Fan!fanVars)
    BY <2>24 DEF Leave
  <2>25. ASSUME NEW c \in Clients, Removed(c) PROVE [Fan!FanNext]_(Fan!fanVars)
    BY <2>25 DEF Removed
  <2>26. ASSUME NEW w \in Writers, ReadInput(w) PROVE [Fan!FanNext]_(Fan!fanVars)
    BY <2>26 DEF ReadInput
  <2>27. ASSUME NEW w \in Writers, WriteStarts(w) PROVE [Fan!FanNext]_(Fan!fanVars)
    BY <2>27 DEF WriteStarts
  <2>28. ASSUME NEW w \in Writers, WriteEnds(w) PROVE [Fan!FanNext]_(Fan!fanVars)
    BY <2>28 DEF WriteEnds
  <2>29. CASE CloseBegins
    BY <2>29 DEF CloseBegins
  <2>30. ASSUME NEW e \in Endpoints, CloseChannel(e) PROVE [Fan!FanNext]_(Fan!fanVars)
    BY <2>30 DEF CloseChannel
  <2>31. ASSUME NEW e \in Endpoints, ClosePort(e) PROVE [Fan!FanNext]_(Fan!fanVars)
    BY <2>31 DEF ClosePort
  <2>32. CASE CloseClients
    BY <2>32 DEF CloseClients
  <2>33. CASE Closed
    BY <2>33 DEF Closed
  <2>34. CASE UNCHANGED vars
    BY <2>34 DEF vars
  <2>35. QED
    BY <2>1, <2>2, <2>3, <2>4, <2>5, <2>6, <2>7, <2>8, <2>9, <2>10, <2>11, <2>12, <2>13,
       <2>14, <2>15, <2>16, <2>17, <2>18, <2>19, <2>20, <2>21, <2>22, <2>23, <2>24,
       <2>25, <2>26, <2>27, <2>28, <2>29, <2>30, <2>31, <2>32, <2>33, <2>34
    DEF Next, Step, ReadLoop, HubStep, HubWriter, ClientStep, WriterStep, Closing
<1>3. QED
  BY <1>1, <1>2, TypeCorrect, QueueInvCorrect, PTL DEF Spec, BridgeFansOut, Fan!FanSpec
=============================================================================
