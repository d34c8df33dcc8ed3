------------------------- MODULE ShellTransferProofs -------------------------
(***************************************************************************)
(* Theorems about ShellTransfer, for any number of transfers, pieces of    *)
(* output and items on the wire, and any size of what the panel holds: who *)
(* gets the keyboard and when.                                             *)
(***************************************************************************)
EXTENDS ShellTransfer, TLAPS

\* The pieces among the items of the wire, when some come or go.
LEMMA TextsOfOne ==
    \A item : Texts(<<item>>) = IF item.kind = "text" THEN {item.n} ELSE {}
BY DEF Texts

LEMMA TextsAppend ==
    ASSUME NEW items \in Seq(Items), NEW item \in Items
    PROVE  Texts(Append(items, item)) = Texts(items) \cup Texts(<<item>>)
<1> DEFINE longer == Append(items, item)
<1>1. /\ DOMAIN longer = 1 .. Len(items) + 1 /\ DOMAIN items = 1 .. Len(items) /\ Len(items) \in Nat
      /\ \A i \in 1 .. Len(items) : longer[i] = items[i]
      /\ longer[Len(items) + 1] = item
  OBVIOUS
<1> HIDE DEF longer
<1>2. \A i : i \in DOMAIN longer <=> (i \in DOMAIN items \/ i = Len(items) + 1)
  BY <1>1
<1>3. Texts(longer) = Texts(items) \cup Texts(<<item>>)
  BY <1>1, <1>2, TextsOfOne DEF Texts
<1>4. QED
  BY <1>3 DEF longer

LEMMA TextsSplit ==
    ASSUME NEW items \in Seq(Items), NEW k \in 1 .. Len(items)
    PROVE  Texts(items) = Texts(SubSeq(items, 1, k)) \cup Texts(SubSeq(items, k + 1, Len(items)))
<1> DEFINE first == SubSeq(items, 1, k)
           rest  == SubSeq(items, k + 1, Len(items))
<1>1. /\ DOMAIN items = 1 .. Len(items) /\ Len(items) \in Nat /\ k \in Nat /\ k <= Len(items)
      /\ DOMAIN first = 1 .. k /\ DOMAIN rest = 1 .. Len(items) - k
      /\ \A i \in 1 .. k : first[i] = items[i]
      /\ \A i \in 1 .. Len(items) - k : rest[i] = items[i + k]
  OBVIOUS
<1> HIDE DEF first, rest
<1>2. Texts(first) \cup Texts(rest) \subseteq Texts(items)
  <2>1. \A i \in DOMAIN first : i \in DOMAIN items /\ first[i] = items[i]
    BY <1>1
  <2>2. \A i \in DOMAIN rest : i + k \in DOMAIN items /\ rest[i] = items[i + k]
    BY <1>1
  <2>3. QED
    BY <2>1, <2>2 DEF Texts
<1>3. ASSUME NEW i \in DOMAIN items, items[i].kind = "text"
      PROVE  items[i].n \in Texts(first) \cup Texts(rest)
  <2>1. CASE i <= k
    <3>1. i \in DOMAIN first /\ first[i] = items[i]
      BY <1>1, <2>1
    <3>2. QED
      BY <1>3, <3>1 DEF Texts
  <2>2. CASE ~(i <= k)
    <3>1. i - k \in DOMAIN rest /\ rest[i - k] = items[(i - k) + k] /\ (i - k) + k = i
      BY <1>1, <2>2
    <3>2. QED
      BY <1>3, <3>1 DEF Texts
  <2>3. QED
    BY <2>1, <2>2
<1>4. Texts(items) \subseteq Texts(first) \cup Texts(rest)
  BY <1>3 DEF Texts
<1>5. QED
  BY <1>2, <1>4 DEF first, rest

LEMMA TextsTypes ==
    ASSUME NEW items \in Seq(Items)
    PROVE  Texts(items) \subseteq 1 .. MaxText
<1>1. \A item \in Items : item.kind = "text" => item.n \in 1 .. MaxText
  BY DEF Items, Text, Header, Notice
<1>2. QED
  BY <1>1 DEF Texts

LEMMA TextsHeadTail ==
    ASSUME NEW items \in Seq(Items), items # << >>
    PROVE  /\ Head(items) \in Items /\ Tail(items) \in Seq(Items)
           /\ Texts(items) = Texts(<<Head(items)>>) \cup Texts(Tail(items))
           /\ Texts(<<Head(items)>>) \subseteq 1 .. MaxText
<1> DEFINE rest == Tail(items)
<1>1. /\ Head(items) \in Items /\ rest \in Seq(Items)
      /\ DOMAIN items = 1 .. Len(items) /\ Len(items) \in Nat /\ Len(items) > 0
      /\ DOMAIN rest = 1 .. Len(items) - 1 /\ \A i \in 1 .. Len(items) - 1 : rest[i] = items[i + 1]
      /\ Head(items) = items[1]
  OBVIOUS
<1> HIDE DEF rest
<1>2. \A i \in DOMAIN rest : i + 1 \in DOMAIN items /\ rest[i] = items[i + 1]
  BY <1>1
<1>3. ASSUME NEW i \in DOMAIN items, items[i].kind = "text"
      PROVE  items[i].n \in Texts(<<Head(items)>>) \cup Texts(rest)
  <2>1. CASE i = 1
    BY <1>1, <1>3, <2>1, TextsOfOne
  <2>2. CASE i # 1
    <3>1. i - 1 \in DOMAIN rest /\ rest[i - 1] = items[(i - 1) + 1] /\ (i - 1) + 1 = i
      BY <1>1, <2>2
    <3>2. QED
      BY <1>3, <3>1 DEF Texts
  <2>3. QED
    BY <2>1, <2>2
<1>4. Texts(items) \subseteq Texts(<<Head(items)>>) \cup Texts(rest)
  BY <1>3 DEF Texts
<1>5. Texts(<<Head(items)>>) \subseteq Texts(items)
  <2>1. 1 \in DOMAIN items
    BY <1>1
  <2>2. Head(items).kind = "text" => Head(items).n \in Texts(items)
    BY <1>1, <2>1 DEF Texts
  <2>3. QED
    BY <2>2, TextsOfOne
<1>6. Texts(rest) \subseteq Texts(items)
  BY <1>2 DEF Texts
<1>7. Texts(items) \subseteq 1 .. MaxText
  BY TextsTypes
<1>8. QED
  BY <1>1, <1>4, <1>5, <1>6, <1>7 DEF rest

\* A read is dropped with the header in it.
LEMMA ReadDropped ==
    ASSUME wire \in Seq(Items), DropsRead
    PROVE  \E k \in 1 .. Len(wire) :
              /\ wire' = SubSeq(wire, k + 1, Len(wire)) /\ wire' \in Seq(Items)
              /\ \A i \in DOMAIN wire' : i \in Nat /\ i > 0 /\ i + k \in DOMAIN wire /\ wire'[i] = wire[i + k]
              /\ Texts(wire) = Texts(SubSeq(wire, 1, k)) \cup Texts(wire')
              /\ Texts(SubSeq(wire, 1, k)) \subseteq 1 .. MaxText
              /\ missed' = missed \cup Texts(SubSeq(wire, 1, k))
<1>1. PICK k \in 1 .. Len(wire) :
          wire' = SubSeq(wire, k + 1, Len(wire)) /\ missed' = missed \cup Texts(SubSeq(wire, 1, k))
  BY DEF DropsRead
<1>2. wire' \in Seq(Items) /\ SubSeq(wire, 1, k) \in Seq(Items)
  BY <1>1
<1>3. \A i \in DOMAIN wire' : i \in Nat /\ i > 0 /\ i + k \in DOMAIN wire /\ wire'[i] = wire[i + k]
  BY <1>1
<1>4. Texts(wire) = Texts(SubSeq(wire, 1, k)) \cup Texts(wire')
  BY <1>1, TextsSplit
<1>5. Texts(SubSeq(wire, 1, k)) \subseteq 1 .. MaxText
  BY <1>2, TextsTypes
<1>6. QED
  BY <1>1, <1>2, <1>3, <1>4, <1>5

\* A goroutine that is in a transfer, or ends one, has started one.
Started == reader # "read" => started > 0

(* Every variable keeps its type, and the panel holds no more than it has  *)
(* room for (shellPanel.deviceOutput).                                     *)
THEOREM TypeCorrect == Spec => [](TypeOK /\ Started)
<1> USE ShellAssumption DEF TypeOK, Started, Transfers, Goroutines, Other, NoClaim, Shell
<1>1. Init => TypeOK /\ Started
  <2> SUFFICES ASSUME Init PROVE TypeOK /\ Started
    OBVIOUS
  <2>1. /\ others \in BOOLEAN /\ holding \in BOOLEAN /\ released \in BOOLEAN
        /\ handed \in BOOLEAN /\ paused \in BOOLEAN /\ active \in BOOLEAN /\ raw \in BOOLEAN
        /\ inTransfer \in BOOLEAN
    BY Zenon DEF Init
  <2>2. QED
    BY <2>1 DEF Init
<1>2. TypeOK /\ Started /\ [Next]_vars => (TypeOK /\ Started)'
  <2> SUFFICES ASSUME TypeOK, Started, [Next]_vars PROVE (TypeOK /\ Started)'
    OBVIOUS
  <2> USE DEF workerVars, flagVars, panelVars, gateVars, inputVars
  <2>1. \A n \in 1 .. MaxText : Text(n) \in Items
    BY DEF Items
  <2>2. Header \in Items /\ \A t \in 0 .. MaxTransfers : Notice(t) \in Items
    BY DEF Items
  <2>3. \A item \in Items : item.kind = "text" => item.n \in 1 .. MaxText
    BY DEF Items, Text, Header, Notice
  <2>4. wire # << >> => Head(wire) \in Items /\ Tail(wire) \in Seq(Items)
    OBVIOUS
  <2>5. ASSUME NEW n \in 1 .. MaxText, PanelTakes(n)
        PROVE  /\ held' \in Seq(1 .. MaxText) /\ Len(held') <= HoldMax
               /\ shown' \in Seq(1 .. MaxText) /\ dropped' \subseteq 1 .. MaxText
    <3>1. /\ Append(held, n) \in Seq(1 .. MaxText) /\ Len(Append(held, n)) = Len(held) + 1
          /\ Append(shown, n) \in Seq(1 .. MaxText)
      OBVIOUS
    <3>2. \A h \in Seq(1 .. MaxText) :
             Len(h) > 0 => /\ Tail(h) \in Seq(1 .. MaxText) /\ Len(Tail(h)) = Len(h) - 1
                           /\ Head(h) \in 1 .. MaxText
      OBVIOUS
    <3>3. CASE panel \notin {"last", "summary"}
      BY <2>5, <3>1, <3>3 DEF PanelTakes
    <3>4. CASE panel \in {"last", "summary"} /\ Len(held) < HoldMax
      <4>1. held' = Append(held, n) /\ dropped' = dropped /\ shown' = shown
        BY <2>5, <3>4 DEF PanelTakes
      <4>2. QED
        BY <3>1, <3>4, <4>1
    <3>5. CASE panel \in {"last", "summary"} /\ ~(Len(held) < HoldMax)
      <4> DEFINE longer == Append(held, n)
      <4>1. held' = Tail(longer) /\ dropped' = dropped \cup {Head(longer)} /\ shown' = shown
        BY <2>5, <3>5 DEF PanelTakes
      <4>2. longer \in Seq(1 .. MaxText) /\ Len(longer) = Len(held) + 1 /\ Len(held) \in Nat
        BY <3>1
      <4> HIDE DEF longer
      <4>3. /\ Tail(longer) \in Seq(1 .. MaxText) /\ Len(Tail(longer)) = Len(held)
            /\ Head(longer) \in 1 .. MaxText
        BY <3>2, <4>2
      <4>4. QED
        BY <4>1, <4>3
    <3>6. QED
      BY <3>3, <3>4, <3>5
  <2>6. CASE DeviceSends
    <3>1. CASE sent < MaxText /\ Arrives(Text(sent + 1)) /\ sent' = sent + 1
      <4>1. sent + 1 \in 1 .. MaxText /\ sent' \in 0 .. MaxText
        BY <3>1
      <4>2. wire' \in Seq(Items)
        BY <2>1, <3>1, <4>1 DEF Arrives
      <4>3. QED
        BY <2>6, <4>1, <4>2 DEF DeviceSends
    <3>2. CASE Arrives(Header) /\ sent' = sent
      <4>1. wire' \in Seq(Items)
        BY <2>2, <3>2 DEF Arrives
      <4>2. QED
        BY <2>6, <3>2, <4>1 DEF DeviceSends
    <3>3. QED
      BY <2>6, <3>1, <3>2 DEF DeviceSends
  <2>7. CASE OtherClaims
    BY <2>7 DEF OtherClaims
  <2>8. ASSUME NEW t \in {Other} \cup Transfers, ClaimEnds(t) PROVE (TypeOK /\ Started)'
    BY <2>8 DEF ClaimEnds
  <2>9. ASSUME NEW t \in {Other} \cup Transfers, NoticeOthers(t) PROVE (TypeOK /\ Started)'
    BY <2>2, <2>9 DEF NoticeOthers, Arrives
  <2>10. CASE Begin
    BY <2>10 DEF Begin
  <2>11. CASE Reset
    BY <2>11 DEF Reset
  <2>12. CASE Opens
    <3>1. panel' \in {"none", "up", "last", "summary", "closed"} /\ raw' \in BOOLEAN /\ inTransfer' \in BOOLEAN
      <4>1. TRUE \in BOOLEAN
        BY Zenon
      <4>2. QED
        BY <2>12, <4>1, Zenon DEF Opens
    <3>2. /\ UNCHANGED <<workerVars, started, flagVars, paused, held, shown, dropped, missed>>
          /\ UNCHANGED <<gateVars, hand, commits>>
      BY <2>12, Zenon DEF Opens
    <3>3. started > 0 /\ reader' = "run"
      BY <2>12 DEF Opens
    <3>4. QED
      BY <3>1, <3>2, <3>3
  <2>13. CASE Holds
    BY <2>13 DEF Holds
  <2>14. CASE Finish
    BY <2>14 DEF Finish
  <2>15. CASE Claims
    BY <2>15 DEF Claims, Running
  <2>16. CASE PhaseFinish
    BY <2>16 DEF PhaseFinish, Running
  <2>17. CASE DeviceText
    <3>1. sent + 1 \in 1 .. MaxText
      BY <2>17 DEF DeviceText
    <3>2. PanelTakes(sent + 1)
      BY <2>17 DEF DeviceText
    <3>3. QED
      BY <2>5, <2>17, <3>1, <3>2 DEF DeviceText
  <2>18. CASE Asks
    BY <2>18 DEF Asks, Running
  <2>19. CASE Answered
    <3>1. paused' \in BOOLEAN /\ raw' \in BOOLEAN /\ line' = "none"
      BY <2>19, Zenon DEF Answered
    <3>2. /\ UNCHANGED <<workerVars, reader, started, flagVars, panel, held, shown, dropped>>
          /\ UNCHANGED <<missed, active, dismiss, closedCh, hand, commits, inTransfer>>
      BY <2>19, Zenon DEF Answered
    <3>3. QED
      BY <3>1, <3>2
  <2>20. CASE GivenUp
    <3>1. paused' \in BOOLEAN /\ raw' \in BOOLEAN
      BY <2>20, Zenon DEF GivenUp
    <3>2. QED
      BY <2>20, <3>1 DEF GivenUp
  <2>21. CASE RunReturns
    <3>1. started \in Transfers
      BY <2>21 DEF RunReturns, Running
    <3>2. reader' \in {"skip", "holds"} /\ leaving' \subseteq Transfers
      BY <2>21, <3>1 DEF RunReturns
    <3>3. /\ UNCHANGED <<wire, sent, claim, ending, others, started, flagVars>>
          /\ UNCHANGED <<panelVars, gateVars, hand, commits, inputVars>>
      BY <2>21 DEF RunReturns
    <3>4. QED
      BY <3>1, <3>2, <3>3
  <2>22. CASE Skips
    <3>1. wire' \in Seq(Items) /\ missed' \subseteq 1 .. MaxText
      BY <2>22, TextsHeadTail DEF Skips, Reads
    <3>2. QED
      BY <2>22, <3>1 DEF Skips
  <2>23. CASE NoticeFound
    <3>1. wire' \in Seq(Items) /\ Releases(Head(wire).n)
      BY <2>4, <2>23 DEF NoticeFound, Reads
    <3>2. released' \in BOOLEAN
      BY <3>1, Zenon DEF Releases
    <3>3. started \in Transfers
      BY <2>23 DEF NoticeFound
    <3>4. early' \subseteq Transfers /\ reader' = "hands"
      BY <3>1, <3>3 DEF Releases
    <3>5. QED
      BY <2>23, <3>1, <3>2, <3>4 DEF NoticeFound, Releases
  <2>24. CASE ReleaseTimeout
    <3>1. Releases(Other)
      BY <2>24 DEF ReleaseTimeout
    <3>2. released' \in BOOLEAN
      BY <3>1, Zenon DEF Releases
    <3>3. started \in Transfers
      BY <2>24 DEF ReleaseTimeout
    <3>4. early' \subseteq Transfers /\ reader' = "hands"
      BY <3>1, <3>3 DEF Releases
    <3>5. QED
      BY <2>24, <3>1, <3>2, <3>4 DEF ReleaseTimeout, Releases
  <2>25. CASE Shows
    <3>1. CASE Head(wire).kind = "text"
      <4>1. Head(wire).n \in 1 .. MaxText /\ PanelTakes(Head(wire).n)
        BY <2>3, <2>4, <2>25, <3>1 DEF Shows, Reads
      <4>2. QED
        BY <2>4, <2>5, <2>25, <3>1, <4>1 DEF Shows, Reads
    <3>2. CASE Head(wire).kind # "text"
      <4>1. wire' \in Seq(Items)
        BY <2>4, <2>25 DEF Shows, Reads
      <4>2. UNCHANGED <<held, shown, dropped, missed>>
        BY <2>25, <3>2 DEF Shows
      <4>3. QED
        BY <2>25, <4>1, <4>2 DEF Shows
    <3>3. QED
      BY <3>1, <3>2
  <2>a. DropsRead => wire' \in Seq(Items) /\ missed' \subseteq 1 .. MaxText
    BY ReadDropped
  <2>26. CASE HeaderIgnored
    BY <2>a, <2>26 DEF HeaderIgnored
  <2>27. CASE HeaderFound
    BY <2>a, <2>27 DEF HeaderFound
  <2>28. CASE ReadsOn
    BY <2>28 DEF ReadsOn
  <2>29. ASSUME NEW a \in Goroutines, HandSteps(a) PROVE (TypeOK /\ Started)'
    <3>1. CASE HandBack(a)
      <4>1. handed' \in BOOLEAN
        BY <3>1, Zenon DEF HandBack
      <4>2. QED
        BY <3>1, <4>1 DEF HandBack
    <3>2. CASE GateEnd(a)
      <4>1. active' \in BOOLEAN
        BY <3>2, Zenon DEF GateEnd
      <4>2. QED
        BY <3>2, <4>1 DEF GateEnd
    <3>3. CASE InputBack(a)
      <4>1. raw' \in BOOLEAN /\ inTransfer' \in BOOLEAN
        BY <3>3, Zenon DEF InputBack
      <4>2. QED
        <5>1. hand' \in [Goroutines -> {"none", "waits", "unholds", "ready", "opens", "opensRaw",
                                       "prompts", "promptsRaw", "done"}]
          BY <3>3 DEF InputBack
        <5>2. /\ UNCHANGED <<workerVars, reader, started, flagVars, panelVars, gateVars, commits>>
          BY <3>3 DEF InputBack
        <5>3. QED
          BY <4>1, <5>1, <5>2
    <3>4. CASE ClosePanel(a)
      BY <3>4 DEF ClosePanel
    <3>5. CASE Unholds(a)
      <4>1. holding' \in BOOLEAN
        BY <3>5, Zenon DEF Unholds
      <4>2. QED
        BY <3>5, <4>1 DEF Unholds
    <3>6. QED
      BY <2>29, <3>1, <3>2, <3>3, <3>4, <3>5 DEF HandSteps
  <2>30. CASE Dismisses
    BY <2>30 DEF Dismisses
  <2>31. CASE TypesLine
    BY <2>31 DEF TypesLine
  <2>32. CASE UNCHANGED vars
    BY <2>32 DEF vars
  <2>33. QED
    BY <2>6, <2>7, <2>8, <2>9, <2>10, <2>11, <2>12, <2>13, <2>14, <2>15, <2>16, <2>17, <2>18,
       <2>19, <2>20, <2>21, <2>22, <2>23, <2>24, <2>25, <2>26, <2>27, <2>28, <2>29, <2>30,
       <2>31, <2>32
       DEF Next, StartSteps, Session, ReadSteps
<1>3. QED
  BY <1>1, <1>2, PTL DEF Spec

-----------------------------------------------------------------------------
(* Who hands the keyboard back. Overtakes = FALSE: no transfer starts      *)
(* while the one before is between its decision and the last step of its   *)
(* hand-back.                                                              *)

Opening == {"opens", "opensRaw", "prompts", "promptsRaw"}

\* Only the dismisser of the latest transfer and the reader are at work, and
\* holding is set as long as the summary waits.
AtWork ==
    /\ \A t \in Transfers :
          /\ t > started => hand[t] = "none"
          /\ t < started => hand[t] \in {"none", "done"}
          /\ t = started /\ hand[t] # "none" => reader \in {"skip", "hands", "read"}
          /\ hand[t] \in {"waits", "unholds"} => holding
    /\ hand[Shell] # "none" => reader = "hands"
    /\ hand[Shell] \notin {"waits", "unholds"}
    /\ holding /\ reader \in {"skip", "hands", "read"} => hand[started] \in {"waits", "unholds"}
    /\ reader \in {"found", "begun", "reset", "run", "holds"} => ~holding
    /\ reader = "finishes" => holding

\* Who opens the gate does so after the release, once for a transfer.
Released ==
    /\ released => started > 0 /\ reader \in {"hands", "read", "found", "begun"}
    /\ reader \in {"hands", "read"} /\ started > 0 => released
    /\ \A a \in Goroutines : hand[a] \in Opening => released /\ handed /\ ~holding

Counted ==
    /\ commits <= started
    /\ started > 0 /\ (reader \in {"found", "begun"} \/ ~handed) => commits < started

HandInv == AtWork /\ Released /\ Counted

handVars == <<reader, started, holding, released, handed, hand, commits>>

(* release and handBack agree with the reader: whoever finds that handed   *)
(* is set leaves, and what is counted as handed back has been.             *)
THEOREM HandInvCorrect == ~Overtakes => (Spec => []HandInv)
<1> SUFFICES ASSUME ~Overtakes PROVE Spec => []HandInv
  OBVIOUS
<1> USE ShellAssumption DEF Transfers, Goroutines, Other, Shell
<1>1. Init => HandInv
  BY DEF Init, HandInv, AtWork, Released, Counted, Opening
<1>2. TypeOK /\ Started /\ HandInv /\ [Next]_vars => HandInv'
  <2> SUFFICES ASSUME TypeOK, Started, HandInv, [Next]_vars PROVE HandInv'
    OBVIOUS
  <2> USE DEF HandInv, AtWork, Released, Counted, Opening, Started, flagVars
  <2>0. /\ started \in 0 .. MaxTransfers /\ commits \in Nat
        /\ hand \in [Goroutines -> {"none", "waits", "unholds", "ready", "opens", "opensRaw",
                                    "prompts", "promptsRaw", "done"}]
    BY DEF TypeOK
  <2>1. CASE UNCHANGED handVars
    BY <2>1 DEF handVars
  <2>2. CASE DeviceSends \/ OtherClaims \/ Dismisses \/ TypesLine
    BY <2>1, <2>2 DEF DeviceSends, OtherClaims, Dismisses, TypesLine, handVars
  <2>3. ASSUME NEW t \in {Other} \cup Transfers, ClaimEnds(t) \/ NoticeOthers(t) PROVE HandInv'
    BY <2>1, <2>3 DEF ClaimEnds, NoticeOthers, handVars
  <2>4. CASE Begin
    BY <2>4, <2>0 DEF Begin
  <2>5. CASE Reset
    BY <2>5, <2>0 DEF Reset
  <2>6. CASE Opens
    BY <2>6, <2>0 DEF Opens
  <2>7. CASE Holds
    BY <2>7, <2>0 DEF Holds
  <2>8. CASE Finish
    BY <2>8, <2>0 DEF Finish
  <2>9. CASE Claims \/ PhaseFinish \/ DeviceText \/ Asks \/ Answered \/ GivenUp
    BY <2>1, <2>9 DEF Claims, PhaseFinish, DeviceText, Asks, Answered, GivenUp, handVars
  <2>10. CASE RunReturns
    BY <2>10, <2>0 DEF RunReturns, Running
  <2>11. CASE Skips \/ Shows \/ HeaderIgnored
    BY <2>1, <2>11 DEF Skips, Shows, HeaderIgnored, DropsRead, handVars
  <2>12. CASE NoticeFound
    BY <2>12, <2>0 DEF NoticeFound, Releases
  <2>13. CASE ReleaseTimeout
    BY <2>13, <2>0 DEF ReleaseTimeout, Releases
  <2>14. CASE HeaderFound
    BY <2>14, <2>0 DEF HeaderFound, DropsRead, HandsBack
  <2>15. CASE ReadsOn
    BY <2>15, <2>0 DEF ReadsOn
  <2>16. ASSUME NEW a \in Goroutines, HandSteps(a) PROVE HandInv'
    <3>1. CASE HandBack(a)
      BY <3>1, <2>0 DEF HandBack
    <3>2. CASE GateEnd(a)
      BY <3>2, <2>0 DEF GateEnd
    <3>3. CASE InputBack(a)
      BY <3>3, <2>0 DEF InputBack
    <3>4. CASE ClosePanel(a) /\ a # Shell
      BY <3>4, <2>0 DEF ClosePanel
    <3>5. CASE Unholds(a) /\ a # Shell
      BY <3>5, <2>0 DEF Unholds
    <3>6. QED
      BY <2>16, <3>1, <3>2, <3>3, <3>4, <3>5 DEF HandSteps
  <2>17. CASE UNCHANGED vars
    BY <2>1, <2>17 DEF vars, handVars
  <2>18. QED
    BY <2>2, <2>3, <2>4, <2>5, <2>6, <2>7, <2>8, <2>9, <2>10, <2>11, <2>12, <2>13, <2>14, <2>15,
       <2>16, <2>17
       DEF Next, StartSteps, Session, ReadSteps
<1>3. QED
  BY <1>1, <1>2, TypeCorrect, PTL DEF Spec

(* handBack gives the keyboard back at most once for a transfer, however   *)
(* the notice, the time-out and Enter meet.                                *)
THEOREM HandedOnceHolds == ~Overtakes => (Spec => []HandedOnce)
<1>1. HandInv => HandedOnce
  BY DEF HandInv, Counted, HandedOnce
<1>2. QED
  BY <1>1, HandInvCorrect, PTL

-----------------------------------------------------------------------------
(* What the worker's claim has to do with the place of the reader, and the *)
(* gate with both.                                                         *)

AfterRun == {"holds", "finishes", "skip", "hands", "read"}

\* A connection that is being closed holds the claim; any other claim of the
\* shell is that of the session that runs.
Leaving ==
    /\ leaving \subseteq {claim}
    /\ claim \in Transfers => claim \in leaving \/ (claim = started /\ reader = "run")
    /\ claim \in leaving /\ claim = started => reader \in AfterRun

\* A notice of the latest transfer follows the end of its claim.
Noticed ==
    /\ \A t \in ending : t <= started
    /\ started > 0 /\ started \in ending => claim # started /\ reader \in AfterRun
    /\ \A i \in DOMAIN wire :
          /\ wire[i].kind = "notice" => wire[i].n <= started
          /\ started > 0 /\ wire[i] = Notice(started) => claim # started /\ reader \in AfterRun

\* A claim outlives its transfer's release only if that came early.
Claimed ==
    claim \in Transfers =>
        /\ claim <= started
        /\ claim # started => claim \in early
        /\ claim = started /\ reader \in {"hands", "read"} => claim \in early
        /\ claim = started => reader \in AfterRun \cup {"run"}

ClaimInv == Leaving /\ Noticed /\ Claimed

GateInv ==
    /\ reader \in {"begun", "reset"} => active
    /\ InSession => active /\ inTransfer

claimVars == <<wire, claim, leaving, ending, reader, started, early>>

(* A transfer's claim at the worker lasts from its start in the reader to  *)
(* the end of its connection, and its notice comes after that.             *)
THEOREM ClaimInvCorrect == Spec => []ClaimInv
<1> USE ShellAssumption DEF Transfers, Goroutines, Other, NoClaim, Shell, AfterRun
<1>1. Init => ClaimInv
  BY DEF Init, ClaimInv, Leaving, Noticed, Claimed
<1>2. TypeOK /\ Started /\ ClaimInv /\ [Next]_vars => ClaimInv'
  <2> SUFFICES ASSUME TypeOK, Started, ClaimInv, [Next]_vars PROVE ClaimInv'
    OBVIOUS
  <2> USE DEF ClaimInv, Leaving, Noticed, Claimed, Started, flagVars, workerVars
  <2>0. /\ started \in 0 .. MaxTransfers /\ claim \in 0 .. MaxTransfers + 1
        /\ leaving \subseteq Transfers /\ ending \subseteq {Other} \cup Transfers
        /\ wire \in Seq(Items)
    BY DEF TypeOK
  <2>1. CASE UNCHANGED claimVars
    BY <2>1 DEF claimVars
  <2>2. CASE DeviceSends
    <3>1. PICK item : wire' = Append(wire, item) /\ item.kind # "notice"
      <4>1. \A n : Text(n).kind # "notice"
        BY DEF Text
      <4>2. Header.kind # "notice"
        BY DEF Header
      <4>3. QED
        BY <2>2, <4>1, <4>2 DEF DeviceSends, Arrives
    <3>2. UNCHANGED <<claim, leaving, ending, reader, started, early>>
      BY <2>2 DEF DeviceSends
    <3>3. \A i \in DOMAIN wire' : (i \in DOMAIN wire /\ wire'[i] = wire[i]) \/ wire'[i] = item
      BY <3>1, <2>0
    <3>4. Notice(started).kind = "notice"
      BY DEF Notice
    <3>5. Noticed'
      BY <3>1, <3>2, <3>3, <3>4
    <3>6. Leaving' /\ Claimed'
      BY <3>2
    <3>7. QED
      BY <3>5, <3>6
  <2>3. CASE OtherClaims
    BY <2>3, <2>0 DEF OtherClaims
  <2>4. ASSUME NEW t \in {Other} \cup Transfers, ClaimEnds(t) PROVE ClaimInv'
    BY <2>4, <2>0 DEF ClaimEnds
  <2>5. ASSUME NEW t \in {Other} \cup Transfers, NoticeOthers(t) PROVE ClaimInv'
    BY <2>5, <2>0 DEF NoticeOthers, Arrives, Notice
  <2>6. CASE Begin \/ Reset \/ Opens \/ Holds \/ Finish
    <3>1. UNCHANGED <<wire, claim, leaving, ending, started, early>>
      BY <2>6 DEF Begin, Reset, Opens, Holds, Finish
    <3>2. \/ reader = "found" /\ reader' = "begun"
          \/ reader = "begun" /\ reader' = "reset"
          \/ reader = "reset" /\ reader' = "run"
          \/ reader = "holds" /\ reader' = "finishes"
          \/ reader = "finishes" /\ reader' = "skip"
      BY <2>6 DEF Begin, Reset, Opens, Holds, Finish
    <3>3. QED
      BY <3>1, <3>2, <2>0
  <2>7. CASE Claims
    <3>1. started \in Transfers /\ reader = "run" /\ claim' = started /\ leaving = {}
      BY <2>7, <2>0 DEF Claims, Running
    <3>2. UNCHANGED <<wire, leaving, ending, reader, started, early>>
      BY <2>7 DEF Claims
    <3>3. QED
      BY <3>1, <3>2, <2>0
  <2>8. CASE PhaseFinish \/ DeviceText \/ Asks \/ Answered \/ GivenUp
    BY <2>1, <2>8 DEF PhaseFinish, DeviceText, Asks, Answered, GivenUp, claimVars
  <2>9. CASE RunReturns
    BY <2>9, <2>0 DEF RunReturns, Running
  <2>10. CASE Skips \/ Shows \/ HeaderIgnored
    <3>2. \A i \in DOMAIN wire' : \E j \in DOMAIN wire : wire'[i] = wire[j]
      <4>1. CASE HeaderIgnored
        BY <4>1, <2>0, ReadDropped DEF HeaderIgnored
      <4>2. CASE Skips \/ Shows
        <5>1. wire # << >> /\ wire' = Tail(wire)
          BY <4>2 DEF Skips, Shows, Reads
        <5>2. \A i \in DOMAIN wire' : i + 1 \in DOMAIN wire /\ wire'[i] = wire[i + 1]
          BY <5>1, <2>0
        <5>3. QED
          BY <5>2
      <4>3. QED
        BY <2>10, <4>1, <4>2
    <3>3. UNCHANGED <<claim, leaving, ending, reader, started, early>>
      BY <2>10 DEF Skips, Shows, HeaderIgnored
    <3>4. QED
      BY <3>2, <3>3
  <2>11. CASE NoticeFound
    <3>1. wire # << >> /\ Head(wire) = wire[1] /\ 1 \in DOMAIN wire /\ wire[1] \in Items
      BY <2>11, <2>0 DEF NoticeFound, Reads
    <3>2. wire[1].kind = "notice" /\ wire' = Tail(wire)
      BY <2>11, <3>1 DEF NoticeFound, Reads
    <3>3. wire[1] = Notice(wire[1].n)
      BY <3>1, <3>2 DEF Items, Text, Header, Notice
    <3>4. started > 0 /\ claim = started => started \in early'
      BY <2>11, <3>1, <3>3 DEF NoticeFound, Releases
    <3>5. early \subseteq early' /\ reader = "skip" /\ reader' = "hands"
      BY <2>11 DEF NoticeFound, Releases
    <3>6. UNCHANGED <<claim, leaving, ending, started>>
      BY <2>11 DEF NoticeFound
    <3>7. \A i \in DOMAIN wire' : i + 1 \in DOMAIN wire /\ wire'[i] = wire[i + 1]
      BY <3>1, <3>2, <2>0
    <3>8. Noticed'
      BY <3>5, <3>6, <3>7 DEF Notice
    <3>9. Leaving' /\ Claimed'
      BY <3>4, <3>5, <3>6, <2>0
    <3>10. QED
      BY <3>8, <3>9
  <2>12. CASE ReleaseTimeout
    BY <2>12, <2>0 DEF ReleaseTimeout, Releases
  <2>13. CASE HeaderFound
    <3>1. DropsRead
      BY <2>13 DEF HeaderFound
    <3>2. PICK k \in 1 .. Len(wire) :
              \A i \in DOMAIN wire' : i + k \in DOMAIN wire /\ wire'[i] = wire[i + k]
      BY <3>1, <2>0, ReadDropped
    <3>3. started' = started + 1 /\ reader = "read" /\ reader' = "found"
      BY <2>13 DEF HeaderFound, DropsRead
    <3>4. UNCHANGED <<claim, leaving, ending, early>>
      BY <2>13 DEF HeaderFound
    <3>5. \A i \in DOMAIN wire' : wire'[i].kind = "notice" => wire'[i].n <= started
      BY <3>2
    <3>6. \A i \in DOMAIN wire' : wire'[i] # Notice(started')
      BY <3>3, <3>5, <2>0 DEF Notice
    <3>7. Noticed'
      <4>1. \A item \in Items : item.n \in Nat
        BY DEF Items, Text, Header, Notice
      <4>2. \A i \in DOMAIN wire' : wire'[i].kind = "notice" => wire'[i].n <= started'
        BY <3>2, <3>3, <3>5, <4>1, <2>0
      <4>3. \A t \in ending' : t <= started' /\ t # started'
        BY <3>3, <3>4, <2>0
      <4>4. QED
        BY <3>6, <4>2, <4>3
    <3>8. Leaving' /\ Claimed'
      BY <3>3, <3>4, <2>0
    <3>9. QED
      BY <3>7, <3>8
  <2>14. CASE ReadsOn
    BY <2>14, <2>0 DEF ReadsOn
  <2>15. ASSUME NEW a \in Goroutines, HandSteps(a) PROVE ClaimInv'
    BY <2>1, <2>15 DEF HandSteps, HandBack, GateEnd, InputBack, ClosePanel, Unholds, claimVars
  <2>16. CASE Dismisses \/ TypesLine \/ UNCHANGED vars
    BY <2>1, <2>16 DEF Dismisses, TypesLine, vars, claimVars
  <2>17. QED
    BY <2>2, <2>3, <2>4, <2>5, <2>6, <2>7, <2>8, <2>9, <2>10, <2>11, <2>12, <2>13, <2>14, <2>15,
       <2>16
       DEF Next, StartSteps, Session, ReadSteps
<1>3. QED
  BY <1>1, <1>2, TypeCorrect, PTL DEF Spec

gateInvVars == <<reader, active, inTransfer>>

(* From startTransfer to the last step of the hand-back the gate is active *)
(* and the input line knows of the transfer.                               *)
THEOREM GateInvCorrect == ~Overtakes => (Spec => []GateInv)
<1> SUFFICES ASSUME ~Overtakes PROVE Spec => []GateInv
  OBVIOUS
<1> USE DEF GateInv, InSession
<1>1. Init => GateInv
  BY DEF Init
<1>2. TypeOK /\ HandInv /\ GateInv /\ [Next]_vars => GateInv'
  <2> SUFFICES ASSUME TypeOK, HandInv, GateInv, [Next]_vars PROVE GateInv'
    OBVIOUS
  <2> USE DEF gateVars, inputVars
  <2>1. ASSUME NEW a \in Goroutines, hand[a] \in Opening PROVE reader \in {"hands", "read"}
    <3>1. released
      BY <2>1 DEF HandInv, Released
    <3>2. reader \in {"skip", "hands", "read"}
      <4>1. CASE a = Shell
        BY <2>1, <4>1 DEF HandInv, AtWork, Opening
      <4>2. CASE a \in Transfers
        <5>1. a > started \/ a < started \/ a = started
          BY <4>2, ShellAssumption DEF TypeOK, Transfers
        <5>2. QED
          BY <2>1, <4>2, <5>1 DEF HandInv, AtWork, Opening
      <4>3. QED
        BY <4>1, <4>2 DEF Goroutines
    <3>3. QED
      BY <3>1, <3>2 DEF HandInv, Released
  <2>2. CASE UNCHANGED gateInvVars
    BY <2>2 DEF gateInvVars
  <2>3. CASE DeviceSends \/ OtherClaims \/ Dismisses \/ TypesLine \/ UNCHANGED vars
    BY <2>2, <2>3 DEF DeviceSends, OtherClaims, Dismisses, TypesLine, vars, gateInvVars
  <2>4. ASSUME NEW t \in {Other} \cup Transfers, ClaimEnds(t) \/ NoticeOthers(t) PROVE GateInv'
    BY <2>2, <2>4 DEF ClaimEnds, NoticeOthers, gateInvVars
  <2>5. CASE StartSteps
    BY <2>5 DEF StartSteps, Begin, Reset, Opens, Holds, Finish
  <2>6. CASE Session
    BY <2>6 DEF Session, Claims, PhaseFinish, DeviceText, Asks, Answered, GivenUp, RunReturns,
                Running
  <2>7. CASE ReadSteps \/ ReadsOn
    BY <2>7 DEF ReadSteps, ReadsOn, Skips, NoticeFound, ReleaseTimeout, Releases, Shows,
                HeaderIgnored, HeaderFound, DropsRead
  <2>8. ASSUME NEW a \in Goroutines, HandSteps(a) PROVE GateInv'
    BY <2>1, <2>8 DEF HandSteps, HandBack, GateEnd, InputBack, ClosePanel, Unholds, Opening
  <2>9. QED
    BY <2>3, <2>4, <2>5, <2>6, <2>7, <2>8 DEF Next
<1>3. QED
  BY <1>1, <1>2, TypeCorrect, HandInvCorrect, PTL DEF Spec

(* While a transfer runs, and until the worker has let go of it, no key    *)
(* goes to the device and Ctrl+C belongs to the transfer (shellGate,       *)
(* setTransfer). Where a hand-back is overtaken this fails, as the run     *)
(* shell_handback shows.                                                   *)
THEOREM KeysHeldHolds == ~Overtakes => (Spec => []KeysHeld)
<1>1. GateInv => KeysHeld
  BY DEF GateInv, KeysHeld
<1>2. QED
  BY <1>1, GateInvCorrect, PTL

(* The keyboard does not open before the worker has dropped the shell's    *)
(* claim, unless the reader went on without the notice.                    *)
THEOREM OpenMeansFreeHolds == ~Overtakes => (Spec => []OpenMeansFree)
<1>1. ClaimInv /\ GateInv => OpenMeansFree
  BY DEF ClaimInv, Claimed, AfterRun, GateInv, InSession, OpenMeansFree
<1>2. QED
  BY <1>1, ClaimInvCorrect, GateInvCorrect, PTL

-----------------------------------------------------------------------------
(* What becomes of the device's output: to the terminal, or through the    *)
(* panel. Whether a transfer overtakes a hand-back does not matter to it.  *)

Pieces == 1 .. MaxText
Out    == shown \o held

Rising(s)   == \A i, j \in DOMAIN s : i < j => s[i] < s[j]
Below(s, n) == \A i \in DOMAIN s : s[i] < n

\* One piece more, newer than all before it.
LEMMA RisingAppend ==
    ASSUME NEW s \in Seq(Pieces), NEW n \in Pieces
    PROVE  /\ Append(s, n) \in Seq(Pieces)
           /\ Rising(s) /\ Below(s, n) => Rising(Append(s, n))
           /\ \A m \in Nat : Below(s, m) /\ n < m => Below(Append(s, n), m)
<1>1. /\ Append(s, n) \in Seq(Pieces) /\ Len(Append(s, n)) = Len(s) + 1
      /\ DOMAIN Append(s, n) = 1 .. Len(s) + 1 /\ DOMAIN s = 1 .. Len(s) /\ Len(s) \in Nat
      /\ \A i \in 1 .. Len(s) : Append(s, n)[i] = s[i]
      /\ Append(s, n)[Len(s) + 1] = n
  OBVIOUS
<1> DEFINE longer == Append(s, n)
<1>2. DOMAIN longer = 1 .. Len(s) + 1 /\ (\A i \in 1 .. Len(s) : longer[i] = s[i]) /\ longer[Len(s) + 1] = n
  BY <1>1
<1> HIDE DEF longer
<1>3. ASSUME Rising(s), Below(s, n) PROVE Rising(longer)
  <2>1. ASSUME NEW i \in DOMAIN longer, NEW j \in DOMAIN longer, i < j PROVE longer[i] < longer[j]
    <3>1. i \in 1 .. Len(s) /\ longer[i] = s[i]
      BY <1>1, <1>2, <2>1
    <3>2. CASE j = Len(s) + 1
      BY <1>1, <1>2, <1>3, <3>1, <3>2 DEF Below
    <3>3. CASE j # Len(s) + 1
      <4>1. j \in 1 .. Len(s) /\ longer[j] = s[j]
        BY <1>1, <1>2, <3>3
      <4>2. QED
        BY <1>1, <1>3, <2>1, <3>1, <4>1 DEF Rising
    <3>4. QED
      BY <3>2, <3>3
  <2>2. QED
    BY <2>1 DEF Rising
<1>4. ASSUME NEW m \in Nat, Below(s, m), n < m PROVE Below(longer, m)
  <2>1. ASSUME NEW i \in DOMAIN longer PROVE longer[i] < m
    <3>1. CASE i = Len(s) + 1
      BY <1>2, <1>4, <3>1
    <3>2. CASE i # Len(s) + 1
      <4>1. i \in 1 .. Len(s) /\ longer[i] = s[i]
        BY <1>1, <1>2, <3>2
      <4>2. QED
        BY <1>1, <1>4, <4>1 DEF Below
    <3>3. QED
      BY <3>1, <3>2
  <2>2. QED
    BY <2>1 DEF Below
<1>5. QED
  BY <1>1, <1>3, <1>4 DEF longer

\* The panel has no room and drops the oldest piece it holds.
LEMMA RisingDrop ==
    ASSUME NEW s \in Seq(Pieces), NEW h \in Seq(Pieces), h # << >>
    PROVE  /\ Rising(s \o h) => Rising(s \o Tail(h))
           /\ \A m \in Nat : Below(s \o h, m) => Below(s \o Tail(h), m)
<1> DEFINE long == s \o h
           short == s \o Tail(h)
           from(i) == IF i <= Len(s) THEN i ELSE i + 1
<1>1. /\ Tail(h) \in Seq(Pieces) /\ Len(Tail(h)) = Len(h) - 1 /\ Len(h) \in Nat /\ Len(h) > 0
      /\ Len(s) \in Nat /\ \A i \in 1 .. Len(h) - 1 : Tail(h)[i] = h[i + 1]
  OBVIOUS
<1>2. /\ DOMAIN short = 1 .. Len(s) + Len(h) - 1 /\ DOMAIN long = 1 .. Len(s) + Len(h)
      /\ \A i \in 1 .. Len(s) + Len(h) - 1 :
            short[i] = IF i <= Len(s) THEN s[i] ELSE Tail(h)[i - Len(s)]
      /\ \A i \in 1 .. Len(s) + Len(h) :
            long[i] = IF i <= Len(s) THEN s[i] ELSE h[i - Len(s)]
  BY <1>1
<1> HIDE DEF long, short
<1>3. ASSUME NEW i \in DOMAIN short PROVE from(i) \in DOMAIN long /\ short[i] = long[from(i)]
  <2>1. CASE i <= Len(s)
    BY <1>1, <1>2, <2>1
  <2>2. CASE ~(i <= Len(s))
    <3>1. i - Len(s) \in 1 .. Len(h) - 1 /\ (i + 1) - Len(s) = (i - Len(s)) + 1
          /\ i + 1 \in 1 .. Len(s) + Len(h) /\ ~(i + 1 <= Len(s)) /\ i \in 1 .. Len(s) + Len(h) - 1
      BY <1>1, <1>2, <2>2
    <3>2. short[i] = h[(i - Len(s)) + 1] /\ long[i + 1] = h[(i + 1) - Len(s)]
      BY <1>1, <1>2, <2>2, <3>1
    <3>3. QED
      BY <1>2, <2>2, <3>1, <3>2
  <2>3. QED
    BY <2>1, <2>2
<1>4. ASSUME NEW i \in DOMAIN short, NEW j \in DOMAIN short, i < j PROVE from(i) < from(j)
  BY <1>1, <1>2, <1>4
<1> HIDE DEF from
<1>5. Rising(long) => Rising(short)
  BY <1>3, <1>4 DEF Rising
<1>6. \A m \in Nat : Below(long, m) => Below(short, m)
  BY <1>3 DEF Below
<1>7. QED
  BY <1>5, <1>6 DEF long, short

\* A piece that is held comes out behind what is held.
LEMMA HeldAppend ==
    ASSUME NEW s \in Seq(Pieces), NEW h \in Seq(Pieces), NEW n \in Pieces
    PROVE  s \o Append(h, n) = Append(s \o h, n) /\ s \o h \in Seq(Pieces) /\ s \o << >> = s
OBVIOUS

\* The panel holds output only while its summary waits or is about to, and
\* the transfer whose summary waits is the latest.
PanelInv ==
    /\ \A t \in Transfers :
          /\ hand[t] \in {"waits", "unholds"} =>
                t = started /\ holding /\ reader \in {"skip", "hands", "read"}
          /\ hand[t] = "unholds" => panel = "closed"
    /\ reader \in {"found", "begun", "reset", "run", "holds"} => ~holding
    /\ reader = "finishes" => holding
    /\ reader = "reset" => panel = "none"
    /\ reader \in {"read", "found", "begun", "skip", "hands"} /\ ~holding =>
          panel \notin {"last", "summary"}
    /\ held # << >> => panel \in {"last", "summary"}

\* What is on the wire is in order, and newer than what has come out, but for
\* what the reader skips up to the notice of its transfer.
WireInv ==
    /\ \A i \in DOMAIN wire : wire[i].kind = "text" => wire[i].n <= sent
    /\ \A i, j \in DOMAIN wire :
          i < j /\ wire[i].kind = "text" /\ wire[j].kind = "text" => wire[i].n < wire[j].n
    /\ Below(Out, sent + 1)
    /\ early = {} =>
          /\ Rising(Out)
          /\ reader \in {"read", "hands"} =>
                \A i \in DOMAIN wire : wire[i].kind = "text" => Below(Out, wire[i].n)
          /\ reader \in {"holds", "finishes", "skip"} =>
                \A i, j \in DOMAIN wire :
                    i < j /\ wire[i] = Notice(started) /\ wire[j].kind = "text" =>
                        Below(Out, wire[j].n)

Accounted == 1 .. sent = UNION {Texts(wire), Of(shown), Of(held), dropped, missed}

panelInvVars == <<hand, started, holding, reader, panel, held>>

\* Every step of the transfer's goroutine, of the dismisser and of the reader
\* leaves the panel with the latest transfer.
LEMMA PanelStep == TypeOK /\ Started /\ PanelInv /\ [Next]_vars => PanelInv'
<1> SUFFICES ASSUME TypeOK, Started, PanelInv, [Next]_vars PROVE PanelInv'
  OBVIOUS
<1> USE ShellAssumption DEF PanelInv, Started, Transfers, Goroutines, Other, Shell,
                            flagVars, panelVars, gateVars, workerVars, inputVars
<1>0. /\ started \in 0 .. MaxTransfers
      /\ hand \in [Goroutines -> {"none", "waits", "unholds", "ready", "opens", "opensRaw",
                                  "prompts", "promptsRaw", "done"}]
  BY DEF TypeOK
<1>1. CASE UNCHANGED panelInvVars
  BY <1>1 DEF panelInvVars
<1>2. CASE DeviceSends \/ OtherClaims \/ Dismisses \/ TypesLine \/ UNCHANGED vars
  BY <1>1, <1>2 DEF DeviceSends, OtherClaims, Dismisses, TypesLine, vars, panelInvVars
<1>3. ASSUME NEW t \in {Other} \cup Transfers, ClaimEnds(t) \/ NoticeOthers(t) PROVE PanelInv'
  BY <1>1, <1>3 DEF ClaimEnds, NoticeOthers, panelInvVars
<1>4. ASSUME NEW n, PanelTakes(n), UNCHANGED <<hand, started, holding, reader, panel>> PROVE PanelInv'
  <2>1. held' # << >> => panel \in {"last", "summary"}
    BY <1>4 DEF PanelTakes
  <2>2. QED
    BY <1>4, <2>1
<1>5. CASE Begin
  BY <1>5, <1>0 DEF Begin
<1>6. CASE Reset
  BY <1>6, <1>0 DEF Reset
<1>7. CASE Opens
  BY <1>7, <1>0 DEF Opens
<1>8. CASE Holds
  BY <1>8, <1>0 DEF Holds
<1>9. CASE Finish
  BY <1>9, <1>0 DEF Finish
<1>10. CASE Claims \/ Asks \/ Answered \/ GivenUp
  BY <1>1, <1>10 DEF Claims, Asks, Answered, GivenUp, panelInvVars
<1>11. CASE PhaseFinish
  BY <1>11, <1>0 DEF PhaseFinish, Running
<1>12. CASE DeviceText
  BY <1>4, <1>12 DEF DeviceText
<1>13. CASE RunReturns
  BY <1>13, <1>0 DEF RunReturns, Running
<1>14. CASE Skips \/ HeaderIgnored
  BY <1>1, <1>14 DEF Skips, HeaderIgnored, DropsRead, panelInvVars
<1>15. CASE Shows
  <2>1. CASE Head(wire).kind = "text"
    BY <1>4, <1>15, <2>1 DEF Shows
  <2>2. CASE Head(wire).kind # "text"
    BY <1>1, <1>15, <2>2 DEF Shows, panelInvVars
  <2>3. QED
    BY <2>1, <2>2
<1>16. CASE NoticeFound
  BY <1>16, <1>0 DEF NoticeFound, Releases
<1>17. CASE ReleaseTimeout
  BY <1>17, <1>0 DEF ReleaseTimeout, Releases
<1>18. CASE HeaderFound
  BY <1>18, <1>0 DEF HeaderFound, DropsRead
<1>19. CASE ReadsOn
  BY <1>19, <1>0 DEF ReadsOn
<1>20. ASSUME NEW a \in Goroutines, HandSteps(a) PROVE PanelInv'
  <2>1. CASE HandBack(a)
    BY <2>1, <1>0 DEF HandBack
  <2>2. CASE GateEnd(a)
    BY <2>2, <1>0 DEF GateEnd
  <2>3. CASE InputBack(a)
    BY <2>3, <1>0 DEF InputBack
  <2>4. CASE ClosePanel(a) /\ a # Shell
    BY <2>4, <1>0 DEF ClosePanel
  <2>5. CASE Unholds(a) /\ a # Shell
    BY <2>5, <1>0 DEF Unholds
  <2>6. QED
    BY <1>20, <2>1, <2>2, <2>3, <2>4, <2>5 DEF HandSteps
<1>21. QED
  BY <1>2, <1>3, <1>5, <1>6, <1>7, <1>8, <1>9, <1>10, <1>11, <1>12, <1>13, <1>14, <1>15, <1>16, <1>17,
     <1>18, <1>19, <1>20
     DEF Next, StartSteps, Session, ReadSteps

\* The pieces of some output, when it grows or is split.
LEMMA OfAppend ==
    ASSUME NEW s \in Seq(Pieces), NEW n \in Pieces
    PROVE  Of(Append(s, n)) = Of(s) \cup {n}
<1> DEFINE longer == Append(s, n)
<1>1. /\ DOMAIN longer = 1 .. Len(s) + 1 /\ DOMAIN s = 1 .. Len(s) /\ Len(s) \in Nat
      /\ \A i \in 1 .. Len(s) : longer[i] = s[i]
      /\ longer[Len(s) + 1] = n
  OBVIOUS
<1> HIDE DEF longer
<1>2. \A i : i \in DOMAIN longer <=> (i \in DOMAIN s \/ i = Len(s) + 1)
  BY <1>1
<1>3. Of(longer) = Of(s) \cup {n}
  BY <1>1, <1>2 DEF Of
<1>4. QED
  BY <1>3 DEF longer

LEMMA OfConcat ==
    ASSUME NEW s \in Seq(Pieces), NEW h \in Seq(Pieces)
    PROVE  Of(s \o h) = Of(s) \cup Of(h)
<1> DEFINE long == s \o h
<1>1. /\ DOMAIN long = 1 .. Len(s) + Len(h) /\ Len(s) \in Nat /\ Len(h) \in Nat
      /\ DOMAIN s = 1 .. Len(s) /\ DOMAIN h = 1 .. Len(h)
      /\ \A i \in 1 .. Len(s) + Len(h) : long[i] = IF i <= Len(s) THEN s[i] ELSE h[i - Len(s)]
  OBVIOUS
<1> HIDE DEF long
<1>2. \A i \in DOMAIN s : i \in DOMAIN long /\ long[i] = s[i]
  BY <1>1
<1>3. ASSUME NEW i \in DOMAIN h PROVE Len(s) + i \in DOMAIN long /\ long[Len(s) + i] = h[i]
  <2>1. Len(s) + i \in 1 .. Len(s) + Len(h) /\ ~(Len(s) + i <= Len(s)) /\ (Len(s) + i) - Len(s) = i
    BY <1>1
  <2>2. QED
    BY <1>1, <2>1
<1>4. ASSUME NEW i \in DOMAIN long PROVE long[i] \in Of(s) \cup Of(h)
  <2>1. CASE i <= Len(s)
    <3>1. i \in DOMAIN s /\ long[i] = s[i]
      BY <1>1, <2>1
    <3>2. QED
      BY <3>1 DEF Of
  <2>2. CASE ~(i <= Len(s))
    <3>1. i - Len(s) \in DOMAIN h /\ long[i] = h[i - Len(s)]
      BY <1>1, <2>2
    <3>2. QED
      BY <3>1 DEF Of
  <2>3. QED
    BY <2>1, <2>2
<1>5. Of(long) \subseteq Of(s) \cup Of(h)
  BY <1>4 DEF Of
<1>6. Of(s) \cup Of(h) \subseteq Of(long)
  BY <1>2, <1>3 DEF Of
<1>7. QED
  BY <1>5, <1>6 DEF long

LEMMA OfHeadTail ==
    ASSUME NEW h \in Seq(Pieces), h # << >>
    PROVE  Of(h) = {Head(h)} \cup Of(Tail(h))
<1> DEFINE rest == Tail(h)
<1>1. /\ DOMAIN h = 1 .. Len(h) /\ Len(h) \in Nat /\ Len(h) > 0
      /\ DOMAIN rest = 1 .. Len(h) - 1 /\ \A i \in 1 .. Len(h) - 1 : rest[i] = h[i + 1]
      /\ Head(h) = h[1]
  OBVIOUS
<1> HIDE DEF rest
<1>2. \A i \in DOMAIN rest : i + 1 \in DOMAIN h /\ rest[i] = h[i + 1]
  BY <1>1
<1>3. ASSUME NEW i \in DOMAIN h PROVE h[i] \in {Head(h)} \cup Of(rest)
  <2>1. CASE i = 1
    BY <1>1, <2>1
  <2>2. CASE i # 1
    <3>1. i - 1 \in DOMAIN rest /\ rest[i - 1] = h[(i - 1) + 1] /\ (i - 1) + 1 = i
      BY <1>1, <2>2
    <3>2. QED
      BY <3>1 DEF Of
  <2>3. QED
    BY <2>1, <2>2
<1>4. 1 \in DOMAIN h
  BY <1>1
<1>5. QED
  BY <1>1, <1>2, <1>3, <1>4 DEF Of, rest

\* What the panel does with a piece that is newer than all it was given: the
\* order stays, and the piece is accounted for.
LEMMA PanelOut ==
    ASSUME TypeOK, PanelInv, NEW n \in Pieces, PanelTakes(n)
    PROVE  /\ UNION {Of(shown'), Of(held'), dropped'} = UNION {Of(shown), Of(held), dropped, {n}}
           /\ Rising(Out) /\ Below(Out, n) => Rising(Out')
           /\ \A m \in Nat : Below(Out, m) /\ n < m => Below(Out', m)
<1>0. /\ shown \in Seq(Pieces) /\ held \in Seq(Pieces)
      /\ Len(shown) \in Nat /\ Len(held) \in Nat
  BY DEF TypeOK, Pieces
<1>1. /\ Append(held, n) \in Seq(Pieces) /\ Len(Append(held, n)) = Len(held) + 1
      /\ Append(shown, n) \in Seq(Pieces)
      /\ Of(Append(held, n)) = Of(held) \cup {n} /\ Of(Append(shown, n)) = Of(shown) \cup {n}
  BY <1>0, OfAppend
<1>2. /\ Out \in Seq(Pieces)
      /\ Rising(Out) /\ Below(Out, n) => Rising(Append(Out, n))
      /\ \A m \in Nat : Below(Out, m) /\ n < m => Below(Append(Out, n), m)
  <2>1. Out \in Seq(Pieces)
    BY <1>0, HeldAppend DEF Out
  <2>2. QED
    BY <2>1, RisingAppend
<1>3. CASE panel \notin {"last", "summary"}
  <2>1. held = << >> /\ held' = << >> /\ shown' = Append(shown, n) /\ dropped' = dropped
    BY <1>3 DEF PanelTakes, PanelInv
  <2>2. Out = shown /\ Out' = Append(Out, n)
    <3>1. shown \o << >> = shown /\ Append(shown, n) \o << >> = Append(shown, n)
      BY <1>0, <1>1, HeldAppend
    <3>2. QED
      BY <2>1, <3>1 DEF Out
  <2>3. UNION {Of(shown'), Of(held'), dropped'} = UNION {Of(shown), Of(held), dropped, {n}}
    <3>1. Of(shown') = Of(shown) \cup {n} /\ Of(held') = Of(held)
      BY <1>1, <2>1
    <3>2. QED
      BY <2>1, <3>1
  <2>4. QED
    BY <1>2, <2>2, <2>3
<1>4. CASE panel \in {"last", "summary"} /\ Len(held) < HoldMax
  <2>1. held' = Append(held, n) /\ UNCHANGED <<shown, dropped>>
    BY <1>4 DEF PanelTakes
  <2>2. Out' = Append(Out, n)
    BY <1>0, <2>1, HeldAppend DEF Out
  <2>3. UNION {Of(shown'), Of(held'), dropped'} = UNION {Of(shown), Of(held), dropped, {n}}
    BY <1>0, <1>1, <2>1
  <2>4. QED
    BY <1>2, <2>2, <2>3
<1>5. CASE panel \in {"last", "summary"} /\ ~(Len(held) < HoldMax)
  <2> DEFINE longer == Append(held, n)
  <2>1. held' = Tail(longer) /\ dropped' = dropped \cup {Head(longer)} /\ shown' = shown
    BY <1>5 DEF PanelTakes
  <2>2. /\ longer \in Seq(Pieces) /\ Len(longer) = Len(held) + 1 /\ shown \o longer = Append(Out, n)
        /\ Of(longer) = Of(held) \cup {n}
    BY <1>0, <1>1, HeldAppend DEF Out
  <2> HIDE DEF longer
  <2>3. longer # << >> /\ Of(longer) = {Head(longer)} \cup Of(Tail(longer))
    BY <1>0, <2>2, OfHeadTail
  <2>4. /\ Rising(shown \o longer) => Rising(shown \o Tail(longer))
        /\ \A m \in Nat : Below(shown \o longer, m) => Below(shown \o Tail(longer), m)
    BY <1>0, <2>2, <2>3, RisingDrop
  <2>5. Out' = shown \o Tail(longer)
    BY <2>1 DEF Out
  <2>6. UNION {Of(shown'), Of(held'), dropped'} = UNION {Of(shown), Of(held), dropped, {n}}
    BY <2>1, <2>2, <2>3
  <2>7. QED
    BY <1>2, <2>2, <2>4, <2>5, <2>6
<1>6. QED
  BY <1>3, <1>4, <1>5

\* One place of a piece for another.
LEMMA AccountedStep == TypeOK /\ PanelInv /\ Accounted /\ [Next]_vars => Accounted'
<1> SUFFICES ASSUME TypeOK, PanelInv, Accounted, [Next]_vars PROVE Accounted'
  OBVIOUS
<1> USE DEF Accounted, flagVars, panelVars, gateVars, workerVars, inputVars
<1>0. /\ shown \in Seq(Pieces) /\ held \in Seq(Pieces) /\ wire \in Seq(Items)
      /\ sent \in 0 .. MaxText /\ sent \in Nat
  BY ShellAssumption DEF TypeOK, Pieces
<1>1. CASE UNCHANGED <<sent, wire, shown, held, dropped, missed>>
  BY <1>1
<1>a. 1 .. sent + 1 = (1 .. sent) \cup {sent + 1}
  BY <1>0
<1>2. CASE DeviceSends
  <2>1. UNCHANGED <<shown, held, dropped, missed>>
    BY <1>2 DEF DeviceSends
  <2>2. CASE Arrives(Text(sent + 1)) /\ sent' = sent + 1 /\ sent < MaxText
    <3>1. sent + 1 \in 1 .. MaxText
      BY <1>0, <2>2, ShellAssumption
    <3>2. Text(sent + 1) \in Items /\ Text(sent + 1).kind = "text" /\ Text(sent + 1).n = sent + 1
      BY <3>1 DEF Items, Text
    <3>3. Texts(wire') = Texts(wire) \cup {sent + 1}
      BY <1>0, <2>2, <3>2, TextsAppend, TextsOfOne DEF Arrives
    <3>4. QED
      BY <1>a, <2>1, <2>2, <3>3
  <2>3. CASE Arrives(Header) /\ sent' = sent
    <3>1. Header \in Items /\ Header.kind # "text"
      BY DEF Items, Header
    <3>2. Texts(wire') = Texts(wire)
      <4>1. wire' = Append(wire, Header)
        BY <2>3 DEF Arrives
      <4>2. Texts(Append(wire, Header)) = Texts(wire) \cup Texts(<<Header>>)
        BY <1>0, <3>1, TextsAppend
      <4>3. Texts(<<Header>>) = {}
        BY <3>1, TextsOfOne
      <4>4. QED
        BY <4>1, <4>2, <4>3
    <3>3. QED
      BY <2>1, <2>3, <3>2
  <2>4. QED
    BY <1>2, <2>2, <2>3 DEF DeviceSends
<1>3. CASE DeviceText
  <2>1. sent + 1 \in Pieces /\ PanelTakes(sent + 1) /\ sent' = sent + 1 /\ UNCHANGED <<wire, missed>>
    BY <1>0, <1>3, ShellAssumption DEF DeviceText, Pieces
  <2>2. UNION {Of(shown'), Of(held'), dropped'} = UNION {Of(shown), Of(held), dropped, {sent + 1}}
    BY <2>1, PanelOut
  <2>3. QED
    BY <1>a, <2>1, <2>2
<1>4. CASE Shows
  <2>1. /\ wire # << >> /\ wire' = Tail(wire) /\ UNCHANGED <<sent, missed>>
    BY <1>4 DEF Shows, Reads
  <2>2. Head(wire) \in Items /\ Texts(wire) = Texts(<<Head(wire)>>) \cup Texts(wire')
    BY <1>0, <2>1, TextsHeadTail
  <2>3. CASE Head(wire).kind = "text"
    <3>1. PICK n : n = Head(wire).n
      OBVIOUS
    <3>2. n \in Pieces /\ PanelTakes(n) /\ Texts(<<Head(wire)>>) = {n}
      BY <1>4, <2>2, <2>3, <3>1, TextsOfOne DEF Shows, Items, Text, Header, Notice, Pieces
    <3>3. UNION {Of(shown'), Of(held'), dropped'} = UNION {Of(shown), Of(held), dropped, {n}}
      BY <3>2, PanelOut
    <3>4. QED
      BY <2>1, <2>2, <3>2, <3>3
  <2>4. CASE Head(wire).kind # "text"
    <3>1. UNCHANGED <<shown, held, dropped>> /\ Texts(<<Head(wire)>>) = {}
      BY <1>4, <2>4, TextsOfOne DEF Shows
    <3>2. QED
      BY <2>1, <2>2, <3>1
  <2>5. QED
    BY <2>3, <2>4
<1>5. CASE Skips
  <2>1. /\ wire # << >> /\ wire' = Tail(wire) /\ missed' = missed \cup Texts(<<Head(wire)>>)
        /\ UNCHANGED <<sent, shown, held, dropped>>
    BY <1>5 DEF Skips, Reads
  <2>2. Texts(wire) = Texts(<<Head(wire)>>) \cup Texts(wire')
    BY <1>0, <2>1, TextsHeadTail
  <2>3. QED
    BY <2>1, <2>2
<1>6. CASE NoticeFound
  <2>1. /\ wire # << >> /\ wire' = Tail(wire) /\ Head(wire).kind = "notice"
        /\ UNCHANGED <<sent, shown, held, dropped, missed>>
    BY <1>6 DEF NoticeFound, Reads
  <2>2. Texts(wire) = Texts(wire')
    BY <1>0, <2>1, TextsHeadTail, TextsOfOne
  <2>3. QED
    BY <2>1, <2>2
<1>7. CASE HeaderIgnored \/ HeaderFound
  <2>1. DropsRead /\ UNCHANGED <<sent, shown, held, dropped>>
    BY <1>7 DEF HeaderIgnored, HeaderFound
  <2>2. PICK gone : Texts(wire) = gone \cup Texts(wire') /\ missed' = missed \cup gone
    BY <1>0, <2>1, ReadDropped
  <2>3. QED
    BY <2>1, <2>2
<1>8. ASSUME NEW t \in {Other} \cup Transfers, NoticeOthers(t) PROVE Accounted'
  <2>1. Notice(t) \in Items /\ Notice(t).kind # "text"
    BY ShellAssumption DEF Items, Notice, Other, Transfers
  <2>2. Texts(wire') = Texts(wire)
    BY <1>0, <1>8, <2>1, TextsAppend, TextsOfOne DEF NoticeOthers, Arrives
  <2>3. QED
    BY <1>8, <2>2 DEF NoticeOthers
<1>9. ASSUME NEW a \in Goroutines, HandSteps(a) PROVE Accounted'
  <2>1. CASE ClosePanel(a)
    <3>1. shown' = shown \o held /\ held' = << >> /\ UNCHANGED <<sent, wire, dropped, missed>>
      BY <2>1 DEF ClosePanel
    <3>2. Of(shown') = Of(shown) \cup Of(held) /\ Of(held') = {}
      <4>1. Of(<< >>) = {}
        BY DEF Of
      <4>2. Of(shown \o held) = Of(shown) \cup Of(held)
        BY <1>0, OfConcat
      <4>3. QED
        BY <3>1, <4>1, <4>2
    <3>3. QED
      BY <3>1, <3>2
  <2>2. CASE HandBack(a) \/ GateEnd(a) \/ InputBack(a) \/ Unholds(a)
    BY <1>1, <2>2 DEF HandBack, GateEnd, InputBack, Unholds
  <2>3. QED
    BY <1>9, <2>1, <2>2 DEF HandSteps
<1>10. CASE StartSteps
  BY <1>1, <1>10 DEF StartSteps, Begin, Reset, Opens, Holds, Finish
<1>11. CASE Session /\ ~DeviceText
  BY <1>1, <1>11 DEF Session, Claims, PhaseFinish, Asks, Answered, GivenUp, RunReturns
<1>12. CASE ReleaseTimeout \/ ReadsOn
  BY <1>1, <1>12 DEF ReleaseTimeout, ReadsOn
<1>13. CASE OtherClaims \/ Dismisses \/ TypesLine \/ UNCHANGED vars
  BY <1>1, <1>13 DEF OtherClaims, Dismisses, TypesLine, vars
<1>14. ASSUME NEW t \in {Other} \cup Transfers, ClaimEnds(t) PROVE Accounted'
  BY <1>1, <1>14 DEF ClaimEnds
<1>15. QED
  BY <1>2, <1>3, <1>4, <1>5, <1>6, <1>7, <1>8, <1>9, <1>10, <1>11, <1>12, <1>13, <1>14
     DEF Next, ReadSteps

\* Taking items off the wire leaves the others in order.
LEMMA WireShortens ==
    ASSUME WireInv, NEW k \in Nat, sent' = sent,
           \A i \in DOMAIN wire' : i \in Nat /\ i + k \in DOMAIN wire /\ wire'[i] = wire[i + k]
    PROVE  /\ \A i \in DOMAIN wire' : wire'[i].kind = "text" => wire'[i].n <= sent'
           /\ \A i, j \in DOMAIN wire' :
                i < j /\ wire'[i].kind = "text" /\ wire'[j].kind = "text" => wire'[i].n < wire'[j].n
<1>1. ASSUME NEW i \in DOMAIN wire', NEW j \in DOMAIN wire', i < j,
             wire'[i].kind = "text", wire'[j].kind = "text"
      PROVE  wire'[i].n < wire'[j].n
  <2>1. i + k \in DOMAIN wire /\ j + k \in DOMAIN wire /\ i + k < j + k
    BY <1>1
  <2>2. QED
    BY <1>1, <2>1 DEF WireInv
<1>2. QED
  BY <1>1 DEF WireInv

\* Items of a type, one more or one less.
LEMMA WireTypes ==
    ASSUME TypeOK
    PROVE  /\ wire \in Seq(Items) /\ sent \in 0 .. MaxText /\ started \in 0 .. MaxTransfers
           /\ \A i \in DOMAIN wire : wire[i] \in Items /\ i \in Nat
           /\ \A item \in Items : item.n \in Nat
           /\ Out \in Seq(Pieces)
           /\ \A i \in DOMAIN Out : Out[i] \in Nat
<1>1. wire \in Seq(Items) /\ shown \in Seq(Pieces) /\ held \in Seq(Pieces)
  BY DEF TypeOK, Pieces
<1>2. \A item \in Items : item.n \in Nat
  BY DEF Items, Text, Header, Notice
<1>3. Out \in Seq(Pieces)
  BY <1>1, HeldAppend DEF Out
<1>4. \A i \in DOMAIN Out : Out[i] \in Pieces
  BY <1>3
<1>5. \A n \in Pieces : n \in Nat
  BY DEF Pieces
<1>6. QED
  BY <1>1, <1>2, <1>3, <1>4, <1>5 DEF TypeOK

\* Where nothing comes out and no place of the reader is reached that asks for
\* more of the wire.
LEMMA WireKept ==
    ASSUME WireInv, UNCHANGED <<wire, sent, started, early>>, Out' = Out,
           \/ reader' = reader
           \/ reader = "hands" /\ reader' = "read"
           \/ reader' \in {"found", "begun", "reset", "run"}
           \/ reader \in {"holds", "finishes"} /\ reader' \in {"finishes", "skip"}
    PROVE  WireInv'
BY DEF WireInv

\* Something new on the wire.
LEMMA WireGrows ==
    ASSUME TypeOK, WireInv, NEW item \in Items, wire' = Append(wire, item),
           UNCHANGED <<started, early, reader, shown, held>>,
           \/ item.kind # "text" /\ sent' = sent
           \/ item = Text(sent + 1) /\ sent' = sent + 1
    PROVE  WireInv'
<1>0. /\ wire \in Seq(Items) /\ sent \in Nat /\ Out' = Out /\ Out \in Seq(Pieces)
      /\ \A i \in DOMAIN wire : wire[i] \in Items /\ i \in Nat
      /\ \A x \in Items : x.n \in Nat
  BY WireTypes DEF Out
<1>1. /\ DOMAIN wire = 1 .. Len(wire) /\ DOMAIN wire' = 1 .. Len(wire) + 1 /\ Len(wire) \in Nat
      /\ \A i \in DOMAIN wire : wire'[i] = wire[i]
      /\ wire'[Len(wire) + 1] = item
  BY <1>0
<1>2. item.kind = "text" => item.n = sent + 1 /\ sent' = sent + 1
  BY DEF Text
<1>3. sent' \in Nat /\ sent <= sent'
  BY <1>0
<1>4. \A i \in DOMAIN wire : wire[i].kind = "text" => wire[i].n <= sent
  BY DEF WireInv
<1>5. Below(Out', sent' + 1)
  <2>1. Below(Out, sent + 1) /\ \A i \in DOMAIN Out : Out[i] \in Nat
    BY WireTypes DEF WireInv
  <2>2. QED
    BY <1>0, <1>3, <2>1 DEF Below
<1>6. ASSUME NEW i \in DOMAIN wire', wire'[i].kind = "text" PROVE wire'[i].n <= sent'
  <2>1. CASE i = Len(wire) + 1
    BY <1>0, <1>1, <1>2, <1>6, <2>1
  <2>2. CASE i # Len(wire) + 1
    <3>1. i \in DOMAIN wire /\ wire'[i] = wire[i] /\ wire[i].n \in Nat
      BY <1>0, <1>1, <2>2
    <3>2. QED
      BY <1>0, <1>3, <1>4, <1>6, <3>1
  <2>3. QED
    BY <2>1, <2>2
<1>7. ASSUME NEW i \in DOMAIN wire', NEW j \in DOMAIN wire', i < j,
             wire'[i].kind = "text", wire'[j].kind = "text"
      PROVE  wire'[i].n < wire'[j].n
  <2>1. i \in DOMAIN wire /\ wire'[i] = wire[i] /\ wire[i].n \in Nat
    BY <1>0, <1>1, <1>7
  <2>2. CASE j = Len(wire) + 1
    BY <1>0, <1>1, <1>2, <1>4, <1>7, <2>1, <2>2
  <2>3. CASE j # Len(wire) + 1
    <3>1. j \in DOMAIN wire /\ wire'[j] = wire[j]
      BY <1>1, <2>3
    <3>2. QED
      BY <1>7, <2>1, <3>1 DEF WireInv
  <2>4. QED
    BY <2>2, <2>3
<1>8. item.kind = "text" => Below(Out, item.n)
  BY <1>2 DEF WireInv
<1>9. ASSUME early = {} PROVE Rising(Out)
  BY <1>9 DEF WireInv
<1>10. ASSUME early = {}, reader \in {"read", "hands"}, NEW i \in DOMAIN wire', wire'[i].kind = "text"
       PROVE  Below(Out, wire'[i].n)
  <2>1. CASE i = Len(wire) + 1
    BY <1>1, <1>8, <1>10, <2>1
  <2>2. CASE i # Len(wire) + 1
    <3>1. i \in DOMAIN wire /\ wire'[i] = wire[i]
      BY <1>1, <2>2
    <3>2. QED
      BY <1>10, <3>1 DEF WireInv
  <2>3. QED
    BY <2>1, <2>2
<1>11. ASSUME early = {}, reader \in {"holds", "finishes", "skip"},
              NEW i \in DOMAIN wire', NEW j \in DOMAIN wire',
              i < j, wire'[i] = Notice(started), wire'[j].kind = "text"
       PROVE  Below(Out, wire'[j].n)
  <2>1. i \in DOMAIN wire /\ wire'[i] = wire[i]
    BY <1>1, <1>11
  <2>2. CASE j = Len(wire) + 1
    BY <1>1, <1>8, <1>11, <2>2
  <2>3. CASE j # Len(wire) + 1
    <3>1. j \in DOMAIN wire /\ wire'[j] = wire[j]
      BY <1>1, <2>3
    <3>2. QED
      BY <1>11, <2>1, <3>1 DEF WireInv
  <2>4. QED
    BY <2>2, <2>3
<1>12. QED
  BY <1>0, <1>5, <1>6, <1>7, <1>9, <1>10, <1>11 DEF WireInv

\* An item is skipped, ignored or, as text, shown.
LEMMA WireReads ==
    ASSUME TypeOK, PanelInv, WireInv, wire # << >>, wire' = Tail(wire),
           UNCHANGED <<sent, started, early, reader>>,
           \/ UNCHANGED <<shown, held>>
           \/ reader = "read" /\ Head(wire).kind = "text" /\ PanelTakes(Head(wire).n)
    PROVE  WireInv'
<1>0. /\ wire \in Seq(Items) /\ sent \in Nat /\ Out \in Seq(Pieces)
      /\ \A i \in DOMAIN wire : wire[i] \in Items /\ i \in Nat
      /\ \A x \in Items : x.n \in Nat
  BY WireTypes
<1>1. /\ \A i \in DOMAIN wire' : i \in Nat /\ i > 0 /\ i + 1 \in DOMAIN wire /\ wire'[i] = wire[i + 1]
      /\ 1 \in DOMAIN wire /\ Head(wire) = wire[1]
  BY <1>0
<1>2. /\ \A i \in DOMAIN wire' : wire'[i].kind = "text" => wire'[i].n <= sent'
      /\ \A i, j \in DOMAIN wire' :
           i < j /\ wire'[i].kind = "text" /\ wire'[j].kind = "text" => wire'[i].n < wire'[j].n
  BY <1>1, WireShortens
<1>3. CASE UNCHANGED <<shown, held>>
  <2>1. Out' = Out
    BY <1>3 DEF Out
  <2>2. ASSUME early = {}, reader \in {"holds", "finishes", "skip"},
               NEW i \in DOMAIN wire', NEW j \in DOMAIN wire',
               i < j, wire'[i] = Notice(started), wire'[j].kind = "text"
        PROVE  Below(Out, wire'[j].n)
    <3>1. /\ i + 1 \in DOMAIN wire /\ j + 1 \in DOMAIN wire /\ i + 1 < j + 1
          /\ wire'[i] = wire[i + 1] /\ wire'[j] = wire[j + 1]
      BY <1>1, <2>2
    <3>2. QED
      BY <2>2, <3>1 DEF WireInv
  <2>3. ASSUME early = {}, reader \in {"read", "hands"}, NEW i \in DOMAIN wire', wire'[i].kind = "text"
        PROVE  Below(Out, wire'[i].n)
    BY <1>1, <2>3 DEF WireInv
  <2>4. Below(Out, sent + 1) /\ (early = {} => Rising(Out))
    BY DEF WireInv
  <2>5. QED
    BY <1>2, <2>1, <2>2, <2>3, <2>4 DEF WireInv
<1>4. CASE reader = "read" /\ Head(wire).kind = "text" /\ PanelTakes(Head(wire).n)
  <2> DEFINE n == Head(wire).n
  <2>1. n \in Pieces /\ wire[1].kind = "text" /\ n = wire[1].n
    BY <1>0, <1>1, <1>4 DEF Items, Text, Header, Notice, Pieces
  <2>2. n <= sent /\ Below(Out, sent + 1)
    BY <1>1, <2>1 DEF WireInv
  <2>3. ASSUME early = {} PROVE Rising(Out) /\ Below(Out, n)
    BY <1>1, <1>4, <2>1, <2>3 DEF WireInv
  <2>4. PanelTakes(n)
    BY <1>4
  <2> HIDE DEF n
  <2>5. /\ Rising(Out) /\ Below(Out, n) => Rising(Out')
        /\ \A m \in Nat : Below(Out, m) /\ n < m => Below(Out', m)
    BY <2>1, <2>4, PanelOut
  <2>6. n \in Nat
    BY <2>1 DEF Pieces
  <2>7. Below(Out', sent' + 1)
    <3>1. sent + 1 \in Nat /\ n < sent + 1
      BY <1>0, <2>2, <2>6
    <3>2. QED
      BY <2>2, <2>5, <3>1
  <2>8. ASSUME early = {}, NEW i \in DOMAIN wire', wire'[i].kind = "text"
        PROVE  Below(Out', wire'[i].n)
    <3>1. i + 1 \in DOMAIN wire /\ wire'[i] = wire[i + 1] /\ 1 < i + 1 /\ wire[i + 1].n \in Nat
      BY <1>0, <1>1
    <3>2. n < wire[i + 1].n
      BY <1>1, <2>1, <2>8, <3>1 DEF WireInv
    <3>3. Below(Out, wire[i + 1].n)
      BY <1>4, <2>8, <3>1 DEF WireInv
    <3>4. QED
      BY <2>5, <3>1, <3>2, <3>3
  <2>9. QED
    BY <1>2, <1>4, <2>3, <2>5, <2>7, <2>8 DEF WireInv
<1>5. QED
  BY <1>3, <1>4

\* Every step of the worker, the session and the reader keeps what is still to
\* come newer than what has come out.
LEMMA WireStep == TypeOK /\ Started /\ ClaimInv /\ PanelInv /\ WireInv /\ [Next]_vars => WireInv'
<1> SUFFICES ASSUME TypeOK, Started, ClaimInv, PanelInv, WireInv, [Next]_vars PROVE WireInv'
  OBVIOUS
<1> USE DEF flagVars, panelVars, gateVars, workerVars, inputVars
<1>0. /\ wire \in Seq(Items) /\ sent \in Nat /\ Out \in Seq(Pieces) /\ started \in 0 .. MaxTransfers
      /\ \A i \in DOMAIN wire : wire[i] \in Items /\ i \in Nat
      /\ \A x \in Items : x.n \in Nat
  BY WireTypes
<1>1. CASE UNCHANGED <<wire, sent, shown, held, early, started, reader>>
  BY <1>1, WireKept DEF Out
<1>2. CASE DeviceSends
  <2>1. CASE Arrives(Text(sent + 1)) /\ sent' = sent + 1 /\ sent < MaxText
    <3>1. sent + 1 \in 1 .. MaxText
      BY <1>0, <2>1, ShellAssumption
    <3>2. Text(sent + 1) \in Items
      BY <3>1 DEF Items
    <3>3. QED
      BY <1>2, <2>1, <3>2, WireGrows DEF DeviceSends, Arrives
  <2>2. CASE Arrives(Header) /\ sent' = sent
    <3>1. Header \in Items /\ Header.kind # "text"
      BY DEF Items, Header
    <3>2. QED
      BY <1>2, <2>2, <3>1, WireGrows DEF DeviceSends, Arrives
  <2>3. QED
    BY <1>2, <2>1, <2>2 DEF DeviceSends
<1>3. ASSUME NEW t \in {Other} \cup Transfers, NoticeOthers(t) PROVE WireInv'
  <2>1. t \in 0 .. MaxTransfers
    BY ShellAssumption DEF Other, Transfers
  <2>2. Notice(t) \in Items /\ Notice(t).kind # "text"
    BY <2>1 DEF Items, Notice
  <2>3. QED
    BY <1>3, <2>2, WireGrows DEF NoticeOthers, Arrives
<1>4. CASE StartSteps
  <2>1. UNCHANGED <<wire, sent, started, early, shown, held>>
    BY <1>4 DEF StartSteps, Begin, Reset, Opens, Holds, Finish
  <2>2. \/ reader' \in {"begun", "reset", "run"}
        \/ reader \in {"holds", "finishes"} /\ reader' \in {"finishes", "skip"}
    BY <1>4 DEF StartSteps, Begin, Reset, Opens, Holds, Finish
  <2>3. QED
    BY <2>1, <2>2, WireKept DEF Out
<1>5. CASE Claims \/ PhaseFinish \/ Asks \/ Answered \/ GivenUp
  BY <1>1, <1>5 DEF Claims, PhaseFinish, Asks, Answered, GivenUp
<1>6. CASE DeviceText
  <2>1. /\ PanelTakes(sent + 1) /\ sent' = sent + 1 /\ reader = "run"
        /\ UNCHANGED <<wire, started, early, reader>> /\ sent < MaxText
    BY <1>6 DEF DeviceText, Running
  <2>2. sent + 1 \in Pieces
    BY <1>0, <2>1, ShellAssumption DEF Pieces
  <2>3. Below(Out, sent + 1) /\ (early = {} => Rising(Out))
    BY DEF WireInv
  <2>4. /\ Rising(Out) /\ Below(Out, sent + 1) => Rising(Out')
        /\ \A m \in Nat : Below(Out, m) /\ sent + 1 < m => Below(Out', m)
    BY <2>1, <2>2, PanelOut
  <2>5. Below(Out', sent' + 1)
    <3>1. Below(Out, sent + 2)
      <4>1. \A i \in DOMAIN Out : Out[i] \in Nat
        BY WireTypes
      <4>2. QED
        BY <1>0, <2>3, <4>1 DEF Below
    <3>2. sent + 2 \in Nat /\ sent + 1 < sent + 2 /\ sent' + 1 = sent + 2
      BY <1>0, <2>1
    <3>3. QED
      BY <2>4, <3>1, <3>2
  <2>6. \A i \in DOMAIN wire' : wire'[i].kind = "text" => wire'[i].n <= sent'
    BY <1>0, <2>1 DEF WireInv
  <2>7. QED
    BY <2>1, <2>3, <2>4, <2>5, <2>6 DEF WireInv
<1>7. CASE RunReturns
  <2>1. /\ reader = "run" /\ reader' \in {"skip", "holds"}
        /\ UNCHANGED <<wire, sent, started, early, shown, held>>
    BY <1>7 DEF RunReturns, Running
  <2>2. started > 0
    BY <2>1 DEF Started
  <2>3. \A i \in DOMAIN wire : wire[i] # Notice(started)
    BY <2>1, <2>2 DEF ClaimInv, Noticed, AfterRun
  <2>4. QED
    BY <2>1, <2>3 DEF WireInv, Out
<1>8. CASE Skips
  <2>1. wire # << >> /\ wire' = Tail(wire) /\ UNCHANGED <<sent, started, early, reader, shown, held>>
    BY <1>8 DEF Skips, Reads
  <2>2. QED
    BY <2>1, WireReads
<1>9. CASE Shows
  <2>1. wire # << >> /\ wire' = Tail(wire) /\ UNCHANGED <<sent, started, early, reader>>
    BY <1>9 DEF Shows, Reads
  <2>2. \/ UNCHANGED <<shown, held>>
        \/ reader = "read" /\ Head(wire).kind = "text" /\ PanelTakes(Head(wire).n)
    BY <1>9 DEF Shows
  <2>3. QED
    BY <2>1, <2>2, WireReads
<1>10. CASE NoticeFound
  <2>1. /\ wire # << >> /\ wire' = Tail(wire) /\ Head(wire).kind = "notice"
        /\ reader = "skip" /\ reader' = "hands"
        /\ early' = IF Head(wire).n = started THEN early ELSE early \cup {started}
        /\ UNCHANGED <<sent, started, shown, held>>
    BY <1>10 DEF NoticeFound, Reads, Releases
  <2>2. /\ \A i \in DOMAIN wire' : i \in Nat /\ i > 0 /\ i + 1 \in DOMAIN wire /\ wire'[i] = wire[i + 1]
        /\ 1 \in DOMAIN wire /\ Head(wire) = wire[1]
    BY <1>0, <2>1
  <2>3. /\ \A i \in DOMAIN wire' : wire'[i].kind = "text" => wire'[i].n <= sent'
        /\ \A i, j \in DOMAIN wire' :
             i < j /\ wire'[i].kind = "text" /\ wire'[j].kind = "text" => wire'[i].n < wire'[j].n
    BY <2>1, <2>2, WireShortens
  <2>4. Out' = Out /\ Below(Out, sent + 1)
    BY <2>1 DEF Out, WireInv
  <2>5. ASSUME early' = {} PROVE early = {} /\ wire[1] = Notice(started)
    <3>1. early = {} /\ Head(wire).n = started
      BY <2>1, <2>5
    <3>2. wire[1] \in Items /\ wire[1].kind = "notice" /\ wire[1].n = started
      BY <1>0, <2>1, <2>2, <3>1
    <3>3. QED
      BY <3>1, <3>2 DEF Items, Text, Header, Notice
  <2>6. ASSUME early' = {}, NEW i \in DOMAIN wire', wire'[i].kind = "text"
        PROVE  Below(Out, wire'[i].n)
    <3>1. i + 1 \in DOMAIN wire /\ 1 < i + 1 /\ wire'[i] = wire[i + 1] /\ 1 \in DOMAIN wire
      BY <2>2
    <3>2. early = {} /\ wire[1] = Notice(started)
      BY <2>5, <2>6
    <3>3. QED
      BY <2>1, <2>6, <3>1, <3>2 DEF WireInv
  <2>7. early' = {} => Rising(Out)
    BY <2>5 DEF WireInv
  <2>8. QED
    BY <2>1, <2>3, <2>4, <2>6, <2>7 DEF WireInv
<1>11. CASE ReleaseTimeout
  <2>1. /\ reader = "skip" /\ UNCHANGED <<wire, sent, shown, held>>
        /\ early' = IF Other = started THEN early ELSE early \cup {started}
    BY <1>11 DEF ReleaseTimeout, Releases
  <2>2. early' # {}
    <3>1. Other # started
      BY <1>0, <2>1 DEF Started, Other
    <3>2. QED
      BY <2>1, <3>1
  <2>3. QED
    BY <2>1, <2>2 DEF WireInv, Out
<1>12. CASE HeaderIgnored \/ HeaderFound
  <2>1. PICK k \in 1 .. Len(wire) :
            \A i \in DOMAIN wire' : i \in Nat /\ i + k \in DOMAIN wire /\ wire'[i] = wire[i + k]
    BY <1>0, <1>12, ReadDropped DEF HeaderIgnored, HeaderFound
  <2>2. /\ reader = "read" /\ reader' \in {"read", "found"} /\ UNCHANGED <<sent, shown, held, early>>
        /\ Out' = Out
    BY <1>12 DEF HeaderIgnored, HeaderFound, DropsRead, Out
  <2>3. /\ \A i \in DOMAIN wire' : wire'[i].kind = "text" => wire'[i].n <= sent'
        /\ \A i, j \in DOMAIN wire' :
             i < j /\ wire'[i].kind = "text" /\ wire'[j].kind = "text" => wire'[i].n < wire'[j].n
    <3>1. k \in Nat
      BY <1>0
    <3>2. QED
      BY <2>1, <2>2, <3>1, WireShortens
  <2>4. ASSUME early = {}, NEW i \in DOMAIN wire', wire'[i].kind = "text"
        PROVE  Below(Out, wire'[i].n)
    BY <2>1, <2>2, <2>4 DEF WireInv
  <2>5. Below(Out, sent + 1) /\ (early = {} => Rising(Out))
    BY DEF WireInv
  <2>6. QED
    BY <2>2, <2>3, <2>4, <2>5 DEF WireInv
<1>13. CASE ReadsOn
  BY <1>13, WireKept DEF ReadsOn, Out
<1>14. ASSUME NEW a \in Goroutines, HandSteps(a) PROVE WireInv'
  <2>1. CASE ClosePanel(a)
    <3>1. shown' = shown \o held /\ held' = << >> /\ UNCHANGED <<wire, sent, started, early, reader>>
      BY <2>1 DEF ClosePanel
    <3>2. Out' = Out
      BY <1>0, <3>1, HeldAppend DEF Out
    <3>3. QED
      BY <3>1, <3>2, WireKept
  <2>2. CASE HandBack(a) \/ GateEnd(a) \/ InputBack(a) \/ Unholds(a)
    BY <1>1, <2>2 DEF HandBack, GateEnd, InputBack, Unholds
  <2>3. QED
    BY <1>14, <2>1, <2>2 DEF HandSteps
<1>15. CASE OtherClaims \/ Dismisses \/ TypesLine \/ UNCHANGED vars
  BY <1>1, <1>15 DEF OtherClaims, Dismisses, TypesLine, vars
<1>16. ASSUME NEW t \in {Other} \cup Transfers, ClaimEnds(t) PROVE WireInv'
  BY <1>1, <1>16 DEF ClaimEnds
<1>17. QED
  BY <1>2, <1>3, <1>4, <1>5, <1>6, <1>7, <1>8, <1>9, <1>10, <1>11, <1>12, <1>13, <1>14, <1>15, <1>16
     DEF Next, Session, ReadSteps

(* What comes out of the shell comes from the wire or from the transfer,   *)
(* and neither is passed by the other (copyShellOutput, shellPanel).       *)
THEOREM OutputInvCorrect == Spec => [](PanelInv /\ WireInv /\ Accounted)
<1>1. Init => PanelInv /\ WireInv /\ Accounted
  <2> SUFFICES ASSUME Init PROVE PanelInv /\ WireInv /\ Accounted
    OBVIOUS
  <2>1. PanelInv
    BY DEF Init, PanelInv, Goroutines
  <2>2. Out = << >> /\ wire = << >>
    BY DEF Init, Out
  <2>3. WireInv
    BY <2>2 DEF WireInv, Rising, Below
  <2>4. Accounted
    BY <2>2 DEF Init, Accounted, Texts, Of
  <2>5. QED
    BY <2>1, <2>3, <2>4
<1>2. /\ TypeOK /\ Started /\ ClaimInv /\ PanelInv /\ WireInv /\ Accounted /\ [Next]_vars
      => (PanelInv /\ WireInv /\ Accounted)'
  BY PanelStep, WireStep, AccountedStep
<1>3. QED
  BY <1>1, <1>2, TypeCorrect, ClaimInvCorrect, PTL DEF Spec

(* Every piece of the device's output is still to be read, on the          *)
(* terminal, held by the panel, dropped by a panel without room, or missed *)
(* at the beginning or the end of a transfer; and what comes out is in     *)
(* order, unless a release was early: whether or not a transfer overtakes  *)
(* a hand-back (copyShellOutput, zDetector, shellPanel).                   *)
THEOREM OutputKeptHolds == Spec => []OutputKept
<1>1. WireInv /\ Accounted => OutputKept
  BY DEF WireInv, Accounted, OutputKept, Rising, Out
<1>2. QED
  BY <1>1, OutputInvCorrect, PTL
=============================================================================
