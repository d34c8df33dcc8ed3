---------------------------- MODULE ZModemProofs ----------------------------
(***************************************************************************)
(* Theorems about ZModem, for every batch, window and number of damaged    *)
(* items, and about the bytes of a frame (ZFraming).                       *)
(*                                                                         *)
(* BatchInv is the inductive invariant. The line to the receiver is a      *)
(* chain: within a frame each unit follows the one before it, the last one *)
(* is where the sender stands, and the first one is the next that the      *)
(* receiver in its frame expects. An answer that is still on its way back  *)
(* speaks of the file under way. The steps are sorted by what they do to   *)
(* the line and to the place of the side that takes them (SenderMoves,     *)
(* ReceiverMoves); each kind is then shown to keep each part.              *)
(***************************************************************************)
EXTENDS ZModem, ZFraming, TLAPS, SequenceTheorems

-----------------------------------------------------------------------------
(* What is on the line.                                                    *)

Ends  == {"ZCRCE", "ZCRCG", "ZCRCQ", "ZCRCW"}
Units == (Files \X (Nat \ {0})) \cup {<<>>}

Forward ==
    [t : {"ZFILE"}, file : Files] \cup [t : {"ZDATA", "ZEOF"}, pos : Nat]
    \cup [t : {"DATA"}, data : Units, end : Ends] \cup [t : {"ZFIN", "CAN"}]
Answers ==
    [t : {"ZRPOS", "ZACK"}, pos : Nat]
    \cup [t : {"ZRINIT", "ZSKIP", "ZNAK", "ZFERR", "ZFIN", "CAN"}]

IsUnit(h)  == h.t = "DATA" /\ h.data # <<>>
IsEmpty(h) == h.t = "DATA" /\ h.data = <<>>

\* The fields of what is on the line to the receiver.
LEMMA ForwardFacts ==
    \A h \in Forward :
        /\ h.t \in {"ZFILE", "ZDATA", "ZEOF", "DATA", "ZFIN", "CAN"}
        /\ h.t = "ZFILE" => h.file \in Files /\ h = Offer(h.file)
        /\ h.t \in {"ZDATA", "ZEOF"} => h.pos \in Nat
        /\ h.t = "DATA" => h.data \in Units
        /\ h.t = "CAN" => h = Cancel
BY DEF Forward, Offer, Cancel, Header

\* What the sender puts on the line.
LEMMA Sent ==
    /\ \A f \in Files : /\ Offer(f) \in Forward
                        /\ Offer(f).t = "ZFILE" /\ Offer(f).file = f
    /\ \A p \in Nat, t \in {"ZDATA", "ZEOF"} :
          At(t, p) \in Forward /\ At(t, p).t = t /\ At(t, p).pos = p
    /\ \A u \in Units, e \in Ends :
          /\ Data(u, e) \in Forward
          /\ Data(u, e).t = "DATA" /\ Data(u, e).data = u /\ Data(u, e).end = e
    /\ \A t \in {"ZFIN", "CAN"} : Header(t) \in Forward /\ Header(t).t = t
    /\ Cancel \in Forward /\ Cancel.t = "CAN"
BY DEF Forward, Offer, At, Data, Header, Cancel

\* What the receiver puts on the line.
LEMMA Answered ==
    /\ \A p \in Nat, t \in {"ZRPOS", "ZACK"} :
          At(t, p) \in Answers /\ At(t, p).t = t /\ At(t, p).pos = p
    /\ \A t \in {"ZRINIT", "ZSKIP", "ZNAK", "ZFERR", "ZFIN", "CAN"} :
          Header(t) \in Answers /\ Header(t).t = t
    /\ Cancel \in Answers /\ Cancel.t = "CAN"
BY DEF Answers, At, Header, Cancel

\* The fields of what is on the line to the sender.
LEMMA AnswerFacts ==
    \A h \in Answers :
        /\ h.t \in {"ZRPOS", "ZACK", "ZRINIT", "ZSKIP", "ZNAK", "ZFERR", "ZFIN", "CAN"}
        /\ h.t \in {"ZRPOS", "ZACK"} => h.pos \in Nat
BY DEF Answers

\* A unit of a file, and its place in it.
LEMMA UnitFacts ==
    \A f \in Files, n \in Nat \ {0} : 
       Unit(f, n) \in Units /\ Unit(f, n) # <<>> /\ Unit(f, n)[2] = n
BY DEF Unit, Units

\* The subpacket without data, which closes a frame or pokes the receiver.
LEMMA EmptyUnit == <<>> \in Units
BY DEF Units
-----------------------------------------------------------------------------
\* Reading, and dropping what is repeated.
LEMMA ForwardTail ==
    ASSUME NEW w \in Seq(Forward), w # <<>>
    PROVE  /\ Head(w) = w[1] /\ w[1] \in Forward
           /\ Tail(w) \in Seq(Forward) /\ Len(Tail(w)) = Len(w) - 1
           /\ \A i \in 1 .. Len(w) - 1 : Tail(w)[i] = w[i + 1]
BY HeadTailProperties

\* What is left of the line when its first k items are gone.
LEMMA ForwardSuffix ==
    ASSUME NEW w \in Seq(Forward), NEW k \in 0 .. Len(w)
    PROVE  /\ SubSeq(w, k + 1, Len(w)) \in Seq(Forward)
           /\ Len(SubSeq(w, k + 1, Len(w))) = Len(w) - k
           /\ \A i \in 1 .. Len(w) - k : SubSeq(w, k + 1, Len(w))[i] = w[i + k]
OBVIOUS

\* The sender reads the first answer.
LEMMA AnswerTail ==
    ASSUME NEW w \in Seq(Answers), w # <<>>
    PROVE  /\ Head(w) = w[1] /\ w[1] \in Answers
           /\ Tail(w) \in Seq(Answers) /\ Len(Tail(w)) = Len(w) - 1
           /\ \A i \in 1 .. Len(w) - 1 : Tail(w)[i] = w[i + 1]
BY HeadTailProperties

\* Sending.
LEMMA ForwardConcat ==
    ASSUME NEW w \in Seq(Forward), NEW v \in Seq(Forward)
    PROVE  /\ w \o v \in Seq(Forward) /\ Len(w \o v) = Len(w) + Len(v)
           /\ \A i \in 1 .. Len(w) : (w \o v)[i] = w[i]
           /\ \A i \in 1 .. Len(v) : (w \o v)[Len(w) + i] = v[i]
OBVIOUS

\* The receiver adds answers behind those on the line.
LEMMA AnswerConcat ==
    ASSUME NEW w \in Seq(Answers), NEW v \in Seq(Answers)
    PROVE  /\ w \o v \in Seq(Answers) /\ Len(w \o v) = Len(w) + Len(v)
           /\ \A i \in 1 .. Len(w) : (w \o v)[i] = w[i]
           /\ \A i \in 1 .. Len(v) : (w \o v)[Len(w) + i] = v[i]
OBVIOUS
-----------------------------------------------------------------------------
(* Types.                                                                  *)

Streams ==
    [pos : Nat, acked : Nat, new : BOOLEAN, open : BOOLEAN, at : Nat, fresh : BOOLEAN,
     echoed : BOOLEAN, chk : Nat, last : Nat, same : Nat, eof : BOOLEAN]
\* A zStream in a file of n units.
InFile(s, n) == s \in Streams /\ s.pos <= n /\ s.acked <= n /\ s.same <= MaxSame

LineTypes == fwd \in Seq(Forward) /\ rev \in Seq(Answers) /\ damage \in 0 .. MaxDamage
SenderTypes ==
    /\ sPc \in {"offer", "stream", "ack", "eof", "fin", "ok", "failed"}
    /\ sFile \in Files
    /\ duplex \in BOOLEAN /\ spoke \in BOOLEAN /\ asked \in BOOLEAN /\ cut \in BOOLEAN
    /\ tries \in 0 .. MaxRetries
    /\ InFile(st, Size[sFile]) /\ InFile(mark, Size[sFile])
    /\ res \in [Files -> {"none", "ok", "refused", "failed"}]
ReceiverTypes ==
    /\ rPc \in {"wait", "choose", "data", "frame", "ended", "failed"}
    /\ rFile \in Files \cup {NoFile} /\ lastOffer \in Files \cup {NoFile}
    /\ retries \in 0 .. MaxAsks
    /\ rposOut \in BOOLEAN /\ gotData \in BOOLEAN
    /\ part \in Seq(Units)
    /\ saved \in [Files -> Seq(Units)] /\ dropped \subseteq Files
Types == LineTypes /\ SenderTypes /\ ReceiverTypes

\* The types imply the bounds that the runs check.
LEMMA TypesAreOK == Types => TypeOK
<1> SUFFICES ASSUME Types PROVE TypeOK
  OBVIOUS
<1>1. st \in Streams /\ st.pos <= Size[sFile] /\ st.acked <= Size[sFile] /\ st.same <= MaxSame
  BY DEF Types, SenderTypes, InFile
<1>2. st.pos \in Nat /\ st.acked \in Nat /\ st.same \in Nat
  BY <1>1, Zenon DEF Streams
<1>3. st.same \in 0 .. MaxSame /\ 0 <= st.pos /\ 0 <= st.acked
  BY <1>1, <1>2, SizeAssumption
<1>4. QED
  BY <1>1, <1>3 DEF Types, LineTypes, SenderTypes, ReceiverTypes, TypeOK

\* The files of the batch are numbered from 1.
LEMMA Sizes == Files = 1 .. Len(Size) /\ Len(Size) \in Nat \ {0} /\ \A f \in Files : Size[f] \in Nat
BY SizeAssumption DEF Files

\* Reading an answer, or losing one to noise.
LEMMA HearsTypes ==
    ASSUME LineTypes, rev # <<>>, rev' = Tail(rev), UNCHANGED damage \/ Noise,
           fwd' \in Seq(Forward)
    PROVE  LineTypes'
BY AnswerTail, SizeAssumption DEF LineTypes, Noise

\* A fresh zStream stands in the file.
LEMMA FreshStream == ASSUME NEW n \in Nat, NEW p \in 0 .. n PROVE InFile(Stream(p), n)
BY SizeAssumption DEF InFile, Streams, Stream

\* What the sender adds keeps the line well formed.
LEMMA SendsTypes ==
    ASSUME LineTypes, NEW items \in Seq(Forward), SenderSends(items)
    PROVE  fwd' \in Seq(Forward)
BY ForwardConcat DEF LineTypes, SenderSends

\* EndFile sends one item: the next offer or ZFIN.
LEMMA EndFileSends ==
    ASSUME SenderTypes, NEW o, EndFile(o)
    PROVE  \E items \in Seq(Forward) : SenderSends(items)
<1>1. <<Header("ZFIN")>> \in Seq(Forward)
  BY Sent
<1>2. sFile < Len(Size) => <<Offer(sFile + 1)>> \in Seq(Forward)
  BY Sizes, Sent DEF SenderTypes
<1>3. QED
  BY <1>1, <1>2 DEF EndFile

\* EndFile keeps the types; the next file starts with a fresh zStream.
LEMMA EndFileTypes ==
    ASSUME SenderTypes, NEW o \in {"ok", "refused", "failed"}, EndFile(o)
    PROVE  SenderTypes'
<1>1. sFile \in 1 .. Len(Size) /\ Len(Size) \in Nat
  BY Sizes DEF SenderTypes
<1>2. sFile' \in Files /\ sPc' \in {"offer", "fin"}
  BY <1>1, Sizes DEF EndFile
<1>3. res' \in [Files -> {"none", "ok", "refused", "failed"}]
  BY DEF EndFile, SenderTypes
<1>4. InFile(Stream(0), Size[sFile'])
  BY <1>2, Sizes, FreshStream
<1>5. /\ tries' = 0 /\ spoke' = FALSE /\ asked' = FALSE /\ cut' = FALSE
      /\ st' = Stream(0) /\ mark' = Stream(0) /\ duplex' = duplex
  BY DEF EndFile
<1>6. tries' \in 0 .. MaxRetries
  BY <1>5, SizeAssumption
<1>7. QED
  BY <1>2, <1>3, <1>4, <1>5, <1>6 DEF SenderTypes

\* A session that fails keeps the types.
LEMMA FailsTypes ==
    ASSUME SenderTypes, Fails(<<Cancel>>) \/ Fails(<<>>)
    PROVE  SenderTypes' /\ \E items \in Seq(Forward) : SenderSends(items)
<1>1. <<Cancel>> \in Seq(Forward) /\ <<>> \in Seq(Forward)
  BY Sent
<1>2. QED
  BY <1>1 DEF Fails, SenderTypes

\* The zStream after each thing that may happen to it.
LEMMA OpenedTypes ==
    ASSUME NEW n \in Nat, InFile(st, n)
    PROVE  InFile(Opened, n)
BY DEF InFile, Streams, Opened

\* Counting a ZRPOS keeps the zStream in the file.
LEMMA CountedTypes ==
    ASSUME NEW n \in Nat, InFile(st, n), NEW p \in Nat, Counted(p).same <= MaxSame
    PROVE  InFile(Counted(p), n)
<1> DEFINE x == IF p = st.last THEN st.same + 1 ELSE 0
<1>1. st \in Streams /\ st.same \in Nat /\ st.pos <= n /\ st.acked <= n
  BY DEF InFile, Streams
<1>2. x \in Nat
  BY <1>1
<1>3. Counted(p) = [st EXCEPT !.same = x, !.last = p]
  BY DEF Counted
<1> HIDE DEF x
<1>4. /\ Counted(p) \in Streams
      /\ Counted(p).pos = st.pos /\ Counted(p).acked = st.acked
  BY <1>1, <1>2, <1>3 DEF Streams
<1>5. QED
  BY <1>1, <1>4 DEF InFile

\* So does a rewind.
LEMMA RewoundTypes ==
    ASSUME NEW n \in Nat, NEW s, InFile(s, n), NEW p \in Nat
    PROVE  InFile(Rewound(s, p), n)
<1> DEFINE x == IF p < s.pos THEN p ELSE s.pos
           y == s.new \/ s.open \/ p < s.pos
<1>1. s \in Streams /\ s.pos \in Nat /\ s.pos <= n /\ s.acked <= n /\ s.same <= MaxSame
  BY DEF InFile, Streams
<1>2. x \in Nat /\ x <= n
  BY <1>1
<1>3. y \in BOOLEAN
  BY <1>1, Zenon DEF Streams
<1>4. Rewound(s, p) = [s EXCEPT !.pos = x, !.new = y, !.open = FALSE]
  BY DEF Rewound
<1> HIDE DEF x, y
<1> DEFINE r == [s EXCEPT !.pos = x, !.new = y, !.open = FALSE]
<1>5. r \in Streams /\ r.pos = x /\ r.acked = s.acked /\ r.same = s.same
  BY <1>1, <1>2, <1>3 DEF Streams
<1>6. QED
  BY <1>1, <1>2, <1>4, <1>5 DEF InFile

\* Whatever handleReverse left behind, the callers keep the types.
LEMMA GoesOnTypes ==
    ASSUME SenderTypes, Streaming, NEW new, NEW ack \in BOOLEAN, GoesOn(new, ack),
           InFile(new, Size[sFile]), UNCHANGED <<sFile, duplex, spoke, asked, mark, cut, res>>
    PROVE  SenderTypes' /\ Streaming' /\ st' = new
<1>1. /\ sPc' \in {"stream", "ack", "eof"} /\ st' = new
      /\ tries' = tries \/ tries' = 0 \/ (tries < MaxRetries /\ tries' = tries + 1)
  BY DEF GoesOn
<1>2. tries' \in 0 .. MaxRetries
  BY <1>1, SizeAssumption DEF SenderTypes
<1>3. QED
  BY <1>1, <1>2 DEF SenderTypes, Streaming
\* An answer that is heard leaves the others on the line.
LEMMA Heard ==
    ASSUME LineTypes, NEW h, Hears(h)
    PROVE  /\ rev # <<>> /\ h = rev[1] /\ h \in Answers
           /\ rev' = Tail(rev) /\ UNCHANGED damage
BY AnswerTail DEF LineTypes, Hears

\* Of the steps of the sender: what it reads and what it sends.
SenderLine ==
    /\ \/ UNCHANGED <<rev, damage>>
       \/ rev # <<>> /\ rev' = Tail(rev) /\ (UNCHANGED damage \/ Noise)
    /\ \E items \in Seq(Forward) : SenderSends(items)

\* The line stays well formed under the sender.
LEMMA SenderLineTypes == LineTypes /\ SenderLine => LineTypes'
<1> SUFFICES ASSUME LineTypes, SenderLine PROVE LineTypes'
  OBVIOUS
<1>1. fwd' \in Seq(Forward)
  BY SendsTypes DEF SenderLine
<1>2. QED
  BY <1>1, HearsTypes DEF SenderLine, LineTypes

\* A step that sends nothing sends the empty sequence.
LEMMA NothingSent == ASSUME LineTypes PROVE UNCHANGED fwd => \E items \in Seq(Forward) : SenderSends(items)
<1>1. fwd \o <<>> = fwd /\ <<>> \in Seq(Forward)
  BY DEF LineTypes
<1>2. QED
  BY <1>1 DEF SenderSends

\* The types under the steps of an offer.
LEMMA OfferTypes ==
    ASSUME LineTypes, SenderTypes,
           \/ OfferAccepted \/ OfferSkipped \/ OfferHears \/ OfferAgain \/ OfferTimeout
    PROVE  SenderLine /\ SenderTypes'
<1> USE DEF lineVars, recvVars
<1>1. <<Offer(sFile)>> \in Seq(Forward) /\ <<>> \in Seq(Forward)
  BY Sent DEF SenderTypes
<1>2. CASE OfferAccepted
  <2>1. PICK h \in ToSet(rev) :
            /\ Hears(h) /\ h.t = "ZRPOS"
            /\ st' = Stream(IF h.pos > Size[sFile] THEN Size[sFile] ELSE h.pos)
    BY <1>2 DEF OfferAccepted
  <2>2. h.pos \in Nat /\ Size[sFile] \in Nat
    BY <2>1, Heard, AnswerFacts, Sizes DEF SenderTypes
  <2>3. InFile(st', Size[sFile])
    BY <2>1, <2>2, FreshStream
  <2>4. SenderLine
    BY <1>2, <2>1, Heard, NothingSent DEF OfferAccepted, SenderLine
  <2>5. QED
    BY <1>2, <2>3, <2>4 DEF OfferAccepted, SenderTypes
<1>3. CASE OfferSkipped
  <2>1. Hears(Header("ZSKIP")) /\ EndFile("refused")
    BY <1>3 DEF OfferSkipped
  <2>2. SenderTypes'
    BY <2>1, EndFileTypes
  <2>3. \E items \in Seq(Forward) : SenderSends(items)
    BY <2>1, EndFileTypes, EndFileSends
  <2>4. QED
    BY <2>1, <2>2, <2>3, Heard DEF SenderLine
<1>4. CASE OfferHears
  <2>1. PICK h \in ToSet(rev) : Hears(h) /\ asked' = (h.t = "ZRINIT") /\ spoke' = (spoke \/ h.t # "ZRINIT")
    BY <1>4 DEF OfferHears
  <2>2. SenderLine
    BY <1>4, <2>1, Heard, NothingSent DEF OfferHears, SenderLine
  <2>3. asked' \in BOOLEAN
    BY <2>1, Zenon
  <2>4. spoke' \in BOOLEAN
    <3>1. (spoke \/ h.t # "ZRINIT") \in BOOLEAN
      OBVIOUS
    <3>2. QED
      BY <2>1, <3>1
  <2>5. QED
    BY <1>4, <2>2, <2>3, <2>4 DEF OfferHears, SenderTypes
<1>5. CASE OfferAgain
  BY <1>1, <1>5, Heard DEF OfferAgain, SenderLine, SenderTypes
<1>6. CASE OfferTimeout
  <2>1. SenderSends(<<Offer(sFile)>>) \/ SenderSends(<<>>)
    BY <1>6 DEF OfferTimeout
  <2>2. SenderLine
    BY <1>1, <1>6, <2>1 DEF OfferTimeout, SenderLine
  <2>3. tries' \in 0 .. MaxRetries
    BY <1>6, SizeAssumption DEF OfferTimeout, SenderTypes
  <2>4. QED
    BY <1>6, <2>2, <2>3 DEF OfferTimeout, SenderTypes
<1>7. QED
  BY <1>2, <1>3, <1>4, <1>5, <1>6

\* Short sequences of items.
LEMMA SendsOne == \A x \in Forward, y \in Forward, z \in Forward :
    <<x>> \in Seq(Forward) /\ <<x, y>> \in Seq(Forward) /\ <<x, y, z>> \in Seq(Forward)
OBVIOUS

\* What opens a frame, and what closes one.
LEMMA OpeningTypes == SenderTypes => Opening = <<>> \/ Opening = <<At("ZDATA", st.pos)>>
BY DEF Opening

\* The fields of a zStream.
LEMMA StreamFields ==
    ASSUME NEW s \in Streams
    PROVE  /\ s.pos \in Nat /\ s.acked \in Nat /\ s.at \in Nat /\ s.chk \in Nat
           /\ s.last \in Nat /\ s.same \in Nat
           /\ s.new \in BOOLEAN /\ s.open \in BOOLEAN /\ s.eof \in BOOLEAN
BY Zenon DEF Streams

\* The types under a data subpacket.
LEMMA SendDataTypes ==
    ASSUME SenderTypes, SendData
    PROVE  SenderLine /\ SenderTypes'
<1> DEFINE next == st.pos + 1
           end  == IF ~duplex THEN "ZCRCW"
                   ELSE IF next >= Size[sFile] THEN "ZCRCE"
                   ELSE IF Opened.chk + 1 >= Checkpoint THEN "ZCRCQ" ELSE "ZCRCG"
           ends == end \in {"ZCRCW", "ZCRCE"}
           chk  == IF end = "ZCRCQ" THEN 0 ELSE Opened.chk + 1
<1>1. /\ st \in Streams /\ st.pos \in Nat /\ st.pos < Size[sFile]
      /\ sFile \in Files /\ Size[sFile] \in Nat
  BY StreamFields, Sizes DEF SendData, SenderTypes, InFile
<1>2. InFile(Opened, Size[sFile])
  BY <1>1, OpenedTypes DEF SenderTypes
<1>3. end \in Ends /\ next \in Nat \ {0} /\ next <= Size[sFile] /\ ends \in BOOLEAN
  BY <1>1 DEF Ends
<1>4. chk \in Nat
  BY <1>2, StreamFields DEF InFile
<1>5. /\ SenderSends(Append(Opening, Data(Unit(sFile, next), end)))
      /\ st' = [Opened EXCEPT !.pos = next, !.fresh = FALSE, !.chk = chk, !.new = ends, !.open = ~ends]
  BY DEF SendData
<1> HIDE DEF next, end, chk, ends
<1>6. InFile(st', Size[sFile])
  BY <1>2, <1>3, <1>4, <1>5 DEF InFile, Streams
<1>7. \E items \in Seq(Forward) : SenderSends(items)
  <2>1. Data(Unit(sFile, next), end) \in Forward
    BY <1>1, <1>3, UnitFacts, Sent
  <2>2. At("ZDATA", st.pos) \in Forward
    BY <1>1, Sent
  <2>3. Opening \in Seq(Forward)
    BY <2>2, SendsOne, OpeningTypes DEF Opening
  <2>4. Append(Opening, Data(Unit(sFile, next), end)) \in Seq(Forward)
    BY <2>1, <2>3
  <2>5. QED
    BY <1>5, <2>4
<1>8. SenderLine
  BY <1>7 DEF SendData, SenderLine
<1>9. (sPc' = sPc /\ mark' = mark /\ tries' = tries) \/ (sPc' = "ack" /\ mark' = st' /\ tries' = 0)
  BY DEF SendData
<1>10. tries' \in 0 .. MaxRetries
  BY <1>9, SizeAssumption DEF SenderTypes
<1>11. UNCHANGED <<sFile, duplex, spoke, asked, cut, res>>
  BY DEF SendData
<1>12. QED
  BY <1>6, <1>8, <1>9, <1>10, <1>11 DEF SenderTypes

\* The types under cutFile.
LEMMA ReadFailsTypes ==
    ASSUME SenderTypes, ReadFails
    PROVE  SenderLine /\ SenderTypes'
<1>1. st \in Streams /\ st.pos \in Nat
  BY StreamFields DEF SenderTypes, InFile
<1>2. sFile \in Files /\ Size[sFile] \in Nat
  BY Sizes DEF SenderTypes
<1>3. InFile(Opened, Size[sFile])
  BY <1>2, OpenedTypes DEF SenderTypes
<1>4. st' = [Opened EXCEPT !.open = FALSE, !.eof = TRUE]
  BY DEF ReadFails
<1>5. InFile(st', Size[sFile])
  BY <1>3, <1>4 DEF InFile, Streams
<1>6. \E items \in Seq(Forward) : SenderSends(items)
  <2>1. At("ZDATA", st.pos) \in Forward /\ At("ZEOF", st.pos) \in Forward
        /\ Data(<<>>, "ZCRCE") \in Forward
    BY <1>1, Sent, EmptyUnit DEF Ends
  <2>2. Opening \in Seq(Forward)
    BY <2>1, SendsOne DEF Opening
  <2>3. Opening \o <<Data(<<>>, "ZCRCE"), At("ZEOF", st.pos)>> \in Seq(Forward)
    BY <2>1, <2>2, SendsOne
  <2>4. QED
    BY <2>3 DEF ReadFails
<1>7. SenderLine
  BY <1>6 DEF ReadFails, SenderLine
<1>8. /\ sPc' = "eof" /\ tries' = 1 /\ cut' = TRUE /\ mark' = st
      /\ UNCHANGED <<sFile, duplex, spoke, asked, res>>
  BY DEF ReadFails
<1>9. tries' \in 0 .. MaxRetries
  BY <1>8, SizeAssumption
<1>10. QED
  BY <1>5, <1>7, <1>8, <1>9 DEF SenderTypes

\* The end that ZEOF names lies in the file.
LEMMA FileEndTypes == ASSUME SenderTypes PROVE FileEnd \in Nat /\ FileEnd <= Size[sFile]
BY StreamFields, Sizes DEF FileEnd, SenderTypes, InFile

\* What closes an open frame.
LEMMA ClosingTypes == Closing \in Seq(Forward)
BY Sent, EmptyUnit, SendsOne DEF Closing, Ends

\* The types under the other steps of streamFile and waitAck.
LEMMA StreamTypes ==
    ASSUME LineTypes, SenderTypes,
           \/ StreamEOF \/ AwaitWindow \/ AckRewinds \/ AckPokes \/ AckRestates \/ EOFAgain
    PROVE  SenderLine /\ SenderTypes'
<1> USE DEF lineVars, recvVars
<1>0. /\ sFile \in Files /\ Size[sFile] \in Nat /\ st \in Streams /\ InFile(st, Size[sFile])
      /\ FileEnd \in Nat
  BY Sizes, FileEndTypes DEF SenderTypes, InFile
<1>1. /\ \A p \in Nat : <<At("ZEOF", p)>> \in Seq(Forward)
      /\ <<Data(<<>>, "ZCRCQ")>> \in Seq(Forward)
  BY Sent, EmptyUnit, SendsOne DEF Ends
<1>2. CASE StreamEOF
  <2>1. SenderLine
    BY <1>0, <1>1, <1>2 DEF StreamEOF, SenderLine
  <2>2. InFile([st EXCEPT !.eof = TRUE], Size[sFile])
    BY <1>0 DEF InFile, Streams
  <2>3. 1 \in 0 .. MaxRetries
    BY SizeAssumption
  <2>4. QED
    BY <1>2, <2>1, <2>2, <2>3 DEF StreamEOF, SenderTypes
<1>3. CASE AwaitWindow
  <2>1. SenderLine
    BY <1>3, NothingSent DEF AwaitWindow, SenderLine
  <2>2. QED
    BY <1>3, <2>1, SizeAssumption DEF AwaitWindow, SenderTypes
<1>4. CASE AckRewinds
  <2>1. SenderLine
    BY <1>4, ClosingTypes DEF AckRewinds, SenderLine
  <2>2. InFile(Rewound(st, st.at), Size[sFile])
    BY <1>0, StreamFields, RewoundTypes
  <2>3. QED
    BY <1>4, <2>1, <2>2 DEF AckRewinds, SenderTypes
<1>5. CASE AckPokes
  <2>1. SenderLine
    BY <1>1, <1>5 DEF AckPokes, SenderLine
  <2>2. tries' \in 0 .. MaxRetries
    BY <1>5, SizeAssumption DEF AckPokes, SenderTypes
  <2>3. QED
    BY <1>5, <2>1, <2>2 DEF AckPokes, SenderTypes
<1>6. CASE AckRestates
  <2>1. SenderLine
    BY <1>6, NothingSent DEF AckRestates, SenderLine
  <2>2. InFile([st EXCEPT !.new = TRUE], Size[sFile])
    BY <1>0 DEF InFile, Streams
  <2>3. QED
    BY <1>6, <2>1, <2>2 DEF AckRestates, SenderTypes
<1>7. CASE EOFAgain
  <2>1. SenderLine
    BY <1>0, <1>1, <1>7 DEF EOFAgain, SenderLine, HearsNoise, Noise
  <2>2. tries' \in 0 .. MaxRetries
    BY <1>7, SizeAssumption DEF EOFAgain, SenderTypes
  <2>3. QED
    BY <1>7, <2>1, <2>2 DEF EOFAgain, SenderTypes
<1>8. QED
  BY <1>2, <1>3, <1>4, <1>5, <1>6, <1>7
\* Where a ZRPOS asks the sender to go on.
Asked(h) == IF h.pos > FileEnd THEN FileEnd ELSE h.pos

\* An offset asked for by ZRPOS is cut to the end of the file.
LEMMA AskedTypes ==
    ASSUME LineTypes, SenderTypes, NEW h, Hears(h), h.t = "ZRPOS"
    PROVE  Asked(h) \in Nat /\ Asked(h) <= Size[sFile]
BY Heard, AnswerFacts, FileEndTypes, Sizes DEF Asked, SenderTypes

\* The types under handleReverse.
LEMMA ReverseTypes ==
    ASSUME LineTypes, SenderTypes,
           \/ ReverseAck \/ ReverseEcho \/ ReverseRewinds \/ ReverseTooOften
           \/ ReverseSkip \/ ReverseInit \/ PeerGone
    PROVE  SenderLine /\ SenderTypes'
<1> USE DEF lineVars, recvVars
<1> DEFINE n == Size[sFile]
<1>0. n \in Nat /\ InFile(st, n) /\ st \in Streams
  BY Sizes DEF SenderTypes, InFile
<1> HIDE DEF n
<1>1. CASE ReverseAck
  <2>1. PICK h \in ToSet(rev) :
            /\ Hears(h) /\ h.t = "ZACK"
            /\ GoesOn([st EXCEPT !.acked = IF h.pos \in @ .. st.pos THEN h.pos ELSE @], TRUE)
    BY <1>1 DEF ReverseAck
  <2> DEFINE a == IF h.pos \in st.acked .. st.pos THEN h.pos ELSE st.acked
  <2>2. a \in Nat /\ a <= n
    BY <1>0, StreamFields DEF InFile
  <2> HIDE DEF a
  <2>3. InFile([st EXCEPT !.acked = a], n)
    BY <1>0, <2>2 DEF InFile, Streams
  <2>4. GoesOn([st EXCEPT !.acked = a], TRUE)
    BY <2>1 DEF a
  <2>5. UNCHANGED <<fwd, sFile, duplex, spoke, asked, mark, cut, res>> /\ Streaming
    BY <1>1 DEF ReverseAck
  <2>6. SenderTypes'
    BY <2>3, <2>4, <2>5, GoesOnTypes DEF n
  <2>7. SenderLine
    BY <2>1, <2>5, Heard, NothingSent DEF SenderLine
  <2>8. QED
    BY <2>6, <2>7
<1>2. CASE ReverseEcho
  <2>1. PICK h \in ToSet(rev) :
            /\ Hears(h) /\ h.t = "ZRPOS" /\ Counted(Asked(h)).same <= MaxSame
            /\ GoesOn([Counted(Asked(h)) EXCEPT !.echoed = TRUE], FALSE)
    BY <1>2 DEF ReverseEcho, Asked
  <2>2. InFile(Counted(Asked(h)), n)
    BY <1>0, <2>1, AskedTypes, CountedTypes
  <2>3. InFile([Counted(Asked(h)) EXCEPT !.echoed = TRUE], n)
    BY <2>2 DEF InFile, Streams
  <2>4. UNCHANGED <<fwd, sFile, duplex, spoke, asked, mark, cut, res>> /\ Streaming
    BY <1>2 DEF ReverseEcho
  <2>5. SenderTypes'
    BY <2>1, <2>3, <2>4, GoesOnTypes DEF n
  <2>6. SenderLine
    BY <2>1, <2>4, Heard, NothingSent DEF SenderLine
  <2>7. QED
    BY <2>5, <2>6
<1>3. CASE ReverseRewinds
  <2> DEFINE New(h) == [Rewound(Counted(Asked(h)), Asked(h)) EXCEPT
                         !.acked = IF Asked(h) > @ THEN Asked(h) ELSE @, !.eof = FALSE]
  <2>1. PICK h \in ToSet(rev) :
            /\ Hears(h) /\ h.t = "ZRPOS" /\ Counted(Asked(h)).same <= MaxSame
            /\ IF cut THEN EndFile("failed")
                      ELSE /\ SenderSends(Closing)
                           /\ GoesOn(New(h), FALSE)
                           /\ UNCHANGED <<sFile, duplex, spoke, asked, mark, cut, res>>
    BY <1>3 DEF ReverseRewinds, Asked
  <2>2. Streaming
    BY <1>3 DEF ReverseRewinds
  <2>3. CASE cut
    BY <2>1, <2>3, Heard, EndFileTypes, EndFileSends DEF SenderLine
  <2>4. CASE ~cut
    <3> DEFINE p == Asked(h)
               r == Rewound(Counted(p), p)
               a == IF p > r.acked THEN p ELSE r.acked
    <3>1. p \in Nat /\ p <= n
      BY <2>1, AskedTypes DEF n
    <3>2. InFile(Counted(p), n)
      BY <1>0, <2>1, <3>1, CountedTypes
    <3>3. InFile(r, n)
      BY <1>0, <3>1, <3>2, RewoundTypes
    <3>4. New(h) = [r EXCEPT !.acked = a, !.eof = FALSE]
      OBVIOUS
    <3> HIDE DEF p, r
    <3>5. a \in Nat /\ a <= n
      BY <1>0, <3>1, <3>3, StreamFields DEF InFile
    <3> HIDE DEF a, New
    <3>6. InFile(New(h), n)
      BY <3>3, <3>4, <3>5 DEF InFile, Streams
    <3>7. SenderTypes'
      BY <2>1, <2>2, <2>4, <3>6, GoesOnTypes DEF n
    <3>8. SenderLine
      BY <2>1, <2>4, Heard, ClosingTypes DEF SenderLine
    <3>9. QED
      BY <3>7, <3>8
  <2>5. QED
    BY <2>3, <2>4
<1>4. CASE ReverseTooOften
  <2>1. (\E h \in ToSet(rev) : Hears(h)) /\ Fails(<<Cancel>>)
    BY <1>4 DEF ReverseTooOften
  <2>2. QED
    BY <2>1, Heard, FailsTypes DEF SenderLine
<1>5. CASE ReverseSkip
  <2>1. Hears(Header("ZSKIP")) /\ (EndFile("failed") \/ EndFile("refused"))
    BY <1>5 DEF ReverseSkip
  <2>2. QED
    BY <2>1, Heard, EndFileTypes, EndFileSends DEF SenderLine
<1>6. CASE ReverseInit
  <2>1. /\ Hears(Header("ZRINIT"))
        /\ (EndFile("failed") \/ EndFile("ok")) \/ UNCHANGED <<fwd, senderVars>>
    BY <1>6 DEF ReverseInit
  <2>2. CASE EndFile("failed") \/ EndFile("ok")
    BY <2>1, <2>2, Heard, EndFileTypes, EndFileSends DEF SenderLine
  <2>3. CASE UNCHANGED <<fwd, senderVars>>
    BY <2>1, <2>3, Heard, NothingSent DEF SenderLine, senderVars, SenderTypes
  <2>4. QED
    BY <2>1, <2>2, <2>3
<1>7. CASE PeerGone
  <2>1. (\E h \in ToSet(rev) : Hears(h)) /\ Fails(<<>>)
    BY <1>7 DEF PeerGone
  <2>2. QED
    BY <2>1, Heard, FailsTypes DEF SenderLine
<1>8. QED
  BY <1>1, <1>2, <1>3, <1>4, <1>5, <1>6, <1>7

\* The types under noise and the closing ZFIN.
LEMMA OtherTypes ==
    ASSUME LineTypes, SenderTypes,
           GivesUp \/ HeaderLost \/ FinAnswered \/ FinHears \/ FinCancelled \/ FinTimeout
    PROVE  SenderLine /\ SenderTypes'
<1> USE DEF lineVars, recvVars
<1>1. CASE GivesUp
  BY <1>1, FailsTypes DEF GivesUp, SenderLine
<1>2. CASE HeaderLost
  <2>1. SenderLine
    BY <1>2, NothingSent DEF HeaderLost, SenderLine, HearsNoise, Noise
  <2>2. asked' \in BOOLEAN
    <3>1. (asked /\ sPc # "offer") \in BOOLEAN
      OBVIOUS
    <3>2. asked' = (asked /\ sPc # "offer")
      BY <1>2 DEF HeaderLost
    <3>3. QED
      BY <3>1, <3>2, Zenon
  <2>3. QED
    BY <1>2, <2>1, <2>2 DEF HeaderLost, SenderTypes
<1>3. CASE FinAnswered
  BY <1>3, Heard, NothingSent DEF FinAnswered, SenderLine, SenderTypes
<1>4. CASE FinHears
  <2>1. \E h \in ToSet(rev) : Hears(h)
    BY <1>4 DEF FinHears
  <2>2. QED
    BY <1>4, <2>1, Heard, NothingSent DEF FinHears, SenderLine, SenderTypes, senderVars
<1>5. CASE FinCancelled
  BY <1>5, Heard, FailsTypes DEF FinCancelled, SenderLine
<1>6. CASE FinTimeout
  <2>1. <<Header("ZFIN")>> \in Seq(Forward)
    BY Sent, SendsOne
  <2>2. SenderLine
    BY <1>6, <2>1, NothingSent DEF FinTimeout, SenderLine
  <2>3. tries' \in 0 .. MaxRetries /\ sPc' \in {"fin", "ok"}
    BY <1>6, SizeAssumption DEF FinTimeout, SenderTypes
  <2>4. QED
    BY <1>6, <2>2, <2>3 DEF FinTimeout, SenderTypes
<1>7. QED
  BY <1>1, <1>2, <1>3, <1>4, <1>5, <1>6

\* The sender touches nothing of the receiver.
LEMMA SenderLeavesReceiver == Sender => UNCHANGED recvVars
BY DEF Sender, OfferAccepted, OfferSkipped, OfferHears, OfferAgain, OfferTimeout, GivesUp,
   StreamEOF, AwaitWindow, SendData, ReadFails, ReverseAck, ReverseEcho, ReverseRewinds,
   ReverseTooOften, ReverseSkip, ReverseInit, PeerGone, AckRewinds, AckPokes, AckRestates,
   EOFAgain, HeaderLost, FinAnswered, FinHears, FinCancelled, FinTimeout

\* The types under every step of the sender.
LEMMA SenderTypesStep ==
    ASSUME Types, Sender
    PROVE  Types'
<1>1. SenderLine /\ SenderTypes'
  BY OfferTypes, SendDataTypes, ReadFailsTypes, StreamTypes, ReverseTypes, OtherTypes DEF Sender, Types
<1>2. LineTypes'
  BY <1>1, SenderLineTypes DEF Types
<1>3. UNCHANGED recvVars
  BY SenderLeavesReceiver
<1>4. QED
  BY <1>1, <1>2, <1>3 DEF Types, ReceiverTypes, recvVars
-----------------------------------------------------------------------------
(* The receiver's steps.                                                   *)

ReceiverLine ==
    /\ \E k \in 0 .. Len(fwd) : fwd' = SubSeq(fwd, k + 1, Len(fwd))
    /\ \E items \in Seq(Answers) : ReceiverSends(items)
    /\ UNCHANGED damage \/ Noise

\* The line stays well formed under the receiver.
LEMMA ReceiverLineTypes == LineTypes /\ ReceiverLine => LineTypes'
<1> SUFFICES ASSUME LineTypes, ReceiverLine PROVE LineTypes'
  OBVIOUS
<1>1. fwd' \in Seq(Forward)
  BY ForwardSuffix DEF LineTypes, ReceiverLine
<1>2. rev' \in Seq(Answers)
  BY AnswerConcat DEF LineTypes, ReceiverLine, ReceiverSends
<1>3. damage' \in 0 .. MaxDamage
  BY SizeAssumption DEF LineTypes, ReceiverLine, Noise
<1>4. QED
  BY <1>1, <1>2, <1>3 DEF LineTypes

\* Nothing, or the first item, is taken off the line.
LEMMA TakesNone == ASSUME LineTypes, UNCHANGED fwd
                   PROVE  \E k \in 0 .. Len(fwd) : fwd' = SubSeq(fwd, k + 1, Len(fwd))
<1>1. fwd = SubSeq(fwd, 0 + 1, Len(fwd)) /\ 0 \in 0 .. Len(fwd)
  BY SubSeqFull DEF LineTypes
<1>2. QED
  BY <1>1

\* The first item is the part before position 2.
LEMMA TakesOne == ASSUME LineTypes, fwd # <<>>, fwd' = Tail(fwd)
                  PROVE  \E k \in 0 .. Len(fwd) : fwd' = SubSeq(fwd, k + 1, Len(fwd))
<1>1. Tail(fwd) = SubSeq(fwd, 1 + 1, Len(fwd)) /\ 1 \in 0 .. Len(fwd)
  BY TailIsSubSeq DEF LineTypes
<1>2. QED
  BY <1>1

\* What Reads and ReadsNoise and Quiet do to the line.
LEMMA HasRead ==
    ASSUME LineTypes, NEW h, Reads(h)
    PROVE  /\ fwd # <<>> /\ h = fwd[1] /\ h \in Forward
           /\ fwd' = Tail(fwd) /\ UNCHANGED damage
           /\ \E k \in 0 .. Len(fwd) : fwd' = SubSeq(fwd, k + 1, Len(fwd))
BY ForwardTail, TakesOne DEF LineTypes, Reads

\* Noise takes the first item.
LEMMA HasReadNoise ==
    ASSUME LineTypes, ReadsNoise
    PROVE  /\ fwd # <<>> /\ fwd' = Tail(fwd) /\ Noise
           /\ \E k \in 0 .. Len(fwd) : fwd' = SubSeq(fwd, k + 1, Len(fwd))
BY TakesOne DEF ReadsNoise

\* Silence leaves the line alone.
LEMMA IsQuiet ==
    ASSUME LineTypes, Quiet
    PROVE  UNCHANGED damage /\ \E k \in 0 .. Len(fwd) : fwd' = SubSeq(fwd, k + 1, Len(fwd))
BY TakesNone DEF Quiet

\* The answers the receiver gives.
LEMMA Replies ==
    /\ \A p \in Nat : <<At("ZRPOS", p)>> \in Seq(Answers) /\ <<At("ZACK", p)>> \in Seq(Answers)
    /\ \A t \in {"ZRINIT", "ZNAK", "ZFIN"} : <<Header(t)>> \in Seq(Answers)
    /\ <<Header("ZSKIP"), Header("ZRINIT")>> \in Seq(Answers)
    /\ <<Header("ZFERR"), Cancel>> \in Seq(Answers)
    /\ <<Cancel>> \in Seq(Answers) /\ <<>> \in Seq(Answers)
BY Answered

\* A step that answers nothing adds the empty sequence.
LEMMA NothingReplied == ASSUME LineTypes PROVE UNCHANGED rev => \E items \in Seq(Answers) : ReceiverSends(items)
<1>1. rev \o <<>> = rev /\ <<>> \in Seq(Answers)
  BY DEF LineTypes
<1>2. QED
  BY <1>1 DEF ReceiverSends

\* The receive offset is a number.
LEMMA RxTypes == ReceiverTypes => rx \in Nat
BY DEF ReceiverTypes, rx

\* rpos() keeps the types.
LEMMA AskAgainTypes ==
    ASSUME ReceiverTypes, AskAgain
    PROVE  ReceiverTypes' /\ \E items \in Seq(Answers) : ReceiverSends(items)
<1>1. <<At("ZRPOS", rx)>> \in Seq(Answers) /\ <<Cancel>> \in Seq(Answers)
  BY RxTypes, Replies
<1>2. \E items \in Seq(Answers) : ReceiverSends(items)
  BY <1>1 DEF AskAgain, ReceiverFails
<1>3. retries' \in 0 .. MaxAsks
  BY SizeAssumption DEF AskAgain, ReceiverFails, ReceiverTypes
<1>4. QED
  BY <1>2, <1>3 DEF AskAgain, ReceiverFails, ReceiverTypes

\* So does a receiver that gives up.
LEMMA ReceiverFailsTypes ==
    ASSUME ReceiverTypes, NEW items, ReceiverFails(items)
    PROVE  ReceiverTypes'
BY DEF ReceiverFails, ReceiverTypes

\* So does the return to waitSender.
LEMMA WaitsTypes ==
    ASSUME ReceiverTypes, Waits(NoFile, <<>>),
           saved' \in [Files -> Seq(Units)], dropped' \subseteq Files
    PROVE  ReceiverTypes'
<1>1. retries' \in 0 .. MaxAsks /\ part' \in Seq(Units) /\ rFile' = NoFile
  BY SizeAssumption DEF Waits
<1>2. rposOut' \in BOOLEAN /\ gotData' \in BOOLEAN
  BY Zenon DEF Waits
<1>3. rPc' = "wait" /\ UNCHANGED lastOffer
  BY DEF Waits
<1>4. QED
  BY <1>1, <1>2, <1>3 DEF ReceiverTypes

\* The types under the steps of waitSender.
LEMMA WaitingTypes ==
    ASSUME LineTypes, ReceiverTypes,
           \/ ReceiverCancelled \/ TakeOffer \/ OfferDamaged \/ AnswerInit \/ WaitIgnores
           \/ WaitTimeout \/ ReceiverEnds
    PROVE  ReceiverLine /\ ReceiverTypes'
<1>1. CASE ReceiverCancelled
  BY <1>1, HasRead, Replies, ReceiverFailsTypes DEF ReceiverCancelled, ReceiverLine, ReceiverFails
<1>2. CASE TakeOffer
  <2>1. PICK h : Reads(h) /\ h.t = "ZFILE" /\ rFile' = h.file
    BY <1>2 DEF TakeOffer
  <2>2. h.file \in Files
    BY <2>1, HasRead, ForwardFacts
  <2>3. ReceiverLine
    BY <1>2, <2>1, HasRead, NothingReplied DEF TakeOffer, ReceiverLine
  <2>4. QED
    BY <1>2, <2>1, <2>2, <2>3 DEF TakeOffer, ReceiverTypes
<1>3. CASE OfferDamaged
  BY <1>3, HasReadNoise, Replies DEF OfferDamaged, ReceiverLine, recvVars, ReceiverTypes
<1>4. CASE AnswerInit
  <2>1. (\E h : Reads(h)) \/ ReadsNoise
    BY <1>4 DEF AnswerInit
  <2>2. ReceiverLine
    BY <1>4, <2>1, HasRead, HasReadNoise, Replies DEF AnswerInit, ReceiverLine
  <2>3. QED
    BY <1>4, <2>2 DEF AnswerInit, recvVars, ReceiverTypes
<1>5. CASE WaitIgnores
  <2>1. (\E h : Reads(h)) \/ ReadsNoise
    BY <1>5 DEF WaitIgnores
  <2>2. ReceiverLine
    BY <1>5, <2>1, HasRead, HasReadNoise, NothingReplied DEF WaitIgnores, ReceiverLine
  <2>3. QED
    BY <1>5, <2>2 DEF WaitIgnores, recvVars, ReceiverTypes
<1>6. CASE WaitTimeout
  <2>1. CASE ReceiverFails(<<Cancel>>)
    BY <1>6, <2>1, IsQuiet, Replies, ReceiverFailsTypes DEF WaitTimeout, ReceiverLine, ReceiverFails
  <2>2. CASE ~ReceiverFails(<<Cancel>>)
    <3>1. /\ retries < MaxAsks /\ retries' = retries + 1 /\ ReceiverSends(<<Header("ZRINIT")>>)
          /\ UNCHANGED <<rPc, rFile, lastOffer, part, rposOut, gotData, saved, dropped>>
      BY <1>6, <2>2 DEF WaitTimeout
    <3>2. ReceiverLine
      BY <1>6, <3>1, IsQuiet, Replies DEF WaitTimeout, ReceiverLine
    <3>3. retries' \in 0 .. MaxAsks
      BY <3>1, SizeAssumption DEF ReceiverTypes
    <3>4. QED
      BY <3>1, <3>2, <3>3 DEF ReceiverTypes
  <2>3. QED
    BY <2>1, <2>2
<1>7. CASE ReceiverEnds
  BY <1>7, HasRead, Replies DEF ReceiverEnds, ReceiverLine, ReceiverTypes
<1>8. QED
  BY <1>1, <1>2, <1>3, <1>4, <1>5, <1>6, <1>7

\* The types when the receiver takes or refuses a file.
LEMMA ChoosingTypes ==
    ASSUME LineTypes, ReceiverTypes, rPc = "choose" => rFile \in Files, Refuses \/ StartData
    PROVE  ReceiverLine /\ ReceiverTypes'
<1>1. CASE Refuses
  <2>1. ReceiverLine
    BY <1>1, Replies DEF Refuses, ReceiverLine
  <2>2. dropped' \subseteq Files /\ saved' \in [Files -> Seq(Units)] /\ Waits(NoFile, <<>>)
    BY <1>1 DEF Refuses, ReceiverTypes
  <2>3. QED
    BY <2>1, <2>2, WaitsTypes
<1>2. CASE StartData
  <2>1. \E k \in 0 .. Len(fwd) : fwd' = SubSeq(fwd, k + 1, Len(fwd))
    BY <1>2 DEF StartData, DropQueued
  <2>2. ReceiverLine
    BY <1>2, <2>1, Replies DEF StartData, ReceiverLine
  <2>3. retries' \in 0 .. MaxAsks /\ part' \in Seq(Units) /\ rPc' = "data"
    BY <1>2, SizeAssumption DEF StartData
  <2>4. rposOut' \in BOOLEAN /\ gotData' \in BOOLEAN
    BY <1>2, Zenon DEF StartData
  <2>5. UNCHANGED <<rFile, lastOffer, saved, dropped>>
    BY <1>2 DEF StartData
  <2>6. QED
    BY <2>2, <2>3, <2>4, <2>5 DEF ReceiverTypes
<1>3. QED
  BY <1>1, <1>2

\* The types under the steps of receiveData that write nothing.
LEMMA ReadingTypes ==
    ASSUME LineTypes, ReceiverTypes,
           \/ DataTimeout \/ DataNoise \/ FrameStarts \/ WrongFrame \/ DataIgnores
           \/ RepeatedOffer \/ FrameBreaks \/ DiskFull
    PROVE  ReceiverLine /\ ReceiverTypes'
<1> USE DEF lineVars
<1>1. CASE DataTimeout
  BY <1>1, IsQuiet, AskAgainTypes DEF DataTimeout, ReceiverLine
<1>2. CASE DataNoise
  <2>1. ReadsNoise /\ (AskAgain \/ UNCHANGED <<rev, recvVars>>)
    BY <1>2 DEF DataNoise
  <2>2. QED
    BY <2>1, HasReadNoise, AskAgainTypes, NothingReplied DEF ReceiverLine, ReceiverTypes, recvVars
<1>3. CASE FrameStarts
  BY <1>3, HasRead, NothingReplied DEF FrameStarts, ReceiverLine, ReceiverTypes
<1>4. CASE WrongFrame
  <2>1. (\E h : Reads(h)) /\ (AskAgain \/ UNCHANGED <<rev, recvVars>>)
    BY <1>4 DEF WrongFrame
  <2>2. QED
    BY <2>1, HasRead, AskAgainTypes, NothingReplied DEF ReceiverLine, ReceiverTypes, recvVars
<1>5. CASE DataIgnores
  <2>1. (\E h : Reads(h)) /\ UNCHANGED <<rev, recvVars>>
    BY <1>5 DEF DataIgnores
  <2>2. QED
    BY <2>1, HasRead, NothingReplied DEF ReceiverLine, ReceiverTypes, recvVars
<1>6. CASE RepeatedOffer
  <2>1. (\E h : Reads(h)) /\ (AskAgain \/ UNCHANGED <<rev, recvVars>>)
    BY <1>6 DEF RepeatedOffer
  <2>2. QED
    BY <2>1, HasRead, AskAgainTypes, NothingReplied DEF ReceiverLine, ReceiverTypes, recvVars
<1>7. CASE FrameBreaks
  <2>1. AskAgain /\ (ReadsNoise \/ \E h : Reads(h))
    BY <1>7 DEF FrameBreaks
  <2>2. QED
    BY <2>1, HasRead, HasReadNoise, AskAgainTypes DEF ReceiverLine
<1>8. CASE DiskFull
  <2>1. (\E h : Reads(h)) /\ ReceiverFails(<<Header("ZFERR"), Cancel>>)
    BY <1>8 DEF DiskFull, Written
  <2>2. QED
    BY <2>1, HasRead, Replies, ReceiverFailsTypes DEF ReceiverLine, ReceiverFails
<1>9. QED
  BY <1>1, <1>2, <1>3, <1>4, <1>5, <1>6, <1>7, <1>8

\* The types under a subpacket, a failed write and a commit.
LEMMA FrameTypes ==
    ASSUME LineTypes, ReceiverTypes, rPc \in {"data", "frame"} => rFile \in Files,
           Subpacket \/ WriteError \/ Commits
    PROVE  ReceiverLine /\ ReceiverTypes'
<1>1. CASE Subpacket
  <2>1. PICK h : 
          /\ Reads(h) /\ h.t = "DATA"
          /\ part' = IF h.data = <<>> THEN part ELSE Append(part, h.data)
          /\ retries' = IF h.data = <<>> THEN retries ELSE 0
          /\ rPc' = IF h.end \in {"ZCRCW", "ZCRCE"} THEN "data" ELSE "frame"
          /\ ReceiverSends(IF h.end \in {"ZCRCW", "ZCRCQ"} THEN <<At("ZACK", Len(part'))>>
                                                          ELSE <<>>)
    BY <1>1 DEF Subpacket
  <2>2. h.data \in Units
    BY <2>1, HasRead, ForwardFacts
  <2>3. part' \in Seq(Units)
    BY <2>1, <2>2 DEF ReceiverTypes
  <2>4. ReceiverSends(<<At("ZACK", Len(part'))>>) \/ ReceiverSends(<<>>)
    BY <2>1
  <2>5. \E items \in Seq(Answers) : ReceiverSends(items)
    <3>1. Len(part') \in Nat
      BY <2>3
    <3>2. QED
      BY <2>4, <3>1, Replies
  <2>6. ReceiverLine
    BY <2>1, <2>5, HasRead DEF ReceiverLine
  <2>7. retries' \in 0 .. MaxAsks /\ rPc' \in {"data", "frame"}
    BY <2>1, SizeAssumption DEF ReceiverTypes
  <2>8. QED
    BY <1>1, <2>3, <2>6, <2>7 DEF Subpacket, ReceiverTypes
<1>2. CASE WriteError
  <2>1. (\E h : Reads(h)) /\ Waits(NoFile, <<>>)
    BY <1>2 DEF WriteError, Written
  <2>2. ReceiverLine
    BY <1>2, <2>1, HasRead, Replies DEF WriteError, ReceiverLine
  <2>3. dropped' \subseteq Files /\ saved' \in [Files -> Seq(Units)]
    BY <1>2 DEF WriteError, Written, ReceiverTypes
  <2>4. QED
    BY <2>1, <2>2, <2>3, WaitsTypes
<1>3. CASE Commits
  <2>1. (\E h : Reads(h)) /\ Waits(NoFile, <<>>)
    BY <1>3 DEF Commits
  <2>2. ReceiverLine
    BY <1>3, <2>1, HasRead, Replies DEF Commits, ReceiverLine
  <2>3. dropped' \subseteq Files /\ saved' \in [Files -> Seq(Units)]
    BY <1>3 DEF Commits, ReceiverTypes
  <2>4. QED
    BY <2>1, <2>2, <2>3, WaitsTypes
<1>4. QED
  BY <1>1, <1>2, <1>3

\* The receiver works on a file only while it has one.
HasFile == rPc \in {"choose", "data", "frame"} => rFile \in Files

\* The receiver touches nothing of the sender.
LEMMA ReceiverLeavesSender == Receiver => UNCHANGED senderVars
BY DEF Receiver, ReceiverCancelled, TakeOffer, OfferDamaged, AnswerInit, WaitIgnores,
   WaitTimeout, ReceiverEnds, Refuses, StartData, DataTimeout, DataNoise, FrameStarts,
   WrongFrame, DataIgnores, RepeatedOffer, Subpacket, FrameBreaks, WriteError, DiskFull, Written, Commits

\* The types under every step of the receiver.
LEMMA ReceiverTypesStep ==
    ASSUME Types, HasFile, Receiver
    PROVE  Types' /\ ReceiverLine
<1>1. ReceiverLine /\ ReceiverTypes'
  BY WaitingTypes, ChoosingTypes, ReadingTypes, FrameTypes DEF Receiver, Types, HasFile
<1>2. LineTypes'
  BY <1>1, ReceiverLineTypes DEF Types
<1>3. UNCHANGED senderVars
  BY ReceiverLeavesSender
<1>4. QED
  BY <1>1, <1>2, <1>3 DEF Types, SenderTypes, senderVars
-----------------------------------------------------------------------------
(* The invariant. What is on the line depends on whether the receiver has  *)
(* seen an offer of the sender's file yet: lastOffer = sFile.              *)

\* The source of the last file may fail; of another one it may not.
LastMayFail == Unreadable \subseteq {Len(Size)}

Opens(h)       == h.t = "ZDATA" \/ IsUnit(h)
Reach(h)       == IF h.t = "ZDATA" THEN h.pos ELSE h.data[2]
Plain(w, i, j) == \A k \in i + 1 .. j - 1 : IsEmpty(w[k])

\* Offers on the line are of the sender's file, or repeat the last one.
OfferInv ==
    /\ \A i \in 1 .. Len(fwd) : fwd[i].t = "ZFILE" => fwd[i].file \in {sFile, lastOffer}
    /\ lastOffer # sFile =>
           \A i, j \in 1 .. Len(fwd) :
               i < j /\ fwd[i] = Offer(sFile) => fwd[j] \in {Offer(sFile), Cancel}
    /\ lastOffer = sFile /\ sPc = "offer" => \A i \in 1 .. Len(fwd) : fwd[i] = Offer(sFile)
    /\ \A i \in 1 .. Len(fwd) : fwd[i].t = "CAN" => sPc = "failed"

\* Each unit belongs to the sender's file and follows the one before it, and a
\* ZEOF names the end.
UnitsInv ==
    \A i \in 1 .. Len(fwd) : IsUnit(fwd[i]) =>
        fwd[i].data = Unit(sFile, fwd[i].data[2]) /\ fwd[i].data[2] \in 1 .. Size[sFile]
EOFInv ==
    \A i \in 1 .. Len(fwd) : fwd[i].t = "ZEOF" =>
        fwd[i].pos = Size[sFile] \/ (sFile \in Unreadable /\ (Streaming => cut))
ChainInv ==
    \A i, j \in 1 .. Len(fwd) :
        i < j /\ Opens(fwd[i]) /\ IsUnit(fwd[j]) /\ Plain(fwd, i, j) =>
            Reach(fwd[j]) = Reach(fwd[i]) + 1
\* In a frame the sender stands where its last subpacket ended.
TipInv ==
    Streaming /\ ~st.new =>
        \A i \in 1 .. Len(fwd) :
            Opens(fwd[i]) /\ Plain(fwd, i, Len(fwd) + 1) => Reach(fwd[i]) = st.pos
DataInv == lastOffer = sFile => UnitsInv /\ EOFInv /\ ChainInv /\ TipInv

\* In a frame the receiver stands before the next unit on the line.
FrameInv ==
    rPc = "frame" =>
        /\ \A j \in 1 .. Len(fwd) : IsUnit(fwd[j]) /\ Plain(fwd, 0, j) => Reach(fwd[j]) = rx + 1
        /\ Streaming /\ ~st.new /\ Plain(fwd, 0, Len(fwd) + 1) => rx = st.pos

\* Where both sides are.
Receiving == rPc \in {"choose", "data", "frame"}
PlaceInv ==
    /\ sPc \notin {"offer", "failed"} => lastOffer = sFile
    /\ Receiving => rFile = sFile /\ lastOffer = sFile
    /\ rPc = "choose" => sPc \in {"offer", "failed"}
    /\ sPc = "offer" => rPc # "frame"
    /\ cut => sFile \in Unreadable

\* What the answers on the line mean: in an offer, and while data is sent.
Settled(f) == Whole(f) \/ f \in dropped \/ cut
OfferAnswers ==
    sPc = "offer" =>
        /\ \A i \in 1 .. Len(rev) :
              /\ rev[i].t = "ZRPOS" => lastOffer = sFile /\ rPc \notin {"wait", "choose"}
              /\ rev[i].t = "ZSKIP" => lastOffer = sFile /\ ~Receiving
        /\ \A i, j \in 1 .. Len(rev) : i < j =>
              /\ rev[i].t = "ZRPOS" => rev[j].t \in {"ZRPOS", "CAN"}
              /\ rev[i].t = "ZSKIP" => rev[j].t \notin {"ZSKIP", "ZRPOS"}
DataAnswers ==
    Streaming =>
        /\ \A i \in 1 .. Len(rev) : rev[i].t \in {"ZRINIT", "ZSKIP"} => ~Receiving /\ Settled(sFile)
        /\ \A i, j \in 1 .. Len(rev) :
              i < j /\ rev[i].t \in {"ZRINIT", "ZSKIP"} => rev[j].t \notin {"ZRPOS", "ZSKIP"}
        /\ rPc = "wait" => Settled(sFile)

\* A file ends at the sender when the receiver is done with it.
ResultInv ==
    /\ res[sFile] # "none" => sPc \in {"fin", "ok", "failed"} /\ lastOffer = sFile
    /\ res[sFile] = "ok" => ~Receiving
    /\ \A f \in Files : f > sFile => res[f] = "none"

\* The partial file is the beginning of the sender's file.
PartInv ==
    rPc \in {"data", "frame"} =>
        rx <= Size[sFile] /\ \A i \in 1 .. rx : part[i] = Unit(sFile, i)

LineInv == OfferInv /\ DataInv /\ FrameInv
TalkInv == PlaceInv /\ OfferAnswers /\ DataAnswers /\ ResultInv
FileInv == PartInv /\ SavedFaithful /\ OkMeansSaved
BatchInv == LastMayFail /\ Types /\ LineInv /\ TalkInv /\ FileInv

-----------------------------------------------------------------------------
(* The sender's steps, by what they do to the line and to its own place.   *)

\* It reads nothing or the first answer.
Listens == UNCHANGED rev \/ (rev # <<>> /\ rev' = Tail(rev))
Keeps   == UNCHANGED <<sFile, cut, res>>

Stops ==
    /\ sPc' = "failed" /\ Keeps /\ Listens
    /\ SenderSends(<<Cancel>>) \/ SenderSends(<<>>)
Offers ==
    /\ sPc = "offer" /\ sPc' = "offer" /\ Keeps /\ Listens
    /\ SenderSends(<<Offer(sFile)>>) \/ SenderSends(<<>>)
Accepted ==
    /\ sPc = "offer" /\ sPc' = "stream" /\ Keeps /\ UNCHANGED fwd /\ st'.new
    /\ rev # <<>> /\ rev' = Tail(rev) /\ rev[1].t = "ZRPOS"
Passes ==
    /\ EndFile("refused")
    /\ sPc = "offer"
    /\ rev # <<>> /\ rev' = Tail(rev) /\ rev[1].t = "ZSKIP"
Finishes ==
    /\ Streaming
    /\ \E o \in {"ok", "refused", "failed"} :
          /\ EndFile(o) /\ (o = "ok" => ~cut)
          /\ rev[1].t \in {"ZRINIT", "ZSKIP"} \/ (cut /\ o = "failed")
    /\ rev # <<>> /\ rev' = Tail(rev)
\* No unit is sent, and the sender stays where it is or opens a new frame.
StaysOn ==
    /\ Streaming /\ Streaming' /\ Keeps /\ Listens
    /\ st'.new \/ (~st.new /\ st'.pos = st.pos)
    /\ \/ SenderSends(<<>>)
       \/ \E e \in Ends : SenderSends(<<Data(<<>>, e)>>)
       \/ SenderSends(<<At("ZEOF", FileEnd)>>) \/ SenderSends(<<At("ZEOF", Size[sFile])>>)
Closes ==
    /\ sPc = "fin" /\ sPc' \in {"fin", "ok"} /\ Keeps /\ Listens
    /\ SenderSends(<<>>) \/ SenderSends(<<Header("ZFIN")>>)

\* A step that sends nothing sends the empty sequence.
LEMMA SentNothing == ASSUME LineTypes, UNCHANGED fwd PROVE SenderSends(<<>>)
<1>1. fwd \o <<>> = fwd
  BY DEF LineTypes
<1>2. QED
  BY <1>1 DEF SenderSends

\* What is heard is the first answer.
LEMMA HeardHead ==
    ASSUME LineTypes, NEW h, Hears(h)
    PROVE  Listens /\ rev # <<>> /\ rev' = Tail(rev) /\ rev[1] = h
BY Heard DEF Listens

\* The steps of an offer.
LEMMA OfferMoves ==
    ASSUME LineTypes, OfferAccepted \/ OfferSkipped \/ OfferHears \/ OfferAgain \/ OfferTimeout
    PROVE  Accepted \/ Passes \/ Offers
<1>1. CASE OfferAccepted
  <2>1. PICK h \in ToSet(rev) : Hears(h) /\ h.t = "ZRPOS" /\ st'.new
    BY <1>1 DEF OfferAccepted, Stream
  <2>2. QED
    BY <1>1, <2>1, HeardHead DEF OfferAccepted, Accepted, Keeps
<1>2. CASE OfferSkipped
  <2>1. Header("ZSKIP").t = "ZSKIP"
    BY DEF Header
  <2>2. QED
    BY <1>2, <2>1, HeardHead DEF OfferSkipped, Passes
<1>3. CASE OfferHears
  <2>1. \E h : Hears(h)
    BY <1>3 DEF OfferHears
  <2>2. QED
    BY <1>3, <2>1, HeardHead, SentNothing DEF OfferHears, Offers, Keeps
<1>4. CASE OfferAgain
  BY <1>4, HeardHead DEF OfferAgain, Offers, Keeps
<1>5. CASE OfferTimeout
  <2>1. SenderSends(<<Offer(sFile)>>) \/ SenderSends(<<>>)
    BY <1>5 DEF OfferTimeout
  <2>2. QED
    BY <1>5, <2>1 DEF OfferTimeout, Offers, Keeps, Listens
<1>6. QED
  BY <1>1, <1>2, <1>3, <1>4, <1>5

\* The steps of streamFile and waitAck that send no data.
LEMMA StreamMoves ==
    ASSUME LineTypes, SenderTypes,
           \/ StreamEOF \/ AwaitWindow \/ AckRewinds \/ AckPokes \/ AckRestates \/ EOFAgain
    PROVE  StaysOn
<1> USE DEF lineVars, recvVars, Streaming, Keeps, Listens
<1>0. st \in Streams /\ st.new \in BOOLEAN
  BY StreamFields DEF SenderTypes, InFile
<1>1. CASE StreamEOF
  <2>1. st'.new = st.new /\ st'.pos = st.pos
    BY <1>0, <1>1 DEF StreamEOF, Streams
  <2>2. QED
    BY <1>0, <1>1, <2>1 DEF StreamEOF, StaysOn
<1>2. CASE AwaitWindow
  BY <1>0, <1>2, SentNothing DEF AwaitWindow, StaysOn
<1>3. CASE AckRewinds
  <2>1. st'.new
    BY <1>0, <1>3 DEF AckRewinds, Rewound, Streams
  <2>2. SenderSends(<<>>) \/ \E e \in Ends : SenderSends(<<Data(<<>>, e)>>)
    BY <1>3 DEF AckRewinds, Closing, Ends
  <2>3. QED
    BY <1>3, <2>1, <2>2 DEF AckRewinds, StaysOn
<1>4. CASE AckPokes
  BY <1>0, <1>4 DEF AckPokes, StaysOn, Ends
<1>5. CASE AckRestates
  <2>1. st'.new
    BY <1>0, <1>5 DEF AckRestates, Streams
  <2>2. QED
    BY <1>5, <2>1, SentNothing DEF AckRestates, StaysOn
<1>6. CASE EOFAgain
  BY <1>0, <1>6 DEF EOFAgain, HearsNoise, StaysOn
<1>7. QED
  BY <1>1, <1>2, <1>3, <1>4, <1>5, <1>6

\* GoesOn stays with the file.
LEMMA GoesOnStreams ==
    ASSUME SenderTypes, Streaming, NEW new, NEW ack \in BOOLEAN, GoesOn(new, ack)
    PROVE  Streaming' /\ st' = new
BY DEF GoesOn, Streaming

\* The steps of handleReverse.
LEMMA ReverseMoves ==
    ASSUME LineTypes, SenderTypes,
           \/ ReverseAck \/ ReverseEcho \/ ReverseRewinds \/ ReverseTooOften
           \/ ReverseSkip \/ ReverseInit \/ PeerGone
    PROVE  StaysOn \/ Finishes \/ Stops
<1>0. st \in Streams /\ st.new \in BOOLEAN /\ st.pos \in Nat
  BY StreamFields DEF SenderTypes, InFile
<1>1. CASE ReverseAck
  <2>1. PICK h \in ToSet(rev) :
            /\ Hears(h) /\ h.t = "ZACK"
            /\ GoesOn([st EXCEPT !.acked = IF h.pos \in @ .. st.pos THEN h.pos ELSE @], TRUE)
    BY <1>1 DEF ReverseAck
  <2>2. Streaming /\ UNCHANGED <<fwd, sFile, cut, res>>
    BY <1>1 DEF ReverseAck
  <2> DEFINE new == [st EXCEPT !.acked = IF h.pos \in @ .. st.pos THEN h.pos ELSE @]
  <2>3. Streaming' /\ st' = new
    <3> HIDE DEF new
    <3>1. GoesOn(new, TRUE)
      BY <2>1 DEF new
    <3>2. QED
      BY <2>2, <3>1, GoesOnStreams
  <2>4. st'.new = st.new /\ st'.pos = st.pos
    BY <1>0, <2>3 DEF Streams
  <2>5. QED
    BY <1>0, <2>1, <2>2, <2>3, <2>4, HeardHead, SentNothing DEF StaysOn, Keeps
<1>2. CASE ReverseEcho
  <2>1. PICK h \in ToSet(rev) :
            /\ Hears(h) /\ GoesOn([Counted(Asked(h)) EXCEPT !.echoed = TRUE], FALSE)
    BY <1>2 DEF ReverseEcho, Asked
  <2>2. Streaming /\ UNCHANGED <<fwd, sFile, cut, res>>
    BY <1>2 DEF ReverseEcho
  <2>3. Streaming' /\ st' = [Counted(Asked(h)) EXCEPT !.echoed = TRUE]
    BY <2>1, <2>2, GoesOnStreams
  <2> DEFINE x == IF Asked(h) = st.last THEN st.same + 1 ELSE 0
  <2>4. st' = [[st EXCEPT !.same = x, !.last = Asked(h)] EXCEPT !.echoed = TRUE]
    BY <2>3 DEF Counted
  <2> HIDE DEF x
  <2>5. st'.new = st.new /\ st'.pos = st.pos
    BY <1>0, <2>4 DEF Streams
  <2>6. QED
    BY <1>0, <2>1, <2>2, <2>3, <2>5, HeardHead, SentNothing DEF StaysOn, Keeps
<1>3. CASE ReverseRewinds
  <2> DEFINE New(h) == [Rewound(Counted(Asked(h)), Asked(h)) EXCEPT
                         !.acked = IF Asked(h) > @ THEN Asked(h) ELSE @, !.eof = FALSE]
  <2>1. PICK h \in ToSet(rev) :
            /\ Hears(h) /\ h.t = "ZRPOS"
            /\ IF cut THEN EndFile("failed")
                      ELSE /\ SenderSends(Closing)
                           /\ GoesOn(New(h), FALSE)
                           /\ UNCHANGED <<sFile, duplex, spoke, asked, mark, cut, res>>
    BY <1>3 DEF ReverseRewinds, Asked
  <2>2. Streaming
    BY <1>3 DEF ReverseRewinds
  <2>3. CASE cut
    BY <2>1, <2>2, <2>3, HeardHead DEF Finishes
  <2>4. CASE ~cut
    <3>1. Streaming' /\ st' = New(h)
      <4> HIDE DEF New
      <4>1. GoesOn(New(h), FALSE)
        BY <2>1, <2>4
      <4>2. QED
        BY <2>2, <4>1, GoesOnStreams
    <3> DEFINE p == Asked(h)
               c == Counted(p)
               r == Rewound(c, p)
    <3>2. c \in Streams /\ c.new = st.new /\ c.pos = st.pos
      <4>1. p \in Nat
        BY <2>1, AskedTypes
      <4> HIDE DEF p
      <4> DEFINE x == IF p = st.last THEN st.same + 1 ELSE 0
      <4>2. x \in Nat
        BY <1>0, StreamFields
      <4>3. c = [st EXCEPT !.same = x, !.last = p]
        BY DEF Counted
      <4> HIDE DEF x, c
      <4>4. QED
        BY <1>0, <4>1, <4>2, <4>3 DEF Streams
    <3> HIDE DEF c
    <3>3. r.new = (c.new \/ c.open \/ p < c.pos) /\ r.pos = IF p < c.pos THEN p ELSE c.pos
      BY <3>2 DEF Streams, Rewound
    <3>4. st'.new = r.new /\ st'.pos = r.pos
      <4> DEFINE a == IF p > r.acked THEN p ELSE r.acked
                 q == [r EXCEPT !.acked = a, !.eof = FALSE]
      <4>1. New(h) = q
        BY DEF c
      <4>2. r = [c EXCEPT !.pos = r.pos, !.new = r.new, !.open = FALSE]
        BY <3>3 DEF Rewound
      <4> HIDE DEF a, r, p
      <4>3. q.new = r.new /\ q.pos = r.pos
        BY <3>2, <4>2 DEF Streams
      <4>4. QED
        BY <3>1, <4>1, <4>3
    <3> HIDE DEF p, r
    <3>5. st'.new \/ (~st.new /\ st'.pos = st.pos)
      BY <1>0, <3>2, <3>3, <3>4
    <3>6. SenderSends(<<>>) \/ \E e \in Ends : SenderSends(<<Data(<<>>, e)>>)
      BY <2>1, <2>4 DEF Closing, Ends
    <3>7. QED
      BY <2>1, <2>2, <2>4, <3>1, <3>5, <3>6, HeardHead DEF StaysOn, Keeps
  <2>5. QED
    BY <2>3, <2>4
<1>4. CASE ReverseTooOften
  <2>1. (\E h \in ToSet(rev) : Hears(h)) /\ Fails(<<Cancel>>)
    BY <1>4 DEF ReverseTooOften
  <2>2. QED
    BY <2>1, HeardHead DEF Fails, Stops, Keeps
<1>5. CASE ReverseSkip
  <2>1. Hears(Header("ZSKIP")) /\ (EndFile("failed") \/ EndFile("refused")) /\ Streaming
    BY <1>5 DEF ReverseSkip
  <2>2. Header("ZSKIP").t = "ZSKIP"
    BY DEF Header
  <2>3. rev[1].t \in {"ZRINIT", "ZSKIP"} /\ rev # <<>> /\ rev' = Tail(rev)
    BY <2>1, <2>2, HeardHead
  <2>4. QED
    BY <2>1, <2>3 DEF Finishes
<1>6. CASE ReverseInit
  <2>1. Hears(Header("ZRINIT")) /\ Streaming
    BY <1>6 DEF ReverseInit
  <2>2. Header("ZRINIT").t = "ZRINIT"
    BY DEF Header
  <2>3. rev[1].t \in {"ZRINIT", "ZSKIP"} /\ rev # <<>> /\ rev' = Tail(rev)
    BY <2>1, <2>2, HeardHead
  <2>4. CASE st.eof
    <3>1. (cut /\ EndFile("failed")) \/ (~cut /\ EndFile("ok"))
      BY <1>6, <2>4 DEF ReverseInit
    <3>2. QED
      BY <2>1, <2>3, <3>1 DEF Finishes
  <2>5. CASE ~st.eof
    <3>1. UNCHANGED <<fwd, senderVars>>
      BY <1>6, <2>5 DEF ReverseInit
    <3>2. QED
      BY <1>0, <2>1, <2>3, <3>1, SentNothing DEF StaysOn, senderVars, Keeps, Listens, Streaming
  <2>6. QED
    BY <2>4, <2>5
<1>7. CASE PeerGone
  <2>1. (\E h \in ToSet(rev) : Hears(h)) /\ Fails(<<>>)
    BY <1>7 DEF PeerGone
  <2>2. QED
    BY <2>1, HeardHead DEF Fails, Stops, Keeps
<1>8. QED
  BY <1>1, <1>2, <1>3, <1>4, <1>5, <1>6, <1>7

\* Noise, and the closing ZFIN.
LEMMA OtherMoves ==
    ASSUME LineTypes, SenderTypes,
           GivesUp \/ HeaderLost \/ FinAnswered \/ FinHears \/ FinCancelled \/ FinTimeout
    PROVE  Stops \/ Offers \/ StaysOn \/ Closes
<1> USE DEF lineVars, recvVars, Keeps
<1>1. CASE GivesUp
  BY <1>1 DEF GivesUp, Fails, Stops, Listens
<1>2. CASE HeaderLost
  <2>1. Listens /\ Keeps /\ SenderSends(<<>>) /\ UNCHANGED <<sPc, st>>
    BY <1>2, SentNothing DEF HeaderLost, HearsNoise, Listens
  <2>2. sPc \in {"offer", "stream", "ack", "eof", "fin"}
    BY <1>2 DEF HeaderLost, SenderTypes
  <2>3. st.new \in BOOLEAN
    BY StreamFields DEF SenderTypes, InFile
  <2>4. QED
    BY <2>1, <2>2, <2>3 DEF Offers, StaysOn, Closes, Streaming
<1>3. CASE FinAnswered
  BY <1>3, HeardHead, SentNothing DEF FinAnswered, Closes
<1>4. CASE FinHears
  <2>1. \E h \in ToSet(rev) : Hears(h)
    BY <1>4 DEF FinHears
  <2>2. QED
    BY <1>4, <2>1, HeardHead, SentNothing DEF FinHears, Closes, senderVars
<1>5. CASE FinCancelled
  BY <1>5, HeardHead DEF FinCancelled, Fails, Stops
<1>6. CASE FinTimeout
  BY <1>6, SentNothing DEF FinTimeout, Closes, Listens
<1>7. QED
  BY <1>1, <1>2, <1>3, <1>4, <1>5, <1>6

\* Every step of the sender is of one of these kinds.
LEMMA SenderMoves ==
    ASSUME Types, Sender
    PROVE  \/ Stops \/ Offers \/ Accepted \/ Passes \/ Finishes \/ StaysOn \/ Closes
           \/ SendData \/ ReadFails
BY OfferMoves, StreamMoves, ReverseMoves, OtherMoves DEF Types, Sender
-----------------------------------------------------------------------------
(* The line under the sender's steps.                                      *)

\* What is on the line after something has been sent.
LEMMA AddedNone == ASSUME LineTypes, SenderSends(<<>>) PROVE UNCHANGED fwd
BY DEF LineTypes, SenderSends

\* One item more.
LEMMA AddedOne ==
    ASSUME LineTypes, NEW x \in Forward, SenderSends(<<x>>)
    PROVE  /\ Len(fwd') = Len(fwd) + 1 /\ fwd'[Len(fwd) + 1] = x
           /\ \A i \in 1 .. Len(fwd) : fwd'[i] = fwd[i]
BY ForwardConcat, SendsOne DEF LineTypes, SenderSends

\* Whether the items between two of them are empty does not depend on what is
\* added after them.
LEMMA PlainKept ==
    ASSUME NEW v \in Seq(Forward), NEW w \in Seq(Forward), Len(v) <= Len(w),
           \A i \in 1 .. Len(v) : w[i] = v[i]
    PROVE  \A i \in 0 .. Len(v), j \in 1 .. Len(v) + 1 : Plain(w, i, j) <=> Plain(v, i, j)
<1> SUFFICES ASSUME NEW i \in 0 .. Len(v), NEW j \in 1 .. Len(v) + 1
             PROVE  Plain(w, i, j) <=> Plain(v, i, j)
  OBVIOUS
<1>1. \A k \in i + 1 .. j - 1 : k \in 1 .. Len(v) /\ w[k] = v[k]
  OBVIOUS
<1>2. QED
  BY <1>1 DEF Plain

\* What the sender may add without a word about the data.
Neutral(x) ==
    /\ x \in Forward /\ ~Opens(x)
    /\ x.t = "ZEOF" => x.pos = Size[sFile]' \/ (sFile' \in Unreadable /\ (Streaming' => cut'))
\* The sender has not moved in its frame.
StaysInFrame ==
    Streaming' => /\ Streaming /\ cut' = cut
                  /\ st'.new \/ (~st.new /\ st'.pos = st.pos)

\* The line after such an item.
LEMMA NeutralAdded ==
    ASSUME Types, Types', UNCHANGED fwd \/ \E x : Neutral(x) /\ SenderSends(<<x>>)
    PROVE  /\ Len(fwd') = Len(fwd) \/ Len(fwd') = Len(fwd) + 1
           /\ \A i \in 1 .. Len(fwd) : fwd'[i] = fwd[i]
           /\ Len(fwd') = Len(fwd) + 1 => Neutral(fwd'[Len(fwd) + 1])
           /\ \A i \in 0 .. Len(fwd), j \in 1 .. Len(fwd) + 1 : Plain(fwd', i, j) <=> Plain(fwd, i, j)
<1>1. Len(fwd) \in Nat /\ Len(fwd') \in Nat
  BY DEF Types, LineTypes
<1>2. /\ Len(fwd') = Len(fwd) \/ Len(fwd') = Len(fwd) + 1
      /\ \A i \in 1 .. Len(fwd) : fwd'[i] = fwd[i]
      /\ Len(fwd') = Len(fwd) + 1 => Neutral(fwd'[Len(fwd) + 1])
  <2>1. CASE UNCHANGED fwd
    BY <1>1, <2>1
  <2>2. CASE \E x : Neutral(x) /\ SenderSends(<<x>>)
    <3>1. PICK x : Neutral(x) /\ SenderSends(<<x>>)
      BY <2>2
    <3>2. x \in Forward
      BY <3>1 DEF Neutral
    <3>3. QED
      BY <3>1, <3>2, AddedOne DEF Types
  <2>3. QED
    BY <2>1, <2>2
<1>3. \A i \in 0 .. Len(fwd), j \in 1 .. Len(fwd) + 1 : Plain(fwd', i, j) <=> Plain(fwd, i, j)
  <2>1. fwd \in Seq(Forward) /\ fwd' \in Seq(Forward) /\ Len(fwd) <= Len(fwd')
    BY <1>1, <1>2 DEF Types, LineTypes
  <2>2. QED
    BY <1>1, <1>2, <2>1, PlainKept
<1>4. QED
  BY <1>2, <1>3

\* An item that opens nothing keeps the data on the line in order.
LEMMA DataKept ==
    ASSUME Types, Types', DataInv, lastOffer = sFile, UNCHANGED <<sFile, lastOffer>>,
           UNCHANGED fwd \/ \E x : Neutral(x) /\ SenderSends(<<x>>), StaysInFrame
    PROVE  DataInv'
<1>1. Len(fwd) \in Nat /\ Len(fwd') \in Nat
  BY DEF Types, LineTypes
<1>2. /\ Len(fwd') = Len(fwd) \/ Len(fwd') = Len(fwd) + 1
      /\ \A i \in 1 .. Len(fwd) : fwd'[i] = fwd[i]
      /\ Len(fwd') = Len(fwd) + 1 => Neutral(fwd'[Len(fwd) + 1])
  BY NeutralAdded
<1>3. \A i \in 0 .. Len(fwd), j \in 1 .. Len(fwd) + 1 : Plain(fwd', i, j) <=> Plain(fwd, i, j)
  BY <1>1, NeutralAdded
<1>4. \A i \in 1 .. Len(fwd') : Opens(fwd'[i]) \/ IsUnit(fwd'[i]) => i \in 1 .. Len(fwd) /\ fwd'[i] = fwd[i]
  BY <1>1, <1>2 DEF Neutral, Opens
<1>5. UnitsInv'
  BY <1>4 DEF DataInv, UnitsInv
<1>6. EOFInv'
  <2> SUFFICES ASSUME NEW i \in 1 .. Len(fwd'), fwd'[i].t = "ZEOF"
               PROVE  fwd'[i].pos = Size[sFile]' \/ (sFile' \in Unreadable /\ (Streaming' => cut'))
    BY DEF EOFInv
  <2>1. CASE i \in 1 .. Len(fwd)
    BY <1>2, <2>1 DEF DataInv, EOFInv, StaysInFrame
  <2>2. CASE i \notin 1 .. Len(fwd)
    BY <1>1, <1>2, <2>2 DEF Neutral
  <2>3. QED
    BY <2>1, <2>2
<1>7. ChainInv'
  <2> SUFFICES ASSUME NEW i \in 1 .. Len(fwd'), NEW j \in 1 .. Len(fwd'),
                      i < j, Opens(fwd'[i]), IsUnit(fwd'[j]), Plain(fwd', i, j)
               PROVE  Reach(fwd'[j]) = Reach(fwd'[i]) + 1
    BY DEF ChainInv
  <2>1. i \in 1 .. Len(fwd) /\ j \in 1 .. Len(fwd) /\ fwd'[i] = fwd[i] /\ fwd'[j] = fwd[j]
    BY <1>4
  <2>2. Plain(fwd, i, j)
    BY <1>1, <1>3, <2>1
  <2>3. QED
    BY <2>1, <2>2 DEF DataInv, ChainInv
<1>8. TipInv'
  <2> SUFFICES ASSUME Streaming', ~st'.new, NEW i \in 1 .. Len(fwd'),
                      Opens(fwd'[i]), Plain(fwd', i, Len(fwd') + 1)
               PROVE  Reach(fwd'[i]) = st'.pos
    BY DEF TipInv
  <2>1. i \in 1 .. Len(fwd) /\ fwd'[i] = fwd[i] /\ Streaming /\ ~st.new /\ st'.pos = st.pos
    BY <1>4 DEF StaysInFrame
  <2>2. Plain(fwd', i, Len(fwd) + 1)
    BY <1>1, <1>2, <2>1 DEF Plain
  <2>3. Plain(fwd, i, Len(fwd) + 1)
    BY <1>1, <1>3, <2>1, <2>2
  <2>4. QED
    BY <2>1, <2>3 DEF DataInv, TipInv
<1>9. QED
  BY <1>5, <1>6, <1>7, <1>8 DEF DataInv

\* It keeps the place of the receiver in its frame, too.
LEMMA FrameKept ==
    ASSUME Types, Types', FrameInv, UNCHANGED <<rPc, part>>,
           UNCHANGED fwd \/ \E x : Neutral(x) /\ SenderSends(<<x>>), StaysInFrame
    PROVE  FrameInv'
<1> SUFFICES ASSUME rPc = "frame" PROVE FrameInv'
  BY DEF FrameInv
<1>1. Len(fwd) \in Nat /\ Len(fwd') \in Nat /\ rx' = rx
  BY DEF Types, LineTypes, rx
<1>2. /\ Len(fwd') = Len(fwd) \/ Len(fwd') = Len(fwd) + 1
      /\ \A i \in 1 .. Len(fwd) : fwd'[i] = fwd[i]
      /\ Len(fwd') = Len(fwd) + 1 => Neutral(fwd'[Len(fwd) + 1])
  BY NeutralAdded
<1>3. \A j \in 1 .. Len(fwd) + 1 : Plain(fwd', 0, j) <=> Plain(fwd, 0, j)
  <2>1. 0 \in 0 .. Len(fwd)
    BY <1>1
  <2>2. \A i \in 0 .. Len(fwd), j \in 1 .. Len(fwd) + 1 : Plain(fwd', i, j) <=> Plain(fwd, i, j)
    BY NeutralAdded
  <2>3. QED
    BY <2>1, <2>2
<1>4. \A i \in 1 .. Len(fwd') : IsUnit(fwd'[i]) => i \in 1 .. Len(fwd) /\ fwd'[i] = fwd[i]
  BY <1>1, <1>2 DEF Neutral, Opens
<1>5. ASSUME NEW j \in 1 .. Len(fwd'), IsUnit(fwd'[j]), Plain(fwd', 0, j)
      PROVE  Reach(fwd'[j]) = rx' + 1
  <2>1. j \in 1 .. Len(fwd) /\ fwd'[j] = fwd[j]
    BY <1>4, <1>5
  <2>2. Plain(fwd, 0, j)
    BY <1>1, <1>3, <1>5, <2>1
  <2>3. QED
    BY <1>1, <1>5, <2>1, <2>2 DEF FrameInv
<1>6. ASSUME Streaming', ~st'.new, Plain(fwd', 0, Len(fwd') + 1)
      PROVE  rx' = st'.pos
  <2>1. Plain(fwd', 0, Len(fwd) + 1)
    BY <1>1, <1>2, <1>6 DEF Plain
  <2>2. Plain(fwd, 0, Len(fwd) + 1)
    BY <1>1, <1>3, <2>1
  <2>3. QED
    BY <1>1, <1>6, <2>2 DEF FrameInv, StaysInFrame
<1>7. QED
  BY <1>1, <1>5, <1>6 DEF FrameInv

\* Two items in a row.
LEMMA Pairs == \A x \in Forward, y \in Forward : Append(<<x>>, y) = <<x, y>> /\ Append(<<>>, y) = <<y>>
<1> SUFFICES ASSUME NEW x \in Forward, NEW y \in Forward
             PROVE  Append(<<x>>, y) = <<x, y>> /\ Append(<<>>, y) = <<y>>
  OBVIOUS
<1>1. <<>> \in Seq(Forward) /\ <<x>> \in Seq(Forward) /\ <<y>> \in Seq(Forward)
  BY SendsOne
<1>2. Append(<<x>>, y) = <<x, y>>
  <2> DEFINE s == Append(<<x>>, y)
             v == <<x, y>>
  <2>1. s \in Seq(Forward) /\ Len(s) = 2 /\ s[1] = x /\ s[2] = y
    BY <1>1, AppendProperties
  <2>2. v \in Seq(Forward) /\ Len(v) = 2 /\ v[1] = x /\ v[2] = y
    BY SendsOne
  <2> HIDE DEF s, v
  <2>3. s = v
    <3>1. \A i \in 1 .. Len(s) : s[i] = v[i]
      BY <2>1, <2>2
    <3>2. QED
      BY <2>1, <2>2, <3>1, SeqEqual
  <2>4. QED
    BY <2>3 DEF s, v
<1>3. Append(<<>>, y) = <<y>>
  BY <1>1, AppendIsConcat, ConcatEmptySeq
<1>4. QED
  BY <1>2, <1>3

\* SendData sends the next unit, after ZDATA when a frame is to be opened.
LEMMA SendDataSends ==
    ASSUME SenderTypes, SendData
    PROVE  /\ Streaming /\ Streaming' /\ Keeps /\ UNCHANGED rev
           /\ st.pos \in Nat /\ st.pos < Size[sFile] /\ st'.pos = st.pos + 1 /\ st.new \in BOOLEAN
           /\ \E e \in Ends : LET u == Data(Unit(sFile, st.pos + 1), e)
                              IN  IF st.new THEN SenderSends(<<At("ZDATA", st.pos), u>>)
                                            ELSE SenderSends(<<u>>)
<1> DEFINE next == st.pos + 1
           end  == IF ~duplex THEN "ZCRCW"
                   ELSE IF next >= Size[sFile] THEN "ZCRCE"
                   ELSE IF Opened.chk + 1 >= Checkpoint THEN "ZCRCQ" ELSE "ZCRCG"
           ends == end \in {"ZCRCW", "ZCRCE"}
           chk  == IF end = "ZCRCQ" THEN 0 ELSE Opened.chk + 1
           u    == Data(Unit(sFile, next), end)
<1>1. /\ st \in Streams /\ st.pos \in Nat /\ st.pos < Size[sFile] /\ st.new \in BOOLEAN
      /\ sFile \in Files /\ Size[sFile] \in Nat
  BY StreamFields, Sizes DEF SendData, SenderTypes, InFile
<1>2. Opened \in Streams
  BY <1>1, OpenedTypes DEF SenderTypes, InFile
<1>3. end \in Ends /\ next \in Nat
  BY <1>1 DEF Ends
<1>4. /\ SenderSends(Append(Opening, u))
      /\ st' = [Opened EXCEPT !.pos = next, !.fresh = FALSE, !.chk = chk, !.new = ends, !.open = ~ends]
  BY DEF SendData
<1> HIDE DEF end, chk, ends
<1>5. st'.pos = next
  BY <1>2, <1>4 DEF Streams
<1>6. IF st.new THEN SenderSends(<<At("ZDATA", st.pos), u>>) ELSE SenderSends(<<u>>)
  <2>0. At("ZDATA", st.pos) \in Forward /\ u \in Forward
    BY <1>1, <1>3, UnitFacts, Sent
  <2>1. CASE st.new
    <3>1. Append(<<At("ZDATA", st.pos)>>, u) = <<At("ZDATA", st.pos), u>>
      BY <2>0, Pairs, Zenon
    <3>2. QED
      BY <1>4, <2>1, <3>1 DEF Opening
  <2>2. CASE ~st.new
    <3>1. Append(<<>>, u) = <<u>>
      BY <2>0, Pairs, Zenon
    <3>2. QED
      BY <1>4, <2>2, <3>1 DEF Opening
  <2>3. QED
    BY <2>1, <2>2
<1>7. Streaming /\ Streaming' /\ Keeps /\ UNCHANGED rev
  BY DEF SendData, Streaming, Keeps
<1>8. QED
  BY <1>1, <1>3, <1>5, <1>6, <1>7

\* Two items more.
LEMMA AddedTwo ==
    ASSUME LineTypes, NEW x \in Forward, NEW y \in Forward, SenderSends(<<x, y>>)
    PROVE  /\ Len(fwd') = Len(fwd) + 2
           /\ fwd'[Len(fwd) + 1] = x /\ fwd'[Len(fwd) + 2] = y
           /\ \A i \in 1 .. Len(fwd) : fwd'[i] = fwd[i]
<1>1. <<x, y>> \in Seq(Forward) /\ Len(<<x, y>>) = 2 /\ <<x, y>>[1] = x /\ <<x, y>>[2] = y
  BY SendsOne
<1>2. QED
  BY <1>1, ForwardConcat DEF LineTypes, SenderSends

\* The unit that follows where the sender stands, in the open frame.
LEMMA UnitInFrame ==
    ASSUME Types, Types', DataInv, FrameInv, lastOffer = sFile, UNCHANGED <<sFile, lastOffer, cut, rPc, part>>,
           Streaming, Streaming', ~st.new, st'.pos = st.pos + 1, st.pos \in Nat, st.pos < Size[sFile],
           NEW e \in Ends, SenderSends(<<Data(Unit(sFile, st.pos + 1), e)>>)
    PROVE  DataInv' /\ FrameInv'
<1> DEFINE n == st.pos + 1
           u == Data(Unit(sFile, n), e)
           z == Len(fwd) + 1
<1>1. n \in 1 .. Size[sFile] /\ sFile \in Files /\ Size[sFile] \in Nat
  BY Sizes DEF Types, SenderTypes
<1>2. /\ u \in Forward /\ u.t = "DATA" /\ u.data = Unit(sFile, n) /\ IsUnit(u) /\ ~IsEmpty(u)
      /\ Reach(u) = n /\ u.data[2] = n
  BY <1>1, UnitFacts, Sent DEF IsUnit, IsEmpty, Reach
<1> HIDE DEF n, u
<1>3. SenderSends(<<u>>) /\ st'.pos = n /\ n = st.pos + 1
  BY DEF u, n
<1>4. /\ Len(fwd') = z /\ fwd'[z] = u /\ \A i \in 1 .. Len(fwd) : fwd'[i] = fwd[i]
      /\ Len(fwd) \in Nat /\ fwd \in Seq(Forward) /\ fwd' \in Seq(Forward)
      /\ rx \in Nat /\ rx' = rx
  BY <1>2, <1>3, AddedOne, RxTypes DEF Types, LineTypes, rx
<1>5. \A i \in 0 .. Len(fwd), j \in 1 .. z : Plain(fwd', i, j) <=> Plain(fwd, i, j)
  BY <1>4, PlainKept
<1>6. UnitsInv' /\ EOFInv'
  <2>1. ASSUME NEW i \in 1 .. Len(fwd'), IsUnit(fwd'[i])
        PROVE  fwd'[i].data = Unit(sFile, fwd'[i].data[2]) /\ fwd'[i].data[2] \in 1 .. Size[sFile]
    <3>1. CASE i = z
      BY <1>1, <1>2, <1>4, <3>1
    <3>2. CASE i # z
      BY <1>4, <2>1, <3>2 DEF DataInv, UnitsInv
    <3>3. QED
      BY <3>1, <3>2
  <2>2. ASSUME NEW i \in 1 .. Len(fwd'), fwd'[i].t = "ZEOF"
        PROVE  fwd'[i].pos = Size[sFile] \/ (sFile \in Unreadable /\ (Streaming => cut))
    <3>1. i # z
      BY <1>2, <1>4, <2>2
    <3>2. QED
      BY <1>4, <2>2, <3>1 DEF DataInv, EOFInv
  <2>3. QED
    BY <2>1, <2>2 DEF UnitsInv, EOFInv
<1>7. ChainInv'
  <2> SUFFICES ASSUME NEW i \in 1 .. Len(fwd'), NEW j \in 1 .. Len(fwd'),
                      i < j, Opens(fwd'[i]), IsUnit(fwd'[j]), Plain(fwd', i, j)
               PROVE  Reach(fwd'[j]) = Reach(fwd'[i]) + 1
    BY DEF ChainInv
  <2>1. i \in 1 .. Len(fwd) /\ fwd'[i] = fwd[i] /\ Plain(fwd, i, j)
    BY <1>4, <1>5
  <2>2. CASE j = z
    BY <1>2, <1>3, <1>4, <2>1, <2>2 DEF DataInv, TipInv
  <2>3. CASE j # z
    <3>1. j \in 1 .. Len(fwd) /\ fwd'[j] = fwd[j]
      BY <1>4, <2>3
    <3>2. QED
      BY <2>1, <3>1 DEF DataInv, ChainInv
  <2>4. QED
    BY <2>2, <2>3
<1>8. \A i \in 0 .. Len(fwd) : ~Plain(fwd', i, Len(fwd') + 1)
  BY <1>2, <1>4 DEF Plain
<1>9. TipInv'
  <2> SUFFICES ASSUME Streaming', ~st'.new, NEW i \in 1 .. Len(fwd'),
                      Opens(fwd'[i]), Plain(fwd', i, Len(fwd') + 1)
               PROVE  Reach(fwd'[i]) = st'.pos
    BY DEF TipInv
  <2>1. i = z
    BY <1>4, <1>8
  <2>2. QED
    BY <1>2, <1>3, <1>4, <2>1
<1>10. FrameInv'
  <2> SUFFICES ASSUME rPc = "frame" PROVE FrameInv'
    BY DEF FrameInv
  <2>1. ASSUME NEW j \in 1 .. Len(fwd'), IsUnit(fwd'[j]), Plain(fwd', 0, j)
        PROVE  Reach(fwd'[j]) = rx' + 1
    <3>1. Plain(fwd, 0, j)
      BY <1>4, <1>5, <2>1
    <3>2. CASE j = z
      BY <1>2, <1>3, <1>4, <3>1, <3>2 DEF FrameInv
    <3>3. CASE j # z
      BY <1>4, <2>1, <3>1, <3>3 DEF FrameInv
    <3>4. QED
      BY <3>2, <3>3
  <2>2. ~Plain(fwd', 0, Len(fwd') + 1)
    BY <1>4, <1>8
  <2>3. QED
    BY <2>1, <2>2 DEF FrameInv
<1>11. QED
  BY <1>6, <1>7, <1>9, <1>10 DEF DataInv

\* The ZDATA that opens a frame, and the unit or the empty subpacket after it.
LEMMA FrameOpened ==
    ASSUME Types, Types', DataInv, FrameInv, lastOffer = sFile, UNCHANGED <<sFile, lastOffer, rPc, part>>,
           Streaming, Streaming', st.new, cut' = cut, st'.pos = st.pos + 1, st.pos \in Nat, st.pos < Size[sFile],
           NEW e \in Ends, SenderSends(<<At("ZDATA", st.pos), Data(Unit(sFile, st.pos + 1), e)>>)
    PROVE  DataInv' /\ FrameInv'
<1> DEFINE n == st.pos + 1
           d == At("ZDATA", st.pos)
           u == Data(Unit(sFile, n), e)
           y == Len(fwd) + 1
           z == Len(fwd) + 2
<1>1. n \in 1 .. Size[sFile] /\ sFile \in Files /\ Size[sFile] \in Nat
  BY Sizes DEF Types, SenderTypes
<1>2. /\ u \in Forward /\ u.t = "DATA" /\ u.data = Unit(sFile, n) /\ IsUnit(u) /\ ~IsEmpty(u)
      /\ Reach(u) = n /\ u.data[2] = n
      /\ d \in Forward /\ d.t = "ZDATA" /\ ~IsUnit(d) /\ ~IsEmpty(d) /\ Reach(d) = st.pos
  BY <1>1, UnitFacts, Sent DEF IsUnit, IsEmpty, Reach
<1> HIDE DEF n, u, d
<1>3. SenderSends(<<d, u>>) /\ st'.pos = n /\ n = st.pos + 1
  BY DEF u, n, d
<1>4. /\ Len(fwd') = z /\ fwd'[y] = d /\ fwd'[z] = u /\ \A i \in 1 .. Len(fwd) : fwd'[i] = fwd[i]
      /\ Len(fwd) \in Nat /\ fwd \in Seq(Forward) /\ fwd' \in Seq(Forward)
      /\ rx \in Nat /\ rx' = rx
  BY <1>2, <1>3, AddedTwo, RxTypes DEF Types, LineTypes, rx
<1>5. \A i \in 0 .. Len(fwd), j \in 1 .. y : Plain(fwd', i, j) <=> Plain(fwd, i, j)
  BY <1>4, PlainKept
<1>6. UnitsInv' /\ EOFInv'
  <2>1. ASSUME NEW i \in 1 .. Len(fwd'), IsUnit(fwd'[i])
        PROVE  fwd'[i].data = Unit(sFile, fwd'[i].data[2]) /\ fwd'[i].data[2] \in 1 .. Size[sFile]
    <3>1. CASE i = z
      BY <1>1, <1>2, <1>4, <3>1
    <3>2. CASE i # z
      <4>1. i # y
        BY <1>2, <1>4, <2>1
      <4>2. i \in 1 .. Len(fwd) /\ fwd'[i] = fwd[i]
        BY <1>4, <3>2, <4>1
      <4>3. QED
        BY <2>1, <4>2 DEF DataInv, UnitsInv
    <3>3. QED
      BY <3>1, <3>2
  <2>2. ASSUME NEW i \in 1 .. Len(fwd'), fwd'[i].t = "ZEOF"
        PROVE  fwd'[i].pos = Size[sFile] \/ (sFile \in Unreadable /\ (Streaming => cut))
    <3>1. i # z /\ i # y
      BY <1>2, <1>4, <2>2
    <3>2. i \in 1 .. Len(fwd) /\ fwd'[i] = fwd[i]
      BY <1>4, <3>1
    <3>3. QED
      BY <2>2, <3>2 DEF DataInv, EOFInv
  <2>3. QED
    BY <2>1, <2>2 DEF UnitsInv, EOFInv
<1>7. \A i \in 0 .. Len(fwd) : ~Plain(fwd', i, z) /\ ~Plain(fwd', i, z + 1)
  <2>1. \A i \in 0 .. Len(fwd) : y \in i + 1 .. z - 1 /\ y \in i + 1 .. (z + 1) - 1
    BY <1>4
  <2>2. QED
    BY <1>2, <1>4, <2>1 DEF Plain
<1>8. ~Plain(fwd', y, z + 1)
  <2>1. z \in y + 1 .. (z + 1) - 1
    BY <1>4
  <2>2. QED
    BY <1>2, <1>4, <2>1 DEF Plain
<1>9. ChainInv'
  <2> SUFFICES ASSUME NEW i \in 1 .. Len(fwd'), NEW j \in 1 .. Len(fwd'),
                      i < j, Opens(fwd'[i]), IsUnit(fwd'[j]), Plain(fwd', i, j)
               PROVE  Reach(fwd'[j]) = Reach(fwd'[i]) + 1
    BY DEF ChainInv
  <2>1. CASE j = z
    <3>1. i = y
      BY <1>4, <1>7, <2>1
    <3>2. QED
      BY <1>2, <1>3, <1>4, <2>1, <3>1
  <2>2. CASE j # z
    <3>1. j # y
      BY <1>2, <1>4
    <3>2. i \in 1 .. Len(fwd) /\ j \in 1 .. Len(fwd) /\ fwd'[i] = fwd[i] /\ fwd'[j] = fwd[j]
      BY <1>4, <2>2, <3>1
    <3>3. Plain(fwd, i, j)
      BY <1>4, <1>5, <3>2
    <3>4. QED
      BY <3>2, <3>3 DEF DataInv, ChainInv
  <2>3. QED
    BY <2>1, <2>2
<1>10. TipInv'
  <2> SUFFICES ASSUME Streaming', ~st'.new, NEW i \in 1 .. Len(fwd'),
                      Opens(fwd'[i]), Plain(fwd', i, Len(fwd') + 1)
               PROVE  Reach(fwd'[i]) = st'.pos
    BY DEF TipInv
  <2>1. i = z
    BY <1>4, <1>7, <1>8
  <2>2. QED
    BY <1>2, <1>3, <1>4, <2>1
<1>11. FrameInv'
  <2> SUFFICES ASSUME rPc = "frame" PROVE FrameInv'
    BY DEF FrameInv
  <2>1. ASSUME NEW j \in 1 .. Len(fwd'), IsUnit(fwd'[j]), Plain(fwd', 0, j)
        PROVE  Reach(fwd'[j]) = rx' + 1
    <3>1. j # z /\ j # y
      BY <1>2, <1>4, <1>7, <2>1
    <3>2. j \in 1 .. Len(fwd) /\ fwd'[j] = fwd[j]
      BY <1>4, <3>1
    <3>3. Plain(fwd, 0, j)
      BY <1>4, <1>5, <2>1, <3>2
    <3>4. QED
      BY <1>4, <2>1, <3>2, <3>3 DEF FrameInv
  <2>2. ~Plain(fwd', 0, Len(fwd') + 1)
    BY <1>4, <1>7
  <2>3. QED
    BY <2>1, <2>2 DEF FrameInv
<1>12. QED
  BY <1>6, <1>9, <1>10, <1>11 DEF DataInv

\* Any number of items more.
LEMMA AddedAll ==
    ASSUME LineTypes, NEW v \in Seq(Forward), SenderSends(v)
    PROVE  /\ Len(fwd') = Len(fwd) + Len(v) /\ Len(fwd) \in Nat /\ Len(v) \in Nat
           /\ fwd \in Seq(Forward) /\ fwd' \in Seq(Forward)
           /\ \A i \in 1 .. Len(fwd) : fwd'[i] = fwd[i]
           /\ \A i \in 1 .. Len(v) : fwd'[Len(fwd) + i] = v[i]
BY ForwardConcat DEF LineTypes, SenderSends

\* cutFile closes the frame and names the last good offset.
LEMMA ReadFailsSends ==
    ASSUME SenderTypes, ReadFails
    PROVE  /\ Streaming /\ Streaming' /\ UNCHANGED <<rev, sFile, res>> /\ cut' = TRUE
           /\ sFile \in Unreadable
           /\ \E v \in Seq(Forward) :
                 /\ SenderSends(v) /\ Len(v) > 0 /\ v[Len(v)].t = "ZEOF"
                 /\ \A i \in 1 .. Len(v) : v[i].t \in {"ZDATA", "DATA", "ZEOF"} /\ ~IsUnit(v[i])
<1>1. st.pos \in Nat
  BY StreamFields DEF SenderTypes, InFile
<1> DEFINE d == At("ZDATA", st.pos)
           u == Data(<<>>, "ZCRCE")
           e == At("ZEOF", st.pos)
<1>2. /\ d \in Forward /\ d.t = "ZDATA" /\ ~IsUnit(d)
      /\ u \in Forward /\ u.t = "DATA" /\ ~IsUnit(u)
      /\ e \in Forward /\ e.t = "ZEOF" /\ ~IsUnit(e)
  BY <1>1, Sent, EmptyUnit DEF Ends, IsUnit
<1>3. SenderSends(Opening \o <<u, e>>)
  BY DEF ReadFails
<1>4. Opening = IF st.new THEN <<d>> ELSE <<>>
  BY DEF Opening
<1> HIDE DEF d, u, e
<1>5. <<d>> \in Seq(Forward) /\ <<u, e>> \in Seq(Forward) /\ <<>> \in Seq(Forward)
  BY <1>2, SendsOne
<1> DEFINE v == Opening \o <<u, e>>
<1>6. /\ v \in Seq(Forward) /\ Len(v) > 0 /\ v[Len(v)].t = "ZEOF"
      /\ \A i \in 1 .. Len(v) : v[i].t \in {"ZDATA", "DATA", "ZEOF"} /\ ~IsUnit(v[i])
  <2>1. CASE st.new
    <3>1. /\ v = <<d>> \o <<u, e>> /\ v \in Seq(Forward) /\ Len(v) = 3
          /\ v[1] = d /\ v[2] = u /\ v[3] = e
      BY <1>4, <1>5, <2>1, ConcatProperties
    <3> HIDE DEF v
    <3>2. \A i \in 1 .. Len(v) : v[i] = d \/ v[i] = u \/ v[i] = e
      BY <3>1
    <3>3. QED
      BY <1>2, <3>1, <3>2
  <2>2. CASE ~st.new
    <3>1. /\ v = <<>> \o <<u, e>> /\ v \in Seq(Forward) /\ Len(v) = 2
          /\ v[1] = u /\ v[2] = e
      BY <1>4, <1>5, <2>2, ConcatEmptySeq
    <3> HIDE DEF v
    <3>2. \A i \in 1 .. Len(v) : v[i] = u \/ v[i] = e
      BY <3>1
    <3>3. QED
      BY <1>2, <3>1, <3>2
  <2>3. QED
    BY <2>1, <2>2
<1>7. Streaming /\ Streaming' /\ UNCHANGED <<rev, sFile, res>> /\ cut' = TRUE /\ sFile \in Unreadable
  BY DEF ReadFails, Streaming
<1>8. QED
  BY <1>3, <1>6, <1>7

\* cutFile: no unit, and the ZEOF ends what the sender says of this file.
LEMMA FileCut ==
    ASSUME Types, Types', DataInv, FrameInv, lastOffer = sFile, UNCHANGED <<sFile, lastOffer, rPc, part>>,
           cut' = TRUE, sFile \in Unreadable,
           NEW v \in Seq(Forward), SenderSends(v), Len(v) > 0, v[Len(v)].t = "ZEOF",
           \A i \in 1 .. Len(v) : ~IsUnit(v[i])
    PROVE  DataInv' /\ FrameInv'
<1>1. /\ Len(fwd') = Len(fwd) + Len(v) /\ Len(fwd) \in Nat /\ Len(v) \in Nat /\ Len(v) > 0
      /\ fwd \in Seq(Forward) /\ fwd' \in Seq(Forward)
      /\ \A i \in 1 .. Len(fwd) : fwd'[i] = fwd[i]
      /\ \A i \in 1 .. Len(v) : fwd'[Len(fwd) + i] = v[i]
      /\ rx \in Nat /\ rx' = rx
  BY AddedAll, RxTypes DEF Types, rx
<1>2. \A i \in 1 .. Len(fwd') : i \in 1 .. Len(fwd) \/ ~IsUnit(fwd'[i])
  <2> SUFFICES ASSUME NEW i \in 1 .. Len(fwd'), i \notin 1 .. Len(fwd) PROVE ~IsUnit(fwd'[i])
    OBVIOUS
  <2>1. i - Len(fwd) \in 1 .. Len(v) /\ i = Len(fwd) + (i - Len(fwd))
    BY <1>1
  <2>2. QED
    BY <1>1, <2>1
<1>3. \A i \in 0 .. Len(fwd), j \in 1 .. Len(fwd) + 1 : Plain(fwd', i, j) <=> Plain(fwd, i, j)
  <2>1. Len(fwd) <= Len(fwd')
    BY <1>1
  <2>2. QED
    BY <1>1, <2>1, PlainKept
<1>4. \A i \in 0 .. Len(fwd') : i < Len(fwd') => ~Plain(fwd', i, Len(fwd') + 1)
  <2>1. fwd'[Len(fwd')].t = "ZEOF" /\ ~IsEmpty(fwd'[Len(fwd')])
    BY <1>1 DEF IsEmpty
  <2>2. Len(fwd') \in Nat
    BY <1>1
  <2>3. \A i \in 0 .. Len(fwd') : i < Len(fwd') => Len(fwd') \in i + 1 .. (Len(fwd') + 1) - 1
    BY <2>2
  <2>4. QED
    BY <2>1, <2>3 DEF Plain
<1>5. UnitsInv'
  BY <1>1, <1>2 DEF DataInv, UnitsInv
<1>6. EOFInv'
  BY DEF EOFInv
<1>7. ChainInv'
  <2> SUFFICES ASSUME NEW i \in 1 .. Len(fwd'), NEW j \in 1 .. Len(fwd'),
                      i < j, Opens(fwd'[i]), IsUnit(fwd'[j]), Plain(fwd', i, j)
               PROVE  Reach(fwd'[j]) = Reach(fwd'[i]) + 1
    BY DEF ChainInv
  <2>1. j \in 1 .. Len(fwd) /\ i \in 1 .. Len(fwd) /\ fwd'[i] = fwd[i] /\ fwd'[j] = fwd[j]
    BY <1>1, <1>2
  <2>2. Plain(fwd, i, j)
    BY <1>1, <1>3, <2>1
  <2>3. QED
    BY <2>1, <2>2 DEF DataInv, ChainInv
<1>8. TipInv'
  <2> SUFFICES ASSUME NEW i \in 1 .. Len(fwd'), Opens(fwd'[i]), Plain(fwd', i, Len(fwd') + 1)
               PROVE  FALSE
    BY DEF TipInv
  <2>1. i = Len(fwd')
    <3>1. Len(fwd') \in Nat
      BY <1>1
    <3>2. i \in 0 .. Len(fwd') /\ ~(i < Len(fwd'))
      BY <1>4, <3>1
    <3>3. QED
      BY <3>1, <3>2
  <2>2. fwd'[i].t = "ZEOF"
    BY <1>1, <2>1
  <2>3. QED
    BY <2>2 DEF Opens, IsUnit
<1>9. FrameInv'
  <2> SUFFICES ASSUME rPc = "frame" PROVE FrameInv'
    BY DEF FrameInv
  <2>1. ASSUME NEW j \in 1 .. Len(fwd'), IsUnit(fwd'[j]), Plain(fwd', 0, j)
        PROVE  Reach(fwd'[j]) = rx' + 1
    <3>1. j \in 1 .. Len(fwd) /\ fwd'[j] = fwd[j]
      BY <1>1, <1>2, <2>1
    <3>2. Plain(fwd, 0, j)
      BY <1>1, <1>3, <2>1, <3>1
    <3>3. QED
      BY <1>1, <2>1, <3>1, <3>2 DEF FrameInv
  <2>2. ~Plain(fwd', 0, Len(fwd') + 1)
    BY <1>1, <1>4
  <2>3. QED
    BY <2>1, <2>2 DEF FrameInv
<1>10. QED
  BY <1>5, <1>6, <1>7, <1>8, <1>9 DEF DataInv

-----------------------------------------------------------------------------
(* What the sender hears.                                                  *)

\* The answers on the line after the sender has listened.
LEMMA Listened ==
    ASSUME Types, Listens
    PROVE  \E k \in {0, 1} : /\ Len(rev') = Len(rev) - k /\ Len(rev) \in Nat
                             /\ \A i \in 1 .. Len(rev') : i + k \in 1 .. Len(rev) /\ rev'[i] = rev[i + k]
<1>1. rev \in Seq(Answers) /\ Len(rev) \in Nat
  BY DEF Types, LineTypes
<1>2. CASE UNCHANGED rev
  BY <1>1, <1>2
<1>3. CASE rev # <<>> /\ rev' = Tail(rev)
  <2>1. Len(rev') = Len(rev) - 1 /\ \A i \in 1 .. Len(rev) - 1 : rev'[i] = rev[i + 1]
    BY <1>1, <1>3, AnswerTail
  <2>2. QED
    BY <1>1, <2>1
<1>4. QED
  BY <1>2, <1>3 DEF Listens

\* A file that is not the last one ends at the sender only when the receiver
\* has left it.
LEMMA EndsSettled ==
    ASSUME LastMayFail, Types, PlaceInv, OfferAnswers, DataAnswers, Passes \/ Finishes
    PROVE  /\ sPc \in {"offer", "stream", "ack", "eof"}
           /\ lastOffer = sFile /\ Listens
           /\ sFile < Len(Size) => ~Receiving
<1>1. Len(rev) \in Nat \ {0} /\ 1 \in 1 .. Len(rev)
  BY DEF Types, LineTypes, Passes, Finishes
<1>2. CASE Passes
  BY <1>1, <1>2 DEF Passes, OfferAnswers, Listens
<1>3. CASE Finishes
  <2>1. Streaming /\ Listens
    BY <1>3 DEF Finishes, Listens
  <2>2. lastOffer = sFile
    BY <2>1 DEF PlaceInv, Streaming
  <2>3. ASSUME cut PROVE ~(sFile < Len(Size))
    BY <2>3, Sizes DEF PlaceInv, LastMayFail
  <2>4. rev[1].t \in {"ZRINIT", "ZSKIP"} \/ cut
    BY <1>3 DEF Finishes
  <2>5. QED
    BY <1>1, <2>1, <2>2, <2>3, <2>4 DEF DataAnswers, Streaming
<1>4. QED
  BY <1>2, <1>3

-----------------------------------------------------------------------------
(* The offers under the sender's steps.                                    *)

\* Steps outside an offer add no offer.
LEMMA OfferKept ==
    ASSUME Types, OfferInv, UNCHANGED <<sFile, lastOffer>>, sPc' # "offer",
           sPc # "failed" \/ sPc' = "failed",
           NEW v \in Seq(Forward), SenderSends(v),
           \/ sPc' = "failed" /\ \A i \in 1 .. Len(v) : v[i] = Cancel
           \/ lastOffer = sFile /\ \A i \in 1 .. Len(v) : v[i].t \in {"ZDATA", "DATA", "ZEOF", "ZFIN"}
    PROVE  OfferInv'
<1>1. /\ Len(fwd') = Len(fwd) + Len(v) /\ Len(fwd) \in Nat /\ Len(v) \in Nat
      /\ \A i \in 1 .. Len(fwd) : fwd'[i] = fwd[i]
      /\ \A i \in 1 .. Len(v) : fwd'[Len(fwd) + i] = v[i]
  BY AddedAll DEF Types
<1>2. \A i \in 1 .. Len(fwd') : i \notin 1 .. Len(fwd) =>
          \/ sPc' = "failed" /\ fwd'[i] = Cancel
          \/ lastOffer = sFile /\ fwd'[i].t \in {"ZDATA", "DATA", "ZEOF", "ZFIN"}
  <2> SUFFICES ASSUME NEW i \in 1 .. Len(fwd'), i \notin 1 .. Len(fwd)
               PROVE  \/ sPc' = "failed" /\ fwd'[i] = Cancel
                      \/ lastOffer = sFile /\ fwd'[i].t \in {"ZDATA", "DATA", "ZEOF", "ZFIN"}
    OBVIOUS
  <2>1. i - Len(fwd) \in 1 .. Len(v) /\ i = Len(fwd) + (i - Len(fwd))
    BY <1>1
  <2>2. QED
    BY <1>1, <2>1
<1>3. Cancel.t = "CAN" /\ Offer(sFile).t = "ZFILE"
  BY Sent DEF Types, SenderTypes
<1>4. \A i \in 1 .. Len(fwd') : fwd'[i].t = "ZFILE" => i \in 1 .. Len(fwd) /\ fwd'[i] = fwd[i]
  BY <1>1, <1>2, <1>3
<1>5. \A i \in 1 .. Len(fwd') : fwd'[i].t = "ZFILE" => fwd'[i].file \in {sFile', lastOffer'}
  BY <1>4 DEF OfferInv
<1>6. ASSUME lastOffer' # sFile', NEW i \in 1 .. Len(fwd'), NEW j \in 1 .. Len(fwd'),
             i < j, fwd'[i] = Offer(sFile')
      PROVE  fwd'[j] \in {Offer(sFile'), Cancel}
  <2>1. i \in 1 .. Len(fwd) /\ fwd'[i] = fwd[i]
    BY <1>3, <1>4, <1>6
  <2>2. CASE j \in 1 .. Len(fwd)
    BY <1>1, <1>6, <2>1, <2>2 DEF OfferInv
  <2>3. CASE j \notin 1 .. Len(fwd)
    BY <1>2, <1>6, <2>3
  <2>4. QED
    BY <2>2, <2>3
<1>7. ASSUME NEW i \in 1 .. Len(fwd'), fwd'[i].t = "CAN" PROVE sPc' = "failed"
  <2>1. CASE i \in 1 .. Len(fwd)
    BY <1>1, <1>7, <2>1 DEF OfferInv
  <2>2. CASE i \notin 1 .. Len(fwd)
    BY <1>2, <1>7, <2>2
  <2>3. QED
    BY <2>1, <2>2
<1>8. QED
  BY <1>5, <1>6, <1>7 DEF OfferInv

\* An offer that is repeated.
LEMMA OfferAdded ==
    ASSUME Types, OfferInv, Offers, UNCHANGED lastOffer
    PROVE  OfferInv'
<1>1. /\ sPc = "offer" /\ sPc' = "offer" /\ sFile' = sFile /\ Len(fwd) \in Nat
      /\ Offer(sFile) \in Forward /\ Offer(sFile).t = "ZFILE" /\ Offer(sFile).file = sFile
  BY Sent DEF Offers, Keeps, Types, SenderTypes, LineTypes
<1>2. CASE SenderSends(<<>>)
  BY <1>1, <1>2, AddedNone DEF Types, OfferInv
<1>3. CASE SenderSends(<<Offer(sFile)>>)
  <2>1. /\ Len(fwd') = Len(fwd) + 1 /\ fwd'[Len(fwd) + 1] = Offer(sFile)
        /\ \A i \in 1 .. Len(fwd) : fwd'[i] = fwd[i]
    BY <1>1, <1>3, AddedOne DEF Types
  <2>2. \A i \in 1 .. Len(fwd') : i \in 1 .. Len(fwd) \/ fwd'[i] = Offer(sFile)
    BY <1>1, <2>1
  <2>3. ASSUME lastOffer' # sFile', NEW i \in 1 .. Len(fwd'), NEW j \in 1 .. Len(fwd'),
               i < j, fwd'[i] = Offer(sFile')
        PROVE  fwd'[j] \in {Offer(sFile'), Cancel}
    <3>1. i \in 1 .. Len(fwd)
      BY <1>1, <2>1, <2>3
    <3>2. QED
      BY <1>1, <2>1, <2>2, <2>3, <3>1 DEF OfferInv
  <2>4. \A i \in 1 .. Len(fwd') : fwd'[i].t = "ZFILE" => fwd'[i].file \in {sFile', lastOffer'}
    BY <1>1, <2>1, <2>2 DEF OfferInv
  <2>5. \A i \in 1 .. Len(fwd') : lastOffer' = sFile' => fwd'[i] = Offer(sFile')
    BY <1>1, <2>1, <2>2 DEF OfferInv
  <2>6. \A i \in 1 .. Len(fwd') : fwd'[i].t # "CAN"
    BY <1>1, <2>1, <2>2 DEF OfferInv
  <2>7. QED
    BY <2>3, <2>4, <2>5, <2>6 DEF OfferInv
<1>4. QED
  BY <1>2, <1>3 DEF Offers

\* The next file's offer is the first one of that file.
LEMMA NextOffer ==
    ASSUME Types, OfferInv, sPc \in {"offer", "stream", "ack", "eof"},
           lastOffer = sFile, UNCHANGED lastOffer,
           sFile \in Files, sFile + 1 \in Files, sFile' = sFile + 1, SenderSends(<<Offer(sFile + 1)>>)
    PROVE  OfferInv'
<1>1. /\ Offer(sFile') \in Forward /\ Offer(sFile').t = "ZFILE" /\ Offer(sFile').file = sFile'
      /\ sFile' # sFile /\ lastOffer' # sFile' /\ Len(fwd) \in Nat
  BY Sent, Sizes DEF Types, LineTypes
<1>2. /\ Len(fwd') = Len(fwd) + 1 /\ fwd'[Len(fwd) + 1] = Offer(sFile')
      /\ \A i \in 1 .. Len(fwd) : fwd'[i] = fwd[i]
  BY <1>1, AddedOne DEF Types
<1>3. \A i \in 1 .. Len(fwd) : fwd[i].t = "ZFILE" => fwd[i].file = sFile
  BY DEF OfferInv
<1>4. \A i \in 1 .. Len(fwd') : i \in 1 .. Len(fwd) \/ (i = Len(fwd) + 1 /\ fwd'[i] = Offer(sFile'))
  BY <1>1, <1>2
<1>5. \A i \in 1 .. Len(fwd') : fwd'[i] = Offer(sFile') => i = Len(fwd')
  BY <1>1, <1>2, <1>3, <1>4
<1>6. \A i \in 1 .. Len(fwd') : fwd'[i].t = "ZFILE" => fwd'[i].file \in {sFile', lastOffer'}
  BY <1>1, <1>2, <1>3, <1>4
<1>7. \A i \in 1 .. Len(fwd') : fwd'[i].t # "CAN"
  BY <1>1, <1>2, <1>4 DEF OfferInv
<1>8. \A i, j \in 1 .. Len(fwd') : ~(i < j /\ fwd'[i] = Offer(sFile'))
  BY <1>1, <1>2, <1>5
<1>9. QED
  BY <1>1, <1>6, <1>7, <1>8 DEF OfferInv

-----------------------------------------------------------------------------
(* The sender's steps keep the line.                                       *)

\* The cancel sequence opens nothing.
LEMMA CancelIsNeutral == Neutral(Cancel)
<1>1. Cancel \in Forward /\ Cancel.t = "CAN"
  BY Sent
<1>2. QED
  BY <1>1 DEF Neutral, Opens, IsUnit

\* EndFile: another file is offered, or the batch ends.
LEMMA EndFileLine ==
    ASSUME LastMayFail, Types, Types', LineInv, PlaceInv, OfferAnswers, DataAnswers,
           Passes \/ Finishes, UNCHANGED recvVars
    PROVE  LineInv'
<1>1. /\ sPc \in {"offer", "stream", "ack", "eof"} /\ lastOffer = sFile
      /\ sFile < Len(Size) => ~Receiving
      /\ UNCHANGED <<lastOffer, rPc, part>>
      /\ sFile \in Files /\ sFile \in Nat
  BY EndsSettled, Sizes DEF recvVars, Types, SenderTypes
<1>2. PICK o \in {"ok", "refused", "failed"} : EndFile(o)
  BY DEF Passes, Finishes
<1>3. CASE sFile < Len(Size)
  <2>1. sFile' = sFile + 1 /\ SenderSends(<<Offer(sFile + 1)>>) /\ sFile + 1 \in Files
    BY <1>1, <1>2, <1>3, Sizes DEF EndFile
  <2>2. OfferInv'
    BY <1>1, <2>1, NextOffer DEF LineInv
  <2>3. lastOffer' # sFile' /\ rPc' # "frame"
    BY <1>1, <1>3, <2>1 DEF Receiving
  <2>4. QED
    BY <2>2, <2>3 DEF LineInv, DataInv, FrameInv
<1>4. CASE ~(sFile < Len(Size))
  <2>1. sPc' = "fin" /\ sFile' = sFile /\ SenderSends(<<Header("ZFIN")>>)
    BY <1>2, <1>4 DEF EndFile
  <2> DEFINE x == Header("ZFIN")
             v == <<x>>
  <2>2. x \in Forward /\ x.t = "ZFIN" /\ v \in Seq(Forward) /\ Len(v) = 1 /\ v[1] = x
    BY Sent, SendsOne
  <2>3. SenderSends(<<x>>) /\ SenderSends(v)
    BY <2>1
  <2> HIDE DEF x, v
  <2>4. OfferInv'
    BY <1>1, <2>1, <2>2, <2>3, OfferKept DEF LineInv
  <2>5. Neutral(x) /\ StaysInFrame
    BY <2>1, <2>2 DEF Neutral, StaysInFrame, Streaming, Opens, IsUnit
  <2>6. DataInv' /\ FrameInv'
    BY <1>1, <2>1, <2>3, <2>5, DataKept, FrameKept DEF LineInv
  <2>7. QED
    BY <2>4, <2>6 DEF LineInv
<1>5. QED
  BY <1>3, <1>4

\* Between offers nothing but offers is on the line.
LEMMA OfferLine ==
    ASSUME Types, Types', LineInv, PlaceInv, Offers \/ Accepted, UNCHANGED recvVars
    PROVE  LineInv'
<1>1. /\ sPc = "offer" /\ Keeps /\ UNCHANGED <<lastOffer, rPc, part>> /\ rPc # "frame"
      /\ sFile' = sFile
  BY DEF Offers, Accepted, recvVars, PlaceInv, Keeps
<1>2. FrameInv'
  BY <1>1 DEF FrameInv
<1>3. Offer(sFile).t = "ZFILE"
  BY Sent DEF Types, SenderTypes
<1>4. CASE Offers
  <2>1. OfferInv'
    BY <1>1, <1>4, OfferAdded DEF LineInv
  <2>2. CASE lastOffer = sFile
    <3>1. \A i \in 1 .. Len(fwd') : fwd'[i].t = "ZFILE"
      BY <1>1, <1>3, <1>4, <2>1, <2>2 DEF OfferInv, Offers
    <3>2. ~Streaming'
      BY <1>4 DEF Offers, Streaming
    <3>3. DataInv'
      BY <3>1, <3>2 DEF DataInv, UnitsInv, EOFInv, ChainInv, TipInv, IsUnit, Opens
    <3>4. QED
      BY <1>2, <2>1, <3>3 DEF LineInv
  <2>3. CASE lastOffer # sFile
    BY <1>1, <1>2, <2>1, <2>3 DEF LineInv, DataInv
  <2>4. QED
    BY <2>2, <2>3
<1>5. CASE Accepted
  <2>1. sPc' = "stream" /\ fwd' = fwd /\ st'.new
    BY <1>5 DEF Accepted
  <2>2. OfferInv'
    BY <1>1, <2>1 DEF LineInv, OfferInv
  <2>3. CASE lastOffer = sFile
    <3>1. \A i \in 1 .. Len(fwd') : fwd'[i].t = "ZFILE"
      BY <1>1, <1>3, <2>1, <2>3 DEF LineInv, OfferInv
    <3>2. DataInv'
      BY <2>1, <3>1 DEF DataInv, UnitsInv, EOFInv, ChainInv, TipInv, IsUnit, Opens
    <3>3. QED
      BY <1>2, <2>2, <3>2 DEF LineInv
  <2>4. CASE lastOffer # sFile
    BY <1>1, <1>2, <2>2, <2>4 DEF LineInv, DataInv
  <2>5. QED
    BY <2>3, <2>4
<1>6. QED
  BY <1>4, <1>5

\* Once the sender has given up nothing follows.
LEMMA StopsLine ==
    ASSUME Types, Types', LineInv, Stops, UNCHANGED recvVars
    PROVE  LineInv'
<1>1. sPc' = "failed" /\ sFile' = sFile /\ UNCHANGED <<lastOffer, rPc, part>>
  BY DEF Stops, Keeps, recvVars
<1>2. ~Streaming' /\ StaysInFrame
  BY <1>1 DEF Streaming, StaysInFrame
<1>3. UNCHANGED fwd \/ \E x : Neutral(x) /\ SenderSends(<<x>>)
  BY AddedNone, CancelIsNeutral DEF Stops, Types
<1>4. FrameInv'
  BY <1>1, <1>2, <1>3, FrameKept DEF LineInv
<1>5. DataInv'
  <2>1. CASE lastOffer = sFile
    BY <1>1, <1>2, <1>3, <2>1, DataKept DEF LineInv
  <2>2. CASE lastOffer # sFile
    BY <1>1, <2>2 DEF DataInv
  <2>3. QED
    BY <2>1, <2>2
<1>6. OfferInv'
  <2>1. \E v \in Seq(Forward) : SenderSends(v) /\ \A i \in 1 .. Len(v) : v[i] = Cancel
    <3> DEFINE v == <<Cancel>>
    <3>1. v \in Seq(Forward) /\ \A i \in 1 .. Len(v) : v[i] = Cancel
      BY Sent, SendsOne
    <3>2. <<>> \in Seq(Forward) /\ \A i \in 1 .. Len(<<>>) : <<>>[i] = Cancel
      OBVIOUS
    <3>3. CASE SenderSends(<<>>)
      BY <3>2, <3>3
    <3>4. CASE SenderSends(<<Cancel>>)
      <4> HIDE DEF v
      <4>1. SenderSends(v)
        BY <3>4 DEF v
      <4>2. QED
        BY <3>1, <4>1
    <3>5. QED
      BY <3>3, <3>4 DEF Stops
  <2>2. QED
    BY <1>1, <2>1, OfferKept DEF LineInv
<1>7. QED
  BY <1>4, <1>5, <1>6 DEF LineInv

\* While a file is sent, and at the end of the batch.
LEMMA StreamLine ==
    ASSUME Types, Types', LineInv, PlaceInv, UNCHANGED recvVars,
           StaysOn \/ Closes \/ SendData \/ ReadFails
    PROVE  LineInv'
<1>1. /\ sPc \in {"stream", "ack", "eof", "fin"} /\ sPc' \in {"stream", "ack", "eof", "fin", "ok"}
      /\ sFile' = sFile /\ UNCHANGED <<lastOffer, rPc, part>> /\ lastOffer = sFile
  BY SendDataSends, ReadFailsSends DEF StaysOn, Closes, Keeps, recvVars, PlaceInv, Streaming, Types
<1>2. sFile \in Files /\ Size[sFile] \in Nat /\ FileEnd \in Nat
  BY Sizes, FileEndTypes DEF Types, SenderTypes
<1>3. CASE StaysOn \/ Closes
  <2>1. StaysInFrame
    BY <1>1, <1>3 DEF StaysInFrame, StaysOn, Closes, Keeps, Streaming
  <2>2. \/ UNCHANGED fwd
        \/ \E x : /\ Neutral(x) /\ SenderSends(<<x>>)
                  /\ x.t \in {"ZDATA", "DATA", "ZEOF", "ZFIN"}
    <3>1. CASE SenderSends(<<>>)
      BY <3>1, AddedNone DEF Types
    <3>2. ASSUME NEW e \in Ends, SenderSends(<<Data(<<>>, e)>>) PROVE <2>2!2
      <4>1. Data(<<>>, e) \in Forward /\ Data(<<>>, e).t = "DATA" /\ Data(<<>>, e).data = <<>>
        BY Sent, EmptyUnit
      <4>2. Neutral(Data(<<>>, e))
        BY <4>1 DEF Neutral, Opens, IsUnit
      <4>3. QED
        BY <3>2, <4>1, <4>2
    <3>3. ASSUME NEW p \in Nat, SenderSends(<<At("ZEOF", p)>>),
                 p = Size[sFile] \/ (sFile \in Unreadable /\ cut), StaysOn
          PROVE <2>2!2
      <4>1. At("ZEOF", p) \in Forward /\ At("ZEOF", p).t = "ZEOF" /\ At("ZEOF", p).pos = p
        BY Sent
      <4>2. Neutral(At("ZEOF", p))
        BY <1>1, <3>3, <4>1 DEF Neutral, Opens, IsUnit, StaysOn, Keeps
      <4>3. QED
        BY <3>3, <4>1, <4>2
    <3>4. SenderSends(<<Header("ZFIN")>>) => <2>2!2
      <4>1. Header("ZFIN") \in Forward /\ Header("ZFIN").t = "ZFIN"
        BY Sent
      <4>2. Neutral(Header("ZFIN"))
        BY <4>1 DEF Neutral, Opens, IsUnit
      <4>3. QED
        BY <4>1, <4>2
    <3>5. FileEnd = Size[sFile] \/ (sFile \in Unreadable /\ cut)
      BY DEF FileEnd, PlaceInv
    <3>6. QED
      BY <1>2, <1>3, <3>1, <3>2, <3>3, <3>4, <3>5 DEF StaysOn, Closes
  <2>3. DataInv' /\ FrameInv'
    BY <1>1, <2>1, <2>2, DataKept, FrameKept DEF LineInv
  <2>4. \E v \in Seq(Forward) : /\ SenderSends(v)
                                /\ \A i \in 1 .. Len(v) : v[i].t \in {"ZDATA", "DATA", "ZEOF", "ZFIN"}
    <3>1. CASE UNCHANGED fwd
      <4>1. SenderSends(<<>>)
        BY <3>1, SentNothing DEF Types
      <4>2. <<>> \in Seq(Forward)
            /\ \A i \in 1 .. Len(<<>>) : <<>>[i].t \in {"ZDATA", "DATA", "ZEOF", "ZFIN"}
        OBVIOUS
      <4>3. QED
        BY <4>1, <4>2
    <3>2. ASSUME NEW x, Neutral(x), SenderSends(<<x>>), x.t \in {"ZDATA", "DATA", "ZEOF", "ZFIN"}
          PROVE  <2>4
      <4> DEFINE v == <<x>>
      <4>1. v \in Seq(Forward) /\ \A i \in 1 .. Len(v) : v[i] = x
        BY <3>2, SendsOne DEF Neutral
      <4>2. QED
        BY <3>2, <4>1
    <3>3. QED
      BY <2>2, <3>1, <3>2
  <2>5. OfferInv'
    BY <1>1, <2>4, OfferKept DEF LineInv
  <2>6. QED
    BY <2>3, <2>5 DEF LineInv
<1>4. CASE SendData
  <2>1. /\ Streaming /\ Streaming' /\ Keeps
        /\ st.pos \in Nat /\ st.pos < Size[sFile] /\ st'.pos = st.pos + 1 /\ st.new \in BOOLEAN
    BY <1>4, SendDataSends DEF Types
  <2>2. PICK e \in Ends : IF st.new THEN SenderSends(<<At("ZDATA", st.pos), Data(Unit(sFile, st.pos + 1), e)>>)
                                    ELSE SenderSends(<<Data(Unit(sFile, st.pos + 1), e)>>)
    BY <1>4, SendDataSends DEF Types
  <2>3. DataInv' /\ FrameInv'
    <3>1. CASE st.new
      BY <1>1, <2>1, <2>2, <3>1, FrameOpened DEF LineInv, Keeps
    <3>2. CASE ~st.new
      BY <1>1, <2>1, <2>2, <3>2, UnitInFrame DEF LineInv, Keeps
    <3>3. QED
      BY <3>1, <3>2
  <2>4. \E v \in Seq(Forward) : /\ SenderSends(v)
                                /\ \A i \in 1 .. Len(v) : v[i].t \in {"ZDATA", "DATA", "ZEOF", "ZFIN"}
    <3> DEFINE d == At("ZDATA", st.pos)
               u == Data(Unit(sFile, st.pos + 1), e)
    <3>1. d \in Forward /\ u \in Forward /\ d.t = "ZDATA" /\ u.t = "DATA"
      BY <1>2, <2>1, UnitFacts, Sent
    <3>2. SenderSends(<<d, u>>) \/ SenderSends(<<u>>)
      BY <2>2
    <3> HIDE DEF d, u
    <3>3. <<d, u>> \in Seq(Forward) /\ \A i \in 1 .. Len(<<d, u>>) : <<d, u>>[i] = d \/ <<d, u>>[i] = u
      BY <3>1, SendsOne
    <3>4. <<u>> \in Seq(Forward) /\ \A i \in 1 .. Len(<<u>>) : <<u>>[i] = u
      BY <3>1, SendsOne
    <3>5. QED
      BY <3>1, <3>2, <3>3, <3>4
  <2>5. OfferInv'
    BY <1>1, <2>4, OfferKept DEF LineInv
  <2>6. QED
    BY <2>3, <2>5 DEF LineInv
<1>5. CASE ReadFails
  <2>1. /\ cut' = TRUE /\ sFile \in Unreadable
        /\ \E v \in Seq(Forward) :
              /\ SenderSends(v) /\ Len(v) > 0 /\ v[Len(v)].t = "ZEOF"
              /\ \A i \in 1 .. Len(v) : v[i].t \in {"ZDATA", "DATA", "ZEOF"} /\ ~IsUnit(v[i])
    BY <1>5, ReadFailsSends DEF Types
  <2>2. DataInv' /\ FrameInv'
    BY <1>1, <2>1, FileCut DEF LineInv
  <2>3. OfferInv'
    BY <1>1, <2>1, OfferKept DEF LineInv
  <2>4. QED
    BY <2>2, <2>3 DEF LineInv
<1>6. QED
  BY <1>3, <1>4, <1>5

\* LastMayFail is about the constants.
LEMMA SenderLines ==
    ASSUME LastMayFail, Types, LineInv, PlaceInv, OfferAnswers, DataAnswers, Sender
    PROVE  LineInv'
<1>1. Types' /\ UNCHANGED recvVars
  BY SenderTypesStep, SenderLeavesReceiver
<1>2. QED
  BY <1>1, SenderMoves, StopsLine, StreamLine, OfferLine, EndFileLine

-----------------------------------------------------------------------------
(* What both sides know, under the sender's steps.                         *)

\* The sender changes nothing that is said of the receiver.
LEMMA Undisturbed ==
    ASSUME UNCHANGED recvVars
    PROVE  /\ UNCHANGED <<rPc, rFile, lastOffer, part, saved, dropped>>
           /\ Receiving' <=> Receiving
           /\ \A f : Whole(f)' <=> Whole(f)
BY DEF recvVars, Receiving, Whole

\* A step that ends no file changes nothing about the files.
LEMMA FilesKept ==
    ASSUME FileInv, UNCHANGED <<sFile, res>>, UNCHANGED recvVars
    PROVE  FileInv'
<1>1. PartInv' /\ SavedFaithful' /\ OkMeansSaved'
  BY Undisturbed DEF FileInv, PartInv, SavedFaithful, OkMeansSaved, rx
<1>2. QED
  BY <1>1 DEF FileInv

\* A sender that has failed expects nothing.
LEMMA StopsTalk ==
    ASSUME TalkInv, Stops, UNCHANGED recvVars
    PROVE  TalkInv'
<1>1. sPc' = "failed" /\ UNCHANGED <<sFile, cut, res>>
  BY DEF Stops, Keeps
<1>2. QED
  BY <1>1, Undisturbed DEF TalkInv, PlaceInv, OfferAnswers, DataAnswers, ResultInv, Streaming

\* The answers to an offer that is repeated stay in order.
LEMMA OffersTalk ==
    ASSUME Types, TalkInv, Offers, UNCHANGED recvVars
    PROVE  TalkInv'
<1>1. sPc = "offer" /\ sPc' = "offer" /\ UNCHANGED <<sFile, cut, res>> /\ Listens
  BY DEF Offers, Keeps
<1>2. PICK k \in {0, 1} : /\ Len(rev') = Len(rev) - k /\ Len(rev) \in Nat
                          /\ \A i \in 1 .. Len(rev') : i + k \in 1 .. Len(rev) /\ rev'[i] = rev[i + k]
  BY <1>1, Listened
<1>3. OfferAnswers'
  <2>1. \A i, j \in 1 .. Len(rev') : i < j => i + k < j + k
    BY <1>2
  <2>2. QED
    BY <1>1, <1>2, <2>1, Undisturbed DEF TalkInv, OfferAnswers
<1>4. QED
  BY <1>1, <1>3, Undisturbed DEF TalkInv, PlaceInv, DataAnswers, ResultInv, Streaming

\* When the ZRPOS is heard no older ZRINIT or ZSKIP is left.
LEMMA AcceptedTalk ==
    ASSUME Types, TalkInv, Accepted, UNCHANGED recvVars
    PROVE  TalkInv'
<1>1. /\ sPc = "offer" /\ sPc' = "stream" /\ UNCHANGED <<sFile, cut, res>>
      /\ rev # <<>> /\ rev[1].t = "ZRPOS" /\ rev \in Seq(Answers) /\ Len(rev) \in Nat \ {0}
  BY DEF Accepted, Keeps, Types, LineTypes
<1>2. Len(rev') = Len(rev) - 1 /\ \A i \in 1 .. Len(rev') : rev'[i] = rev[i + 1]
  BY <1>1, AnswerTail DEF Accepted
<1>3. lastOffer = sFile /\ rPc \notin {"wait", "choose"}
  BY <1>1 DEF TalkInv, OfferAnswers
<1>4. \A i \in 1 .. Len(rev') : rev'[i].t \in {"ZRPOS", "CAN"}
  <2>1. \A i \in 1 .. Len(rev') : i + 1 \in 1 .. Len(rev) /\ 1 < i + 1 /\ 1 \in 1 .. Len(rev)
    BY <1>1, <1>2
  <2>2. QED
    BY <1>1, <1>2, <2>1 DEF TalkInv, OfferAnswers
<1>5. DataAnswers'
  BY <1>3, <1>4, Undisturbed DEF DataAnswers
<1>6. PlaceInv' /\ OfferAnswers' /\ ResultInv'
  BY <1>1, <1>3, Undisturbed DEF TalkInv, PlaceInv, OfferAnswers, ResultInv
<1>7. QED
  BY <1>5, <1>6 DEF TalkInv

\* While a file is sent the answers only get fewer.
LEMMA StreamTalk ==
    ASSUME Types, TalkInv, Streaming, Streaming', Listens, UNCHANGED <<sFile, res>>,
           UNCHANGED cut \/ (cut' /\ sFile \in Unreadable), UNCHANGED recvVars
    PROVE  TalkInv'
<1>1. PICK k \in {0, 1} : /\ Len(rev') = Len(rev) - k /\ Len(rev) \in Nat
                          /\ \A i \in 1 .. Len(rev') : i + k \in 1 .. Len(rev) /\ rev'[i] = rev[i + k]
  BY Listened
<1>2. lastOffer = sFile /\ sPc' # "offer" /\ rPc # "choose"
  BY DEF TalkInv, PlaceInv, Streaming
<1>3. Settled(sFile) => Settled(sFile)'
  BY Undisturbed DEF Settled
<1>4. DataAnswers'
  <2>1. \A i, j \in 1 .. Len(rev') : i < j => i + k < j + k
    BY <1>1
  <2>2. \A i \in 1 .. Len(rev') : rev'[i].t \in {"ZRINIT", "ZSKIP"} => ~Receiving /\ Settled(sFile)
    BY <1>1 DEF TalkInv, DataAnswers
  <2>3. \A i, j \in 1 .. Len(rev') :
            i < j /\ rev'[i].t \in {"ZRINIT", "ZSKIP"} => rev'[j].t \notin {"ZRPOS", "ZSKIP"}
    BY <1>1, <2>1 DEF TalkInv, DataAnswers
  <2>4. rPc' = "wait" => Settled(sFile)
    BY Undisturbed DEF TalkInv, DataAnswers
  <2>5. QED
    BY <1>3, <2>2, <2>3, <2>4, Undisturbed DEF DataAnswers
<1>5. PlaceInv' /\ OfferAnswers' /\ ResultInv'
  BY <1>2, Undisturbed DEF TalkInv, PlaceInv, OfferAnswers, ResultInv, Streaming
<1>6. QED
  BY <1>4, <1>5 DEF TalkInv

\* Nothing is promised behind the last file.
LEMMA ClosesTalk ==
    ASSUME TalkInv, Closes, UNCHANGED recvVars
    PROVE  TalkInv'
<1>1. sPc = "fin" /\ sPc' \in {"fin", "ok"} /\ UNCHANGED <<sFile, cut, res>>
  BY DEF Closes, Keeps
<1>2. QED
  BY <1>1, Undisturbed DEF TalkInv, PlaceInv, OfferAnswers, DataAnswers, ResultInv, Streaming

\* EndFile: what becomes of the file is what the receiver has answered.
LEMMA EndFileTalk ==
    ASSUME LastMayFail, Types, TalkInv, FileInv, Passes \/ Finishes, UNCHANGED recvVars
    PROVE  TalkInv' /\ FileInv'
<1>1. /\ sPc \in {"offer", "stream", "ack", "eof"} /\ lastOffer = sFile
      /\ sFile < Len(Size) => ~Receiving
  BY EndsSettled DEF TalkInv
<1>2. PICK o \in {"ok", "refused", "failed"} : EndFile(o) /\ (o = "ok" => Finishes /\ ~cut)
  BY DEF Passes, Finishes
<1>3. /\ rev # <<>> /\ rev \in Seq(Answers) /\ rev' = Tail(rev) /\ Len(rev) \in Nat \ {0}
      /\ 1 \in 1 .. Len(rev)
  BY DEF Passes, Finishes, Types, LineTypes
<1>4. Len(rev') = Len(rev) - 1 /\ \A i \in 1 .. Len(rev') : rev'[i] = rev[i + 1]
  BY <1>3, AnswerTail
<1>5. sFile \in Files /\ sFile \in Nat /\ Files = 1 .. Len(Size) /\ Len(Size) \in Nat
  BY Sizes DEF Types, SenderTypes
<1>6. /\ res' = [res EXCEPT ![sFile] = o] /\ res \in [Files -> {"none", "ok", "refused", "failed"}]
      /\ ~cut'
  BY <1>2 DEF EndFile, Types, SenderTypes
<1>7. /\ res'[sFile] = o
      /\ \A f \in Files : f # sFile => res'[f] = res[f]
  BY <1>5, <1>6
<1>8. o = "ok" => ~Receiving /\ (Whole(sFile) \/ sFile \in dropped)
  BY <1>2, <1>3 DEF Finishes, TalkInv, DataAnswers, Settled
<1>9. Receiving => sFile' = sFile
  BY <1>1, <1>2 DEF EndFile
<1>10. PartInv'
  BY <1>9, Undisturbed DEF FileInv, PartInv, Receiving, rx
<1>11. SavedFaithful' /\ OkMeansSaved'
  BY <1>6, <1>7, <1>8, Undisturbed DEF FileInv, SavedFaithful, OkMeansSaved
<1>12. CASE sFile < Len(Size)
  <2>1. sPc' = "offer" /\ sFile' = sFile + 1 /\ sFile' \in Files /\ lastOffer' # sFile'
    BY <1>1, <1>2, <1>5, <1>12, Undisturbed DEF EndFile
  <2>2. ~cut
    BY <1>5, <1>12 DEF TalkInv, PlaceInv, LastMayFail
  <2>3. rev[1].t \in {"ZRINIT", "ZSKIP"}
    BY <2>2 DEF Passes, Finishes
  <2>4. \A i \in 1 .. Len(rev) : 1 < i => rev[i].t \notin {"ZRPOS", "ZSKIP"}
    <3>1. CASE Passes
      BY <1>3, <3>1 DEF Passes, TalkInv, OfferAnswers
    <3>2. CASE Finishes
      BY <1>3, <2>3, <3>2 DEF Finishes, TalkInv, DataAnswers
    <3>3. QED
      BY <3>1, <3>2
  <2>5. \A i \in 1 .. Len(rev') : rev'[i].t \notin {"ZRPOS", "ZSKIP"}
    <3>1. \A i \in 1 .. Len(rev') : i + 1 \in 1 .. Len(rev) /\ 1 < i + 1
      BY <1>3, <1>4
    <3>2. QED
      BY <1>4, <2>4, <3>1
  <2>6. OfferAnswers'
    BY <2>5 DEF OfferAnswers
  <2>7. PlaceInv'
    BY <1>1, <1>6, <1>12, <2>1, Undisturbed DEF PlaceInv, Receiving
  <2>8. ResultInv'
    BY <1>5, <1>7, <2>1 DEF TalkInv, ResultInv
  <2>9. QED
    BY <1>10, <1>11, <2>1, <2>6, <2>7, <2>8 DEF TalkInv, FileInv, DataAnswers, Streaming
<1>13. CASE ~(sFile < Len(Size))
  <2>1. sPc' = "fin" /\ sFile' = sFile
    BY <1>2, <1>13 DEF EndFile
  <2>2. rPc # "choose"
    <3>1. CASE Passes
      BY <1>3, <3>1 DEF Passes, TalkInv, OfferAnswers, Receiving
    <3>2. CASE Finishes
      BY <3>2 DEF Finishes, TalkInv, PlaceInv, Streaming
    <3>3. QED
      BY <3>1, <3>2
  <2>3. PlaceInv'
    BY <1>1, <1>6, <2>1, <2>2, Undisturbed DEF TalkInv, PlaceInv
  <2>4. ResultInv'
    BY <1>1, <1>5, <1>7, <1>8, <2>1, Undisturbed DEF TalkInv, ResultInv
  <2>5. QED
    BY <1>10, <1>11, <2>1, <2>3, <2>4 DEF TalkInv, FileInv, OfferAnswers, DataAnswers, Streaming
<1>14. QED
  BY <1>12, <1>13

\* Every step of the sender keeps the invariant.
LEMMA SenderStep ==
    ASSUME BatchInv, Sender
    PROVE  BatchInv'
<1>1. /\ LastMayFail /\ Types /\ LineInv /\ TalkInv /\ FileInv
      /\ PlaceInv /\ OfferAnswers /\ DataAnswers
  BY DEF BatchInv, TalkInv
<1>2. Types' /\ LineInv' /\ UNCHANGED recvVars
  BY <1>1, SenderTypesStep, SenderLines, SenderLeavesReceiver
<1>3. TalkInv' /\ FileInv'
  <2>1. CASE Stops
    BY <1>1, <1>2, <2>1, StopsTalk, FilesKept DEF Stops, Keeps
  <2>2. CASE Offers
    BY <1>1, <1>2, <2>2, OffersTalk, FilesKept DEF Offers, Keeps
  <2>3. CASE Accepted
    BY <1>1, <1>2, <2>3, AcceptedTalk, FilesKept DEF Accepted, Keeps
  <2>4. CASE Passes \/ Finishes
    BY <1>1, <1>2, <2>4, EndFileTalk
  <2>5. CASE StaysOn
    BY <1>1, <1>2, <2>5, StreamTalk, FilesKept DEF StaysOn, Keeps
  <2>6. CASE SendData
    <3>1. Streaming /\ Streaming' /\ Keeps /\ Listens
      BY <1>1, <2>6, SendDataSends DEF Types, SendData, Listens
    <3>2. QED
      BY <1>1, <1>2, <3>1, StreamTalk, FilesKept DEF Keeps
  <2>7. CASE ReadFails
    <3>1. Streaming /\ Streaming' /\ Listens /\ UNCHANGED <<sFile, res>> /\ cut' /\ sFile \in Unreadable
      BY <2>7 DEF ReadFails, Streaming, Listens
    <3>2. QED
      BY <1>1, <1>2, <3>1, StreamTalk, FilesKept
  <2>8. CASE Closes
    BY <1>1, <1>2, <2>8, ClosesTalk, FilesKept DEF Closes, Keeps
  <2>9. QED
    BY <1>1, <2>1, <2>2, <2>3, <2>4, <2>5, <2>6, <2>7, <2>8, SenderMoves
<1>4. QED
  BY <1>1, <1>2, <1>3 DEF BatchInv, LastMayFail

-----------------------------------------------------------------------------
(* The receiver's steps, by what they answer and by its own place.         *)

\* It adds answers of these kinds.
Says(kinds) ==
    /\ Len(rev') >= Len(rev)
    /\ \A i \in 1 .. Len(rev) : rev'[i] = rev[i]
    /\ \A i \in 1 .. Len(rev') : i > Len(rev) => rev'[i].t \in kinds
Skips ==
    /\ Len(rev') = Len(rev) + 2
    /\ \A i \in 1 .. Len(rev) : rev'[i] = rev[i]
    /\ rev'[Len(rev) + 1].t = "ZSKIP" /\ rev'[Len(rev) + 2].t = "ZRINIT"

\* Between two files, and when it gives up.
Idles ==
    /\ rPc = "wait" /\ rPc' \in {"wait", "ended", "failed"}
    /\ UNCHANGED <<lastOffer, saved, dropped>>
    /\ Says({"ZRINIT", "ZNAK", "ZFIN", "CAN"})
Quits ==
    /\ Receiving /\ rPc' \in {"ended", "failed"}
    /\ UNCHANGED <<lastOffer, saved, dropped>>
    /\ Says({"CAN"}) \/ (sPc # "offer" /\ Says({"ZFIN", "ZFERR", "CAN"}))
\* The offer is one of the sender's file, and no answer to it is on the line.
Takes ==
    /\ TakeOffer
    /\ rFile' = sFile /\ fwd # <<>> /\ fwd[1] = Offer(sFile) /\ sPc \in {"offer", "failed"}
    /\ lastOffer = sFile => sPc = "offer" /\ \A i \in 1 .. Len(rev) : rev[i].t # "ZSKIP"
Continues ==
    /\ Receiving /\ UNCHANGED <<rFile, lastOffer, saved, dropped>>
    /\ Says({"ZRPOS"}) \/ (sPc # "offer" /\ Says({"ZACK"}))
    /\ \/ rPc' = "data" /\ part' = <<>>
       \/ rPc' = "data" /\ rPc # "choose" /\ part' = part
       \/ FrameStarts /\ sPc # "offer"
       \/ Subpacket /\ rPc' \in {"data", "frame"}
Leaves ==
    /\ Receiving /\ rPc' = "wait" /\ UNCHANGED lastOffer
    /\ sPc = "offer" => rPc = "choose"
    /\ Skips \/ (sPc # "offer" /\ Says({"ZRINIT"}))
    /\ \/ UNCHANGED saved /\ dropped' = dropped \cup {sFile}
       \/ /\ rPc = "data"
          /\ rx = Size[sFile] \/ (sFile \in Unreadable /\ (Streaming => cut))
          /\ saved' = [saved EXCEPT ![sFile] = part] /\ UNCHANGED dropped

\* One answer, two, none.
LEMMA SaysOne ==
    ASSUME LineTypes, NEW h \in Answers, ReceiverSends(<<h>>), NEW kinds, h.t \in kinds
    PROVE  Says(kinds)
<1> DEFINE v == <<h>>
<1>1. v \in Seq(Answers) /\ Len(v) = 1 /\ v[1] = h
  OBVIOUS
<1>2. rev' = rev \o v /\ rev \in Seq(Answers) /\ Len(rev) \in Nat
  BY DEF ReceiverSends, LineTypes
<1> HIDE DEF v
<1>3. /\ Len(rev') = Len(rev) + 1 /\ rev'[Len(rev) + 1] = h
      /\ \A i \in 1 .. Len(rev) : rev'[i] = rev[i]
  BY <1>1, <1>2, AnswerConcat
<1>4. \A i \in 1 .. Len(rev') : i > Len(rev) => i = Len(rev) + 1
  BY <1>2, <1>3
<1>5. QED
  BY <1>2, <1>3, <1>4 DEF Says

\* Two answers.
LEMMA SaysTwo ==
    ASSUME LineTypes, NEW h \in Answers, NEW g \in Answers, ReceiverSends(<<h, g>>)
    PROVE  /\ Len(rev') = Len(rev) + 2 /\ Len(rev) \in Nat
           /\ \A i \in 1 .. Len(rev) : rev'[i] = rev[i]
           /\ rev'[Len(rev) + 1] = h /\ rev'[Len(rev) + 2] = g
<1> DEFINE v == <<h, g>>
<1>1. v \in Seq(Answers) /\ Len(v) = 2 /\ v[1] = h /\ v[2] = g
  OBVIOUS
<1>2. rev' = rev \o v /\ rev \in Seq(Answers) /\ Len(rev) \in Nat
  BY DEF ReceiverSends, LineTypes
<1> HIDE DEF v
<1>3. 1 \in 1 .. Len(v) /\ 2 \in 1 .. Len(v)
  BY <1>1
<1>4. /\ Len(rev') = Len(rev) + Len(v) /\ \A i \in 1 .. Len(rev) : rev'[i] = rev[i]
      /\ \A i \in 1 .. Len(v) : rev'[Len(rev) + i] = v[i]
  BY <1>1, <1>2, AnswerConcat
<1>5. rev'[Len(rev) + 1] = h /\ rev'[Len(rev) + 2] = g
  BY <1>1, <1>3, <1>4
<1>6. QED
  BY <1>1, <1>2, <1>4, <1>5

\* No answer.
LEMMA SaysNothing ==
    ASSUME LineTypes, NEW kinds, UNCHANGED rev \/ ReceiverSends(<<>>)
    PROVE  Says(kinds)
<1>1. UNCHANGED rev /\ Len(rev) \in Nat
  BY DEF ReceiverSends, LineTypes
<1>2. QED
  BY <1>1 DEF Says

\* Each reply by its kind.
LEMMA SaysReplies ==
    ASSUME LineTypes
    PROVE  /\ \A p \in Nat : /\ ReceiverSends(<<At("ZRPOS", p)>>) => Says({"ZRPOS"})
                             /\ ReceiverSends(<<At("ZACK", p)>>) => Says({"ZACK"})
           /\ ReceiverSends(<<Header("ZRINIT")>>) => 
                  Says({"ZRINIT"}) /\ Says({"ZRINIT", "ZNAK", "ZFIN", "CAN"})
           /\ ReceiverSends(<<Header("ZNAK")>>) => Says({"ZRINIT", "ZNAK", "ZFIN", "CAN"})
           /\ ReceiverSends(<<Header("ZFIN")>>) =>
                  Says({"ZRINIT", "ZNAK", "ZFIN", "CAN"}) /\ Says({"ZFIN", "ZFERR", "CAN"})
           /\ ReceiverSends(<<Cancel>>) => Says({"CAN"}) /\ Says({"ZRINIT", "ZNAK", "ZFIN", "CAN"})
           /\ ReceiverSends(<<Header("ZFERR"), Cancel>>) => Says({"ZFIN", "ZFERR", "CAN"})
           /\ ReceiverSends(<<Header("ZSKIP"), Header("ZRINIT")>>) => Skips
<1>1. ReceiverSends(<<Header("ZFERR"), Cancel>>) => Says({"ZFIN", "ZFERR", "CAN"})
  <2> SUFFICES ASSUME ReceiverSends(<<Header("ZFERR"), Cancel>>) PROVE Says({"ZFIN", "ZFERR", "CAN"})
    OBVIOUS
  <2>1. Header("ZFERR") \in Answers /\ Header("ZFERR").t = "ZFERR" /\ Cancel \in Answers /\ Cancel.t = "CAN"
    BY Answered
  <2>2. /\ Len(rev') = Len(rev) + 2 /\ Len(rev) \in Nat
        /\ \A i \in 1 .. Len(rev) : rev'[i] = rev[i]
        /\ rev'[Len(rev) + 1].t = "ZFERR" /\ rev'[Len(rev) + 2].t = "CAN"
    BY <2>1, SaysTwo
  <2>3. \A i \in 1 .. Len(rev') : i > Len(rev) => i = Len(rev) + 1 \/ i = Len(rev) + 2
    BY <2>2
  <2>4. QED
    BY <2>2, <2>3 DEF Says
<1>2. ReceiverSends(<<Header("ZSKIP"), Header("ZRINIT")>>) => Skips
  BY Answered, SaysTwo DEF Skips
<1>3. QED
  BY <1>1, <1>2, Answered, SaysOne

\* While an offer of the receiver's file is out, only repeats of it follow.
LEMMA OnlyOffers ==
    ASSUME Types, OfferInv, PlaceInv, Receiving, sPc = "offer", fwd # <<>>
    PROVE  fwd[1] = Offer(sFile) /\ fwd[1].t = "ZFILE"
<1>1. 1 \in 1 .. Len(fwd)
  BY DEF Types, LineTypes
<1>2. QED
  BY <1>1, Sent DEF OfferInv, PlaceInv, Types, SenderTypes

\* rpos() asks or gives up.
LEMMA AskAgainMoves ==
    ASSUME Types, rPc \in {"data", "frame"}, AskAgain
    PROVE  Continues \/ Quits
<1>1. rx \in Nat
  BY RxTypes DEF Types
<1>2. CASE retries < MaxAsks
  BY <1>1, <1>2, SaysReplies DEF AskAgain, Continues, Receiving, Types
<1>3. CASE ~(retries < MaxAsks)
  BY <1>3, SaysReplies DEF AskAgain, ReceiverFails, Quits, Receiving, Types
<1>4. QED
  BY <1>2, <1>3

\* What receiveData passes over.
LEMMA IgnoresMoves ==
    ASSUME Types, rPc = "data", UNCHANGED <<rev, recvVars>>
    PROVE  Continues
BY SaysNothing DEF Continues, Receiving, Types, recvVars

\* The steps of waitSender: an offer that is taken is of the sender's file.
LEMMA WaitingMoves ==
    ASSUME Types, OfferInv, PlaceInv, OfferAnswers,
           rPc = "wait",
           \/ ReceiverCancelled \/ TakeOffer \/ OfferDamaged \/ AnswerInit \/ WaitIgnores
           \/ WaitTimeout \/ ReceiverEnds
    PROVE  Idles \/ Takes
<1>1. LineTypes
  BY DEF Types
<1>2. CASE ReceiverCancelled
  BY <1>1, <1>2, SaysNothing DEF ReceiverCancelled, ReceiverFails, Idles
<1>3. CASE TakeOffer
  <2>1. PICK h : Reads(h) /\ h.t = "ZFILE" /\ ~Repeat(h.file) /\ rFile' = h.file
    BY <1>3 DEF TakeOffer
  <2>2. fwd # <<>> /\ h = fwd[1] /\ h = Offer(h.file) /\ 1 \in 1 .. Len(fwd)
    BY <1>1, <2>1, HasRead, ForwardFacts DEF LineTypes
  <2>3. h.file \in {sFile, lastOffer}
    BY <2>1, <2>2 DEF OfferInv
  <2>4. h.file = sFile
    BY <2>1, <2>3 DEF Repeat
  <2>5. lastOffer = sFile => sPc = "offer" /\ Header("ZSKIP") \notin ToSet(rev)
    BY <2>1, <2>4 DEF Repeat
  <2>6. \A i \in 1 .. Len(rev) : rev[i].t = "ZSKIP" => rev[i] = Header("ZSKIP") /\ rev[i] \in ToSet(rev)
    BY <1>1 DEF LineTypes, ToSet, Answers, Header
  <2>7. sPc \in {"offer", "failed"}
    BY <2>5 DEF PlaceInv
  <2>8. QED
    BY <1>3, <2>1, <2>2, <2>4, <2>5, <2>6, <2>7 DEF Takes
<1>4. CASE OfferDamaged
  BY <1>1, <1>4, SaysReplies DEF OfferDamaged, Idles, recvVars
<1>5. CASE AnswerInit
  BY <1>1, <1>5, SaysReplies DEF AnswerInit, Idles, recvVars
<1>6. CASE WaitIgnores
  BY <1>1, <1>6, SaysNothing DEF WaitIgnores, Idles, recvVars
<1>7. CASE WaitTimeout
  BY <1>1, <1>7, SaysReplies DEF WaitTimeout, ReceiverFails, Idles
<1>8. CASE ReceiverEnds
  BY <1>1, <1>8, SaysReplies DEF ReceiverEnds, Idles
<1>9. QED
  BY <1>2, <1>3, <1>4, <1>5, <1>6, <1>7, <1>8

\* The steps of a receiver that has a file.
LEMMA BusyMoves ==
    ASSUME Types, LineInv, PlaceInv, Receiving, Receiver
    PROVE  Quits \/ Continues \/ Leaves
<1>1. /\ LineTypes /\ OfferInv /\ rFile = sFile /\ lastOffer = sFile /\ rx \in Nat
      /\ rPc \in {"choose", "data", "frame"} /\ (rPc = "frame" => sPc # "offer")
  BY RxTypes DEF Types, LineInv, PlaceInv, Receiving
<1>2. ASSUME NEW h, Reads(h), h.t # "ZFILE" PROVE sPc # "offer"
  BY <1>1, <1>2, HasRead, OnlyOffers
<1>3. CASE ReceiverCancelled
  BY <1>1, <1>3, SaysNothing DEF ReceiverCancelled, ReceiverFails, Quits
<1>4. CASE TakeOffer \/ OfferDamaged \/ AnswerInit \/ WaitIgnores \/ WaitTimeout
  BY <1>1, <1>4 DEF TakeOffer, OfferDamaged, AnswerInit, WaitIgnores, WaitTimeout
<1>5. CASE ReceiverEnds
  <2>1. Reads(Header("ZFIN")) /\ Header("ZFIN").t # "ZFILE"
    BY <1>5, Sent DEF ReceiverEnds
  <2>2. QED
    BY <1>1, <1>2, <1>5, <2>1, SaysReplies DEF ReceiverEnds, Quits
<1>6. CASE Refuses
  BY <1>1, <1>6, SaysReplies DEF Refuses, Waits, Leaves
<1>7. CASE StartData
  <2>1. 0 \in Nat
    OBVIOUS
  <2>2. QED
    BY <1>1, <1>7, <2>1, SaysReplies DEF StartData, Continues
<1>8. CASE DataTimeout \/ FrameBreaks
  BY <1>8, AskAgainMoves DEF DataTimeout, FrameBreaks
<1>9. CASE DataNoise \/ WrongFrame \/ DataIgnores \/ RepeatedOffer
  <2>1. rPc = "data" /\ (AskAgain \/ UNCHANGED <<rev, recvVars>>)
    BY <1>9 DEF DataNoise, WrongFrame, DataIgnores, RepeatedOffer
  <2>2. QED
    BY <2>1, AskAgainMoves, IgnoresMoves
<1>10. CASE FrameStarts
  <2>1. Reads(At("ZDATA", rx)) /\ At("ZDATA", rx).t # "ZFILE"
    BY <1>1, <1>10, Sent DEF FrameStarts
  <2>2. QED
    BY <1>1, <1>2, <1>10, <2>1, SaysNothing DEF FrameStarts, Continues
<1>11. CASE Subpacket
  <2>1. PICK h : 
          /\ Reads(h) /\ h.t = "DATA"
          /\ part' = IF h.data = <<>> THEN part ELSE Append(part, h.data)
          /\ rPc' = IF h.end \in {"ZCRCW", "ZCRCE"} THEN "data" ELSE "frame"
          /\ ReceiverSends(IF h.end \in {"ZCRCW", "ZCRCQ"} THEN <<At("ZACK", Len(part'))>>
                                                          ELSE <<>>)
    BY <1>11 DEF Subpacket
  <2>2. Len(part') \in Nat
    <3>1. h.data \in Units
      BY <1>1, <2>1, HasRead, ForwardFacts
    <3>2. QED
      BY <2>1, <3>1 DEF Types, ReceiverTypes
  <2>3. ReceiverSends(<<At("ZACK", Len(part'))>>) \/ ReceiverSends(<<>>)
    BY <2>1
  <2>4. Says({"ZACK"})
    BY <1>1, <2>2, <2>3, SaysReplies, SaysNothing
  <2>5. QED
    BY <1>1, <1>11, <2>1, <2>4 DEF Subpacket, Continues
<1>12. ASSUME Written PROVE sPc # "offer" /\ rPc # "choose"
  <2>1. PICK h : Reads(h) /\ (h.t = "DATA" \/ h = At("ZEOF", rx))
    BY <1>12 DEF Written
  <2>2. h.t # "ZFILE"
    BY <1>1, <2>1, Sent
  <2>3. QED
    BY <1>2, <1>12, <2>1, <2>2 DEF Written
<1>13. CASE WriteError \/ DiskFull
  <2>1. Written
    BY <1>13 DEF WriteError, DiskFull
  <2>2. CASE WriteError
    BY <1>1, <1>12, <2>1, <2>2, SaysReplies DEF WriteError, Waits, Leaves
  <2>3. CASE DiskFull
    BY <1>1, <1>12, <2>1, <2>3, SaysReplies DEF DiskFull, ReceiverFails, Quits
  <2>4. QED
    BY <1>13, <2>2, <2>3
<1>14. CASE Commits
  <2>1. Reads(At("ZEOF", rx)) /\ At("ZEOF", rx).t = "ZEOF" /\ At("ZEOF", rx).pos = rx
    BY <1>1, <1>14, Sent DEF Commits
  <2>2. sPc # "offer" /\ fwd # <<>> /\ fwd[1].t = "ZEOF" /\ fwd[1].pos = rx /\ 1 \in 1 .. Len(fwd)
    BY <1>1, <1>2, <2>1, HasRead DEF LineTypes
  <2>3. rx = Size[sFile] \/ (sFile \in Unreadable /\ (Streaming => cut))
    BY <1>1, <2>2 DEF LineInv, DataInv, EOFInv
  <2>4. QED
    BY <1>1, <1>14, <2>2, <2>3, SaysReplies DEF Commits, Waits, Leaves
<1>15. QED
  BY <1>3, <1>4, <1>5, <1>6, <1>7, <1>8, <1>9, <1>10, <1>11, <1>13, <1>14 DEF Receiver

\* Every step of the receiver is of one of these kinds.
LEMMA ReceiverMoves ==
    ASSUME Types, LineInv, PlaceInv, OfferAnswers, Receiver
    PROVE  Idles \/ Takes \/ Quits \/ Continues \/ Leaves
<1>1. CASE Receiving
  BY <1>1, BusyMoves
<1>2. CASE ~Receiving
  <2>1. /\ rPc = "wait"
        /\ \/ ReceiverCancelled \/ TakeOffer \/ OfferDamaged \/ AnswerInit \/ WaitIgnores
           \/ WaitTimeout \/ ReceiverEnds
    BY <1>2 DEF Receiving, Receiver, ReceiverCancelled, TakeOffer, OfferDamaged, AnswerInit,
       WaitIgnores, WaitTimeout, ReceiverEnds, Refuses, StartData, DataTimeout, DataNoise,
       FrameStarts, WrongFrame, DataIgnores, RepeatedOffer, Subpacket, FrameBreaks,
       WriteError, DiskFull, Written, Commits
  <2>2. QED
    BY <2>1, WaitingMoves DEF LineInv
<1>3. QED
  BY <1>1, <1>2

-----------------------------------------------------------------------------
(* The line under the receiver's steps: items go from its head.            *)

\* The line without its first k items.
LEMMA Shifted ==
    ASSUME Types, ReceiverLine
    PROVE  \E k \in 0 .. Len(fwd) :
               /\ Len(fwd) \in Nat /\ Len(fwd') = Len(fwd) - k
               /\ \A i \in 1 .. Len(fwd') : i + k \in 1 .. Len(fwd) /\ fwd'[i] = fwd[i + k]
<1>1. PICK k \in 0 .. Len(fwd) : fwd' = SubSeq(fwd, k + 1, Len(fwd))
  BY DEF ReceiverLine
<1>2. fwd \in Seq(Forward) /\ Len(fwd) \in Nat
  BY DEF Types, LineTypes
<1>3. Len(fwd') = Len(fwd) - k /\ \A i \in 1 .. Len(fwd) - k : fwd'[i] = fwd[i + k]
  BY <1>1, <1>2, ForwardSuffix
<1>4. \A i \in 1 .. Len(fwd') : i + k \in 1 .. Len(fwd)
  BY <1>2, <1>3
<1>5. QED
  BY <1>2, <1>3, <1>4

\* The line without its first item.
LEMMA ShiftedByOne ==
    ASSUME Types, fwd # <<>>, fwd' = Tail(fwd)
    PROVE  /\ Len(fwd) \in Nat \ {0} /\ Len(fwd') = Len(fwd) - 1
           /\ \A i \in 1 .. Len(fwd') : i + 1 \in 1 .. Len(fwd) /\ fwd'[i] = fwd[i + 1]
BY ForwardTail DEF Types, LineTypes

\* Items between two places stay between them.
LEMMA PlainShifted ==
    ASSUME NEW w, NEW v, NEW k \in Nat, Len(w) \in Nat, Len(v) = Len(w) - k, Len(v) \in Nat,
           \A i \in 1 .. Len(v) : i + k \in 1 .. Len(w) /\ v[i] = w[i + k],
           NEW i \in Nat, NEW j \in 0 .. Len(v) + 1, Plain(v, i, j)
    PROVE  Plain(w, i + k, j + k)
<1> SUFFICES ASSUME NEW m \in (i + k) + 1 .. (j + k) - 1 PROVE IsEmpty(w[m])
  BY DEF Plain
<1>1. m - k \in i + 1 .. j - 1 /\ m - k \in 1 .. Len(v) /\ (m - k) + k = m
  OBVIOUS
<1>2. v[m - k] = w[m]
  BY <1>1
<1>3. QED
  BY <1>1, <1>2 DEF Plain

\* What is said of offers holds of the rest of the line.
LEMMA OffersShifted ==
    ASSUME Types, OfferInv, ReceiverLine, UNCHANGED <<sPc, sFile, lastOffer>>
    PROVE  OfferInv'
<1>1. PICK k \in 0 .. Len(fwd) :
          /\ Len(fwd) \in Nat /\ Len(fwd') = Len(fwd) - k
          /\ \A i \in 1 .. Len(fwd') : i + k \in 1 .. Len(fwd) /\ fwd'[i] = fwd[i + k]
  BY Shifted
<1>2. \A i, j \in 1 .. Len(fwd') : i < j => i + k < j + k
  BY <1>1
<1>3. QED
  BY <1>1, <1>2 DEF OfferInv

\* So does what is said of data.
LEMMA DataShifted ==
    ASSUME Types, DataInv, ReceiverLine, UNCHANGED senderVars, UNCHANGED lastOffer
    PROVE  DataInv'
<1>1. PICK k \in 0 .. Len(fwd) :
          /\ Len(fwd) \in Nat /\ Len(fwd') = Len(fwd) - k
          /\ \A i \in 1 .. Len(fwd') : i + k \in 1 .. Len(fwd) /\ fwd'[i] = fwd[i + k]
  BY Shifted
<1>2. k \in Nat /\ Len(fwd') \in Nat
  BY <1>1
<1>3. CASE lastOffer # sFile
  BY <1>3 DEF DataInv, senderVars
<1>4. CASE lastOffer = sFile
  <2>1. UnitsInv /\ EOFInv /\ ChainInv /\ TipInv
    BY <1>4 DEF DataInv
  <2>2. UnitsInv' /\ EOFInv'
    BY <1>1, <2>1 DEF UnitsInv, EOFInv, senderVars, Streaming
  <2>3. ChainInv'
    <3> SUFFICES ASSUME NEW i \in 1 .. Len(fwd'), NEW j \in 1 .. Len(fwd'), i < j,
                        Opens(fwd'[i]), IsUnit(fwd'[j]), Plain(fwd', i, j)
                 PROVE  Reach(fwd'[j]) = Reach(fwd'[i]) + 1
      BY DEF ChainInv
    <3>1. i + k < j + k /\ i \in Nat /\ j \in 0 .. Len(fwd') + 1
      BY <1>2
    <3>2. Plain(fwd, i + k, j + k)
      BY <1>1, <1>2, <3>1, PlainShifted
    <3>3. QED
      BY <1>1, <2>1, <3>1, <3>2 DEF ChainInv
  <2>4. TipInv'
    <3> SUFFICES ASSUME Streaming', ~st'.new, NEW i \in 1 .. Len(fwd'),
                        Opens(fwd'[i]), Plain(fwd', i, Len(fwd') + 1)
                 PROVE  Reach(fwd'[i]) = st'.pos
      BY DEF TipInv
    <3>1. i \in Nat /\ Len(fwd') + 1 \in 0 .. Len(fwd') + 1 /\ (Len(fwd') + 1) + k = Len(fwd) + 1
      BY <1>1, <1>2
    <3>2. Plain(fwd, i + k, Len(fwd) + 1)
      BY <1>1, <1>2, <3>1, PlainShifted
    <3>3. Streaming /\ UNCHANGED st
      BY DEF Streaming, senderVars
    <3>4. QED
      BY <1>1, <2>1, <3>2, <3>3 DEF TipInv
  <2>5. QED
    BY <2>2, <2>3, <2>4 DEF DataInv
<1>5. QED
  BY <1>3, <1>4

\* The line of a file whose first offer is read holds nothing but offers.
LEMMA TakesLine ==
    ASSUME Types, LineInv, PlaceInv, Takes, ReceiverLine
    PROVE  LineInv'
<1>1. /\ fwd # <<>> /\ fwd' = Tail(fwd) /\ fwd[1] = Offer(sFile) /\ UNCHANGED senderVars
      /\ rPc' = "choose" /\ lastOffer' = sFile /\ sPc \in {"offer", "failed"}
      /\ lastOffer = sFile => sPc = "offer"
  BY HasRead DEF Takes, TakeOffer, Types
<1>2. /\ UNCHANGED <<sPc, sFile>> /\ sFile \in Files
      /\ Offer(sFile).t = "ZFILE" /\ Offer(sFile).file = sFile /\ Cancel.t = "CAN"
  BY <1>1, Sent DEF senderVars, Types, SenderTypes
<1>3. /\ Len(fwd) \in Nat \ {0} /\ Len(fwd') = Len(fwd) - 1
      /\ \A i \in 1 .. Len(fwd') : i + 1 \in 1 .. Len(fwd) /\ fwd'[i] = fwd[i + 1]
  BY <1>1, ShiftedByOne
<1>4. \A i \in 1 .. Len(fwd') : fwd'[i] = Offer(sFile) \/ (sPc = "failed" /\ fwd'[i] = Cancel)
  <2>1. CASE lastOffer = sFile
    BY <1>1, <1>3, <2>1 DEF LineInv, OfferInv
  <2>2. CASE lastOffer # sFile
    <3>1. \A i \in 1 .. Len(fwd') : 1 \in 1 .. Len(fwd) /\ 1 < i + 1
      BY <1>3
    <3>2. \A i \in 1 .. Len(fwd') : fwd[i + 1] \in {Offer(sFile), Cancel}
      BY <1>1, <1>3, <2>2, <3>1 DEF LineInv, OfferInv
    <3>3. QED
      BY <1>2, <1>3, <3>2 DEF LineInv, OfferInv
  <2>3. QED
    BY <2>1, <2>2
<1>5. OfferInv'
  BY <1>1, <1>2, <1>4 DEF OfferInv
<1>6. \A i \in 1 .. Len(fwd') : fwd'[i].t \in {"ZFILE", "CAN"}
  BY <1>2, <1>4
<1>7. DataInv'
  BY <1>6 DEF DataInv, UnitsInv, EOFInv, ChainInv, TipInv, IsUnit, Opens
<1>8. QED
  BY <1>1, <1>5, <1>7 DEF LineInv, FrameInv

\* What the receiver has read from the line: ZDATA at its offset, or the next
\* unit. The line goes on from there.
LEMMA FrameGoesOn ==
    ASSUME Types, DataInv, lastOffer = sFile, UNCHANGED senderVars,
           fwd # <<>>, fwd' = Tail(fwd), Opens(fwd[1]), Reach(fwd[1]) = rx'
    PROVE  FrameInv'
<1>1. /\ Len(fwd) \in Nat \ {0} /\ Len(fwd') = Len(fwd) - 1 /\ Len(fwd') \in Nat
      /\ \A i \in 1 .. Len(fwd') : i + 1 \in 1 .. Len(fwd) /\ fwd'[i] = fwd[i + 1]
      /\ 1 \in 1 .. Len(fwd) /\ 0 \in Nat /\ 1 \in Nat
  BY ShiftedByOne
<1>2. ASSUME NEW j \in 0 .. Len(fwd') + 1, Plain(fwd', 0, j) PROVE Plain(fwd, 1, j + 1)
  <2>1. Plain(fwd, 0 + 1, j + 1)
    BY <1>1, <1>2, PlainShifted
  <2>2. QED
    BY <2>1
<1>3. ASSUME NEW j \in 1 .. Len(fwd'), IsUnit(fwd'[j]), Plain(fwd', 0, j)
      PROVE  Reach(fwd'[j]) = rx' + 1
  <2>1. 1 < j + 1 /\ j \in 0 .. Len(fwd') + 1
    BY <1>1
  <2>2. Plain(fwd, 1, j + 1)
    BY <1>2, <1>3, <2>1
  <2>3. QED
    BY <1>1, <1>3, <2>1, <2>2 DEF DataInv, ChainInv
<1>4. ASSUME Streaming', ~st'.new, Plain(fwd', 0, Len(fwd') + 1) PROVE rx' = st'.pos
  <2>1. Len(fwd') + 1 \in 0 .. Len(fwd') + 1 /\ (Len(fwd') + 1) + 1 = Len(fwd) + 1
    BY <1>1
  <2>2. Plain(fwd, 1, Len(fwd) + 1)
    BY <1>2, <1>4, <2>1
  <2>3. Streaming /\ UNCHANGED st
    BY <1>4 DEF Streaming, senderVars
  <2>4. QED
    BY <1>1, <1>4, <2>2, <2>3 DEF DataInv, TipInv
<1>5. QED
  BY <1>3, <1>4 DEF FrameInv

\* An empty subpacket moves nothing.
LEMMA FrameStays ==
    ASSUME Types, FrameInv, rPc = "frame", UNCHANGED senderVars, UNCHANGED part,
           fwd # <<>>, fwd' = Tail(fwd), IsEmpty(fwd[1])
    PROVE  FrameInv'
<1>1. /\ Len(fwd) \in Nat \ {0} /\ Len(fwd') = Len(fwd) - 1 /\ Len(fwd') \in Nat
      /\ \A i \in 1 .. Len(fwd') : i + 1 \in 1 .. Len(fwd) /\ fwd'[i] = fwd[i + 1]
      /\ 0 \in Nat /\ 1 \in Nat
  BY ShiftedByOne
<1>2. ASSUME NEW j \in 0 .. Len(fwd') + 1, Plain(fwd', 0, j) PROVE Plain(fwd, 0, j + 1)
  <2>1. Plain(fwd, 0 + 1, j + 1)
    BY <1>1, <1>2, PlainShifted
  <2>2. ASSUME NEW m \in 0 + 1 .. (j + 1) - 1 PROVE m = 1 \/ m \in (0 + 1) + 1 .. (j + 1) - 1
    OBVIOUS
  <2>3. QED
    BY <2>1, <2>2 DEF Plain
<1>3. UNCHANGED rx
  BY DEF rx
<1>4. ASSUME NEW j \in 1 .. Len(fwd'), IsUnit(fwd'[j]), Plain(fwd', 0, j)
      PROVE  Reach(fwd'[j]) = rx' + 1
  <2>1. j \in 0 .. Len(fwd') + 1
    BY <1>1
  <2>2. Plain(fwd, 0, j + 1)
    BY <1>2, <1>4, <2>1
  <2>3. QED
    BY <1>1, <1>3, <1>4, <2>2 DEF FrameInv
<1>5. ASSUME Streaming', ~st'.new, Plain(fwd', 0, Len(fwd') + 1) PROVE rx' = st'.pos
  <2>1. Len(fwd') + 1 \in 0 .. Len(fwd') + 1 /\ (Len(fwd') + 1) + 1 = Len(fwd) + 1
    BY <1>1
  <2>2. Plain(fwd, 0, Len(fwd) + 1)
    BY <1>2, <1>5, <2>1
  <2>3. Streaming /\ UNCHANGED st
    BY <1>5 DEF Streaming, senderVars
  <2>4. QED
    BY <1>3, <1>5, <2>2, <2>3 DEF FrameInv
<1>6. QED
  BY <1>4, <1>5 DEF FrameInv

\* The receiver takes the unit that follows the ones it has.
LEMMA TakesUnit ==
    ASSUME Types, LineInv, PlaceInv, PartInv, Subpacket, UNCHANGED senderVars
    PROVE  PartInv' /\ FrameInv'
<1>1. /\ rPc = "frame" /\ lastOffer = sFile /\ sFile \in Files /\ UNCHANGED sFile
      /\ Size[sFile] \in Nat /\ DataInv /\ FrameInv /\ UnitsInv
      /\ part \in Seq(Units) /\ rx \in Nat /\ rx = Len(part)
      /\ rx <= Size[sFile] /\ \A i \in 1 .. rx : part[i] = Unit(sFile, i)
  BY Sizes DEF Subpacket, LineInv, DataInv, PlaceInv, Receiving, PartInv, Types, SenderTypes,
     ReceiverTypes, senderVars, rx
<1>2. PICK h : Reads(h) /\ h.t = "DATA" /\ part' = IF h.data = <<>> THEN part ELSE Append(part, h.data)
  BY DEF Subpacket
<1>3. /\ fwd # <<>> /\ h = fwd[1] /\ h \in Forward /\ fwd' = Tail(fwd) /\ h.data \in Units
      /\ 1 \in 1 .. Len(fwd)
  BY <1>2, HasRead, ForwardFacts DEF Types, LineTypes
<1>4. CASE h.data = <<>>
  <2>1. UNCHANGED part /\ IsEmpty(fwd[1])
    BY <1>2, <1>3, <1>4 DEF IsEmpty
  <2>2. FrameInv'
    BY <1>1, <1>3, <2>1, FrameStays
  <2>3. PartInv'
    BY <1>1, <2>1 DEF PartInv, rx
  <2>4. QED
    BY <2>2, <2>3
<1>5. CASE h.data # <<>>
  <2>1. IsUnit(fwd[1]) /\ Opens(fwd[1]) /\ fwd[1].t # "ZDATA"
    BY <1>2, <1>3, <1>5 DEF IsUnit, Opens
  <2>2. Plain(fwd, 0, 1)
    BY DEF Plain
  <2>3. Reach(fwd[1]) = rx + 1
    BY <1>1, <1>3, <2>1, <2>2 DEF FrameInv
  <2>4. h.data = Unit(sFile, rx + 1) /\ rx + 1 <= Size[sFile]
    BY <1>1, <1>3, <2>1, <2>3 DEF UnitsInv, Reach
  <2>5. /\ part' = Append(part, h.data) /\ rx' = rx + 1
        /\ part'[rx + 1] = h.data /\ \A i \in 1 .. rx : part'[i] = part[i]
    BY <1>1, <1>2, <1>3, <1>5, AppendProperties DEF rx
  <2>6. \A i \in 1 .. rx' : part'[i] = Unit(sFile, i)
    <3>1. \A i \in 1 .. rx' : i \in 1 .. rx \/ i = rx + 1
      BY <1>1, <2>5
    <3>2. QED
      BY <1>1, <2>4, <2>5, <3>1
  <2>7. PartInv'
    BY <1>1, <2>4, <2>5, <2>6 DEF PartInv
  <2>8. FrameInv'
    BY <1>1, <1>3, <2>1, <2>3, <2>5, FrameGoesOn
  <2>9. QED
    BY <2>7, <2>8
<1>6. QED
  BY <1>4, <1>5

\* A receiver that goes on with its file stays in step with the line.
LEMMA ContinuesPart ==
    ASSUME Types, LineInv, PlaceInv, PartInv, Continues, UNCHANGED senderVars
    PROVE  PartInv' /\ FrameInv'
<1>1. lastOffer = sFile /\ sFile \in Files /\ UNCHANGED sFile /\ Size[sFile] \in Nat
  BY Sizes DEF PlaceInv, Continues, Types, SenderTypes, senderVars
<1>2. CASE rPc' = "data" /\ part' = <<>>
  BY <1>1, <1>2 DEF PartInv, FrameInv, rx
<1>3. CASE rPc' = "data" /\ rPc # "choose" /\ part' = part
  BY <1>1, <1>3 DEF PartInv, FrameInv, Continues, Receiving, rx
<1>4. CASE FrameStarts
  <2>1. rx \in Nat /\ UNCHANGED part /\ rx' = rx
    BY <1>4, RxTypes DEF FrameStarts, Types, rx
  <2>2. /\ fwd # <<>> /\ fwd' = Tail(fwd) /\ fwd[1] = At("ZDATA", rx)
        /\ fwd[1].t = "ZDATA" /\ fwd[1].pos = rx
    BY <1>4, <2>1, Sent, HasRead DEF FrameStarts, Types
  <2>3. FrameInv'
    BY <1>1, <2>1, <2>2, FrameGoesOn DEF LineInv, Opens, Reach
  <2>4. PartInv'
    BY <1>1, <1>4, <2>1 DEF FrameStarts, PartInv
  <2>5. QED
    BY <2>3, <2>4
<1>5. CASE Subpacket
  BY <1>5, TakesUnit
<1>6. QED
  BY <1>2, <1>3, <1>4, <1>5 DEF Continues

\* The line under every step of the receiver.
LEMMA ReceiverLines ==
    ASSUME Types, LineInv, PlaceInv, PartInv, ReceiverLine, UNCHANGED senderVars,
           Idles \/ Takes \/ Quits \/ Continues \/ Leaves
    PROVE  LineInv' /\ PartInv'
<1>1. CASE Takes
  BY <1>1, TakesLine DEF Takes, TakeOffer, PartInv
<1>2. CASE Idles \/ Quits \/ Continues \/ Leaves
  <2>1. UNCHANGED <<sPc, sFile, lastOffer>>
    BY <1>2 DEF Idles, Quits, Continues, Leaves, senderVars
  <2>2. OfferInv' /\ DataInv'
    BY <2>1, OffersShifted, DataShifted DEF LineInv
  <2>3. PartInv' /\ FrameInv'
    BY <1>2, ContinuesPart DEF Idles, Quits, Leaves, PartInv, FrameInv
  <2>4. QED
    BY <2>2, <2>3 DEF LineInv
<1>3. QED
  BY <1>1, <1>2

-----------------------------------------------------------------------------
(* What both sides know, under the receiver's steps.                       *)

\* Between files the receiver says nothing that could pass for an answer to an offer.
LEMMA IdlesTalk ==
    ASSUME Types, TalkInv, Idles, UNCHANGED senderVars
    PROVE  TalkInv'
<1>1. /\ rPc = "wait" /\ ~Receiving' /\ UNCHANGED <<lastOffer, saved, dropped>>
      /\ UNCHANGED <<sPc, sFile, cut, res>> /\ Len(rev) \in Nat
      /\ Len(rev') >= Len(rev) /\ Len(rev') \in Nat
  BY DEF Idles, Receiving, senderVars, Says, Types, LineTypes
<1>2. \A i \in 1 .. Len(rev') :
          \/ i \in 1 .. Len(rev) /\ rev'[i] = rev[i]
          \/ i > Len(rev) /\ rev'[i].t \in {"ZRINIT", "ZNAK", "ZFIN", "CAN"}
  BY <1>1 DEF Idles, Says
<1>3. Settled(sFile) => Settled(sFile)'
  BY <1>1 DEF Settled, Whole
<1>4. OfferAnswers'
  <2> SUFFICES ASSUME sPc = "offer" PROVE OfferAnswers'
    BY <1>1 DEF OfferAnswers
  <2>1. \A i \in 1 .. Len(rev) : rev[i].t # "ZRPOS"
    BY <1>1 DEF TalkInv, OfferAnswers
  <2>2. \A i \in 1 .. Len(rev') : rev'[i].t # "ZRPOS"
    BY <1>2, <2>1
  <2>3. \A i \in 1 .. Len(rev') : rev'[i].t = "ZSKIP" => i \in 1 .. Len(rev) /\ rev'[i] = rev[i]
    BY <1>2
  <2>4. \A i \in 1 .. Len(rev') : rev'[i].t = "ZSKIP" => lastOffer = sFile
    BY <2>3 DEF TalkInv, OfferAnswers
  <2>5. \A i, j \in 1 .. Len(rev') : i < j /\ rev'[i].t = "ZSKIP" => rev'[j].t # "ZSKIP"
    BY <2>3 DEF TalkInv, OfferAnswers
  <2>6. QED
    BY <1>1, <2>2, <2>4, <2>5 DEF OfferAnswers
<1>5. DataAnswers'
  <2> SUFFICES ASSUME Streaming PROVE DataAnswers'
    BY <1>1 DEF DataAnswers, Streaming
  <2>1. Settled(sFile)'
    BY <1>1, <1>3 DEF TalkInv, DataAnswers
  <2>2. \A i, j \in 1 .. Len(rev') :
            i < j /\ rev'[i].t \in {"ZRINIT", "ZSKIP"} => rev'[j].t \notin {"ZRPOS", "ZSKIP"}
    <3> SUFFICES ASSUME NEW i \in 1 .. Len(rev'), NEW j \in 1 .. Len(rev'),
                        i < j, rev'[i].t \in {"ZRINIT", "ZSKIP"}
                 PROVE  rev'[j].t \notin {"ZRPOS", "ZSKIP"}
      OBVIOUS
    <3>1. CASE j \in 1 .. Len(rev) /\ rev'[j] = rev[j]
      <4>1. i \in 1 .. Len(rev) /\ rev'[i] = rev[i]
        BY <1>1, <1>2, <3>1
      <4>2. QED
        BY <3>1, <4>1 DEF TalkInv, DataAnswers
    <3>2. QED
      BY <1>2, <3>1
  <2>3. QED
    BY <1>1, <2>1, <2>2 DEF DataAnswers
<1>6. PlaceInv' /\ ResultInv'
  BY <1>1 DEF TalkInv, PlaceInv, ResultInv, Idles
<1>7. QED
  BY <1>4, <1>5, <1>6 DEF TalkInv

\* When an offer is taken no answer to it is out.
LEMMA TakesTalk ==
    ASSUME Types, TalkInv, Takes, UNCHANGED senderVars
    PROVE  TalkInv'
<1>1. /\ rPc = "wait" /\ rPc' = "choose" /\ rFile' = sFile /\ lastOffer' = sFile
      /\ sPc \in {"offer", "failed"} /\ UNCHANGED <<sPc, sFile, cut, res, rev>>
      /\ lastOffer = sFile => sPc = "offer" /\ \A i \in 1 .. Len(rev) : rev[i].t # "ZSKIP"
  BY DEF Takes, TakeOffer, senderVars
<1>2. sPc = "offer" => \A i \in 1 .. Len(rev) : rev[i].t \notin {"ZRPOS", "ZSKIP"}
  BY <1>1 DEF TalkInv, OfferAnswers
<1>3. OfferAnswers' /\ DataAnswers'
  BY <1>1, <1>2 DEF OfferAnswers, DataAnswers, Streaming
<1>4. PlaceInv'
  BY <1>1 DEF TalkInv, PlaceInv, Receiving
<1>5. res[sFile] = "none"
  BY <1>1 DEF TalkInv, ResultInv
<1>6. ResultInv'
  BY <1>1, <1>5 DEF TalkInv, ResultInv
<1>7. QED
  BY <1>3, <1>4, <1>6 DEF TalkInv

\* A receiver that gives up answers no offer and ends no file.
LEMMA QuitsTalk ==
    ASSUME Types, TalkInv, Quits, UNCHANGED senderVars
    PROVE  TalkInv'
<1>1. /\ Receiving /\ ~Receiving' /\ rPc' \in {"ended", "failed"} /\ lastOffer = sFile
      /\ UNCHANGED <<lastOffer, saved, dropped, sPc, sFile, cut, res>>
      /\ Len(rev) \in Nat /\ Len(rev') \in Nat
  BY DEF Quits, Receiving, senderVars, Says, Types, LineTypes, TalkInv, PlaceInv
<1>2. \A i \in 1 .. Len(rev') :
          \/ i \in 1 .. Len(rev) /\ rev'[i] = rev[i]
          \/ i > Len(rev) /\ (rev'[i].t = "CAN" \/ (sPc # "offer" /\ rev'[i].t \in {"ZFIN", "ZFERR"}))
  BY <1>1 DEF Quits, Says
<1>3. OfferAnswers'
  <2> SUFFICES ASSUME sPc = "offer" PROVE OfferAnswers'
    BY <1>1 DEF OfferAnswers
  <2>1. \A i \in 1 .. Len(rev) : rev[i].t # "ZSKIP"
    BY <1>1 DEF TalkInv, OfferAnswers
  <2>2. \A i \in 1 .. Len(rev') : rev'[i].t # "ZSKIP"
    BY <1>2, <2>1
  <2>3. \A i, j \in 1 .. Len(rev') : i < j /\ rev'[i].t = "ZRPOS" => rev'[j].t \in {"ZRPOS", "CAN"}
    <3> SUFFICES ASSUME NEW i \in 1 .. Len(rev'), NEW j \in 1 .. Len(rev'),
                        i < j, rev'[i].t = "ZRPOS"
                 PROVE  rev'[j].t \in {"ZRPOS", "CAN"}
      OBVIOUS
    <3>1. i \in 1 .. Len(rev) /\ rev'[i] = rev[i]
      BY <1>2
    <3>2. CASE j \in 1 .. Len(rev) /\ rev'[j] = rev[j]
      BY <3>1, <3>2 DEF TalkInv, OfferAnswers
    <3>3. QED
      BY <1>2, <3>2
  <2>4. QED
    BY <1>1, <2>2, <2>3 DEF OfferAnswers
<1>4. DataAnswers'
  <2> SUFFICES ASSUME Streaming PROVE DataAnswers'
    BY <1>1 DEF DataAnswers, Streaming
  <2>1. \A i \in 1 .. Len(rev) : rev[i].t \notin {"ZRINIT", "ZSKIP"}
    BY <1>1 DEF TalkInv, DataAnswers
  <2>2. \A i \in 1 .. Len(rev') : rev'[i].t \notin {"ZRINIT", "ZSKIP"}
    BY <1>2, <2>1
  <2>3. QED
    BY <1>1, <2>2 DEF DataAnswers
<1>5. PlaceInv' /\ ResultInv'
  BY <1>1 DEF TalkInv, PlaceInv, ResultInv
<1>6. QED
  BY <1>3, <1>4, <1>5 DEF TalkInv

\* A receiver that goes on says nothing that ends the file.
LEMMA ContinuesTalk ==
    ASSUME Types, TalkInv, Continues, UNCHANGED senderVars
    PROVE  TalkInv'
<1>1. /\ Receiving /\ Receiving' /\ rPc' \in {"data", "frame"} /\ lastOffer = sFile /\ rFile = sFile
      /\ UNCHANGED <<rFile, lastOffer, saved, dropped, sPc, sFile, cut, res>>
      /\ Len(rev) \in Nat /\ Len(rev') \in Nat
  BY DEF Continues, FrameStarts, Receiving, senderVars, Says, Types, LineTypes, TalkInv, PlaceInv
<1>2. \A i \in 1 .. Len(rev') :
          \/ i \in 1 .. Len(rev) /\ rev'[i] = rev[i]
          \/ i > Len(rev) /\ (rev'[i].t = "ZRPOS" \/ (sPc # "offer" /\ rev'[i].t = "ZACK"))
  BY <1>1 DEF Continues, Says
<1>3. OfferAnswers'
  <2> SUFFICES ASSUME sPc = "offer" PROVE OfferAnswers'
    BY <1>1 DEF OfferAnswers
  <2>1. \A i \in 1 .. Len(rev) : rev[i].t # "ZSKIP"
    BY <1>1 DEF TalkInv, OfferAnswers
  <2>2. \A i \in 1 .. Len(rev') : rev'[i].t # "ZSKIP"
    BY <1>2, <2>1
  <2>3. \A i, j \in 1 .. Len(rev') : i < j /\ rev'[i].t = "ZRPOS" => rev'[j].t \in {"ZRPOS", "CAN"}
    <3> SUFFICES ASSUME NEW i \in 1 .. Len(rev'), NEW j \in 1 .. Len(rev'),
                        i < j, rev'[i].t = "ZRPOS"
                 PROVE  rev'[j].t \in {"ZRPOS", "CAN"}
      OBVIOUS
    <3>1. CASE j \in 1 .. Len(rev) /\ rev'[j] = rev[j]
      <4>1. i \in 1 .. Len(rev) /\ rev'[i] = rev[i]
        BY <1>1, <1>2, <3>1
      <4>2. QED
        BY <3>1, <4>1 DEF TalkInv, OfferAnswers
    <3>2. QED
      BY <1>2, <3>1
  <2>4. QED
    BY <1>1, <2>2, <2>3 DEF OfferAnswers
<1>4. DataAnswers'
  <2> SUFFICES ASSUME Streaming PROVE DataAnswers'
    BY <1>1 DEF DataAnswers, Streaming
  <2>1. \A i \in 1 .. Len(rev) : rev[i].t \notin {"ZRINIT", "ZSKIP"}
    BY <1>1 DEF TalkInv, DataAnswers
  <2>2. \A i \in 1 .. Len(rev') : rev'[i].t \notin {"ZRINIT", "ZSKIP"}
    BY <1>2, <2>1
  <2>3. QED
    BY <1>1, <2>2 DEF DataAnswers
<1>5. sPc = "offer" => rPc' # "frame"
  BY DEF TalkInv, PlaceInv, Continues, Subpacket
<1>6. PlaceInv' /\ ResultInv'
  BY <1>1, <1>5 DEF TalkInv, PlaceInv, ResultInv
<1>7. QED
  BY <1>3, <1>4, <1>6 DEF TalkInv

\* A file is a sequence of units.
LEMMA SourceIsSeq ==
    ASSUME NEW f \in Files
    PROVE  /\ Source(f) \in Seq(Units) /\ Len(Source(f)) = Size[f]
           /\ \A i \in 1 .. Size[f] : Source(f)[i] = Unit(f, i)
<1> DEFINE src == Source(f)
<1>1. Size[f] \in Nat /\ \A i \in 1 .. Size[f] : Unit(f, i) \in Units
  BY Sizes, UnitFacts
<1>2. src \in [1 .. Size[f] -> Units] /\ \A i \in 1 .. Size[f] : src[i] = Unit(f, i)
  BY <1>1 DEF Source
<1> HIDE DEF src
<1>3. src \in Seq(Units)
  <2>1. Seq(Units) = UNION {[1 .. n -> Units] : n \in Nat}
    BY SeqDef
  <2>2. QED
    BY <1>1, <1>2, <2>1
<1>4. Len(src) = Size[f]
  BY <1>1, <1>2
<1>5. QED
  BY <1>2, <1>3, <1>4 DEF src

\* The receiver is done with the file: it reports it, or the file is whole.
LEMMA LeavesSettled ==
    ASSUME Types, PlaceInv, PartInv, Leaves, UNCHANGED senderVars
    PROVE  /\ sFile \in Files /\ dropped \subseteq dropped'
           /\ \A f \in Files : f # sFile => saved'[f] = saved[f]
           /\ \/ UNCHANGED saved /\ sFile \in dropped'
              \/ /\ saved'[sFile] = part /\ part \in Seq(Units) /\ rx = Len(part)
                 /\ IsPrefix(part, Source(sFile))
                 /\ part = Source(sFile) \/ (sFile \in Unreadable /\ (Streaming => cut))
<1>1. sFile \in Files /\ Size[sFile] \in Nat /\ saved \in [Files -> Seq(Units)] /\ part \in Seq(Units)
  BY Sizes DEF Types, SenderTypes, ReceiverTypes
<1>2. CASE UNCHANGED saved /\ dropped' = dropped \cup {sFile}
  BY <1>1, <1>2
<1>3. CASE /\ rPc = "data"
           /\ rx = Size[sFile] \/ (sFile \in Unreadable /\ (Streaming => cut))
           /\ saved' = [saved EXCEPT ![sFile] = part] /\ UNCHANGED dropped
  <2>0. rPc = "data" /\ rx = Len(part) /\ rx \in Nat
    BY <1>1, <1>3, LenProperties DEF rx
  <2>1. rx = Len(part) /\ rx \in Nat /\ rx <= Size[sFile] /\ \A i \in 1 .. rx : part[i] = Unit(sFile, i)
    BY <2>0 DEF PartInv
  <2> DEFINE src == Source(sFile)
  <2>2. src \in Seq(Units) /\ Len(src) = Size[sFile] /\ \A i \in 1 .. Size[sFile] : src[i] = Unit(sFile, i)
    BY <1>1, SourceIsSeq
  <2> HIDE DEF src
  <2>3. IsPrefix(part, src)
    <3> DEFINE a == SubSeq(part, 1, Len(part))
               b == SubSeq(src, 1, Len(part))
    <3>1. a \in Seq(Units) /\ Len(a) = rx /\ \A i \in 1 .. rx : a[i] = part[i]
      BY <1>1, <2>1, SubSeqProperties
    <3>2. b \in Seq(Units) /\ Len(b) = rx /\ \A i \in 1 .. rx : b[i] = src[i]
      BY <1>1, <2>1, <2>2, SubSeqProperties
    <3> HIDE DEF a, b
    <3>3. \A i \in 1 .. Len(a) : a[i] = b[i]
      BY <1>1, <2>1, <2>2, <3>1, <3>2
    <3>4. a = b
      BY <3>1, <3>2, <3>3, SeqEqual
    <3>5. QED
      BY <2>1, <2>2, <3>4 DEF IsPrefix, a, b
  <2>4. rx = Size[sFile] => part = src
    BY <1>1, <2>1, <2>2, SeqEqual
  <2>5. saved'[sFile] = part /\ \A f \in Files : f # sFile => saved'[f] = saved[f]
    BY <1>1, <1>3
  <2>6. QED
    BY <1>1, <1>3, <2>1, <2>3, <2>4, <2>5 DEF src
<1>4. QED
  BY <1>2, <1>3 DEF Leaves

\* ZRINIT and ZSKIP are said only when the file is whole or reported.
LEMMA LeavesTalk ==
    ASSUME Types, TalkInv, PartInv, Leaves, UNCHANGED senderVars
    PROVE  TalkInv'
<1>1. /\ Receiving /\ ~Receiving' /\ rPc' = "wait" /\ lastOffer = sFile
      /\ UNCHANGED <<lastOffer, sPc, sFile, cut, res>>
      /\ Len(rev) \in Nat /\ Len(rev') \in Nat /\ (sPc = "offer" => rPc = "choose")
  BY DEF Leaves, Receiving, senderVars, Says, Skips, Types, LineTypes, TalkInv, PlaceInv
<1>2. PICK n \in Nat : 
          /\ Len(rev') >= Len(rev) /\ n = Len(rev)
          /\ \A i \in 1 .. n : rev'[i] = rev[i]
          /\ \A i \in 1 .. Len(rev') : i > n =>
                \/ rev'[i].t = "ZRINIT"
                \/ i = n + 1 /\ rev'[i].t = "ZSKIP"
          /\ sPc = "offer" => Len(rev') = n + 2 /\ rev'[n + 2].t = "ZRINIT"
  <2>1. CASE Skips
    <3>1. \A i \in 1 .. Len(rev') : i > Len(rev) => i = Len(rev) + 1 \/ i = Len(rev) + 2
      BY <1>1, <2>1 DEF Skips
    <3>2. QED
      BY <1>1, <2>1, <3>1 DEF Skips
  <2>2. CASE sPc # "offer" /\ Says({"ZRINIT"})
    BY <1>1, <2>2 DEF Says
  <2>3. QED
    BY <2>1, <2>2 DEF Leaves
<1>3. \A i \in 1 .. Len(rev') :
          \/ i \in 1 .. n /\ rev'[i] = rev[i]
          \/ i > n /\ rev'[i].t = "ZRINIT"
          \/ i = n + 1 /\ rev'[i].t = "ZSKIP"
  <2>1. \A i \in 1 .. Len(rev') : i \in 1 .. n \/ i > n
    BY <1>2
  <2>2. QED
    BY <1>2, <2>1
<1>4. OfferAnswers'
  <2> SUFFICES ASSUME sPc = "offer" PROVE OfferAnswers'
    BY <1>1 DEF OfferAnswers
  <2>1. \A i \in 1 .. n : rev[i].t \notin {"ZRPOS", "ZSKIP"}
    BY <1>1, <1>2 DEF TalkInv, OfferAnswers
  <2>2. \A i \in 1 .. Len(rev') : rev'[i].t # "ZRPOS" /\ (rev'[i].t = "ZSKIP" => i = n + 1)
    BY <1>3, <2>1
  <2>3. \A i, j \in 1 .. Len(rev') : i < j /\ rev'[i].t = "ZSKIP" => rev'[j].t # "ZSKIP"
    BY <1>2, <2>2
  <2>4. QED
    BY <1>1, <2>2, <2>3 DEF OfferAnswers
<1>5. DataAnswers'
  <2> SUFFICES ASSUME Streaming PROVE DataAnswers'
    BY <1>1 DEF DataAnswers, Streaming
  <2>1. Settled(sFile)'
    <3>1. saved' [sFile] = Source(sFile) \/ sFile \in dropped' \/ cut
      BY LeavesSettled DEF TalkInv
    <3>2. QED
      BY <1>1, <3>1 DEF Settled, Whole
  <2>2. \A i \in 1 .. n : rev[i].t \notin {"ZRINIT", "ZSKIP"}
    BY <1>1, <1>2 DEF TalkInv, DataAnswers
  <2>3. \A i \in 1 .. Len(rev') : rev'[i].t \in {"ZRINIT", "ZSKIP"} => i > n
    BY <1>2, <1>3, <2>2
  <2>4. \A i \in 1 .. Len(rev') : i > n + 1 => rev'[i].t = "ZRINIT"
    BY <1>2, <1>3
  <2>5. \A i, j \in 1 .. Len(rev') : i < j /\ i > n => j > n + 1
    BY <1>2
  <2>6. \A i, j \in 1 .. Len(rev') :
            i < j /\ rev'[i].t \in {"ZRINIT", "ZSKIP"} => rev'[j].t \notin {"ZRPOS", "ZSKIP"}
    BY <2>3, <2>4, <2>5
  <2>7. QED
    BY <1>1, <2>1, <2>6 DEF DataAnswers
<1>6. PlaceInv' /\ ResultInv'
  BY <1>1 DEF TalkInv, PlaceInv, ResultInv
<1>7. QED
  BY <1>4, <1>5, <1>6 DEF TalkInv

\* A file is saved as it was offered, and what is reported stays true.
LEMMA ReceiverFiles ==
    ASSUME Types, TalkInv, FileInv, PartInv', UNCHANGED senderVars,
           Idles \/ Takes \/ Quits \/ Continues \/ Leaves
    PROVE  FileInv'
<1>1. UNCHANGED res
  BY DEF senderVars
<1>2. CASE Idles \/ Takes \/ Quits \/ Continues
  <2>1. UNCHANGED <<saved, dropped>>
    BY <1>2 DEF Idles, Takes, TakeOffer, Quits, Continues
  <2>2. QED
    BY <1>1, <2>1 DEF FileInv, SavedFaithful, OkMeansSaved, Whole
<1>3. CASE Leaves
  <2>1. /\ sFile \in Files /\ dropped \subseteq dropped'
        /\ \A f \in Files : f # sFile => saved'[f] = saved[f]
        /\ \/ UNCHANGED saved /\ sFile \in dropped'
           \/ /\ saved'[sFile] = part /\ IsPrefix(part, Source(sFile))
              /\ part = Source(sFile) \/ sFile \in Unreadable
    BY <1>3, LeavesSettled DEF TalkInv, FileInv
  <2>2. SavedFaithful'
    <3> SUFFICES ASSUME NEW f \in Files
                 PROVE  /\ IsPrefix(saved'[f], Source(f))
                        /\ saved'[f] = <<>> \/ f \in Unreadable \/ saved'[f] = Source(f)
      BY DEF SavedFaithful, Whole
    <3>1. CASE saved'[f] = saved[f]
      BY <3>1 DEF FileInv, SavedFaithful, Whole
    <3>2. CASE f = sFile /\ saved'[sFile] = part
      BY <2>1, <3>2 DEF FileInv, SavedFaithful, Whole
    <3>3. QED
      BY <2>1, <3>1, <3>2
  <2>3. OkMeansSaved'
    <3> SUFFICES ASSUME NEW f \in Files, res[f] = "ok"
                 PROVE  saved'[f] = Source(f) \/ f \in dropped'
      BY <1>1 DEF OkMeansSaved, Whole
    <3>1. f # sFile
      BY <1>3 DEF TalkInv, ResultInv, Leaves
    <3>2. QED
      BY <2>1, <3>1 DEF FileInv, OkMeansSaved, Whole
  <2>4. QED
    BY <2>2, <2>3 DEF FileInv
<1>4. QED
  BY <1>2, <1>3

\* Every step of the receiver keeps the invariant.
LEMMA ReceiverStep ==
    ASSUME BatchInv, Receiver
    PROVE  BatchInv'
<1>1. /\ LastMayFail /\ Types /\ LineInv /\ TalkInv /\ FileInv
      /\ PlaceInv /\ OfferAnswers /\ PartInv
  BY DEF BatchInv, TalkInv, FileInv
<1>2. HasFile
  BY <1>1 DEF HasFile, PlaceInv, Receiving, Types, SenderTypes
<1>3. Types' /\ ReceiverLine /\ UNCHANGED senderVars
  BY <1>1, <1>2, ReceiverTypesStep, ReceiverLeavesSender
<1>4. Idles \/ Takes \/ Quits \/ Continues \/ Leaves
  BY <1>1, ReceiverMoves
<1>5. LineInv' /\ PartInv'
  BY <1>1, <1>3, <1>4, ReceiverLines
<1>6. TalkInv'
  BY <1>1, <1>3, <1>4, IdlesTalk, TakesTalk, QuitsTalk, ContinuesTalk, LeavesTalk
<1>7. FileInv'
  BY <1>1, <1>3, <1>4, <1>5, ReceiverFiles
<1>8. QED
  BY <1>1, <1>3, <1>5, <1>6, <1>7 DEF BatchInv, LastMayFail

-----------------------------------------------------------------------------
(* The invariant holds.                                                    *)

\* One item on the line.
LEMMA FirstOffer ==
    /\ \A x \in Forward : <<x>> \in Seq(Forward) /\ Len(<<x>>) = 1 /\ <<x>>[1] = x
    /\ \A x \in Answers : <<x>> \in Seq(Answers) /\ Len(<<x>>) = 1 /\ <<x>>[1] = x
    /\ <<>> \in Seq(Answers) /\ Len(<<>>) = 0
OBVIOUS

\* The types hold at the start.
LEMMA InitTypes == Init => Types
<1> SUFFICES ASSUME Init PROVE Types
  OBVIOUS
<1>1. /\ 1 \in Files /\ Size[1] \in Nat /\ Offer(1) \in Forward /\ Header("ZRINIT") \in Answers
      /\ 0 \in 0 .. MaxDamage /\ 0 \in 0 .. MaxRetries /\ 0 \in 0 .. MaxAsks
  BY Sizes, Sent, Answered, SizeAssumption
<1>2. LineTypes
  BY <1>1, FirstOffer DEF LineTypes, Init
<1>3. SenderTypes
  <2>1. /\ sPc = "offer" /\ sFile = 1 /\ duplex \in BOOLEAN /\ tries = 0
        /\ st = Stream(0) /\ mark = Stream(0) /\ res = [f \in Files |-> "none"]
    BY DEF Init
  <2>2. spoke \in BOOLEAN /\ asked \in BOOLEAN /\ cut \in BOOLEAN
    BY Zenon DEF Init
  <2>3. InFile(st, Size[sFile]) /\ InFile(mark, Size[sFile])
    BY <1>1, <2>1, FreshStream
  <2>4. QED
    BY <1>1, <2>1, <2>2, <2>3 DEF SenderTypes
<1>4. ReceiverTypes
  <2>1. /\ rPc = "wait" /\ rFile = NoFile /\ lastOffer = NoFile /\ retries = 0 /\ part = <<>>
        /\ saved = [f \in Files |-> <<>>] /\ dropped = {}
    BY DEF Init
  <2>2. rposOut \in BOOLEAN /\ gotData \in BOOLEAN
    BY Zenon DEF Init
  <2>3. part \in Seq(Units) /\ saved \in [Files -> Seq(Units)]
    BY <2>1
  <2>4. QED
    BY <1>1, <2>1, <2>2, <2>3 DEF ReceiverTypes
<1>5. QED
  BY <1>2, <1>3, <1>4 DEF Types

\* The invariant holds at the start.
LEMMA InitInv == Init /\ LastMayFail => BatchInv
<1> SUFFICES ASSUME Init, LastMayFail PROVE BatchInv
  OBVIOUS
<1>1. /\ 1 \in Files /\ Size[1] \in Nat /\ NoFile \notin Files
      /\ Offer(1) \in Forward /\ Offer(1).t = "ZFILE" /\ Offer(1).file = 1
      /\ Header("ZRINIT") \in Answers /\ Header("ZRINIT").t = "ZRINIT"
  BY Sizes, Sent, Answered DEF NoFile
<1>2. fwd \in Seq(Forward) /\ Len(fwd) = 1 /\ fwd[1] = Offer(1)
  BY <1>1, FirstOffer DEF Init
<1>3. rev \in Seq(Answers) /\ \A i \in 1 .. Len(rev) : rev[i].t = "ZRINIT"
  <2>1. CASE rev = <<>>
    BY <2>1, FirstOffer
  <2>2. CASE rev = <<Header("ZRINIT")>>
    BY <1>1, <2>2, FirstOffer
  <2>3. QED
    BY <2>1, <2>2 DEF Init
<1>4. /\ sPc = "offer" /\ sFile = 1 /\ rPc = "wait" /\ lastOffer = NoFile /\ cut = FALSE
      /\ \A f \in Files : res[f] = "none" /\ saved[f] = <<>>
  BY DEF Init
<1>5. Types
  BY InitTypes
<1>6. LineInv
  BY <1>1, <1>2, <1>4 DEF LineInv, OfferInv, DataInv, FrameInv
<1>7. TalkInv
  BY <1>1, <1>3, <1>4
  DEF TalkInv, PlaceInv, OfferAnswers, DataAnswers, ResultInv, Receiving, Streaming
<1>8. FileInv
  <2>1. \A f \in Files : IsPrefix(<<>>, Source(f))
    <3> SUFFICES ASSUME NEW f \in Files PROVE IsPrefix(<<>>, Source(f))
      OBVIOUS
    <3>1. Size[f] \in Nat /\ Source(f) \in Seq(Units)
      BY Sizes, SourceIsSeq
    <3>2. SubSeq(<<>>, 1, 0) = <<>> /\ SubSeq(Source(f), 1, 0) = <<>> /\ Len(Source(f)) \in Nat
      BY <3>1
    <3>3. QED
      BY <3>2 DEF IsPrefix
  <2>2. QED
    BY <1>4, <2>1 DEF FileInv, PartInv, SavedFaithful, OkMeansSaved
<1>9. QED
  BY <1>5, <1>6, <1>7, <1>8 DEF BatchInv

\* Every step keeps it.
LEMMA NextInv == BatchInv /\ [Next]_vars => BatchInv'
<1> SUFFICES ASSUME BatchInv, [Next]_vars PROVE BatchInv'
  OBVIOUS
<1>1. CASE Sender
  BY <1>1, SenderStep
<1>2. CASE Receiver
  BY <1>2, ReceiverStep
<1>3. CASE UNCHANGED vars
  <2>1. /\ UNCHANGED <<fwd, rev, damage>>
        /\ UNCHANGED <<sPc, sFile, duplex, tries, spoke, asked, st, mark, cut, res>>
        /\ UNCHANGED <<rPc, rFile, lastOffer, part, rposOut, gotData, retries, saved, dropped>>
    BY <1>3 DEF vars, lineVars, senderVars, recvVars
  <2>2. Types'
    BY <2>1 DEF BatchInv, Types, LineTypes, SenderTypes, ReceiverTypes
  <2>3. LineInv'
    BY <2>1 DEF BatchInv, LineInv, OfferInv, DataInv, UnitsInv, EOFInv, ChainInv, TipInv, FrameInv,
       Streaming, rx
  <2>4. TalkInv'
    BY <2>1 DEF BatchInv, TalkInv, PlaceInv, OfferAnswers, DataAnswers, ResultInv, Settled, Whole,
       Receiving, Streaming
  <2>5. FileInv'
    BY <2>1 DEF BatchInv, FileInv, PartInv, SavedFaithful, OkMeansSaved, Whole, rx
  <2>6. QED
    BY <2>2, <2>3, <2>4, <2>5 DEF BatchInv, LastMayFail
<1>4. QED
  BY <1>1, <1>2, <1>3 DEF Next

(* Sender and receiver agree, whatever noise, timeouts, retries and        *)
(* rewinds there are, on which file is under way, on which part of it is   *)
(* on the line, and on what an answer refers to (zmodem.go, zSender and    *)
(* zReceiver).                                                             *)
THEOREM BatchInvCorrect == Spec /\ LastMayFail => []BatchInv
<1>1. Init /\ LastMayFail => BatchInv
  BY InitInv
<1>2. BatchInv /\ [Next]_vars => BatchInv'
  BY NextInv
<1>3. QED
  BY <1>1, <1>2, PTL DEF Spec

\* The receiver has a file whenever it works on one.
LEMMA HasFileStep ==
    ASSUME Types, HasFile, [Next]_vars
    PROVE  HasFile'
<1>1. CASE Sender
  BY <1>1, SenderLeavesReceiver DEF HasFile, recvVars
<1>2. CASE TakeOffer
  BY <1>2, HasRead, ForwardFacts DEF TakeOffer, HasFile, Types
<1>3. CASE Receiver /\ ~TakeOffer
  BY <1>3 DEF Receiver, ReceiverCancelled, OfferDamaged, AnswerInit, WaitIgnores,
     WaitTimeout, ReceiverEnds, Refuses, StartData, DataTimeout, DataNoise, FrameStarts,
     WrongFrame, DataIgnores, RepeatedOffer, Subpacket, FrameBreaks, WriteError, DiskFull, Written, Commits,
     AskAgain, ReceiverFails, Waits, recvVars, HasFile
<1>4. CASE UNCHANGED vars
  BY <1>4 DEF vars, recvVars, HasFile
<1>5. QED
  BY <1>1, <1>2, <1>3, <1>4 DEF Next

(* Counters stay in their bounds and the zStream in its file, also when    *)
(* the source of any file fails (sendFile, handleReverse, receiveData).    *)
THEOREM TypeCorrect == Spec => []TypeOK
<1>1. Init => Types /\ HasFile
  BY InitTypes DEF Init, HasFile
<1>2. Types /\ HasFile /\ [Next]_vars => (Types /\ HasFile)'
  <2> SUFFICES ASSUME Types, HasFile, [Next]_vars PROVE (Types /\ HasFile)'
    OBVIOUS
  <2>1. HasFile'
    BY HasFileStep
  <2>2. CASE Sender \/ Receiver
    BY <2>1, <2>2, SenderTypesStep, ReceiverTypesStep
  <2>3. CASE UNCHANGED vars
    BY <2>1, <2>3 DEF vars, lineVars, senderVars, recvVars, Types, LineTypes, SenderTypes, ReceiverTypes
  <2>4. QED
    BY <2>2, <2>3 DEF Next
<1>3. QED
  BY <1>1, <1>2, TypesAreOK, PTL DEF Spec

(* The bytes under a committed name are the file that was offered under it *)
(* (commitPart), for batches of any files, any window and any number of    *)
(* damaged headers and subpackets. When the source of a file that is not   *)
(* the last one fails it does not hold: a ZRPOS after the short ZEOF ends  *)
(* that file at the sender only (cutFile, ZModemCut.cfg).                  *)
THEOREM SavedFaithfulHolds == Spec /\ LastMayFail => []SavedFaithful
<1>1. BatchInv => SavedFaithful
  BY DEF BatchInv, FileInv
<1>2. QED
  BY <1>1, BatchInvCorrect, PTL

(* What the sender reports as sent (sendEOF) has been committed in full,   *)
(* or the receiver has reported the file itself.                           *)
THEOREM OkMeansSavedHolds == Spec /\ LastMayFail => []OkMeansSaved
<1>1. BatchInv => OkMeansSaved
  BY DEF BatchInv, FileInv
<1>2. QED
  BY <1>1, BatchInvCorrect, PTL

-----------------------------------------------------------------------------
(* The bytes of a frame.                                                   *)

(* Whatever byte is sent after whatever other one, the reader gets it back *)
(* (zEscaper.put, zdlread): it is neither skipped, nor taken for the end   *)
(* of the frame or for a cancelled session.                                *)
THEOREM Transparent ==
    ASSUME NEW b \in Byte, NEW last \in Byte, NEW ctl \in BOOLEAN, NEW ignore \in BOOLEAN,
           Agreed(ignore, ctl)
    PROVE  LET w == put(b, last, ctl)
           IN  \/ Len(w) = 1 /\ plain(w[1], ignore) = Value(b)
               \/ Len(w) = 2 /\ plain(w[1], ignore) = Is("escape") /\ escaped(w[2], 1, ignore) = Value(b)
<1>1. CASE needs(b, last, ctl)
    <2>1. put(b, last, ctl) = <<ZDLE, Flip(b)>>
        BY <1>1 DEF put
    <2>2. Control(b)
        BY <1>1 DEF needs, Byte, Control, ZDLE
    <2>3. Flip(b) = b + 64 /\ Flip(b) % 128 \in 64 .. 95 /\ Flip(Flip(b)) = b
        BY <2>2 DEF Flip, Control, Byte
    <2>4. Flip(b) # CAN /\ Flip(b) \notin FrameEnds /\ Flip(b) # 108 /\ Flip(b) # 109
        BY <2>3, <2>2 DEF Control, Byte, CAN, FrameEnds
    <2>5. ~FlowControl(Flip(b)) /\ ~Control(Flip(b))
        BY <2>3 DEF FlowControl, Control, Byte
    <2>6. escaped(Flip(b), 1, ignore) = Value(b)
        BY <2>3, <2>4, <2>5 DEF escaped
    <2>7. plain(ZDLE, ignore) = Is("escape")
        BY DEF plain, ZDLE, Control
    <2> QED BY <2>1, <2>6, <2>7
<1>2. CASE ~needs(b, last, ctl)
    <2>1. put(b, last, ctl) = <<b>>
        BY <1>2 DEF put
    <2>2. b # ZDLE /\ ~FlowControl(b) /\ (ignore => ~Control(b))
        BY <1>2 DEF needs, Byte, FlowControl, Control, ZDLE, Agreed
    <2>3. plain(b, ignore) = Value(b)
        BY <2>2 DEF plain
    <2> QED BY <2>1, <2>3
<1> QED BY <1>1, <1>2

(* Data never looks like flow control, which would hold the sender         *)
(* (flowControl) or be dropped by the driver, and never holds two CAN in a *)
(* row, so that zScanHeader and peerCancelled find no cancel in it.        *)
THEOREM DataIsQuiet ==
    ASSUME NEW b \in Byte, NEW last \in Byte, NEW ctl \in BOOLEAN
    PROVE  LET w == put(b, last, ctl)
           IN  /\ \A i \in DOMAIN w : w[i] \in Byte /\ ~FlowControl(w[i])
               /\ w[Len(w)] # CAN
               /\ ctl => \A i \in DOMAIN w : Control(w[i]) => w[i] = ZDLE
<1>1. CASE needs(b, last, ctl)
    <2>1. put(b, last, ctl) = <<ZDLE, Flip(b)>>
        BY <1>1 DEF put
    <2>2. Control(b)
        BY <1>1 DEF needs, Byte, Control, ZDLE
    <2>3. Flip(b) \in Byte /\ Flip(b) % 128 \in 64 .. 95
        BY <2>2 DEF Flip, Control, Byte
    <2>4. ~FlowControl(Flip(b)) /\ ~Control(Flip(b)) /\ Flip(b) # CAN
        BY <2>3 DEF FlowControl, Control, Byte, CAN
    <2>5. ZDLE \in Byte /\ ~FlowControl(ZDLE)
        BY DEF ZDLE, Byte, FlowControl
    <2> QED BY <2>1, <2>3, <2>4, <2>5
<1>2. CASE ~needs(b, last, ctl)
    <2>1. put(b, last, ctl) = <<b>>
        BY <1>2 DEF put
    <2>2. ~FlowControl(b) /\ b # CAN /\ (ctl => ~Control(b))
        BY <1>2 DEF needs, Byte, FlowControl, ZDLE, CAN
    <2> QED BY <2>1, <2>2
<1> QED BY <1>1, <1>2

(* A frame end is read as one, with raw control characters ignored or not, *)
(* and nothing that data is turned into is (encodeSubpacket, zdlread).     *)
THEOREM FrameEndsAreRead ==
    ASSUME NEW end \in FrameEnds, NEW b \in Byte, NEW last \in Byte,
           NEW ctl \in BOOLEAN, NEW ignore \in BOOLEAN
    PROVE  LET w == frameEnd(end)
           IN  /\ plain(w[1], ignore) = Is("escape") /\ escaped(w[2], 1, ignore) = Is("end")
               /\ put(b, last, ctl) # w
<1>1. frameEnd(end) = <<24, end>> /\ end \in 104 .. 107
    BY DEF frameEnd, ZDLE, FrameEnds
<1>2. plain(24, ignore) = Is("escape")
    BY DEF plain, Control, ZDLE
<1>3. escaped(end, 1, ignore) = Is("end")
    BY DEF escaped, FrameEnds, CAN, FlowControl, Control
<1>4. put(b, last, ctl) # <<24, end>>
    <2>1. CASE needs(b, last, ctl)
        <3>1. put(b, last, ctl) = <<24, Flip(b)>>
            BY <2>1 DEF put, ZDLE
        <3>2. Control(b)
            BY <2>1 DEF needs, Byte, Control, ZDLE
        <3>3. Flip(b) % 128 \in 64 .. 95
            BY <3>2 DEF Flip, Control, Byte
        <3>4. Flip(b) # end
            BY <3>3, <1>1
        <3> QED BY <3>1, <3>4
    <2>2. CASE ~needs(b, last, ctl)
        <3>1. put(b, last, ctl) = <<b>>
            BY <2>2 DEF put
        <3> QED BY <3>1
    <2> QED BY <2>1, <2>2
<1> QED BY <1>1, <1>2, <1>3, <1>4

(* A byte of a hexadecimal header comes back, also over a line that sets   *)
(* the top bit of each digit (encodeHexHeader, decodeHexHeaderDigits).     *)
THEOREM HexComesBack ==
    ASSUME NEW b \in Byte, NEW p \in {0, 128}, NEW q \in {0, 128}
    PROVE  decodeHex(encodeHex(b)[1] + p, encodeHex(b)[2] + q) = b
<1>1. \A n \in 0 .. 15, r \in {0, 128} : zHexValue((hexDigit(n) + r) % 128) = n
    <2> TAKE n \in 0 .. 15, r \in {0, 128}
    <2>1. hexDigit(n) \in 48 .. 57 \cup 97 .. 102
        BY DEF hexDigit
    <2>2. (hexDigit(n) + r) % 128 = hexDigit(n)
        BY <2>1
    <2>3. zHexValue(hexDigit(n)) = n
        BY DEF zHexValue, hexDigit
    <2> QED BY <2>2, <2>3
<1>2. b \div 16 \in 0 .. 15 /\ b % 16 \in 0 .. 15 /\ b = 16 * (b \div 16) + (b % 16)
    BY DEF Byte
<1> DEFINE hi == b \div 16
           lo == b % 16
<1>3. zHexValue((hexDigit(hi) + p) % 128) = hi /\ zHexValue((hexDigit(lo) + q) % 128) = lo
    BY <1>1, <1>2
<1>4. encodeHex(b)[1] = hexDigit(hi) /\ encodeHex(b)[2] = hexDigit(lo)
    BY DEF encodeHex
<1> QED BY <1>2, <1>3, <1>4 DEF decodeHex

(* A position under 4 GiB survives its header (zPosHeader, pos); beyond it *)
(* the upper half of the int64 is lost.                                    *)
THEOREM PositionsWrap ==
    ASSUME NEW n \in Nat
    PROVE  LET p == pos(zPosHeader(n))
           IN  p \in Nat /\ p < Wrap /\ \E k \in Nat : n = Wrap * k + p
<1> DEFINE Splits(m, u) == m % 256 \in 0 .. 255 /\ m = 256 * u + (m % 256)
           a == Upper(n)
           c == Upper(a)
           d == Upper(c)
           e == Upper(d)
<1>1. \A m \in Nat : Upper(m) \in Nat /\ Splits(m, Upper(m))
    BY SMT DEF Upper
<1>2. a \in Nat /\ c \in Nat /\ d \in Nat /\ e \in Nat
    BY <1>1
<1>3. Splits(n, a) /\ Splits(a, c) /\ Splits(c, d) /\ Splits(d, e)
    <2> HIDE DEF Splits
    <2> QED BY <1>1, <1>2
<1>4. pos(zPosHeader(n)) = (n % 256) + 256 * ((a % 256) + 256 * ((c % 256) + 256 * (d % 256)))
    BY DEF pos, zPosHeader
<1> HIDE DEF a, c, d, e
<1> DEFINE w == n % 256
           x == a % 256
           y == c % 256
           z == d % 256
<1>5. /\ w \in 0 .. 255 /\ x \in 0 .. 255 /\ y \in 0 .. 255 /\ z \in 0 .. 255
      /\ n = 256 * a + w /\ a = 256 * c + x /\ c = 256 * d + y /\ d = 256 * e + z
      /\ pos(zPosHeader(n)) = w + 256 * (x + 256 * (y + 256 * z))
    BY <1>3, <1>4
<1> HIDE DEF w, x, y, z
<1>6. pos(zPosHeader(n)) \in Nat /\ pos(zPosHeader(n)) < Wrap
    BY <1>5, SMT DEF Wrap
<1>7. n = Wrap * e + pos(zPosHeader(n))
    BY <1>2, <1>5, SMT DEF Wrap
<1> QED BY <1>2, <1>6, <1>7
=============================================================================
