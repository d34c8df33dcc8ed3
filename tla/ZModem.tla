------------------------------- MODULE ZModem -------------------------------
(***************************************************************************)
(* A ZMODEM batch between the sender and the receiver of zmodem.go, from   *)
(* the first ZFILE to the closing ZFIN: offer, data with its window and    *)
(* its rewinds, ZEOF, the next file. The handshake before it is over, and  *)
(* a second ZRINIT may still be on its way.                                *)
(*                                                                         *)
(* The line is a pair of queues that keep the order. Noise may damage or   *)
(* swallow a header, and damages a subpacket so that its CRC fails; a      *)
(* subpacket never vanishes as a whole between two others. Time is not     *)
(* modelled: a wait may time out whenever nothing is there to be read.     *)
(*                                                                         *)
(* A file is a sequence of units, a data subpacket carries one, and        *)
(* positions count units. The receiver writes every file (no existing      *)
(* target, no partial file to resume).                                     *)
(***************************************************************************)
EXTENDS Integers, SequencesExt

CONSTANTS
    Size,        \* Size[f] is the length of the f-th file of the batch
    Unreadable,  \* the files whose source may fail, or shrink, while it is sent
    Window,      \* the sender's window, in units
    Checkpoint,  \* window/4: units between two ZCRCQ
    MaxRetries,  \* of the sender: tries of ZFILE, ZEOF and ZFIN, zAckPokes
    MaxSame,     \* of the sender: zMaxRetries for one offset
    MaxAsks,     \* of the receiver: zMaxRetries, tries of ZRINIT
    MaxDamage    \* bound: headers and subpackets the line damages

ASSUME SizeAssumption ==
    /\ Size \in Seq(Nat) /\ Size # <<>> /\ Unreadable \subseteq DOMAIN Size
    /\ Window \in Nat \ {0} /\ Checkpoint \in Nat /\ MaxRetries \in Nat \ {0}
    /\ MaxSame \in Nat /\ MaxAsks \in Nat \ {0} /\ MaxDamage \in Nat

Files     == DOMAIN Size
Unit(f, i) == <<f, i>>
Source(f) == [i \in 1 .. Size[f] |-> Unit(f, i)]
NoFile    == 0

VARIABLES
    fwd, rev,    \* what is on the line to the receiver and to the sender
    damage,      \* how much of it noise has hit
    \* the sender
    sPc,         \* offer, stream, ack (waitAck), eof (sendEOF), fin, ok, failed
    sFile,       \* the file it sends
    duplex,      \* s.fullDuplex, from the receiver's ZRINIT
    tries,       \* how often the current wait has timed out
    spoke, asked,\* of the offer
    st,          \* zStream
    mark,        \* what waitAck compares with
    cut,         \* cutFile is sending the ZEOF
    res,         \* the outcome of each file
    \* the receiver
    rPc,         \* wait (waitSender), choose, data, frame, ended, failed
    rFile,       \* the file it receives
    lastOffer,   \* the file whose offer it answered last
    part,        \* the bytes in the partial file; rx is their number
    rposOut, gotData, retries,
    saved,       \* committed files
    dropped      \* files it has reported as failed: local write or commit errors

lineVars   == <<fwd, rev, damage>>
senderVars == <<sPc, sFile, duplex, tries, spoke, asked, st, mark, cut, res>>
recvVars   == <<rPc, rFile, lastOffer, part, rposOut, gotData, retries, saved, dropped>>
vars == <<lineVars, senderVars, recvVars>>

Header(t)    == [t |-> t]
At(t, p)     == [t |-> t, pos |-> p]
Offer(f)     == [t |-> "ZFILE", file |-> f]
Data(u, end) == [t |-> "DATA", data |-> u, end |-> end]
Cancel       == Header("CAN")

\* A fresh zStream, from position p.
Stream(p) ==
    [pos |-> p, acked |-> p, new |-> TRUE, open |-> FALSE, at |-> p, fresh |-> TRUE,
     echoed |-> FALSE, chk |-> 0, last |-> p, same |-> 0, eof |-> FALSE]

Init ==
    /\ fwd = <<Offer(1)>> /\ rev \in {<<>>, <<Header("ZRINIT")>>} /\ damage = 0
    /\ sPc = "offer" /\ sFile = 1 /\ duplex \in BOOLEAN /\ tries = 0
    /\ spoke = FALSE /\ asked = FALSE /\ cut = FALSE
    /\ st = Stream(0) /\ mark = Stream(0)
    /\ res = [f \in Files |-> "none"]
    /\ rPc = "wait" /\ rFile = NoFile /\ lastOffer = NoFile /\ part = <<>>
    /\ rposOut = FALSE /\ gotData = FALSE /\ retries = 0
    /\ saved = [f \in Files |-> <<>>] /\ dropped = {}

-----------------------------------------------------------------------------
(* The line.                                                               *)

Noise == damage < MaxDamage /\ damage' = damage + 1

\* The sender reads the next header.
Hears(h) ==
    /\ rev # <<>> /\ h = Head(rev)
    /\ rev' = Tail(rev)
    /\ UNCHANGED damage

SenderSends(items)   == fwd' = fwd \o items
ReceiverSends(items) == rev' = rev \o items

\* errZBadHeader, or a header that is not recognised at all.
HearsNoise ==
    /\ rev # <<>> /\ Noise
    /\ rev' = Tail(rev)

Silence == rev = <<>>

-----------------------------------------------------------------------------
(* The sender. An error ends the session with the cancel sequence, unless  *)
(* the peer is gone.                                                       *)

Fails(items) ==
    /\ SenderSends(items)
    /\ sPc' = "failed"
    /\ UNCHANGED <<sFile, duplex, tries, spoke, asked, st, mark, cut, res>>

\* sendFile returns; the next file is offered, or ZFIN goes out.
EndFile(outcome) ==
    /\ res' = [res EXCEPT ![sFile] = outcome]
    /\ tries' = 0 /\ spoke' = FALSE /\ asked' = FALSE /\ cut' = FALSE
    /\ st' = Stream(0) /\ mark' = Stream(0)
    /\ IF sFile < Len(Size)
       THEN sPc' = "offer" /\ sFile' = sFile + 1 /\ SenderSends(<<Offer(sFile + 1)>>)
       ELSE sPc' = "fin" /\ sFile' = sFile /\ SenderSends(<<Header("ZFIN")>>)
    /\ UNCHANGED duplex

\* ZRPOS answers the offer.
OfferAccepted ==
    /\ sPc = "offer"
    /\ \E h \in ToSet(rev) :
          /\ Hears(h) /\ h.t = "ZRPOS"
          /\ st' = Stream(IF h.pos > Size[sFile] THEN Size[sFile] ELSE h.pos)
    /\ sPc' = "stream"
    /\ UNCHANGED <<fwd, sFile, duplex, tries, spoke, asked, mark, cut, res, recvVars>>

OfferSkipped ==
    /\ sPc = "offer"
    /\ Hears(Header("ZSKIP"))
    /\ EndFile("refused")
    /\ UNCHANGED recvVars

\* A ZRINIT asks for the offer once more, if silence follows; anything else
\* shows that the receiver is there.
OfferHears ==
    /\ sPc = "offer"
    /\ \E h \in ToSet(rev) :
          /\ Hears(h) /\ h.t \notin {"ZRPOS", "ZSKIP", "ZNAK", "ZFERR", "ZFIN", "CAN"}
          /\ asked' = (h.t = "ZRINIT")
          /\ spoke' = (spoke \/ h.t # "ZRINIT")
    /\ UNCHANGED <<fwd, sPc, sFile, duplex, tries, st, mark, cut, res, recvVars>>

\* The receiver could not read the offer.
OfferAgain ==
    /\ sPc = "offer"
    /\ Hears(Header("ZNAK"))
    /\ spoke' = TRUE /\ asked' = FALSE
    /\ SenderSends(<<Offer(sFile)>>)
    /\ UNCHANGED <<sPc, sFile, duplex, tries, st, mark, cut, res, recvVars>>

OfferTimeout ==
    /\ sPc = "offer" /\ Silence /\ tries < MaxRetries
    /\ tries' = tries + 1
    /\ asked' = FALSE
    /\ SenderSends(IF ~spoke \/ asked THEN <<Offer(sFile)>> ELSE <<>>)
    /\ UNCHANGED <<rev, damage, sPc, sFile, duplex, spoke, st, mark, cut, res, recvVars>>

\* A ZEOF that nobody answers is taken for a ZEOF whose answer got lost.
SlipTrustsZEOF ==
    /\ Silence /\ tries >= MaxRetries
    /\ \/ /\ sPc = "offer" \/ (sPc = "ack" /\ ~(st.open /\ st.echoed))
          /\ Fails(<<Cancel>>)
       \/ sPc = "eof" /\ EndFile("ok")
    /\ UNCHANGED <<rev, damage, recvVars>>

SlipGivesUp ==
    /\ Silence /\ tries >= MaxRetries
    /\ \/ sPc = "ack" /\ ~(st.open /\ st.echoed)
       \/ sPc = "eof"
    /\ Fails(<<Cancel>>)
    /\ UNCHANGED <<rev, damage, recvVars>>

\* The receiver does not answer an offer or a ZEOF, or stops acknowledging.
GivesUp ==
    /\ Silence /\ tries >= MaxRetries
    /\ \/ sPc = "offer"
       \/ sPc = "ack" /\ ~(st.open /\ st.echoed)
       \/ sPc = "eof"
    /\ Fails(<<Cancel>>)
    /\ UNCHANGED <<rev, damage, recvVars>>

-----------------------------------------------------------------------------
(* streamFile.                                                             *)

FileEnd == IF cut THEN mark.pos ELSE Size[sFile]

StreamEOF ==
    /\ sPc = "stream" /\ st.pos >= Size[sFile]
    /\ SenderSends(<<At("ZEOF", Size[sFile])>>)
    /\ st' = [st EXCEPT !.eof = TRUE]
    /\ sPc' = "eof" /\ tries' = 1
    /\ UNCHANGED <<rev, damage, sFile, duplex, spoke, asked, mark, cut, res, recvVars>>

WindowFull == duplex /\ st.pos - st.acked >= Window

AwaitWindow ==
    /\ sPc = "stream" /\ st.pos < Size[sFile] /\ WindowFull
    /\ sPc' = "ack" /\ mark' = st /\ tries' = 0
    /\ UNCHANGED <<lineVars, sFile, duplex, spoke, asked, st, cut, res, recvVars>>

\* The zStream with a frame open, and the ZDATA header that opens it.
Opened == IF st.new
          THEN [st EXCEPT !.new = FALSE, !.open = TRUE, !.at = st.pos, !.fresh = TRUE,
                          !.echoed = FALSE, !.chk = 0]
          ELSE st
Opening == IF st.new THEN <<At("ZDATA", st.pos)>> ELSE <<>>

SendData ==
    /\ sPc = "stream" /\ st.pos < Size[sFile] /\ ~WindowFull
    /\ LET next == st.pos + 1
           due  == Opened.chk + 1 >= Checkpoint
           end  == IF ~duplex THEN "ZCRCW"
                   ELSE IF next >= Size[sFile] THEN "ZCRCE"
                   ELSE IF due THEN "ZCRCQ" ELSE "ZCRCG"
           ends == end \in {"ZCRCW", "ZCRCE"}
       IN /\ SenderSends(Append(Opening, Data(Unit(sFile, next), end)))
          /\ st' = [Opened EXCEPT !.pos = next, !.fresh = FALSE,
                                  !.chk = IF end = "ZCRCQ" THEN 0 ELSE @ + 1,
                                  !.new = ends, !.open = ~ends]
    /\ IF duplex THEN UNCHANGED <<sPc, mark, tries>>
                 ELSE sPc' = "ack" /\ mark' = st' /\ tries' = 0
    /\ UNCHANGED <<rev, damage, sFile, duplex, spoke, asked, cut, res, recvVars>>

\* cutFile: the file cannot be read any further; the frame and then the file
\* end at the last good offset.
ReadFails ==
    /\ sPc = "stream" /\ sFile \in Unreadable
    /\ st.pos < Size[sFile] /\ ~WindowFull
    /\ SenderSends(Opening \o <<Data(<<>>, "ZCRCE"), At("ZEOF", st.pos)>>)
    /\ st' = [Opened EXCEPT !.open = FALSE, !.eof = TRUE]
    /\ cut' = TRUE /\ mark' = st
    /\ sPc' = "eof" /\ tries' = 1
    /\ UNCHANGED <<rev, damage, sFile, duplex, spoke, asked, res, recvVars>>

-----------------------------------------------------------------------------
(* handleReverse, called by streamFile, waitAck and sendEOF, and where each *)
(* of them goes on.                                                        *)

Streaming == sPc \in {"stream", "ack", "eof"}

\* What the caller does with the zStream handleReverse left behind: waitAck
\* returns when something moved, sendEOF when the ZEOF is void.
GoesOn(new, ack) ==
    CASE sPc = "ack" /\ new.acked = mark.acked /\ new.pos = mark.pos /\ ~(ack /\ ~duplex) ->
             sPc' = "ack" /\ st' = new /\ tries' = IF tries < MaxRetries THEN tries + 1 ELSE tries
      [] sPc = "eof" /\ new.eof ->
             sPc' = "eof" /\ st' = new /\ tries' = tries
      [] OTHER ->
             sPc' = "stream" /\ st' = new /\ tries' = 0

Rewound(s, p) ==
    [s EXCEPT !.pos  = IF p < s.pos THEN p ELSE s.pos,
              !.new  = s.new \/ s.open \/ p < s.pos,
              !.open = FALSE]
Closing == IF st.open THEN <<Data(<<>>, "ZCRCE")>> ELSE <<>>

ReverseAck ==
    /\ Streaming
    /\ \E h \in ToSet(rev) :
          /\ Hears(h) /\ h.t = "ZACK"
          /\ GoesOn([st EXCEPT !.acked = IF h.pos \in @ .. st.pos THEN h.pos ELSE @], TRUE)
    /\ UNCHANGED <<fwd, sFile, duplex, spoke, asked, mark, cut, res, recvVars>>

\* The receiver's ZRPOS, counted; it may ask for too much too often.
Counted(p) == [st EXCEPT !.same = IF p = st.last THEN @ + 1 ELSE 0, !.last = p]

\* The line delay decides whether a ZRPOS for the open frame is an echo.
Echo(p) == st.open /\ p = st.at

ReverseEcho ==
    /\ Streaming
    /\ \E h \in ToSet(rev) :
          LET p == IF h.pos > FileEnd THEN FileEnd ELSE h.pos
          IN /\ Hears(h) /\ h.t = "ZRPOS"
             /\ Counted(p).same <= MaxSame
             /\ Echo(p)
             /\ GoesOn([Counted(p) EXCEPT !.echoed = TRUE], FALSE)
    /\ UNCHANGED <<fwd, sFile, duplex, spoke, asked, mark, cut, res, recvVars>>

\* cutFile takes sendEOF's return for the end of the file.
ReverseRewinds ==
    /\ Streaming
    /\ \E h \in ToSet(rev) :
          LET p   == IF h.pos > FileEnd THEN FileEnd ELSE h.pos
              new == [Rewound(Counted(p), p) EXCEPT
                         !.acked = IF p > @ THEN p ELSE @, !.eof = FALSE]
          IN /\ Hears(h) /\ h.t = "ZRPOS"
             /\ Counted(p).same <= MaxSame
             /\ ~(Echo(p) /\ st.fresh)
             /\ IF cut THEN EndFile("failed")
                       ELSE /\ SenderSends(Closing)
                            /\ GoesOn(new, FALSE)
                            /\ UNCHANGED <<sFile, duplex, spoke, asked, mark, cut, res>>
    /\ UNCHANGED recvVars

ReverseTooOften ==
    /\ Streaming
    /\ \E h \in ToSet(rev) :
          /\ Hears(h) /\ h.t = "ZRPOS"
          /\ Counted(IF h.pos > FileEnd THEN FileEnd ELSE h.pos).same > MaxSame
    /\ Fails(<<Cancel>>)
    /\ UNCHANGED recvVars

ReverseSkip ==
    /\ Streaming
    /\ Hears(Header("ZSKIP"))
    /\ EndFile(IF cut THEN "failed" ELSE "refused")
    /\ UNCHANGED recvVars

\* ZRINIT ends the file once ZEOF is out, and means nothing before.
ReverseInit ==
    /\ Streaming
    /\ Hears(Header("ZRINIT"))
    /\ IF st.eof THEN EndFile(IF cut THEN "failed" ELSE "ok")
                 ELSE UNCHANGED <<fwd, senderVars>>
    /\ UNCHANGED recvVars

\* ZFERR, ZFIN or the cancel sequence.
PeerGone ==
    /\ sPc = "offer" \/ Streaming
    /\ \E h \in ToSet(rev) : Hears(h) /\ h.t \in {"ZFERR", "ZFIN", "CAN"}
    /\ Fails(<<>>)
    /\ UNCHANGED recvVars

-----------------------------------------------------------------------------
(* Silence and noise in waitAck, sendEOF and senderFinish.                 *)

\* The ZRPOS that was taken for an echo was a complaint after all.
AckRewinds ==
    /\ sPc = "ack" /\ Silence /\ st.open /\ st.echoed
    /\ SenderSends(Closing)
    /\ st' = Rewound(st, st.at)
    /\ sPc' = "stream"
    /\ UNCHANGED <<rev, damage, sFile, duplex, tries, spoke, asked, mark, cut, res, recvVars>>

AckPokes ==
    /\ sPc = "ack" /\ Silence /\ st.open /\ ~st.echoed /\ tries < MaxRetries
    /\ SenderSends(<<Data(<<>>, "ZCRCQ")>>)
    /\ tries' = tries + 1
    /\ UNCHANGED <<rev, damage, sPc, sFile, duplex, spoke, asked, st, mark, cut, res, recvVars>>

AckRestates ==
    /\ sPc = "ack" /\ Silence /\ ~st.open /\ tries < MaxRetries
    /\ st' = [st EXCEPT !.new = TRUE]
    /\ sPc' = "stream"
    /\ UNCHANGED <<lineVars, sFile, duplex, tries, spoke, asked, mark, cut, res, recvVars>>

EOFAgain ==
    /\ sPc = "eof" /\ tries < MaxRetries
    /\ \/ Silence /\ UNCHANGED <<rev, damage>>
       \/ HearsNoise
    /\ SenderSends(<<At("ZEOF", FileEnd)>>)
    /\ tries' = tries + 1
    /\ UNCHANGED <<sPc, sFile, duplex, spoke, asked, st, mark, cut, res, recvVars>>

\* Noise that the other waits pass over (a damaged header), or that no wait
\* notices (nothing is left of it).
HeaderLost ==
    /\ sPc \notin {"ok", "failed"}
    /\ HearsNoise
    /\ asked' = (asked /\ sPc # "offer")
    /\ UNCHANGED <<fwd, sPc, sFile, duplex, tries, spoke, st, mark, cut, res, recvVars>>

FinAnswered ==
    /\ sPc = "fin"
    /\ Hears(Header("ZFIN"))
    /\ sPc' = "ok"
    /\ UNCHANGED <<fwd, sFile, duplex, tries, spoke, asked, st, mark, cut, res, recvVars>>

FinHears ==
    /\ sPc = "fin"
    /\ \E h \in ToSet(rev) : Hears(h) /\ h.t \notin {"ZFIN", "CAN"}
    /\ UNCHANGED <<fwd, senderVars, recvVars>>

FinCancelled ==
    /\ sPc = "fin"
    /\ Hears(Cancel)
    /\ Fails(<<>>)
    /\ UNCHANGED recvVars

\* "a lost ZFIN is not worth a failure"
FinTimeout ==
    /\ sPc = "fin" /\ Silence
    /\ IF tries < MaxRetries
       THEN tries' = tries + 1 /\ sPc' = sPc /\ SenderSends(<<Header("ZFIN")>>)
       ELSE sPc' = "ok" /\ UNCHANGED <<tries, fwd>>
    /\ UNCHANGED <<rev, damage, sFile, duplex, spoke, asked, st, mark, cut, res, recvVars>>

-----------------------------------------------------------------------------
(* The receiver.                                                           *)

Reads(h) ==
    /\ fwd # <<>> /\ h = Head(fwd)
    /\ fwd' = Tail(fwd)
    /\ UNCHANGED damage

ReadsNoise ==
    /\ fwd # <<>> /\ Noise
    /\ fwd' = Tail(fwd)

Quiet == fwd = <<>> /\ UNCHANGED <<fwd, damage>>

rx == Len(part)

Waits(file, bytes) ==
    /\ rPc' = "wait" /\ retries' = 0 /\ gotData' = FALSE /\ rposOut' = FALSE
    /\ rFile' = file /\ part' = bytes
    /\ UNCHANGED lastOffer

ReceiverFails(items) ==
    /\ ReceiverSends(items)
    /\ rPc' = "failed"
    /\ UNCHANGED <<rFile, lastOffer, part, rposOut, gotData, retries, saved, dropped>>

ReceiverCancelled ==
    /\ rPc \in {"wait", "data", "frame"}
    /\ Reads(Cancel)
    /\ ReceiverFails(<<>>)
    /\ UNCHANGED senderVars

\* An offer of the file it answered last is handled again only when the
\* sender still waits for that answer. All others come within zRepeatWindow:
\* the line delay is far below it.
Repeat(f) ==
    /\ f = lastOffer
    /\ sPc # "offer" \/ sFile # f \/ Header("ZSKIP") \in ToSet(rev)

\* receive reads a ZFILE.
TakeOffer ==
    /\ rPc = "wait"
    /\ \E h \in ToSet(fwd) :
          Reads(h) /\ h.t = "ZFILE" /\ ~Repeat(h.file) /\ rFile' = h.file
    /\ lastOffer' = rFile'
    /\ rPc' = "choose"
    /\ UNCHANGED <<rev, senderVars, part, rposOut, gotData, retries, saved, dropped>>

OfferDamaged ==
    /\ rPc = "wait"
    /\ fwd # <<>> /\ Head(fwd).t = "ZFILE"
    /\ ReadsNoise
    /\ ReceiverSends(<<Header("ZNAK")>>)
    /\ UNCHANGED <<senderVars, recvVars>>

\* A repeated ZEOF, and noise that may have been an offer, get a ZRINIT;
\* noise not each time.
AnswerInit ==
    /\ rPc = "wait"
    /\ \/ \E h \in ToSet(fwd) : Reads(h) /\ h.t = "ZEOF"
       \/ ReadsNoise
    /\ ReceiverSends(<<Header("ZRINIT")>>)
    /\ UNCHANGED <<senderVars, recvVars>>

\* Data of a file it has given up, and an offer repeated within zRepeatWindow.
WaitIgnores ==
    /\ rPc = "wait"
    /\ \/ \E h \in ToSet(fwd) : Reads(h) /\ h.t \in {"ZDATA", "DATA"}
       \/ Reads(Offer(lastOffer))
       \/ ReadsNoise
    /\ UNCHANGED <<rev, senderVars, recvVars>>

\* ZRINIT once more while the sender says nothing, up to the deadline.
WaitTimeout ==
    /\ rPc = "wait" /\ Quiet
    /\ IF retries < MaxAsks
       THEN /\ retries' = retries + 1
            /\ ReceiverSends(<<Header("ZRINIT")>>)
            /\ UNCHANGED <<rPc, rFile, lastOffer, part, rposOut, gotData, saved, dropped>>
       ELSE ReceiverFails(<<Cancel>>)
    /\ UNCHANGED senderVars

ReceiverEnds ==
    /\ rPc \in {"wait", "data"}
    /\ Reads(Header("ZFIN"))
    /\ ReceiverSends(<<Header("ZFIN")>>)
    /\ rPc' = "ended"
    /\ UNCHANGED <<senderVars, rFile, lastOffer, part, rposOut, gotData, retries, saved, dropped>>

\* dropQueued(zFILE): offers repeated while a person chose a folder.
DropQueued ==
    \E k \in 0 .. Len(fwd) :
        /\ \A i \in 1 .. k : fwd[i].t = "ZFILE"
        /\ fwd' = SubSeq(fwd, k + 1, Len(fwd))

\* receiveFile refuses the file. The repeated offers on the line come within
\* zRepeatWindow of the answer and are dropped.
Refuses ==
    /\ rPc = "choose"
    /\ \E k \in 0 .. Len(fwd) :
          /\ \A i \in 1 .. k : fwd[i] = Offer(rFile)
          /\ k < Len(fwd) => fwd[k + 1] # Offer(rFile)
          /\ fwd' = SubSeq(fwd, k + 1, Len(fwd))
    /\ dropped' = dropped \cup {rFile}
    /\ ReceiverSends(<<Header("ZSKIP"), Header("ZRINIT")>>)
    /\ Waits(NoFile, <<>>)
    /\ UNCHANGED <<damage, senderVars, saved>>

\* receiveFile takes the file: the first ZRPOS goes out.
StartData ==
    /\ rPc = "choose"
    /\ DropQueued
    /\ part' = <<>> /\ rposOut' = TRUE /\ gotData' = FALSE /\ retries' = 0
    /\ ReceiverSends(<<At("ZRPOS", 0)>>)
    /\ rPc' = "data"
    /\ UNCHANGED <<damage, senderVars, rFile, lastOffer, saved, dropped>>

-----------------------------------------------------------------------------
(* receiveData.                                                            *)

SlipAskAgain ==
    IF retries <= MaxAsks
    THEN /\ retries' = retries + 1
         /\ rposOut' = TRUE
         /\ rPc' = "data"
         /\ ReceiverSends(<<At("ZRPOS", rx)>>)
         /\ UNCHANGED <<rFile, lastOffer, part, gotData, saved, dropped>>
    ELSE ReceiverFails(<<Cancel>>)

\* rpos(): ask for the last good offset, or give up.
AskAgain ==
    IF retries < MaxAsks
    THEN /\ retries' = retries + 1
         /\ rposOut' = TRUE
         /\ rPc' = "data"
         /\ ReceiverSends(<<At("ZRPOS", rx)>>)
         /\ UNCHANGED <<rFile, lastOffer, part, gotData, saved, dropped>>
    ELSE ReceiverFails(<<Cancel>>)

DataTimeout ==
    /\ rPc \in {"data", "frame"} /\ Quiet
    /\ AskAgain
    /\ UNCHANGED senderVars

\* A damaged header gets no ZRPOS of its own while one is out.
DataNoise ==
    /\ rPc = "data"
    /\ ReadsNoise
    /\ \/ ~rposOut /\ AskAgain
       \/ UNCHANGED <<rev, recvVars>>
    /\ UNCHANGED senderVars

SlipFrameStarts ==
    /\ rPc = "data"
    /\ \E h \in ToSet(fwd) : Reads(h) /\ h.t = "ZDATA"
    /\ rPc' = "frame" /\ rposOut' = FALSE /\ gotData' = TRUE
    /\ UNCHANGED <<rev, senderVars, rFile, lastOffer, part, retries, saved, dropped>>

FrameStarts ==
    /\ rPc = "data"
    /\ Reads(At("ZDATA", rx))
    /\ rPc' = "frame" /\ rposOut' = FALSE /\ gotData' = TRUE
    /\ UNCHANGED <<rev, senderVars, rFile, lastOffer, part, retries, saved, dropped>>

WrongFrame ==
    /\ rPc = "data"
    /\ \E h \in ToSet(fwd) : Reads(h) /\ h.t = "ZDATA" /\ h.pos # rx
    /\ IF rposOut THEN UNCHANGED <<rev, recvVars>> ELSE AskAgain
    /\ UNCHANGED senderVars

\* Subpackets of a frame whose beginning was lost, and a stale ZEOF.
DataIgnores ==
    /\ rPc = "data"
    /\ \E h \in ToSet(fwd) : Reads(h) /\ (h.t = "DATA" \/ (h.t = "ZEOF" /\ h.pos # rx))
    /\ UNCHANGED <<rev, senderVars, recvVars>>

\* A repeated offer asks for the ZRPOS again when it comes late enough and
\* no data has come.
RepeatedOffer ==
    /\ rPc = "data"
    /\ \E h \in ToSet(fwd) : Reads(h) /\ h.t = "ZFILE"
    /\ \/ ~gotData /\ AskAgain
       \/ UNCHANGED <<rev, recvVars>>
    /\ UNCHANGED senderVars

Subpacket ==
    /\ rPc = "frame"
    /\ \E h \in ToSet(fwd) :
          /\ Reads(h) /\ h.t = "DATA"
          /\ part' = IF h.data = <<>> THEN part ELSE Append(part, h.data)
          /\ retries' = IF h.data = <<>> THEN retries ELSE 0
          /\ rPc' = IF h.end \in {"ZCRCW", "ZCRCE"} THEN "data" ELSE "frame"
          /\ ReceiverSends(IF h.end \in {"ZCRCW", "ZCRCQ"} THEN <<At("ZACK", Len(part'))>>
                                                          ELSE <<>>)
    /\ UNCHANGED <<senderVars, rFile, lastOffer, rposOut, gotData, saved, dropped>>

\* A CRC error, or a header where a subpacket should be.
FrameBreaks ==
    /\ rPc = "frame"
    /\ \/ ReadsNoise
       \/ \E h \in ToSet(fwd) : Reads(h) /\ h.t \notin {"DATA", "CAN"}
    /\ AskAgain
    /\ UNCHANGED senderVars

\* Data is written to the file when a subpacket fills the buffer, or when the
\* flush and the close that follow ZEOF empty it.
Written ==
    \/ rPc = "frame" /\ \E h \in ToSet(fwd) : Reads(h) /\ h.t = "DATA" /\ h.data # <<>>
    \/ rPc = "data" /\ Reads(At("ZEOF", rx))

\* A local write error refuses the file and removes the partial file.
WriteError ==
    /\ Written
    /\ ReceiverSends(<<Header("ZSKIP"), Header("ZRINIT")>>)
    /\ dropped' = dropped \cup {rFile}
    /\ Waits(NoFile, <<>>)
    /\ UNCHANGED <<senderVars, saved>>

\* A full disk ends the session; the partial file stays.
DiskFull ==
    /\ Written
    /\ ReceiverFails(<<Header("ZFERR"), Cancel>>)
    /\ UNCHANGED senderVars

\* ZEOF at the right offset: commitPart, then ZRINIT for the next file.
Commits ==
    /\ rPc = "data"
    /\ Reads(At("ZEOF", rx))
    /\ \/ saved' = [saved EXCEPT ![rFile] = part] /\ dropped' = dropped
       \/ saved' = saved /\ dropped' = dropped \cup {rFile}
    /\ ReceiverSends(<<Header("ZRINIT")>>)
    /\ Waits(NoFile, <<>>)
    /\ UNCHANGED senderVars

-----------------------------------------------------------------------------
Sender ==
    \/ OfferAccepted \/ OfferSkipped \/ OfferHears \/ OfferAgain \/ OfferTimeout
    \/ GivesUp \/ StreamEOF \/ AwaitWindow \/ SendData \/ ReadFails
    \/ ReverseAck \/ ReverseEcho \/ ReverseRewinds \/ ReverseTooOften
    \/ ReverseSkip \/ ReverseInit \/ PeerGone
    \/ AckRewinds \/ AckPokes \/ AckRestates \/ EOFAgain \/ HeaderLost
    \/ FinAnswered \/ FinHears \/ FinCancelled \/ FinTimeout

Receiver ==
    \/ ReceiverCancelled \/ TakeOffer \/ OfferDamaged \/ AnswerInit \/ WaitIgnores
    \/ WaitTimeout \/ ReceiverEnds \/ Refuses \/ StartData
    \/ DataTimeout \/ DataNoise \/ FrameStarts \/ WrongFrame \/ DataIgnores
    \/ RepeatedOffer \/ Subpacket \/ FrameBreaks \/ WriteError \/ DiskFull \/ Commits

Next == Sender \/ Receiver

Spec == Init /\ [][Next]_vars

\* Both programs run, and their timers fire.
FairSpec == Spec /\ WF_vars(Sender) /\ WF_vars(Receiver)

-----------------------------------------------------------------------------
Whole(f) == saved[f] = Source(f)

TypeOK ==
    /\ sPc \in {"offer", "stream", "ack", "eof", "fin", "ok", "failed"}
    /\ rPc \in {"wait", "choose", "data", "frame", "ended", "failed"}
    /\ sFile \in Files /\ {rFile, lastOffer} \subseteq Files \cup {NoFile}
    /\ tries \in 0 .. MaxRetries /\ retries \in 0 .. MaxAsks
    /\ damage \in 0 .. MaxDamage
    /\ 0 <= st.pos /\ st.pos <= Size[sFile]
    /\ 0 <= st.acked /\ st.acked <= Size[sFile]
    /\ st.same \in 0 .. MaxSame
    /\ res \in [Files -> {"none", "ok", "refused", "failed"}]

\* Whatever noise, retries and rewinds do, the bytes under a committed name
\* are the file that was offered under it: all of it, or its readable
\* beginning when the source failed. No file holds units of another one,
\* a hole, or a unit twice.
SavedFaithful ==
    \A f \in Files :
        /\ IsPrefix(saved[f], Source(f))
        /\ saved[f] = <<>> \/ f \in Unreadable \/ Whole(f)

\* What the sender reports as sent has been committed in full, unless the
\* receiver has reported that file as failed itself: a ZRINIT that answers
\* something else never passes for the answer to ZEOF.
OkMeansSaved ==
    \A f \in Files : res[f] = "ok" => Whole(f) \/ f \in dropped

\* What cutFile promises: the receiver sees a short file, and nothing else
\* happens to it.
SavedPrefix == \A f \in Files : IsPrefix(saved[f], Source(f))

\* Neither side hangs: every wait is bounded, every retry is counted.
SenderEnds == <>(sPc \in {"ok", "failed"})
ReceiverFinishes == <>(rPc \in {"ended", "failed"})
BothEnd == SenderEnds /\ ReceiverFinishes
=============================================================================
