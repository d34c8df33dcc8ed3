--------------------------- MODULE CaptureLogProofs ---------------------------
(***************************************************************************)
(* Theorems about CaptureLog, for any set of sources, any capacity of the  *)
(* queue and any number of chunks and clears: the way of a chunk from the  *)
(* port to the files, and what the overlay makes of them.                  *)
(***************************************************************************)
EXTENDS CaptureLog, TLAPS, FiniteSetTheorems, SequenceTheorems

\* Whoever has a chunk in hand has one.
InHand ==
    /\ \A s \in Sources : pc[s] # "idle" => chunk[s] \in Chunks
    /\ runner \in {"write", "index", "line"} => cur \in Chunks

TypeInv == LogTypes /\ InHand

Lines == [of : Chunks \cup {NoChunk}, at : Nat]
Bytes == Chunks \cup {NoChunk}         \* of the cache, those of a torn write among them

\* What IndexBegins and a failed write make of the end of the index.
LEMMA EndTypes ==
    ASSUME NEW lines \in Seq(Lines), NEW c \in Bytes, NEW n \in Nat
    PROVE  /\ Garbage \in Lines /\ Line(c, n) \in Lines
           /\ Append(lines, Line(c, n)) \in Seq(Lines) /\ Append(lines, Garbage) \in Seq(Lines)
           /\ [lines EXCEPT ![Len(lines)] = Garbage] \in Seq(Lines)
<1>1. Garbage \in Lines /\ Line(c, n) \in Lines
  BY DEF Garbage, Line, Lines, Bytes
<1>2. [lines EXCEPT ![Len(lines)] = Garbage] \in Seq(Lines)
  <2>1. PICK k \in Nat : lines \in [1 .. k -> Lines] /\ k = Len(lines)
    BY LenProperties
  <2>2. [lines EXCEPT ![Len(lines)] = Garbage] \in [1 .. k -> Lines]
    BY <1>1, <2>1
  <2>3. QED
    BY <2>2, SeqDef
<1>3. QED
  BY <1>1, <1>2, AppendProperties

\* What is put at the end of the second of two sequences is at the end of both.
LEMMA AppendConcat ==
    \A v, w \in Seq(Chunks), x \in Chunks : Append(v \o w, x) = v \o Append(w, x)
OBVIOUS

(* The variables of the log keep their types in every step (asyncCapture,  *)
(* timedCacheWriter), and no queue outgrows asyncCaptureQueue.             *)
LEMMA TypeInvStep == TypeInv /\ [Next]_vars => TypeInv'
<1> USE CaptureAssumption DEF TypeInv, LogTypes, InHand
<1> SUFFICES ASSUME TypeInv, [Next]_vars PROVE TypeInv'
  OBVIOUS
<1> USE DEF sourceVars, queueVars, runnerVars, clearVars, overlayVars
<1>1. ASSUME NEW s \in Sources, PortWrite(s) PROVE TypeInv'
  <2>1. sent' \in 1 .. MaxChunks /\ <<s, sent'>> \in Chunks
    BY <1>1 DEF PortWrite, Chunks
  <2>2. pc' = [pc EXCEPT ![s] = "check"] /\ chunk' = [chunk EXCEPT ![s] = <<s, sent'>>]
    BY <1>1 DEF PortWrite, Goto
  <2>3. /\ pc' \in [Sources -> {"idle", "check", "sending"}]
        /\ chunk' \in [Sources -> Chunks \cup {NoChunk}]
        /\ \A x \in Sources : pc'[x] # "idle" => chunk'[x] \in Chunks
    BY <2>1, <2>2
  <2>4. /\ UNCHANGED <<queue, accepted, err, chClosed, runner, cur, at, cache, index, partial>>
        /\ UNCHANGED <<closer, crashed, clearing, clears, written>>
    BY <1>1 DEF PortWrite
  <2>5. QED
    BY <2>1, <2>3, <2>4
<1>2. ASSUME NEW s \in Sources, CheckErr(s) PROVE TypeInv'
  BY <1>2 DEF CheckErr, Goto
<1>3. ASSUME NEW s \in Sources, Enqueue(s) PROVE TypeInv'
  <2>1. chunk[s] \in Chunks
    BY <1>3 DEF Enqueue
  <2>2. queue' \in Seq(Chunks) /\ Len(queue') <= Capacity /\ accepted' \in Seq(Chunks)
    BY <1>3, <2>1 DEF Enqueue, HasRoom
  <2>3. QED
    BY <1>3, <2>2 DEF Enqueue, Goto
<1>4. ASSUME NEW s \in Sources, SendPanics(s) PROVE TypeInv'
  BY <1>4 DEF SendPanics
<1>5. CASE Receive
  <2>1. Head(queue) \in Chunks /\ Tail(queue) \in Seq(Chunks) /\ Len(Tail(queue)) <= Capacity
    BY <1>5 DEF Receive
  <2>2. QED
    BY <1>5, <2>1 DEF Receive
<1>6. CASE RunReturns
  BY <1>6 DEF RunReturns
<1>7. CASE WriteData
  BY <1>7 DEF WriteData
<1>a. index \in Seq(Lines) /\ cur \in Bytes /\ at \in Nat
  BY DEF Lines, Bytes
<1>8. CASE IndexBegins
  <2>1. index' \in Seq(Lines) /\ partial' = TRUE /\ runner' = "line" /\ runner = "index"
    BY <1>8, <1>a, EndTypes DEF IndexBegins
  <2>2. /\ UNCHANGED <<pc, chunk, sent, queue, accepted, err, chClosed, cur, at, cache>>
        /\ UNCHANGED <<closer, crashed, clearing, clears, written>>
    BY <1>8 DEF IndexBegins
  <2>3. QED
    BY <2>1, <2>2 DEF Lines
<1>9. CASE IndexEnds
  <2>1. index' \in Seq(Lines) /\ partial' = FALSE /\ runner' = "idle"
    BY <1>9, <1>a, EndTypes DEF IndexEnds
  <2>2. /\ UNCHANGED <<pc, chunk, sent, queue, accepted, err, chClosed, cache>>
        /\ UNCHANGED <<closer, crashed, clearing, clears, written>>
        /\ cur' = NoChunk /\ at' = 0
    BY <1>9 DEF IndexEnds, Forget
  <2>3. QED
    BY <2>1, <2>2 DEF Lines
<1>10. CASE WriteFails
  <2>1. cache' \in Seq(Bytes) /\ index' \in Seq(Lines) /\ partial' \in BOOLEAN
    <3>1. cache \in Seq(Bytes) /\ NoChunk \in Bytes
      BY DEF Bytes
    <3>2. Append(cache, NoChunk) \in Seq(Bytes)
      BY <3>1, AppendProperties
    <3>3. CASE LeavesPart
      BY <1>a, <3>1, <3>2, <3>3, EndTypes DEF LeavesPart
    <3>4. CASE UNCHANGED <<cache, index, partial>>
      BY <1>a, <3>1, <3>4
    <3>5. QED
      BY <1>10, <3>3, <3>4 DEF WriteFails
  <2>2. /\ UNCHANGED <<pc, chunk, sent, queue, accepted, chClosed>>
        /\ UNCHANGED <<closer, crashed, clearing, clears, written>>
        /\ cur' = NoChunk /\ at' = 0 /\ runner' = "idle" /\ err' = TRUE
    BY <1>10 DEF WriteFails, Forget
  <2>3. QED
    BY <2>1, <2>2 DEF Lines, Bytes
<1>11. CASE CloseLease
  BY <1>11 DEF CloseLease
<1>12. CASE CloseQueue
  BY <1>12 DEF CloseQueue
<1>13. CASE CloseFiles
  BY <1>13 DEF CloseFiles
<1>14. CASE ClearCache
  BY <1>14 DEF ClearCache
<1>15. CASE ClearIndex
  <2>1. partial' \in BOOLEAN
    BY <1>15, Zenon DEF ClearIndex
  <2>2. QED
    BY <1>15, <2>1 DEF ClearIndex
<1>16. CASE Overlay \/ MuteChanges
  BY <1>16 DEF Overlay, Poll, ShowEntry, MuteChanges
<1>17. CASE UNCHANGED vars
  BY <1>17 DEF vars
<1>18. QED
  BY <1>1, <1>2, <1>3, <1>4, <1>5, <1>6, <1>7, <1>8, <1>9, <1>10, <1>11, <1>12, <1>13, <1>14,
     <1>15, <1>16, <1>17
     DEF Next, Run, WriteChunk, Shutdown

THEOREM TypeInvCorrect == Spec => []TypeInv
<1>1. Init => TypeInv
  <2> USE CaptureAssumption DEF TypeInv, LogTypes, InHand
  <2> SUFFICES ASSUME Init PROVE TypeInv
    OBVIOUS
  <2>1. err \in BOOLEAN /\ chClosed \in BOOLEAN /\ partial \in BOOLEAN /\ crashed \in BOOLEAN
    BY Zenon DEF Init
  <2>2. QED
    BY <2>1 DEF Init
<1>2. QED
  BY <1>1, TypeInvStep, PTL DEF Spec

-----------------------------------------------------------------------------
(* What the queue has taken is, in this order, in the cache, in the        *)
(* writer's hand and in the queue, as long as no write fails; and the      *)
(* files are closed only when the last two are empty.                      *)

Writing == IF runner = "write" THEN <<cur>> ELSE << >>

QueueInv ==
    /\ ~err => accepted = (written \o Writing) \o queue
    /\ runner = "done" => chClosed /\ queue = << >>
    /\ closer = "done" => runner = "done"

queueInvVars == <<queue, accepted, written, runner, cur, err, chClosed, closer>>

(* The writer's loop takes a chunk from the channel and writes it before   *)
(* it takes the next, and Close waits for it: QueueInv holds throughout.   *)
THEOREM QueueInvCorrect == Spec => []QueueInv
<1> USE DEF QueueInv, Writing
<1>1. Init => QueueInv
  BY DEF Init
<1>2. TypeInv /\ QueueInv /\ [Next]_vars => QueueInv'
  <2> SUFFICES ASSUME TypeInv, QueueInv, [Next]_vars PROVE QueueInv'
    OBVIOUS
  <2> USE DEF sourceVars, queueVars, runnerVars, clearVars, overlayVars
  <2>0. /\ queue \in Seq(Chunks) /\ accepted \in Seq(Chunks) /\ written \in Seq(Chunks)
        /\ runner \in {"write", "index", "line"} => cur \in Chunks
    BY DEF TypeInv, LogTypes, InHand
  <2>1. CASE UNCHANGED queueInvVars
    BY <2>1 DEF queueInvVars
  <2>2. ASSUME NEW s \in Sources, Enqueue(s) PROVE QueueInv'
    <3>1. chunk[s] \in Chunks
      <4>1. pc[s] # "idle"
        BY <2>2 DEF Enqueue
      <4>2. QED
        BY <4>1 DEF TypeInv, InHand
    <3>2. /\ queue' = Append(queue, chunk[s]) /\ accepted' = Append(accepted, chunk[s])
          /\ UNCHANGED <<written, runner, cur, err, chClosed, closer>> /\ ~chClosed
      BY <2>2 DEF Enqueue
    <3>3. ASSUME NEW w \in Seq(Chunks)
          PROVE  Append(w \o queue, chunk[s]) = w \o Append(queue, chunk[s])
      <4>1. queue \in Seq(Chunks)
        BY <2>0
      <4>2. QED
        BY <3>1, <4>1, AppendConcat, Zenon
    <3>4. written \o Writing \in Seq(Chunks)
      BY <2>0
    <3>5. /\ (written \o Writing)' = written \o Writing
          /\ Append((written \o Writing) \o queue, chunk[s]) = (written \o Writing) \o queue'
      BY <3>2, <3>3, <3>4
    <3>6. QED
      BY <3>2, <3>5
  <2>3. CASE Receive
    <3>1. /\ queue # << >> /\ runner = "idle" /\ runner' = "write" /\ cur' = Head(queue)
          /\ queue' = Tail(queue) /\ UNCHANGED <<accepted, written, err, chClosed, closer>>
      BY <2>3 DEF Receive
    <3>2. written \o queue = (written \o <<Head(queue)>>) \o Tail(queue)
      BY <3>1, <2>0
    <3>3. written \o << >> = written
      BY <2>0
    <3>4. QED
      BY <3>1, <3>2, <3>3
  <2>4. CASE RunReturns
    BY <2>4 DEF RunReturns, RunEnds
  <2>5. CASE WriteData
    <3>1. /\ runner = "write" /\ runner' = "index" /\ written' = Append(written, cur)
          /\ UNCHANGED <<queue, accepted, err, closer>>
      BY <2>5 DEF WriteData
    <3>2. written' = written \o <<cur>> /\ written' \o << >> = written'
      BY <3>1, <2>0
    <3>3. QED
      BY <3>1, <3>2
  <2>6. CASE IndexBegins \/ IndexEnds
    BY <2>6 DEF IndexBegins, IndexEnds, Forget
  <2>7. CASE WriteFails
    BY <2>7 DEF WriteFails
  <2>8. CASE CloseLease \/ CloseQueue \/ CloseFiles
    BY <2>8 DEF CloseLease, CloseQueue, CloseFiles
  <2>9. ASSUME NEW s \in Sources, PortWrite(s) \/ CheckErr(s) \/ SendPanics(s) PROVE QueueInv'
    BY <2>1, <2>9 DEF PortWrite, CheckErr, SendPanics, queueInvVars
  <2>10. CASE ClearCache \/ ClearIndex \/ Overlay \/ MuteChanges \/ UNCHANGED vars
    BY <2>1, <2>10 DEF ClearCache, ClearIndex, Overlay, Poll, ShowEntry, MuteChanges, vars,
                       queueInvVars
  <2>11. QED
    BY <2>2, <2>3, <2>4, <2>5, <2>6, <2>7, <2>8, <2>9, <2>10 DEF Next, Run, WriteChunk, Shutdown
<1>3. QED
  BY <1>1, <1>2, TypeInvCorrect, PTL DEF Spec

(* Close flushes the queue: when the files are closed, every chunk that    *)
(* WriteChunk took is in the log in that order, or an error was reported.  *)
THEOREM FlushedOnCloseHolds == Spec => []FlushedOnClose
<1>1. TypeInv /\ QueueInv => FlushedOnClose
  <2> SUFFICES ASSUME TypeInv, QueueInv, closer = "done", ~err PROVE written = accepted
    BY DEF FlushedOnClose
  <2>1. Writing = << >> /\ queue = << >> /\ written \in Seq(Chunks)
    BY DEF QueueInv, Writing, TypeInv, LogTypes
  <2>2. (written \o << >>) \o << >> = written
    BY <2>1
  <2>3. QED
    BY <2>1, <2>2 DEF QueueInv
<1>2. QED
  BY <1>1, TypeInvCorrect, QueueInvCorrect, PTL

-----------------------------------------------------------------------------
(* A clear spoils only the entry whose offset was taken before it, and     *)
(* that one is the first of the new index.                                 *)

Good(line) == line = Garbage \/ PointsAtItsBytes(line)

\* What the writer has in hand will become a good entry.
Fresh ==
    /\ runner = "write" => at = Len(cache)
    /\ runner = "index" => at < Len(cache) /\ cache[at + 1] = cur

SpoilInv ==
    /\ clears = 0 => clearing = "idle" /\ Fresh /\ \A i \in DOMAIN index : Good(index[i])
    /\ clearing = "idle" =>
          /\ \A i \in DOMAIN index : i > 1 => Good(index[i])
          /\ Fresh \/ index = << >>

spoilVars == <<runner, cur, at, cache, index, clearing, clears>>

(* Between two clears the writer appends at the offset it has read: no     *)
(* entry but the first of an index can point elsewhere.                    *)
THEOREM SpoilInvCorrect == Spec => []SpoilInv
<1> USE DEF SpoilInv, Good, PointsAtItsBytes, Fresh
<1>1. Init => SpoilInv
  BY DEF Init
<1>2. TypeInv /\ SpoilInv /\ [Next]_vars => SpoilInv'
  <2> SUFFICES ASSUME TypeInv, SpoilInv, [Next]_vars PROVE SpoilInv'
    OBVIOUS
  <2> USE DEF sourceVars, queueVars, runnerVars, clearVars, overlayVars
  <2>0. /\ cache \in Seq(Bytes) /\ at \in Nat /\ clears \in Nat
        /\ index \in Seq(Lines)
        /\ cur \in Bytes /\ NoChunk \in Bytes
    BY CaptureAssumption DEF TypeInv, LogTypes, InHand, Lines, Bytes
  <2>a. ASSUME NEW c \in Bytes, cache' = Append(cache, c), UNCHANGED index,
               NEW i \in DOMAIN index, Good(index[i])
        PROVE  Good(index[i])'
    <3>1. /\ Len(cache') = Len(cache) + 1 /\ Len(cache) \in Nat
          /\ \A k \in 1 .. Len(cache) : cache'[k] = cache[k]
      BY <2>0, <2>a, AppendProperties, LenProperties
    <3>2. PICK line \in Lines : line = index[i] /\ line = index'[i]
      BY <2>0, <2>a, ElementOfSeq, LenProperties
    <3>3. Good(line) => Good(line)'
      BY <3>1 DEF Lines
    <3>4. QED
      BY <2>a, <3>2, <3>3
  <2>1. CASE UNCHANGED spoilVars
    BY <2>1 DEF spoilVars
  <2>2. CASE Receive
    BY <2>2, <2>0 DEF Receive
  <2>3. CASE WriteData
    <3>1. /\ runner = "write" /\ runner' = "index" /\ cache' = Append(cache, cur)
          /\ UNCHANGED <<cur, at, index, clearing, clears>>
      BY <2>3 DEF WriteData
    <3>2. Len(cache') = Len(cache) + 1 /\ cache'[Len(cache) + 1] = cur
      BY <3>1, <2>0
    <3>3. Fresh => Fresh'
      BY <3>1, <3>2, <2>0
    <3>4. \A i \in DOMAIN index : Good(index[i]) => Good(index[i])'
      BY <2>0, <2>a, <3>1
    <3>5. QED
      BY <3>1, <3>3, <3>4
  <2>4. CASE IndexBegins
    <3>1. /\ runner = "index" /\ runner' = "line"
          /\ index' = IF partial THEN [index EXCEPT ![Len(index)] = Garbage]
                      ELSE Append(index, Line(cur, at))
          /\ UNCHANGED <<cur, at, cache, clearing, clears>>
      BY <2>4 DEF IndexBegins
    <3>2. CASE partial
      <4>1. DOMAIN index' = DOMAIN index
        BY <3>1, <3>2
      <4>2. ASSUME NEW i \in DOMAIN index, Good(index[i]) PROVE Good(index'[i])
        BY <3>1, <3>2, <4>2
      <4>3. QED
        BY <3>1, <4>1, <4>2
    <3>3. CASE ~partial
      BY <2>0, <3>1, <3>3 DEF Line
    <3>4. QED
      BY <3>2, <3>3
  <2>5. CASE IndexEnds
    BY <2>5, <2>0 DEF IndexEnds
  <2>6. CASE WriteFails
    <3>1. runner' = "idle" /\ UNCHANGED <<clearing, clears>> /\ Fresh'
      BY <2>6 DEF WriteFails
    <3>2. CASE UNCHANGED <<cache, index>>
      BY <3>1, <3>2
    <3>3. CASE cache' = Append(cache, NoChunk) /\ UNCHANGED index
      <4>1. \A i \in DOMAIN index : Good(index[i]) => Good(index[i])'
        BY <2>0, <2>a, <3>3
      <4>2. QED
        BY <3>1, <3>3, <4>1
    <3>4. CASE index' = Append(index, Garbage) /\ UNCHANGED cache
      BY <2>0, <3>1, <3>4
    <3>5. QED
      BY <2>6, <3>2, <3>3, <3>4 DEF WriteFails, LeavesPart
  <2>7. CASE ClearCache
    BY <2>7, <2>0 DEF ClearCache
  <2>8. CASE ClearIndex
    BY <2>8, <2>0 DEF ClearIndex
  <2>9. CASE RunReturns
    BY <2>9 DEF RunReturns
  <2>10. ASSUME NEW s \in Sources, PortWrite(s) \/ WriteChunk(s) PROVE SpoilInv'
    BY <2>1, <2>10 DEF PortWrite, WriteChunk, CheckErr, Enqueue, SendPanics, spoilVars
  <2>11. CASE CloseLease \/ Shutdown \/ Overlay \/ MuteChanges \/ UNCHANGED vars
    BY <2>1, <2>11 DEF CloseLease, Shutdown, CloseQueue, CloseFiles, Overlay, Poll, ShowEntry,
                       MuteChanges, vars, spoilVars
  <2>12. QED
    BY <2>2, <2>3, <2>4, <2>5, <2>6, <2>7, <2>8, <2>9, <2>10, <2>11 DEF Next, Run
<1>3. QED
  BY <1>1, <1>2, TypeInvCorrect, PTL DEF Spec

(* However often sio clear truncates the two files under the writer, at    *)
(* most one entry of the index does not point at its own bytes.            *)
THEOREM ClearSpoilsOneHolds == Spec => []ClearSpoilsOne
<1>1. TypeInv /\ SpoilInv => ClearSpoilsOne
  <2> DEFINE Spoilt == {i \in DOMAIN index : index[i] # Garbage /\ ~PointsAtItsBytes(index[i])}
  <2> SUFFICES ASSUME TypeInv, SpoilInv, clearing = "idle"
               PROVE  Cardinality(Spoilt) <= (IF clears = 0 THEN 0 ELSE 1)
    BY DEF ClearSpoilsOne
  <2>1. clears \in Nat
    BY CaptureAssumption DEF TypeInv, LogTypes
  <2>2. CASE clears = 0
    <3>1. Spoilt = {}
      BY <2>2 DEF SpoilInv, Good
    <3>2. QED
      BY <2>2, <3>1, FS_EmptySet
  <2>3. CASE clears > 0
    <3>1. DOMAIN index = 1 .. Len(index) /\ Len(index) \in Nat
      BY DEF TypeInv, LogTypes
    <3>2. Spoilt \subseteq {1}
      BY <3>1 DEF SpoilInv, Good
    <3>3. Cardinality({1}) = 1 /\ IsFiniteSet({1})
      BY FS_Singleton
    <3>4. Cardinality(Spoilt) <= 1
      BY <3>2, <3>3, FS_Subset
    <3>5. QED
      BY <2>3, <3>4
  <2>4. QED
    BY <2>1, <2>2, <2>3
<1>2. QED
  BY <1>1, TypeInvCorrect, SpoilInvCorrect, PTL

-----------------------------------------------------------------------------
(* The overlay has gone through the index up to a line: what a poll has    *)
(* read and not gone through yet comes right behind it.                    *)

OverlayTypes ==
    /\ indexOffset \in Nat
    /\ entries \in Seq(Lines) /\ Len(entries) <= indexOffset
    /\ shown \in Seq([of : Chunks, data : Bytes])
    /\ muted \in BOOLEAN /\ hushed \subseteq Nat

OverlayInv ==
    /\ OverlayTypes
    /\ clears = 0 =>
          /\ indexOffset <= Complete
          /\ \A i \in DOMAIN entries : entries[i] = index[ReadTo + i]
          /\ \A n \in hushed : n <= ReadTo
          /\ ShownUpTo(ReadTo)

\* What another source sent is a chunk.
LEMMA OthersSend ==
    ASSUME NEW line \in Lines, FromOthers(line)
    PROVE  line.of \in Chunks
BY DEF Lines, FromOthers, NoChunk

\* The parts of the index and of the cache that the overlay goes by.
LEMMA IndexTypes ==
    ASSUME TypeInv
    PROVE  /\ index \in Seq(Lines) /\ cache \in Seq(Bytes)
           /\ Len(index) \in Nat /\ Complete \in Int /\ Complete <= Len(index)
BY DEF TypeInv, LogTypes, Lines, Bytes, Complete

\* Up to a clear the index only grows, and its complete lines stay.
LEMMA IndexGrows ==
    ASSUME TypeInv, SpoilInv, [Next]_vars, clears' = 0
    PROVE  /\ clears = 0
           /\ Len(index') >= Len(index) /\ Complete' >= Complete
           /\ \A n \in 1 .. Complete : index'[n] = index[n]
<1> USE DEF sourceVars, queueVars, runnerVars, clearVars, overlayVars
<1>0. /\ index \in Seq(Lines) /\ Len(index) \in Nat /\ clears \in Nat
      /\ cur \in Bytes /\ at \in Nat
      /\ Complete \in Int /\ Complete <= Len(index)
  BY IndexTypes, CaptureAssumption DEF TypeInv, LogTypes, InHand, Bytes
<1>1. CASE UNCHANGED <<index, partial, clears>>
  BY <1>0, <1>1 DEF Complete
<1>2. ASSUME NEW line \in Lines, index' = Append(index, line), partial' \in BOOLEAN, ~partial
             , UNCHANGED clears
      PROVE  /\ Len(index') >= Len(index) /\ Complete' >= Complete
             /\ \A n \in 1 .. Complete : index'[n] = index[n]
  <2>1. Len(index') = Len(index) + 1 /\ \A n \in 1 .. Len(index) : index'[n] = index[n]
    BY <1>0, <1>2, AppendProperties
  <2>2. QED
    BY <1>0, <1>2, <2>1 DEF Complete
<1>3. CASE Run
  <2>1. CASE IndexBegins /\ partial
    <3>1. /\ index' = [index EXCEPT ![Len(index)] = Garbage]
          /\ partial' = TRUE /\ UNCHANGED clears
      BY <2>1 DEF IndexBegins
    <3>2. Len(index') = Len(index) /\ \A n \in 1 .. Len(index) - 1 : index'[n] = index[n]
      BY <1>0, <3>1
    <3>3. Complete = Len(index) - 1 /\ Complete' = Complete
      BY <1>0, <2>1, <3>1, <3>2 DEF Complete
    <3>4. \A n \in 1 .. Complete : index'[n] = index[n]
      BY <1>0, <3>2, <3>3
    <3>5. Len(index') >= Len(index) /\ Complete' >= Complete
      BY <1>0, <3>2, <3>3
    <3>6. QED
      BY <3>1, <3>4, <3>5
  <2>2. CASE IndexBegins /\ ~partial
    <3>1. index' = Append(index, Line(cur, at)) /\ partial' = TRUE /\ UNCHANGED clears
      BY <2>2 DEF IndexBegins
    <3>2. QED
      BY <1>0, <1>2, <2>2, <3>1, EndTypes
  <2>3. CASE IndexEnds /\ partial
    <3>1. index' = index /\ partial' = FALSE /\ UNCHANGED clears
      BY <2>3 DEF IndexEnds
    <3>2. QED
      BY <1>0, <2>3, <3>1 DEF Complete
  <2>4. CASE IndexEnds /\ ~partial
    <3>1. index' = Append(index, Garbage) /\ partial' = FALSE /\ UNCHANGED clears
      BY <2>4 DEF IndexEnds
    <3>2. QED
      BY <1>0, <1>2, <2>4, <3>1, EndTypes
  <2>5. CASE WriteFails
    <3>1. UNCHANGED clears
      BY <2>5 DEF WriteFails
    <3>2. \/ UNCHANGED <<index, partial>>
          \/ ~partial /\ index' = Append(index, Garbage) /\ partial' = TRUE
      BY <2>5 DEF WriteFails, LeavesPart
    <3>3. QED
      BY <1>0, <1>1, <1>2, <3>1, <3>2, EndTypes
  <2>6. CASE Receive \/ RunReturns \/ WriteData
    BY <1>1, <2>6 DEF Receive, RunReturns, WriteData
  <2>7. QED
    BY <1>3, <2>1, <2>2, <2>3, <2>4, <2>5, <2>6 DEF Run
<1>4. CASE ClearCache \/ ClearIndex
  <2>1. clears' = 0 => clears = 0
    BY <1>0, <1>4 DEF ClearCache, ClearIndex
  <2>2. ~ClearIndex
    BY <2>1 DEF ClearIndex, SpoilInv
  <2>3. ~ClearCache
    BY <1>0 DEF ClearCache
  <2>4. QED
    BY <1>4, <2>2, <2>3
<1>5. ASSUME NEW s \in Sources, PortWrite(s) \/ WriteChunk(s)
      PROVE  UNCHANGED <<index, partial, clears>>
  BY <1>5 DEF PortWrite, WriteChunk, CheckErr, Enqueue, SendPanics
<1>6. CASE CloseLease \/ Shutdown \/ Overlay \/ MuteChanges \/ UNCHANGED vars
  BY <1>1, <1>6 DEF CloseLease, Shutdown, CloseQueue, CloseFiles, Overlay, Poll, ShowEntry,
                    MuteChanges, vars
<1>7. QED
  BY <1>1, <1>3, <1>4, <1>5, <1>6 DEF Next

\* What is read of the index, and what is shown of it, is of these types.
LEMMA OverlayTypesStep == TypeInv /\ OverlayTypes /\ [Next]_vars => OverlayTypes'
<1> SUFFICES ASSUME TypeInv, OverlayTypes, [Next]_vars PROVE OverlayTypes'
  OBVIOUS
<1> USE DEF OverlayTypes, sourceVars, queueVars, runnerVars, clearVars, overlayVars
<1>0. index \in Seq(Lines) /\ Len(index) \in Nat /\ Complete \in Int /\ Complete <= Len(index)
      /\ cache \in Seq(Bytes)
  BY IndexTypes
<1>1. CASE UNCHANGED <<indexOffset, entries, shown, muted, hushed>>
  BY <1>1
<1>2. CASE Poll
  <2>1. entries' = SubSeq(index, indexOffset + 1, Complete) /\ indexOffset' = Complete
        /\ indexOffset < Complete /\ UNCHANGED <<shown, muted, hushed>>
    BY <1>0, <1>2 DEF Poll, Consumed
  <2>2. entries' \in Seq(Lines) /\ Len(entries') <= indexOffset'
    <3>1. PICK end \in Int : end = Complete
      BY <1>0
    <3>2. entries' = SubSeq(index, indexOffset + 1, end) /\ end \in indexOffset + 1 .. Len(index)
      BY <1>0, <2>1, <3>1
    <3>3. entries' \in Seq(Lines) /\ Len(entries') = end - indexOffset
      BY <1>0, <3>2
    <3>4. QED
      BY <2>1, <3>1, <3>3
  <2>3. QED
    BY <1>0, <2>1, <2>2
<1>3. CASE ShowEntry
  <2>1. entries # << >> /\ entries' = Tail(entries) /\ UNCHANGED <<indexOffset, muted>>
    BY <1>3 DEF ShowEntry
  <2>2. /\ Head(entries) \in Lines /\ entries' \in Seq(Lines)
        /\ Len(entries) \in Nat /\ Len(entries') = Len(entries) - 1
    BY <2>1, HeadTailProperties
  <2>3. PICK line \in Lines : line = Head(entries)
    BY <2>2
  <2>4. hushed' \subseteq Nat
    <3>1. ReadTo + 1 \in Nat
      BY <2>2 DEF ReadTo
    <3>2. hushed' = hushed \/ hushed' = hushed \cup {ReadTo + 1}
      BY <1>3 DEF ShowEntry
    <3>3. QED
      BY <3>1, <3>2
  <2>5. shown' \in Seq([of : Chunks, data : Bytes])
    <3>1. CASE FromOthers(line) /\ ~muted /\ line.at < Len(cache)
      <4>1. line.of \in Chunks /\ line.at \in Nat
        BY <3>1, OthersSend DEF Lines
      <4>2. cache[line.at + 1] \in Bytes
        BY <1>0, <3>1, <4>1
      <4>3. shown' = Append(shown, [of |-> line.of, data |-> cache[line.at + 1]])
        BY <1>3, <2>3, <3>1 DEF ShowEntry
      <4>4. QED
        BY <4>1, <4>2, <4>3
    <3>2. CASE ~(FromOthers(line) /\ ~muted /\ line.at < Len(cache))
      BY <1>3, <2>3, <3>2 DEF ShowEntry
    <3>3. QED
      BY <3>1, <3>2
  <2>6. QED
    BY <2>1, <2>2, <2>4, <2>5
<1>4. ASSUME NEW s \in Sources, PortWrite(s) \/ WriteChunk(s) PROVE OverlayTypes'
  BY <1>1, <1>4 DEF PortWrite, WriteChunk, CheckErr, Enqueue, SendPanics
<1>5. CASE CloseLease \/ Shutdown \/ ClearCache \/ ClearIndex \/ UNCHANGED vars
  BY <1>1, <1>5 DEF CloseLease, Shutdown, CloseQueue, CloseFiles, ClearCache, ClearIndex, vars
<1>6. CASE Run
  BY <1>1, <1>6 DEF Run, Receive, RunReturns, WriteData, IndexBegins, IndexEnds, WriteFails
<1>7. CASE MuteChanges
  BY <1>7 DEF MuteChanges
<1>8. QED
  BY <1>2, <1>3, <1>4, <1>5, <1>6, <1>7 DEF Next, Overlay

\* One line more: it is shown, with its bytes, if another source sent it and
\* no transfer goes on.
LEMMA ShowsNext ==
    ASSUME TypeInv, SpoilInv, OverlayTypes, clears = 0, ShowEntry,
           NEW read \in Nat, read = ReadTo, read + 1 <= Len(index),
           Head(entries) = index[read + 1], \A n \in hushed : n <= read, ShownUpTo(read)
    PROVE  ShownUpTo(read + 1)' /\ \A n \in hushed' : n <= read + 1
<1> DEFINE line == index[read + 1]
<1>0. /\ index \in Seq(Lines) /\ Len(index) \in Nat /\ shown \in Seq([of : Chunks, data : Bytes])
      /\ UNCHANGED <<index, cache>> /\ line \in Lines /\ read + 1 \in DOMAIN index
      /\ hushed \subseteq Nat
  BY IndexTypes DEF OverlayTypes, ShowEntry
<1>1. PICK f \in [DOMAIN shown -> 1 .. read] :
          /\ \A i, j \in DOMAIN shown : i < j => f[i] < f[j]
          /\ \A n \in 1 .. read :
                (FromOthers(index[n]) /\ n \notin hushed) <=> \E i \in DOMAIN shown : f[i] = n
          /\ \A i \in DOMAIN shown :
                shown[i].of = index[f[i]].of /\ shown[i].data = index[f[i]].of
  BY DEF ShownUpTo
<1>2. DOMAIN shown = 1 .. Len(shown) /\ Len(shown) \in Nat /\ read + 1 \notin hushed
  BY <1>0
<1>3. CASE FromOthers(line) /\ ~muted
  <2>1. line.at < Len(cache) /\ cache[line.at + 1] = line.of
    BY <1>0, <1>3 DEF SpoilInv, Good, PointsAtItsBytes, FromOthers
  <2>2. line.of \in Chunks
    BY <1>0, <1>3, OthersSend
  <2>3. shown' = Append(shown, [of |-> line.of, data |-> line.of]) /\ hushed' = hushed
    BY <1>3, <2>1 DEF ShowEntry
  <2>4. /\ DOMAIN shown' = 1 .. Len(shown) + 1
        /\ \A i \in 1 .. Len(shown) : shown'[i] = shown[i]
        /\ shown'[Len(shown) + 1].of = line.of /\ shown'[Len(shown) + 1].data = line.of
    BY <1>0, <2>2, <2>3 DEF Bytes
  <2> DEFINE g == [i \in 1 .. Len(shown) + 1 |-> IF i <= Len(shown) THEN f[i] ELSE read + 1]
  <2>5. g \in [DOMAIN shown' -> 1 .. read + 1]
    BY <1>1, <1>2, <2>4
  <2>6. \A i, j \in DOMAIN shown' : i < j => g[i] < g[j]
    BY <1>1, <1>2, <2>4
  <2>7. ASSUME NEW n \in 1 .. read + 1
        PROVE  (FromOthers(index[n]) /\ n \notin hushed) <=> \E i \in DOMAIN shown' : g[i] = n
    <3>1. CASE n = read + 1
      <4>1. Len(shown) + 1 \in DOMAIN shown' /\ g[Len(shown) + 1] = n
        BY <1>2, <2>4, <3>1
      <4>2. QED
        BY <1>2, <1>3, <3>1, <4>1
    <3>2. CASE n \in 1 .. read
      <4>1. \A i \in DOMAIN shown : g[i] = f[i] /\ i \in DOMAIN shown'
        BY <1>2, <2>4
      <4>2. \A i \in DOMAIN shown' : g[i] = n => i \in DOMAIN shown
        BY <1>2, <2>4, <3>2
      <4>3. QED
        BY <1>1, <3>2, <4>1, <4>2
    <3>3. n = read + 1 \/ n \in 1 .. read
      OBVIOUS
    <3>4. QED
      BY <3>1, <3>2, <3>3, Zenon
  <2>8. ASSUME NEW i \in DOMAIN shown'
        PROVE  shown'[i].of = index[g[i]].of /\ shown'[i].data = index[g[i]].of
    <3>1. CASE i <= Len(shown)
      <4>1. i \in DOMAIN shown /\ g[i] = f[i] /\ shown'[i] = shown[i]
        BY <1>2, <2>4, <3>1
      <4>2. QED
        BY <1>1, <4>1
    <3>2. CASE i > Len(shown)
      <4>1. i = Len(shown) + 1 /\ g[i] = read + 1
        BY <1>2, <2>4, <3>2
      <4>2. QED
        BY <2>4, <4>1
    <3>3. QED
      BY <1>2, <2>4, <3>1, <3>2
  <2>9. index' = index
    BY <1>0
  <2> HIDE DEF g
  <2>10. ShownUpTo(read + 1)'
    <3>1. \A n \in 1 .. read + 1 :
              (FromOthers(index[n]) /\ n \notin hushed)' <=> \E i \in DOMAIN shown' : g[i] = n
      BY <2>3, <2>7, <2>9 DEF FromOthers
    <3>2. QED
      BY <2>5, <2>6, <2>8, <2>9, <3>1 DEF ShownUpTo
  <2>11. QED
    BY <1>0, <2>3, <2>10
<1>4. CASE ~FromOthers(line) \/ muted
  <2>1. shown' = shown
    BY <1>4 DEF ShowEntry
  <2>2. hushed' = IF FromOthers(line) THEN hushed \cup {read + 1} ELSE hushed
    BY <1>4 DEF ShowEntry
  <2>3. f \in [DOMAIN shown' -> 1 .. read + 1]
    BY <1>1, <2>1
  <2>4. ASSUME NEW n \in 1 .. read + 1
        PROVE  (FromOthers(index[n]) /\ n \notin hushed') <=> \E i \in DOMAIN shown : f[i] = n
    <3>1. CASE n = read + 1
      BY <1>1, <2>2, <3>1
    <3>2. CASE n # read + 1
      <4>1. n \in 1 .. read /\ (n \in hushed' <=> n \in hushed)
        BY <2>2, <3>2
      <4>2. QED
        BY <1>1, <4>1
    <3>3. QED
      BY <3>1, <3>2
  <2>5. ShownUpTo(read + 1)'
    <3>1. \A n \in 1 .. read + 1 :
              (FromOthers(index[n]) /\ n \notin hushed)' <=> \E i \in DOMAIN shown' : f[i] = n
      BY <1>0, <2>1, <2>4 DEF FromOthers
    <3>2. /\ \A i, j \in DOMAIN shown' : i < j => f[i] < f[j]
          /\ \A i \in DOMAIN shown' :
                shown'[i].of = index'[f[i]].of /\ shown'[i].data = index'[f[i]].of
      BY <1>0, <1>1, <2>1
    <3>3. QED
      BY <2>3, <3>1, <3>2 DEF ShownUpTo
  <2>6. QED
    BY <1>0, <2>2, <2>5
<1>5. QED
  BY <1>3, <1>4

(* The overlay has shown what others sent of the lines it has gone         *)
(* through, and has the next ones at hand (tailTXOverlay).                 *)
THEOREM OverlayInvCorrect == Spec => []OverlayInv
<1>1. Init => OverlayInv
  <2> SUFFICES ASSUME Init PROVE OverlayInv
    OBVIOUS
  <2>1. /\ indexOffset = 0 /\ entries = << >> /\ shown = << >> /\ index = << >> /\ ~partial
        /\ hushed = {}
    BY DEF Init
  <2>a. muted \in BOOLEAN
    BY Zenon DEF Init
  <2>2. OverlayTypes
    BY <2>1, <2>a DEF OverlayTypes
  <2>3. Complete = 0 /\ Len(entries) = 0 /\ ReadTo = 0
    <3>1. Len(index) = 0 /\ Len(entries) = 0 /\ indexOffset = 0 /\ ~partial
      BY <2>1
    <3>2. Complete = 0
      <4>1. (IF partial THEN 1 ELSE 0) = 0
        BY <3>1, Zenon
      <4>2. Complete = Len(index) - (IF partial THEN 1 ELSE 0)
        BY Zenon DEF Complete
      <4>3. Complete = 0 - 0
        BY <3>1, <4>1, <4>2, Zenon
      <4>4. QED
        BY <4>3
    <3>3. ReadTo = 0
      BY <3>1 DEF ReadTo
    <3>4. QED
      BY <3>1, <3>2, <3>3
  <2>4. << >> \in [DOMAIN shown -> 1 .. ReadTo]
    BY <2>1, <2>3
  <2>5. ShownUpTo(ReadTo)
    <3>1. /\ \A i, j \in DOMAIN shown : i < j => << >>[i] < << >>[j]
          /\ \A n \in 1 .. ReadTo :
                (FromOthers(index[n]) /\ n \notin hushed) <=> \E i \in DOMAIN shown : << >>[i] = n
          /\ \A i \in DOMAIN shown :
                shown[i].of = index[<< >>[i]].of /\ shown[i].data = index[<< >>[i]].of
      BY <2>1, <2>3
    <3>2. QED
      BY <2>4, <3>1 DEF ShownUpTo
  <2>6. QED
    BY <2>1, <2>2, <2>3, <2>5 DEF OverlayInv
<1>2. TypeInv /\ SpoilInv /\ OverlayInv /\ [Next]_vars => OverlayInv'
  <2> SUFFICES ASSUME TypeInv, SpoilInv, OverlayInv, [Next]_vars PROVE OverlayInv'
    OBVIOUS
  <2>1. OverlayTypes /\ OverlayTypes'
    BY OverlayTypesStep DEF OverlayInv
  <2> SUFFICES ASSUME clears' = 0
               PROVE  /\ (indexOffset <= Complete)'
                      /\ \A i \in DOMAIN entries' : entries'[i] = index'[ReadTo' + i]
                      /\ \A n \in hushed' : n <= ReadTo'
                      /\ ShownUpTo(ReadTo)'
    BY <2>1 DEF OverlayInv
  <2>2. /\ clears = 0
        /\ Len(index') >= Len(index) /\ Complete' >= Complete
        /\ \A n \in 1 .. Complete : index'[n] = index[n]
    BY IndexGrows DEF OverlayInv
  <2>3. /\ indexOffset <= Complete /\ Len(entries) <= indexOffset
        /\ \A i \in DOMAIN entries : entries[i] = index[ReadTo + i]
        /\ \A n \in hushed : n <= ReadTo
        /\ ShownUpTo(ReadTo)
    BY <2>1, <2>2 DEF OverlayInv, OverlayTypes
  <2>4. /\ index \in Seq(Lines) /\ Len(index) \in Nat /\ Complete \in Int /\ Complete <= Len(index)
        /\ indexOffset \in Nat /\ entries \in Seq(Lines) /\ Len(entries) \in Nat
    BY <2>1, IndexTypes DEF OverlayTypes
  <2>5. ReadTo \in Nat /\ ReadTo + Len(entries) = indexOffset
    BY <2>3, <2>4 DEF ReadTo
  <2>6. PICK read \in Nat : read = ReadTo
    BY <2>5
  <2>7. CASE ~Overlay
    <3>1. UNCHANGED <<indexOffset, entries, shown, hushed>>
      BY <2>7 DEF Next, MuteChanges, PortWrite, WriteChunk, CheckErr, Enqueue, SendPanics, Run, Receive,
          RunReturns, WriteData, IndexBegins, IndexEnds, WriteFails, CloseLease, Shutdown, CloseQueue,
          CloseFiles, ClearCache, ClearIndex, vars, overlayVars
    <3>2. ReadTo' = read
      BY <2>6, <3>1 DEF ReadTo
    <3>3. Complete' \in Int
      <4>1. TypeInv'
        BY TypeInvStep
      <4>2. QED
        BY <4>1 DEF TypeInv, LogTypes, Complete
    <3>4. (indexOffset <= Complete)'
      BY <2>2, <2>3, <2>4, <3>1, <3>3
    <3>5. \A i \in DOMAIN entries' : entries'[i] = index'[ReadTo' + i]
      <4>1. ASSUME NEW i \in DOMAIN entries PROVE entries[i] = index'[read + i]
        <5>1. read + i \in 1 .. Complete
          <6>1. i \in 1 .. Len(entries)
            BY <2>4, <4>1
          <6>2. QED
            BY <2>3, <2>4, <2>5, <2>6, <6>1
        <5>2. QED
          BY <2>2, <2>3, <2>6, <5>1
      <4>2. QED
        BY <3>1, <3>2, <4>1
    <3>6. \A n \in 1 .. read : index'[n] = index[n]
      BY <2>2, <2>3, <2>4, <2>5, <2>6
    <3>7. ShownUpTo(ReadTo)' /\ \A n \in hushed' : n <= ReadTo'
      BY <2>3, <2>6, <3>1, <3>2, <3>6 DEF ShownUpTo, FromOthers
    <3>8. QED
      BY <3>4, <3>5, <3>7
  <2>8. CASE Poll
    <3>1. /\ entries = << >> /\ Complete > indexOffset
          /\ entries' = SubSeq(index, indexOffset + 1, Complete) /\ indexOffset' = Complete
          /\ UNCHANGED <<index, partial, shown, hushed>>
      BY <2>8 DEF Poll, Consumed
    <3>2. /\ Len(entries') = Complete - indexOffset /\ Complete' = Complete
          /\ \A i \in 1 .. Complete - indexOffset : entries'[i] = index[indexOffset + i]
      <4>1. PICK end \in Int : end = Complete
        BY <2>4
      <4>2. end \in indexOffset + 1 .. Len(index) /\ entries' = SubSeq(index, indexOffset + 1, end)
        BY <2>4, <3>1, <4>1
      <4>3. /\ Len(entries') = end - indexOffset
            /\ \A i \in 1 .. end - indexOffset : entries'[i] = index[indexOffset + i]
        BY <2>4, <4>2
      <4>4. Complete' = Complete
        BY <3>1 DEF Complete
      <4>5. QED
        BY <4>1, <4>3, <4>4
    <3>3. ReadTo = indexOffset /\ ReadTo' = indexOffset
      BY <2>4, <3>1, <3>2 DEF ReadTo
    <3>4. (indexOffset <= Complete)'
      BY <2>4, <3>1, <3>2
    <3>5. \A i \in DOMAIN entries' : entries'[i] = index'[ReadTo' + i]
      BY <2>1, <2>4, <3>1, <3>2, <3>3 DEF OverlayTypes
    <3>6. ShownUpTo(ReadTo)' /\ \A n \in hushed' : n <= ReadTo'
      BY <2>3, <3>1, <3>3 DEF ShownUpTo, FromOthers
    <3>7. QED
      BY <3>4, <3>5, <3>6
  <2>9. CASE ShowEntry
    <3>1. /\ entries # << >> /\ entries' = Tail(entries)
          /\ UNCHANGED <<indexOffset, index, partial>>
      BY <2>9 DEF ShowEntry, overlayVars
    <3>2. /\ Len(entries) >= 1 /\ Len(entries') = Len(entries) - 1
          /\ Head(entries) = entries[1] /\ 1 \in DOMAIN entries
          /\ \A i \in 1 .. Len(entries) - 1 : entries'[i] = entries[i + 1]
      BY <2>4, <3>1
    <3>3. read + 1 <= Len(index) /\ Head(entries) = index[read + 1]
      BY <2>3, <2>4, <2>5, <2>6, <3>2
    <3>4. ShownUpTo(read + 1)' /\ \A n \in hushed' : n <= read + 1
      BY <2>1, <2>2, <2>3, <2>6, <2>9, <3>3, ShowsNext
    <3>5. ReadTo' = read + 1
      BY <2>4, <2>6, <3>1, <3>2 DEF ReadTo
    <3>6. (indexOffset <= Complete)'
      BY <2>3, <2>4, <3>1, <3>2 DEF Complete
    <3>7. \A i \in DOMAIN entries' : entries'[i] = index'[ReadTo' + i]
      <4>1. DOMAIN entries' = 1 .. Len(entries) - 1
        BY <2>1, <3>2 DEF OverlayTypes
      <4>2. ASSUME NEW i \in 1 .. Len(entries) - 1 PROVE entries'[i] = index[read + 1 + i]
        <5>1. i + 1 \in DOMAIN entries /\ ReadTo + (i + 1) = read + 1 + i
          BY <2>4, <2>6, <4>2
        <5>2. QED
          BY <2>3, <3>2, <5>1
      <4>3. QED
        BY <3>1, <3>5, <4>1, <4>2
    <3>8. QED
      BY <3>4, <3>5, <3>6, <3>7 DEF ShownUpTo
  <2>10. QED
    BY <2>7, <2>8, <2>9 DEF Overlay
<1>3. QED
  BY <1>1, <1>2, TypeInvCorrect, SpoilInvCorrect, PTL DEF Spec

(* The types of the log and of the overlay together: what is shown has a   *)
(* name and bytes that were sent (tailTXOverlay).                          *)
THEOREM TypeCorrect == Spec => []TypeOK
<1>1. TypeInv /\ OverlayInv => TypeOK
  BY DEF TypeInv, OverlayInv, OverlayTypes, TypeOK, Lines, Bytes
<1>2. QED
  BY <1>1, TypeInvCorrect, OverlayInvCorrect, PTL

(* Until a clear, the overlay shows what others sent, each chunk once, in  *)
(* the order of the log and never its own echo.                            *)
THEOREM OverlayFaithfulHolds == Spec => []OverlayFaithful
<1>1. TypeInv /\ OverlayInv => OverlayFaithful
  <2> SUFFICES ASSUME TypeInv, OverlayInv, clears = 0
               PROVE  \E read \in 0 .. Len(index) : ShownUpTo(read)
    BY DEF OverlayFaithful
  <2>1. /\ indexOffset <= Complete /\ Len(entries) <= indexOffset
        /\ ShownUpTo(ReadTo)
        /\ indexOffset \in Nat /\ Len(entries) \in Nat
    BY DEF OverlayInv, OverlayTypes
  <2>2. ReadTo \in 0 .. Len(index)
    BY <2>1, IndexTypes DEF ReadTo
  <2>3. QED
    BY <2>1, <2>2
<1>2. QED
  BY <1>1, TypeInvCorrect, OverlayInvCorrect, PTL
=============================================================================
