------------------------------ MODULE CaptureLog ------------------------------
(***************************************************************************)
(* From the serial port to the log files of a session: asyncCapture with   *)
(* its queue and goroutine, timedCacheWriter with the cache file and its   *)
(* index, and who else touches the two files: "sio clear", which truncates *)
(* them from another process, and the overlay of "sio shell", which tails  *)
(* the index to show what other connections sent.                          *)
(*                                                                         *)
(* A chunk is <<s, n>>, the n-th on the port, sent by s. It takes one unit *)
(* of the cache file; an index line takes one unit of the index file. A    *)
(* failed write may leave a part of what it wrote: bytes in the cache that *)
(* no line points at, or an index line without its end.                    *)
(***************************************************************************)
EXTENDS Integers, FiniteSets, Sequences

CONSTANTS
    Sources,    \* goroutines that capture chunks: handlers of connections
    Me,         \* the connection of the shell with the overlay
    Capacity,   \* asyncCaptureQueue
    MaxChunks,  \* bound: chunks that go out on the port
    MaxClears   \* bound: how often "sio clear" runs

ASSUME CaptureAssumption ==
    /\ Me \in Sources
    /\ Capacity \in Nat \ {0}
    /\ MaxChunks \in Nat
    /\ MaxClears \in Nat

VARIABLES
    pc,          \* where WriteChunk of each source is
    chunk,       \* the chunk each source has in hand
    sent,        \* chunks put on the port so far
    queue,       \* c.ch
    err,         \* c.err # nil
    chClosed,    \* close(c.ch) was called
    runner,      \* where c.run() is
    cur,         \* the chunk it writes
    at,          \* the offset it found at the end of the cache
    cache,       \* the cache file
    index,       \* the index file
    partial,     \* its last line is not complete
    closer,      \* where server.close() and the deferred closes are
    crashed,     \* the worker process has panicked
    clearing,    \* where "sio clear" is
    clears,      \* how often it ran
    indexOffset, \* of tailTXOverlay
    entries,     \* what the current poll has still to show
    shown,       \* lines the overlay printed
    muted,       \* the shell runs a file transfer, or one has just ended
    hushed,      \* history: which lines of the index it went by because of that
    accepted,    \* history: chunks in the order WriteChunk queued them
    written      \* history: chunks in the order they reached the cache

sourceVars  == <<pc, chunk, sent>>
queueVars   == <<queue, accepted>>
runnerVars  == <<runner, cur, at>>
clearVars   == <<clearing, clears>>
overlayVars == <<indexOffset, entries, shown, muted, hushed>>
vars == <<sourceVars, queueVars, err, chClosed, runnerVars, cache, index, partial, closer,
          crashed, clearVars, overlayVars, written>>

Chunks   == Sources \X (1 .. MaxChunks)
NoChunk  == <<Me, 0>>
Line(c, offset) == [of |-> c, at |-> offset]
Garbage  == Line(NoChunk, 0)

Init ==
    /\ pc = [s \in Sources |-> "idle"] /\ chunk = [s \in Sources |-> NoChunk] /\ sent = 0
    /\ queue = <<>> /\ accepted = <<>> /\ err = FALSE /\ chClosed = FALSE
    /\ runner = "idle" /\ cur = NoChunk /\ at = 0
    /\ cache = <<>> /\ index = <<>> /\ partial = FALSE /\ written = <<>>
    /\ closer = "running" /\ crashed = FALSE
    /\ clearing = "idle" /\ clears = 0
    /\ indexOffset = 0 /\ entries = <<>> /\ shown = <<>>
    /\ muted = FALSE /\ hushed = {}

-----------------------------------------------------------------------------
(* A source, after its bytes went out on the port: captureTXChunk, then    *)
(* asyncCapture.WriteChunk. A port that is closed takes no more bytes.     *)

Goto(s, step) == pc' = [pc EXCEPT ![s] = step]

PortWrite(s) ==
    /\ ~crashed /\ pc[s] = "idle" /\ closer = "running"
    /\ sent < MaxChunks
    /\ sent' = sent + 1
    /\ chunk' = [chunk EXCEPT ![s] = <<s, sent'>>]
    /\ Goto(s, "check")
    /\ UNCHANGED <<queueVars, err, chClosed, runnerVars, cache, index, partial, closer,
                   crashed, clearVars, overlayVars, written>>

\* An earlier failure is reported to the source, which drops the chunk.
CheckErr(s) ==
    /\ ~crashed /\ pc[s] = "check"
    /\ Goto(s, IF err THEN "idle" ELSE "sending")
    /\ chunk' = IF err THEN [chunk EXCEPT ![s] = NoChunk] ELSE chunk
    /\ UNCHANGED <<sent, queueVars, err, chClosed, runnerVars, cache, index, partial, closer,
                   crashed, clearVars, overlayVars, written>>

\* A full queue blocks the source. The forms named Slip... are slips the
\* checks must notice.
SlipHasRoom == TRUE
HasRoom     == Len(queue) < Capacity

Enqueue(s) ==
    /\ ~crashed /\ pc[s] = "sending" /\ ~chClosed
    /\ HasRoom
    /\ queue' = Append(queue, chunk[s])
    /\ accepted' = Append(accepted, chunk[s])
    /\ chunk' = [chunk EXCEPT ![s] = NoChunk]
    /\ Goto(s, "idle")
    /\ UNCHANGED <<sent, err, chClosed, runnerVars, cache, index, partial, closer,
                   crashed, clearVars, overlayVars, written>>

\* A send on a closed channel panics, also for a source that was blocked.
SendPanics(s) ==
    /\ ~crashed /\ pc[s] = "sending" /\ chClosed
    /\ crashed' = TRUE
    /\ UNCHANGED <<sourceVars, queueVars, err, chClosed, runnerVars, cache, index, partial,
                   closer, clearVars, overlayVars, written>>

-----------------------------------------------------------------------------
(* asyncCapture.run and timedCacheWriter.WriteChunk.                       *)

\* WriteChunk sends with c.mu held, and run() locks c.mu around each chunk.
SlipReceive ==
    /\ ~crashed /\ runner = "idle" /\ queue # <<>>
    /\ \A s \in Sources : pc[s] # "sending"
    /\ cur' = Head(queue)
    /\ queue' = Tail(queue)
    /\ at' = Len(cache)
    /\ runner' = "write"
    /\ UNCHANGED <<sourceVars, accepted, err, chClosed, cache, index, partial, closer,
                   crashed, clearVars, overlayVars, written>>

\* A chunk leaves the queue; the writer takes the end of the cache as its
\* offset. Until the write it is exposed to a truncation.
Receive ==
    /\ ~crashed /\ runner = "idle" /\ queue # <<>>
    /\ cur' = Head(queue)
    /\ queue' = Tail(queue)
    /\ at' = Len(cache)
    /\ runner' = "write"
    /\ UNCHANGED <<sourceVars, accepted, err, chClosed, cache, index, partial, closer,
                   crashed, clearVars, overlayVars, written>>

\* The range over a closed channel ends when the queue is empty.
SlipRunEnds == chClosed
RunEnds     == chClosed /\ queue = <<>>

RunReturns ==
    /\ ~crashed /\ runner = "idle" /\ RunEnds
    /\ runner' = "done"
    /\ UNCHANGED <<sourceVars, queueVars, err, chClosed, cur, at, cache, index, partial, closer,
                   crashed, clearVars, overlayVars, written>>

WriteData ==
    /\ ~crashed /\ runner = "write"
    /\ cache' = Append(cache, cur)
    /\ written' = Append(written, cur)
    /\ runner' = "index"
    /\ UNCHANGED <<sourceVars, queueVars, err, chClosed, cur, at, index, partial, closer,
                   crashed, clearVars, overlayVars>>

\* The line of the entry may reach a reader of the file in two parts. What an
\* earlier failure has left makes one line with it, which is no entry.
IndexBegins ==
    /\ ~crashed /\ runner = "index"
    /\ index' = IF partial THEN [index EXCEPT ![Len(index)] = Garbage]
                ELSE Append(index, Line(cur, at))
    /\ partial' = TRUE
    /\ runner' = "line"
    /\ UNCHANGED <<sourceVars, queueVars, err, chClosed, cur, at, cache, closer,
                   crashed, clearVars, overlayVars, written>>

Forget == cur' = NoChunk /\ at' = 0

\* The rest of a line whose beginning "sio clear" cut off is no entry.
IndexEnds ==
    /\ ~crashed /\ runner = "line"
    /\ index' = IF partial THEN index ELSE Append(index, Garbage)
    /\ partial' = FALSE
    /\ runner' = "idle"
    /\ Forget
    /\ UNCHANGED <<sourceVars, queueVars, err, chClosed, cache, closer,
                   crashed, clearVars, overlayVars, written>>

\* What a failed write may leave behind: a part of the chunk, or of the rest
\* of a line whose beginning was cut off. The beginning of a line stays.
LeavesPart ==
    \/ runner = "write" /\ cache' = Append(cache, NoChunk) /\ UNCHANGED <<index, partial>>
    \/ runner = "line" /\ ~partial /\ index' = Append(index, Garbage) /\ partial' = TRUE
          /\ UNCHANGED cache

\* The first error stays; run() goes on with the next chunk.
WriteFails ==
    /\ ~crashed /\ runner \in {"write", "index", "line"}
    /\ LeavesPart \/ UNCHANGED <<cache, index, partial>>
    /\ err' = TRUE
    /\ runner' = "idle"
    /\ Forget
    /\ UNCHANGED <<sourceVars, queueVars, chClosed, closer, crashed, clearVars, overlayVars,
                   written>>

Run ==
    \/ Receive \/ RunReturns
    \/ WriteData \/ IndexBegins \/ IndexEnds \/ WriteFails

-----------------------------------------------------------------------------
(* server.close(): the lease first, then the queue, which is flushed; the  *)
(* deferred closeTxOutput closes the files.                                *)

CloseLease ==
    /\ ~crashed /\ closer = "running"
    /\ closer' = "leaseClosed"
    /\ UNCHANGED <<sourceVars, queueVars, err, chClosed, runnerVars, cache, index, partial,
                   crashed, clearVars, overlayVars, written>>

CloseQueue ==
    /\ ~crashed /\ closer = "leaseClosed"
    /\ chClosed' = TRUE
    /\ closer' = "flushing"
    /\ UNCHANGED <<sourceVars, queueVars, err, runnerVars, cache, index, partial,
                   crashed, clearVars, overlayVars, written>>

CloseFiles ==
    /\ ~crashed /\ closer = "flushing"
    /\ runner = "done"
    /\ closer' = "done"
    /\ UNCHANGED <<sourceVars, queueVars, err, chClosed, runnerVars, cache, index, partial,
                   crashed, clearVars, overlayVars, written>>

-----------------------------------------------------------------------------
(* runClear truncates the cache, then the index.                           *)

ClearCache ==
    /\ clearing = "idle" /\ clears < MaxClears
    /\ cache' = <<>>
    /\ clearing' = "index"
    /\ clears' = clears + 1
    /\ UNCHANGED <<sourceVars, queueVars, err, chClosed, runnerVars, index, partial, closer,
                   crashed, overlayVars, written>>

SlipClearIndex ==
    /\ clearing = "index"
    /\ index' = index
    /\ partial' = FALSE
    /\ clearing' = "idle"
    /\ UNCHANGED <<sourceVars, queueVars, err, chClosed, runnerVars, cache, closer,
                   crashed, clears, overlayVars, written>>

ClearIndex ==
    /\ clearing = "index"
    /\ index' = <<>>
    /\ partial' = FALSE
    /\ clearing' = "idle"
    /\ UNCHANGED <<sourceVars, queueVars, err, chClosed, runnerVars, cache, closer,
                   crashed, clears, overlayVars, written>>

-----------------------------------------------------------------------------
(* tailTXOverlay: one poll reads the complete lines behind indexOffset,    *)
(* then goes through them and reads the bytes of those of another source.  *)

Complete == Len(index) - (IF partial THEN 1 ELSE 0)

\* How far a poll has read the index: to the end of the last complete line.
SlipConsumed == Len(index)
Consumed     == Complete

Poll ==
    /\ entries = <<>>
    /\ Consumed > indexOffset
    /\ entries' = SubSeq(index, indexOffset + 1, Complete)
    /\ indexOffset' = Consumed
    /\ UNCHANGED <<sourceVars, queueVars, err, chClosed, runnerVars, cache, index, partial,
                   closer, crashed, clearVars, shown, muted, hushed, written>>

\* A transfer of this shell begins, or ended shellTransferCooldown ago.
MuteChanges ==
    /\ muted' = ~muted
    /\ UNCHANGED <<sourceVars, queueVars, err, chClosed, runnerVars, cache, index, partial,
                   closer, crashed, clearVars, indexOffset, entries, shown, hushed, written>>

\* Garbage is no entry, and what was sent here is on the screen already.
FromOthers(line) == line # Garbage /\ line.of[1] # Me

\* The lines of the index before the ones the poll has still to go through.
ReadTo == indexOffset - Len(entries)

\* A line that comes up while muted is gone by for good; bytes that are no
\* longer there show nothing.
ShowEntry ==
    /\ entries # <<>>
    /\ LET line == Head(entries)
       IN /\ shown' = IF FromOthers(line) /\ ~muted /\ line.at < Len(cache)
                      THEN Append(shown, [of |-> line.of, data |-> cache[line.at + 1]])
                      ELSE shown
          /\ hushed' = IF FromOthers(line) /\ muted THEN hushed \cup {ReadTo + 1} ELSE hushed
    /\ entries' = Tail(entries)
    /\ UNCHANGED <<sourceVars, queueVars, err, chClosed, runnerVars, cache, index, partial,
                   closer, crashed, clearVars, indexOffset, muted, written>>

-----------------------------------------------------------------------------
WriteChunk(s) == CheckErr(s) \/ Enqueue(s) \/ SendPanics(s)
Shutdown      == CloseQueue \/ CloseFiles
Overlay       == Poll \/ ShowEntry

Next ==
    \/ \E s \in Sources : PortWrite(s) \/ WriteChunk(s)
    \/ Run
    \/ CloseLease \/ Shutdown
    \/ ClearCache \/ ClearIndex
    \/ Overlay \/ MuteChanges

Spec == Init /\ [][Next]_vars

(* Goroutines run, the file system answers, the overlay's ticker ticks, a  *)
(* blocked channel send is served in turn, and a command that started      *)
(* goes on. Nobody has to write, stop the worker, clear the cache, or      *)
(* begin or end a transfer.                                                *)
Fairness ==
    /\ \A s \in Sources : SF_vars(WriteChunk(s))
    /\ WF_vars(Run)
    /\ WF_vars(Shutdown)
    /\ WF_vars(ClearIndex)
    /\ WF_vars(Overlay)

FairSpec == Spec /\ Fairness

-----------------------------------------------------------------------------
LogTypes ==
    /\ pc \in [Sources -> {"idle", "check", "sending"}]
    /\ chunk \in [Sources -> Chunks \cup {NoChunk}] /\ sent \in 0 .. MaxChunks
    /\ queue \in Seq(Chunks) /\ Len(queue) <= Capacity /\ accepted \in Seq(Chunks)
    /\ err \in BOOLEAN /\ chClosed \in BOOLEAN /\ partial \in BOOLEAN /\ crashed \in BOOLEAN
    /\ runner \in {"idle", "write", "index", "line", "done"}
    /\ cur \in Chunks \cup {NoChunk} /\ at \in Nat
    /\ cache \in Seq(Chunks \cup {NoChunk}) /\ written \in Seq(Chunks)
    /\ index \in Seq([of : Chunks \cup {NoChunk}, at : Nat])
    /\ closer \in {"running", "leaseClosed", "flushing", "done"}
    /\ clearing \in {"idle", "index"} /\ clears \in 0 .. MaxClears

(* The type of every variable (asyncCapture, timedCacheWriter,             *)
(* tailTXOverlay); the queue holds at most its capacity.                   *)
TypeOK ==
    /\ LogTypes
    /\ indexOffset \in Nat
    /\ entries \in Seq([of : Chunks \cup {NoChunk}, at : Nat])
    /\ shown \in Seq([of : Chunks, data : Chunks \cup {NoChunk}])
    /\ muted \in BOOLEAN /\ hushed \subseteq Nat

(* "Close flushes the queue. Call it before closing dst." (async_capture): *)
(* when the files are closed every chunk the queue took is in the log, in  *)
(* the order it was taken, unless a write failed and was reported.         *)
FlushedOnClose ==
    closer = "done" /\ ~err => written = accepted

(* However often the log is cleared under the writer, at most one index    *)
(* entry is spoilt, one whose offset was taken before a truncation; all    *)
(* others point at their own bytes.                                        *)
PointsAtItsBytes(line) == line.at < Len(cache) /\ cache[line.at + 1] = line.of

ClearSpoilsOne ==
    clearing = "idle" =>
        Cardinality({i \in DOMAIN index : index[i] # Garbage /\ ~PointsAtItsBytes(index[i])})
            <= (IF clears = 0 THEN 0 ELSE 1)

(* Until a clear, the overlay prints what others sent, each chunk once, in *)
(* the order of the log, under the right name, and never its own echo. Of  *)
(* the lines it has gone through it has shown those and no others, but for *)
(* the ones that came up during a transfer of this shell (muted): these it *)
(* never shows, whoever sent them.                                         *)
ShownUpTo(read) ==
    \E f \in [DOMAIN shown -> 1 .. read] :
        /\ \A i, j \in DOMAIN shown : i < j => f[i] < f[j]
        /\ \A n \in 1 .. read :
              (FromOthers(index[n]) /\ n \notin hushed) <=> \E i \in DOMAIN shown : f[i] = n
        /\ \A i \in DOMAIN shown :
              shown[i].of = index[f[i]].of /\ shown[i].data = index[f[i]].of

OverlayFaithful ==
    clears = 0 => \E read \in 0 .. Len(index) : ShownUpTo(read)

(* A source is never blocked for good, whether the disk is slow, full or   *)
(* broken: run() drains the queue even when every write fails.             *)
SourcesReturn ==
    \A s \in Sources : pc[s] # "idle" ~> (pc[s] = "idle" \/ crashed)

Listed(c) == \E i \in 1 .. Complete : index[i].of = c /\ PointsAtItsBytes(index[i])
Shown(c)  == \E i \in DOMAIN shown : shown[i].of = c
Hushed(c) == \E i \in hushed : index[i].of = c

(* What another source sent and the log has is shown, unless it is cleared *)
(* before the shell gets to it, or comes up during a transfer of the shell.*)
OverlayCatchesUp ==
    \A c \in Chunks : c[1] # Me /\ Listed(c) ~> (clears > 0 \/ Shown(c) \/ Hushed(c))

(* "overlays other senders' traffic as tagged lines" (StreamShell), also   *)
(* the traffic after a clear or during a transfer, as long as the log has  *)
(* it: not so.                                                             *)
OverlayShowsOthers ==
    \A c \in Chunks : c[1] # Me /\ Listed(c) ~> (Shown(c) \/ ~Listed(c))

(* "When the queue is full, Write blocks rather than drop log data"        *)
(* (asyncCapture): the worker does not die with a chunk it has sent and    *)
(* not logged.                                                             *)
NoChunkDies == ~crashed
=============================================================================
