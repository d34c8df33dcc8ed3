------------------------------ MODULE PortLease ------------------------------
(***************************************************************************)
(* portLease, the object of a session worker that owns the physical serial *)
(* port and can lend it to another program, with everyone who uses it: the *)
(* read loop, the connections that ask for a release or an acquire, the    *)
(* connections that write to the port, and shutdown.                       *)
(*                                                                         *)
(* A critical section of portLease.mu is one step. What the code does      *)
(* outside the lock (open, Close, Read, the wait for idle, the marker      *)
(* file) is a step of its own, so every interleaving of the goroutines     *)
(* between two critical sections is explored.                              *)
(*                                                                         *)
(* A SerialPort value is a number: the n-th handle the worker opened.      *)
(***************************************************************************)
EXTENDS Naturals

CONSTANTS
    Requests,   \* control connections asking for a release or an acquire
    Writers,    \* control connections forwarding data to the port
    NoOne,      \* the holder of a free writeMu
    SlowPort,   \* a read, or a Close, may outlast portLeaseReleaseWait
    MaxOpens    \* bound: how often the worker opens the port

ASSUME ActorsAssumption ==
    /\ Requests \cap Writers = {}
    /\ NoOne \notin Requests \cup Writers

ASSUME BoundsAssumption ==
    /\ SlowPort \in BOOLEAN
    /\ MaxOpens \in Nat \ {0}

NoPort  == 0
Handles == 0 .. MaxOpens

VARIABLES
    \* the fields of portLease
    port,       \* l.port, NoPort for nil
    released,   \* l.released
    closed,     \* l.closed
    idleDone,   \* l.idleDone: the current l.idle channel is closed
    \* the device
    open,       \* handles of the worker the operating system has open
    opens,      \* handles opened so far
    borrowed,   \* another program has the port open
    \* the read loop, copyPortToClients
    reader,     \* where it is
    readPort,   \* the handle it reads from
    readFailed, \* the outcome of the Read that just returned
    retiring,   \* the handle it is closing
    \* the request and write handlers; all of them take sessionServer.writeMu
    writeMu,    \* who holds it
    pc,         \* where the handler of each connection is
    newPort,    \* the handle an acquire has opened and not installed yet
    writePort,  \* the handle the write in progress uses
    \* shutdown
    closer,     \* where lease.close() is
    closePort,  \* the handle it closes
    \* the file port.released, written by the onChange callback
    marker

leaseVars  == <<port, released, closed, idleDone>>
deviceVars == <<open, opens, borrowed>>
readerVars == <<reader, readPort, readFailed, retiring>>
serverVars == <<writeMu, pc, newPort, writePort>>
closeVars  == <<closer, closePort>>
vars == <<leaseVars, deviceVars, readerVars, serverVars, closeVars, marker>>

Init ==
    /\ port = 1 /\ released = FALSE /\ closed = FALSE /\ idleDone = FALSE
    /\ open = {1} /\ opens = 1 /\ borrowed = FALSE
    /\ reader = "top" /\ readPort = NoPort /\ readFailed = FALSE /\ retiring = NoPort
    /\ writeMu = NoOne /\ pc = [c \in Requests \cup Writers |-> "idle"]
    /\ newPort = NoPort /\ writePort = NoPort
    /\ closer = "running" /\ closePort = NoPort
    /\ marker = FALSE

-----------------------------------------------------------------------------
(* current(). The form above it is a slip the checks must notice, as are   *)
(* the other definitions named Slip...                                     *)
SlipCurrent == IF closed THEN NoPort ELSE port
current     == IF closed \/ released THEN NoPort ELSE port

\* cond.Broadcast(): a read loop parked in cond.Wait looks at the lease again.
SlipBroadcast == reader' = reader
Broadcast     == reader' = IF reader = "parked" THEN "top" ELSE reader

\* finishIdleLocked() closes the channel l.idle; release() waits for it.
SignalIdle == idleDone' = TRUE
SlipIdle       == TRUE
Idle           == idleDone

\* notify(released) runs the worker's onChange callback: the marker file.
SlipNotify(lent) == marker' = (marker \/ lent)
Notify(lent)     == marker' = lent

-----------------------------------------------------------------------------
(* The read loop. waitPort() is one step per critical section. *)

WaitPortClosed ==
    /\ reader = "top" /\ closed
    /\ reader' = "exit"
    /\ UNCHANGED <<leaseVars, deviceVars, readPort, readFailed, retiring,
                   serverVars, closeVars, marker>>

\* A released port that is still open is closed between two reads.
WaitPortCloses ==
    /\ reader = "top" /\ ~closed /\ released /\ port # NoPort
    /\ retiring' = port
    /\ port' = NoPort
    /\ reader' = "closing"
    /\ UNCHANGED <<released, closed, idleDone, deviceVars, readPort, readFailed,
                   serverVars, closeVars, marker>>

WaitPortParks ==
    /\ reader = "top" /\ ~closed /\ released /\ port = NoPort
    /\ reader' = "parked"
    /\ UNCHANGED <<leaseVars, deviceVars, readPort, readFailed, retiring,
                   serverVars, closeVars, marker>>

\* A nil port means "closed" to the read loop, which then returns.
WaitPortReturns ==
    /\ reader = "top" /\ ~closed /\ ~released
    /\ readPort' = port
    /\ reader' = IF port = NoPort THEN "exit" ELSE "reading"
    /\ UNCHANGED <<leaseVars, deviceVars, readFailed, retiring,
                   serverVars, closeVars, marker>>

\* port.Read returns data, nothing (its timeout) or an error; always an error
\* once the handle is closed.
ReadReturns ==
    /\ reader = "reading"
    /\ readFailed' \in BOOLEAN
    /\ readPort \notin open => readFailed'
    /\ reader' = "read"
    /\ UNCHANGED <<leaseVars, deviceVars, readPort, retiring,
                   serverVars, closeVars, marker>>

\* retire(port), its three answers.
RetireCloses ==
    /\ reader = "read" /\ ~closed /\ released /\ port = readPort
    /\ retiring' = port
    /\ port' = NoPort
    /\ reader' = "closing"
    /\ UNCHANGED <<released, closed, idleDone, deviceVars, readPort, readFailed,
                   serverVars, closeVars, marker>>

RetireClosed ==
    /\ reader = "read" /\ closed
    /\ reader' = "exit"
    /\ UNCHANGED <<leaseVars, deviceVars, readPort, readFailed, retiring,
                   serverVars, closeVars, marker>>

RetireKeeps ==
    /\ reader = "read" /\ ~closed /\ ~(released /\ port = readPort)
    /\ reader' = IF readFailed THEN "exit" ELSE "top"
    /\ UNCHANGED <<leaseVars, deviceVars, readPort, readFailed, retiring,
                   serverVars, closeVars, marker>>

\* port.Close() of waitPort or retire, outside the lock.
CloseRetired ==
    /\ reader = "closing"
    /\ open' = open \ {retiring}
    /\ reader' = "closed"
    /\ UNCHANGED <<leaseVars, opens, borrowed, readPort, readFailed, retiring,
                   serverVars, closeVars, marker>>

\* finishIdle() signals whatever channel l.idle is by now.
FinishIdle ==
    /\ reader = "closed"
    /\ SignalIdle
    /\ retiring' = NoPort
    /\ reader' = "top"
    /\ UNCHANGED <<port, released, closed, deviceVars, readPort, readFailed,
                   serverVars, closeVars, marker>>

ReadLoop ==
    \/ WaitPortClosed \/ WaitPortCloses \/ WaitPortParks \/ WaitPortReturns
    \/ ReadReturns \/ RetireCloses \/ RetireClosed \/ RetireKeeps
    \/ CloseRetired \/ FinishIdle

-----------------------------------------------------------------------------
(* releasePort(conn) -> release(), under writeMu. A release of a closed or *)
(* already released lease returns at once and changes nothing.             *)

Release(r) ==
    /\ pc[r] = "idle" /\ writeMu = NoOne
    /\ ~closed /\ ~released
    /\ released' = TRUE
    /\ Broadcast
    /\ writeMu' = r
    /\ pc' = [pc EXCEPT ![r] = "relWait"]
    /\ UNCHANGED <<port, closed, idleDone, deviceVars, readPort, readFailed,
                   retiring, newPort, writePort, closeVars, marker>>

ReleaseIdle(r) ==
    /\ pc[r] = "relWait" /\ Idle
    /\ pc' = [pc EXCEPT ![r] = "relNotify"]
    /\ UNCHANGED <<leaseVars, deviceVars, readerVars, writeMu, newPort, writePort,
                   closeVars, marker>>

\* The wait ran out: the client gets an error, the lease stays released.
ReleaseTimeout(r) ==
    /\ pc[r] = "relWait" /\ SlowPort
    /\ writeMu' = NoOne
    /\ pc' = [pc EXCEPT ![r] = "idle"]
    /\ UNCHANGED <<leaseVars, deviceVars, readerVars, newPort, writePort,
                   closeVars, marker>>

ReleaseNotify(r) ==
    /\ pc[r] = "relNotify"
    /\ Notify(TRUE)
    /\ writeMu' = NoOne
    /\ pc' = [pc EXCEPT ![r] = "idle"]
    /\ UNCHANGED <<leaseVars, deviceVars, readerVars, newPort, writePort, closeVars>>

-----------------------------------------------------------------------------
(* acquirePort(conn) -> acquire(), under writeMu. An acquire of a closed   *)
(* or open lease returns at once and changes nothing.                      *)

Acquire(r) ==
    /\ pc[r] = "idle" /\ writeMu = NoOne
    /\ ~closed /\ released
    /\ writeMu' = r
    /\ pc' = [pc EXCEPT ![r] = "acqOpen"]
    /\ UNCHANGED <<leaseVars, deviceVars, readerVars, newPort, writePort,
                   closeVars, marker>>

\* Serial ports are exclusive: open succeeds only when nobody has the port.
AcquireOpens(r) ==
    /\ pc[r] = "acqOpen"
    /\ open = {} /\ ~borrowed
    /\ opens < MaxOpens
    /\ opens' = opens + 1
    /\ open' = {opens'}
    /\ newPort' = opens'
    /\ pc' = [pc EXCEPT ![r] = "acqInstall"]
    /\ UNCHANGED <<leaseVars, borrowed, readerVars, writeMu, writePort, closeVars, marker>>

AcquireFails(r) ==
    /\ pc[r] = "acqOpen"
    /\ writeMu' = NoOne
    /\ pc' = [pc EXCEPT ![r] = "idle"]
    /\ UNCHANGED <<leaseVars, deviceVars, readerVars, newPort, writePort,
                   closeVars, marker>>

AcquireInstalls(r) ==
    /\ pc[r] = "acqInstall" /\ ~closed
    /\ port' = newPort
    /\ newPort' = NoPort
    /\ released' = FALSE
    /\ idleDone' = FALSE
    /\ Broadcast
    /\ pc' = [pc EXCEPT ![r] = "acqNotify"]
    /\ UNCHANGED <<closed, deviceVars, readPort, readFailed, retiring, writeMu,
                   writePort, closeVars, marker>>

\* The lease was closed while the port was being opened.
SlipAcquireDrops(r) ==
    /\ pc[r] = "acqInstall" /\ closed
    /\ newPort' = NoPort
    /\ writeMu' = NoOne
    /\ pc' = [pc EXCEPT ![r] = "idle"]
    /\ UNCHANGED <<leaseVars, deviceVars, readerVars, writePort, closeVars, marker>>

AcquireDrops(r) ==
    /\ pc[r] = "acqInstall" /\ closed
    /\ open' = open \ {newPort}
    /\ newPort' = NoPort
    /\ writeMu' = NoOne
    /\ pc' = [pc EXCEPT ![r] = "idle"]
    /\ UNCHANGED <<leaseVars, opens, borrowed, readerVars, writePort, closeVars, marker>>

AcquireNotify(r) ==
    /\ pc[r] = "acqNotify"
    /\ Notify(FALSE)
    /\ writeMu' = NoOne
    /\ pc' = [pc EXCEPT ![r] = "idle"]
    /\ UNCHANGED <<leaseVars, deviceVars, readerVars, newPort, writePort, closeVars>>

\* What a request does once it holds writeMu.
RequestProceeds(r) ==
    \/ ReleaseIdle(r) \/ ReleaseTimeout(r) \/ ReleaseNotify(r)
    \/ AcquireOpens(r) \/ AcquireFails(r)
    \/ AcquireInstalls(r) \/ AcquireDrops(r) \/ AcquireNotify(r)

Request(r) == Release(r) \/ Acquire(r) \/ RequestProceeds(r)

-----------------------------------------------------------------------------
(* writeSerial(data), under writeMu; a write to a released port is dropped *)
(* and changes nothing.                                                    *)

Write(w) ==
    /\ pc[w] = "idle" /\ writeMu = NoOne
    /\ current # NoPort
    /\ writePort' = current
    /\ writeMu' = w
    /\ pc' = [pc EXCEPT ![w] = "writing"]
    /\ UNCHANGED <<leaseVars, deviceVars, readerVars, newPort, closeVars, marker>>

WriteReturns(w) ==
    /\ pc[w] = "writing"
    /\ writePort' = NoPort
    /\ writeMu' = NoOne
    /\ pc' = [pc EXCEPT ![w] = "idle"]
    /\ UNCHANGED <<leaseVars, deviceVars, readerVars, newPort, closeVars, marker>>

-----------------------------------------------------------------------------
(* close(): a stop request, or RunSessionServer returning. It does not     *)
(* take writeMu.                                                           *)

Close ==
    /\ closer = "running"
    /\ closed' = TRUE
    /\ closePort' = port
    /\ port' = NoPort
    /\ SignalIdle
    /\ Broadcast
    /\ closer' = "closing"
    /\ UNCHANGED <<released, deviceVars, readPort, readFailed, retiring,
                   serverVars, marker>>

CloseHandle ==
    /\ closer = "closing"
    /\ open' = open \ {closePort}
    /\ closePort' = NoPort
    /\ closer' = "done"
    /\ UNCHANGED <<leaseVars, opens, borrowed, readerVars, serverVars, marker>>

-----------------------------------------------------------------------------
(* The other program. *)

Borrow ==
    /\ open = {} /\ ~borrowed
    /\ borrowed' = TRUE
    /\ UNCHANGED <<leaseVars, open, opens, readerVars, serverVars, closeVars, marker>>

GiveBack ==
    /\ borrowed
    /\ borrowed' = FALSE
    /\ UNCHANGED <<leaseVars, open, opens, readerVars, serverVars, closeVars, marker>>

-----------------------------------------------------------------------------
Next ==
    \/ ReadLoop
    \/ \E r \in Requests : Request(r)
    \/ \E w \in Writers : Write(w) \/ WriteReturns(w)
    \/ Close \/ CloseHandle
    \/ Borrow \/ GiveBack

Spec == Init /\ [][Next]_vars

(* Goroutines are scheduled, and lock holders make progress. Nobody has to *)
(* send a request, stop the worker or run the other program, but a read    *)
(* loop that returned ends RunSessionServer, whose deferred calls close    *)
(* the lease. A read comes back by itself only on a port that honours the  *)
(* read timeout; on any port, it comes back once the handle is closed.     *)
Fairness ==
    /\ WF_vars(ReadLoop /\ (SlowPort => reader # "reading" \/ readPort \notin open))
    /\ \A r \in Requests : WF_vars(RequestProceeds(r))
    /\ \A w \in Writers : WF_vars(WriteReturns(w))
    /\ WF_vars(reader = "exit" /\ Close)
    /\ WF_vars(CloseHandle)

FairSpec == Spec /\ Fairness

-----------------------------------------------------------------------------
ReaderSteps  == {"top", "parked", "reading", "read", "closing", "closed", "exit"}
RequestSteps == {"idle", "relWait", "relNotify", "acqOpen", "acqInstall", "acqNotify"}
WriterSteps  == {"idle", "writing"}

\* The type of every variable (the fields of portLease and sessionServer);
\* the read loop never calls Read or Close on a nil port.
TypeOK ==
    /\ port \in Handles /\ released \in BOOLEAN /\ closed \in BOOLEAN /\ idleDone \in BOOLEAN
    /\ open \subseteq 1 .. MaxOpens /\ opens \in Handles /\ borrowed \in BOOLEAN
    /\ reader \in ReaderSteps /\ readPort \in Handles
    /\ readFailed \in BOOLEAN /\ retiring \in Handles
    /\ writeMu \in Requests \cup Writers \cup {NoOne}
    /\ pc \in [Requests \cup Writers -> RequestSteps \cup WriterSteps]
    /\ \A r \in Requests : pc[r] \in RequestSteps
    /\ \A w \in Writers : pc[w] \in WriterSteps
    /\ newPort \in Handles /\ writePort \in Handles
    /\ closer \in {"running", "closing", "done"} /\ closePort \in Handles
    /\ marker \in BOOLEAN
    /\ reader \in {"reading", "read"} => readPort # NoPort
    /\ reader = "closing" => retiring # NoPort

(* Until shutdown no read and no write has its handle closed under it: a   *)
(* release waits for the write in flight (writeSerial takes writeMu) and   *)
(* the read loop closes the port only between its own reads.               *)
NoUseAfterClose ==
    ~closed =>
        /\ reader = "reading" => readPort \in open
        /\ \A w \in Writers : pc[w] = "writing" => writePort \in open

(* Whoever has to close a handle still knows it: an acquire that follows a *)
(* timed-out release, or that races shutdown, loses no open handle.        *)
NoHandleLeak ==
    open \subseteq {port, retiring, newPort, closePort}

(* A port the marker calls released is one the worker has really closed,   *)
(* apart from the handle an acquire is about to install. This is the point *)
(* of closing the port in the read loop, where no read is pending.         *)
ReleasedPortIsFree ==
    marker /\ released /\ ~closed => open \subseteq {newPort}

(* Between requests the marker file says what the lease is, so sio status, *)
(* send and ask may trust it.                                              *)
MarkerAtRest ==
    writeMu = NoOne /\ ~closed => (marker <=> released)

(* A session whose read loop has closed the port and waits for an acquire, *)
(* with no request under way, has its marker: "the marker a session worker *)
(* creates while it holds the serial port closed" (session/state.go).      *)
LentIsMarked ==
    reader = "parked" /\ writeMu = NoOne /\ ~closed => marker

(* A release the client was told is done leaves no read loop on the        *)
(* device: "A release closes the handle so another program can open it"    *)
(* (the comment of portLease).                                             *)
DoneMeansClosed ==
    \A r \in Requests : pc[r] = "relNotify" /\ ~closed => open = {}

(* On a prompt port everybody outside the worker may believe what it says. *)
LeaseHonest == ReleasedPortIsFree /\ MarkerAtRest /\ DoneMeansClosed

(* Handles, on any port: none is closed under its user and none is lost.   *)
HandlesSafe == NoUseAfterClose /\ NoHandleLeak

(* No lost wakeup: a parked read loop goes on after an acquire (it reads   *)
(* the new handle) and after a close (it returns).                         *)
ReadLoopWakes ==
    (~released \/ closed) ~> reader # "parked"

(* A release or acquire never holds writeMu for ever: it is answered.      *)
RequestsFinish ==
    \A r \in Requests : pc[r] # "idle" ~> pc[r] = "idle"

(* Nobody waits for ever for the lease.                                    *)
EveryoneProceeds == ReadLoopWakes /\ RequestsFinish

(* When the worker shuts down, whatever it was doing, the device is closed *)
(* in the end: by close(), by the read loop or by the acquire it raced.    *)
PortFreedAtEnd ==
    closed ~> open = {}

(* With prompt ports the lease implements the ownership protocol: let go,  *)
(* then say so; take back, then say so.                                    *)
Ownership == INSTANCE PortOwnership WITH
    holds <- open \ {newPort} # {},
    lent  <- marker,
    shut  <- closed

LeaseImplementsOwnership == Ownership!OwnershipSpec

-----------------------------------------------------------------------------
(* The inductive invariants behind the theorems of PortLeaseProofs.        *)

\* writeMu is held exactly by the connection that is past its first step.
MutexInv ==
    \A c \in Requests \cup Writers : (writeMu = c) <=> (pc[c] # "idle")

\* Handles are numbered in the order they are opened, and each is known
\* under one name only.
HandleInv ==
    /\ open \subseteq 1 .. opens
    /\ {port, newPort, retiring, closePort, readPort, writePort} \subseteq 0 .. opens
    /\ newPort # NoPort =>
          /\ newPort \in open /\ port = NoPort
          /\ newPort \notin {retiring, closePort, readPort, writePort}
    /\ port # NoPort => port \in open /\ port \notin {retiring, closePort}
    /\ open \subseteq {port, retiring, newPort, closePort}
    /\ \A r \in Requests : pc[r] = "acqInstall" => newPort # NoPort
    /\ newPort # NoPort => \E r \in Requests : pc[r] = "acqInstall"

LeaseInv ==
    /\ ~released /\ ~closed => port # NoPort
    /\ closed => port = NoPort /\ idleDone
    /\ closed <=> closer # "running"
    /\ closePort # NoPort => closer = "closing"
    /\ reader \notin {"closing", "closed"} => retiring = NoPort
    /\ reader = "closing" => retiring # NoPort
    /\ reader = "closed" => retiring \notin open
    /\ reader \in {"reading", "read"} => readPort # NoPort
    /\ reader = "reading" /\ ~closed => readPort \in open
    /\ \A r \in Requests : pc[r] \in {"acqOpen", "acqInstall"} => released
    /\ \A w \in Writers :
          pc[w] = "writing" /\ ~closed => ~released /\ writePort = port

SafeInv == MutexInv /\ HandleInv /\ LeaseInv

(* On a prompt port only: idle means the handle is closed, and the marker  *)
(* follows the lease.                                                      *)
PromptInv ==
    ~closed =>
        /\ idleDone => released /\ port = NoPort /\ reader \in {"top", "parked", "exit"}
        /\ reader \in {"closing", "closed"} =>
              port = NoPort /\ \E r \in Requests : pc[r] = "relWait"
        /\ \A r \in Requests :
              /\ pc[r] = "relWait" => released /\ ~marker
              /\ pc[r] = "relNotify" => idleDone /\ ~marker
              /\ pc[r] \in {"acqOpen", "acqInstall"} => idleDone /\ marker
              /\ pc[r] = "acqNotify" => ~released /\ ~idleDone /\ marker
        /\ ~(\E r \in Requests : pc[r] # "idle") =>
              (marker <=> released) /\ (idleDone <=> released)
=============================================================================
