---------------------------- MODULE SessionServer ----------------------------
(***************************************************************************)
(* The connections of a session worker: sessionServer with its client set, *)
(* the file transfer claim and writeMu. A connection has one handler       *)
(* goroutine (copyClientToPort); one goroutine reads the port and          *)
(* broadcasts (copyPortToClients); RunSessionServer closes everything on   *)
(* its way out. What is captured to the cache files is in CaptureLog.      *)
(*                                                                         *)
(* The port lease appears as two booleans, lent and down, which is all its *)
(* callers see of it through current(); PortLease models the rest. Bytes   *)
(* have no content here: a chunk is a step of the handler that carries it. *)
(* A connection that is gone may connect again: a new connection under the *)
(* same name, once nothing refers to the old one.                          *)
(***************************************************************************)
EXTENDS Naturals, FiniteSets

CONSTANTS
    Clients,    \* control connections
    NoOne       \* no owner, no lock holder

ASSUME ServerAssumption == NoOne \notin Clients

VARIABLES
    clients,   \* s.clients
    up,        \* the connection can be read and written
    pc,        \* where the handler of each connection is
    claimed,   \* its local variable claimed
    owner,     \* s.claim.owner
    writeMu,   \* who holds s.writeMu
    lent,      \* the lease is released: current() is nil
    down,      \* the lease is closed: current() is nil
    reader,    \* where copyPortToClients is
    targets,   \* connections the current broadcast has still to write to
    closer,    \* where RunSessionServer's way out is
    stray      \* history: chunks a connection has put on the port while
               \* another one owned it, since that claim was granted (0..2)

connVars    == <<clients, up, pc, claimed>>
claimVars   == <<owner, stray>>
leaseVars   == <<lent, down>>
readerVars  == <<reader, targets>>
vars == <<connVars, claimVars, writeMu, leaseVars, readerVars, closer>>

Init ==
    /\ clients = {}
    /\ up = [c \in Clients |-> FALSE]
    /\ pc = [c \in Clients |-> "none"]
    /\ claimed = [c \in Clients |-> FALSE]
    /\ owner = NoOne
    /\ stray = [c \in Clients |-> 0]
    /\ writeMu = NoOne
    /\ lent = FALSE /\ down = FALSE
    /\ reader = "read" /\ targets = {}
    /\ closer = "running"

-----------------------------------------------------------------------------
(* portClaim. The forms named Slip... are slips the checks must notice.    *)

SlipAllows(c) == TRUE
Allows(c)     == owner \in {NoOne, c}          \* allows(conn)

\* release(conn): only the owner's own departure ends a claim.
SlipReleaseClaim(c) == owner' = owner
ReleaseClaim(c)     == owner' = IF owner = c THEN NoOne ELSE owner

Goto(c, step) == pc' = [pc EXCEPT ![c] = step]

\* writeMu.Lock() succeeds. Every holder frees it in the step that ends its
\* critical section.
CanLock == writeMu = NoOne

\* current() == nil
Closed == lent \/ down

-----------------------------------------------------------------------------
(* acceptClients, addClient; the other end may hang up at any time.        *)

Connect(c) ==
    /\ pc[c] = "none" /\ c \notin targets
    /\ closer # "done"
    /\ clients' = clients \cup {c}
    /\ up' = [up EXCEPT ![c] = TRUE]
    /\ Goto(c, "request")
    /\ UNCHANGED <<claimed, claimVars, writeMu, leaseVars, readerVars, closer>>

HangUp(c) ==
    /\ up[c]
    /\ up' = [up EXCEPT ![c] = FALSE]
    /\ UNCHANGED <<clients, pc, claimed, claimVars, writeMu, leaseVars, readerVars,
                   closer>>

\* readRequest: the first bytes say what the connection is for.
ReadRequest(c) ==
    /\ pc[c] = "request"
    /\ \/ up[c] /\ \E step \in {"forward", "claim", "release", "acquire"} : Goto(c, step)
       \/ ~up[c] /\ Goto(c, "leave")
    /\ UNCHANGED <<clients, up, claimed, claimVars, writeMu, leaseVars, readerVars,
                   closer>>

\* conn.Read in the loop of copyClientToPort.
ReadConn(c) ==
    /\ pc[c] = "read"
    /\ Goto(c, IF up[c] THEN "forward" ELSE "leave")
    /\ UNCHANGED <<clients, up, claimed, claimVars, writeMu, leaseVars, readerVars,
                   closer>>

-----------------------------------------------------------------------------
(* The claim: answerClaim takes or refuses it and writes the answer, all   *)
(* under writeMu. The write has no deadline: a peer that does not read may *)
(* have left no room for it.                                               *)

SlipClaimTaken(c) ==
    /\ pc[c] = "claim"
    /\ Allows(c)
    /\ owner' = c
    /\ stray' = [d \in Clients |-> 0]
    /\ writeMu' = c
    /\ Goto(c, "granting")
    /\ UNCHANGED <<clients, up, claimed, leaseVars, readerVars, closer>>

ClaimTaken(c) ==
    /\ pc[c] = "claim" /\ CanLock
    /\ Allows(c)
    /\ owner' = c
    /\ stray' = [d \in Clients |-> 0]
    /\ writeMu' = c
    /\ Goto(c, "granting")
    /\ UNCHANGED <<clients, up, claimed, leaseVars, readerVars, closer>>

ClaimBusy(c) ==
    /\ pc[c] = "claim" /\ CanLock
    /\ ~Allows(c)
    /\ writeMu' = c
    /\ Goto(c, "refusing")
    /\ UNCHANGED <<clients, up, claimed, claimVars, leaseVars, readerVars, closer>>

\* The answer is written, or the write fails, which nobody looks at.
Granted(c) ==
    /\ pc[c] = "granting"
    /\ writeMu' = NoOne
    /\ claimed' = [claimed EXCEPT ![c] = TRUE]
    /\ \E step \in {"read", "forward"} : Goto(c, step)
    /\ UNCHANGED <<clients, up, claimVars, leaseVars, readerVars, closer>>

Refused(c) ==
    /\ pc[c] = "refusing"
    /\ writeMu' = NoOne
    /\ Goto(c, "leave")
    /\ UNCHANGED <<clients, up, claimed, claimVars, leaseVars, readerVars, closer>>

-----------------------------------------------------------------------------
(* releasePort and acquirePort. The wait of a release for the read loop,   *)
(* and the open of an acquire, happen under writeMu.                       *)

ReleaseStarts(c) ==
    /\ pc[c] = "release" /\ CanLock
    /\ Allows(c) /\ ~Closed
    /\ lent' = TRUE
    /\ writeMu' = c
    /\ Goto(c, "lending")
    /\ UNCHANGED <<clients, up, claimed, claimVars, down, readerVars, closer>>

\* A transfer owns the port, the lease is closed, or there is nothing to do.
ReleaseRefused(c) ==
    /\ pc[c] = "release" /\ CanLock
    /\ ~Allows(c) \/ Closed
    /\ Goto(c, "leave")
    /\ UNCHANGED <<clients, up, claimed, claimVars, writeMu, leaseVars, readerVars,
                   closer>>

\* The answer, and the notice to the others when the port was released.
ReleaseEnds(c) ==
    /\ pc[c] = "lending"
    /\ writeMu' = NoOne
    /\ Goto(c, "leave")
    /\ UNCHANGED <<clients, up, claimed, claimVars, leaseVars, readerVars,
                   closer>>

AcquireStarts(c) ==
    /\ pc[c] = "acquire" /\ CanLock
    /\ IF lent /\ ~down
       THEN writeMu' = c /\ Goto(c, "opening")
       ELSE writeMu' = writeMu /\ Goto(c, "leave")
    /\ UNCHANGED <<clients, up, claimed, claimVars, leaseVars, readerVars,
                   closer>>

\* The open may fail, and the lease may have been closed meanwhile.
AcquireEnds(c) ==
    /\ pc[c] = "opening"
    /\ lent' \in {lent, FALSE}
    /\ down => lent' = lent
    /\ writeMu' = NoOne
    /\ Goto(c, "leave")
    /\ UNCHANGED <<clients, up, claimed, claimVars, down, readerVars, closer>>

-----------------------------------------------------------------------------
(* forward(data): the claim is checked first, writeMu is taken later.      *)

ForwardChecks(c) ==
    /\ pc[c] = "forward"
    /\ Goto(c, IF Allows(c) THEN "checked" ELSE "read")
    /\ UNCHANGED <<clients, up, claimed, claimVars, writeMu, leaseVars, readerVars,
                   closer>>

\* writeSerial: a write to a closed port is dropped.
WriteDropped(c) ==
    /\ pc[c] = "checked" /\ CanLock
    /\ Closed
    /\ Goto(c, "read")
    /\ UNCHANGED <<clients, up, claimed, claimVars, writeMu, leaseVars, readerVars,
                   closer>>

WriteStarts(c) ==
    /\ pc[c] = "checked" /\ CanLock
    /\ ~Closed
    /\ writeMu' = c
    /\ stray' = [stray EXCEPT ![c] = IF owner \in {NoOne, c} \/ @ = 2
                                            THEN @ ELSE @ + 1]
    /\ Goto(c, "writing")
    /\ UNCHANGED <<clients, up, claimed, owner, leaseVars, readerVars, closer>>

\* A failed write, or a failed capture of what was written, ends the handler.
WriteEnds(c) ==
    /\ pc[c] = "writing"
    /\ writeMu' = NoOne
    /\ \E step \in {"read", "leave"} : Goto(c, step)
    /\ UNCHANGED <<clients, up, claimed, claimVars, leaseVars, readerVars,
                   closer>>

-----------------------------------------------------------------------------
(* copyPortToClients and broadcast.                                        *)

\* Read returned data and retire() kept the port; or the loop returns.
ReadPort ==
    /\ reader = "read"
    /\ reader' \in (IF down THEN {"exit"} ELSE IF lent THEN {"read"} ELSE {"route", "exit"})
    /\ UNCHANGED <<connVars, claimVars, writeMu, leaseVars, targets, closer>>

\* claim.current(): the owner alone gets the chunk ...
RouteToOwner ==
    /\ reader = "route" /\ owner # NoOne
    /\ targets' = {owner}
    /\ reader' = "send"
    /\ UNCHANGED <<connVars, claimVars, writeMu, leaseVars, closer>>

\* ... or, in two steps, every connection of the moment.
RouteToAll ==
    /\ reader = "route" /\ owner = NoOne
    /\ reader' = "snapshot"
    /\ UNCHANGED <<connVars, claimVars, writeMu, leaseVars, targets, closer>>

Snapshot ==
    /\ reader = "snapshot"
    /\ targets' = clients
    /\ reader' = "send"
    /\ UNCHANGED <<connVars, claimVars, writeMu, leaseVars, closer>>

Send(c) ==
    /\ reader = "send" /\ c \in targets
    /\ up[c]
    /\ targets' = targets \ {c}
    /\ UNCHANGED <<connVars, claimVars, writeMu, leaseVars, reader, closer>>

\* A failed Write removes the client: out of the set, out of the claim, closed.
SendFails(c) ==
    /\ reader = "send" /\ c \in targets
    /\ ~up[c]
    /\ clients' = clients \ {c}
    /\ ReleaseClaim(c)
    /\ targets' = targets \ {c}
    /\ UNCHANGED <<up, pc, claimed, stray, writeMu, leaseVars, reader, closer>>

\* The chunk is captured next; an error there ends the loop.
Sent ==
    /\ reader = "send" /\ targets = {}
    /\ reader' \in {"read", "exit"}
    /\ UNCHANGED <<connVars, claimVars, writeMu, leaseVars, targets, closer>>

ReadLoop ==
    \/ ReadPort \/ RouteToOwner \/ RouteToAll \/ Snapshot
    \/ \E c \in Clients : Send(c) \/ SendFails(c)
    \/ Sent

-----------------------------------------------------------------------------
(* The deferred end of a handler: removeClient(conn), then the notice.     *)

Leave(c) ==
    /\ pc[c] = "leave"
    /\ clients' = clients \ {c}
    /\ Goto(c, "removed")
    /\ UNCHANGED <<up, claimed, claimVars, writeMu, leaseVars, readerVars, closer>>

\* claim.release(conn) and conn.Close().
Removed(c) ==
    /\ pc[c] = "removed"
    /\ ReleaseClaim(c)
    /\ up' = [up EXCEPT ![c] = FALSE]
    /\ Goto(c, IF claimed[c] THEN "notice" ELSE "none")
    /\ stray' = [stray EXCEPT ![c] = 0]
    /\ UNCHANGED <<clients, claimed, writeMu, leaseVars, readerVars, closer>>

\* noticeOthers(conn, transferReleaseNotice)
NoticeOthers(c) ==
    /\ pc[c] = "notice"
    /\ claimed' = [claimed EXCEPT ![c] = FALSE]
    /\ Goto(c, "none")
    /\ UNCHANGED <<clients, up, claimVars, writeMu, leaseVars, readerVars, closer>>

-----------------------------------------------------------------------------
(* RunSessionServer returns: the lease, the connections, then each queue.  *)

ShutdownBegins ==
    /\ closer = "running"
    /\ down' = TRUE
    /\ closer' = "leaseClosed"
    /\ UNCHANGED <<connVars, claimVars, writeMu, lent, readerVars>>

CloseClients ==
    /\ closer = "leaseClosed"
    /\ clients' = {}
    /\ up' = [c \in Clients |-> up[c] /\ c \notin clients]
    /\ closer' = "clientsClosed"
    /\ UNCHANGED <<pc, claimed, claimVars, writeMu, leaseVars, readerVars>>

\* The deferred listener.Close(): nobody connects any more.
CloseListener ==
    /\ closer = "clientsClosed"
    /\ closer' = "done"
    /\ UNCHANGED <<connVars, claimVars, writeMu, leaseVars, readerVars>>

-----------------------------------------------------------------------------
\* A handler's steps that need no lock, and those that take writeMu.
HandlerStep(c) ==
    \/ ReadRequest(c) \/ ReadConn(c) \/ ForwardChecks(c)
    \/ Granted(c) \/ Refused(c)
    \/ ReleaseEnds(c) \/ AcquireEnds(c) \/ WriteEnds(c)
    \/ Leave(c) \/ Removed(c) \/ NoticeOthers(c)

HandlerLocks(c) ==
    \/ ClaimTaken(c) \/ ClaimBusy(c)
    \/ ReleaseStarts(c) \/ ReleaseRefused(c) \/ AcquireStarts(c)
    \/ WriteDropped(c) \/ WriteStarts(c)

Shutdown == CloseClients \/ CloseListener

Next ==
    \/ \E c \in Clients : Connect(c) \/ HangUp(c) \/ HandlerStep(c) \/ HandlerLocks(c)
    \/ ReadLoop
    \/ ShutdownBegins \/ Shutdown

Spec == Init /\ [][Next]_vars

(* Goroutines run, a write to the device or to a cache returns, and a      *)
(* mutex is handed to everyone who waits for it (Go's mutex starves no     *)
(* waiter): strong fairness for the steps that take writeMu. A peer owes   *)
(* nothing: a read from a connection, or a write to it, returns for        *)
(* certain only once it is down. What is told to all the others may take   *)
(* for ever: a broadcast, the notice after a transfer, and the one after a *)
(* lease request, before its handler leaves. A new connection or a         *)
(* shutdown need not happen.                                               *)
Answers(c) == pc[c] \in {"granting", "refusing"}

MayWait(c) ==
    \/ up[c] /\ (pc[c] \in {"request", "read"} \/ Answers(c))
    \/ pc[c] = "notice"
    \/ pc[c] = "leave" /\ ~claimed[c]

Fairness ==
    \A c \in Clients :
        /\ WF_vars(HandlerStep(c) /\ ~MayWait(c))
        /\ SF_vars(HandlerLocks(c))

FairSpec == Spec /\ Fairness

-----------------------------------------------------------------------------
Steps == {"none", "request", "read", "forward", "checked", "writing",
          "claim", "granting", "refusing", "release", "lending", "acquire", "opening", "leave", "removed", "notice"}

\* The type of every variable (sessionServer, portClaim, asyncCapture).
TypeOK ==
    /\ clients \subseteq Clients
    /\ up \in [Clients -> BOOLEAN]
    /\ pc \in [Clients -> Steps]
    /\ claimed \in [Clients -> BOOLEAN]
    /\ owner \in Clients \cup {NoOne}
    /\ writeMu \in Clients \cup {NoOne}
    /\ lent \in BOOLEAN /\ down \in BOOLEAN
    /\ reader \in {"read", "route", "snapshot", "send", "exit"}
    /\ targets \subseteq Clients
    /\ closer \in {"running", "leaseClosed", "clientsClosed", "done"}
    /\ stray \in [Clients -> 0 .. 2]

(* A transfer never gets its claim while a release is closing the port, so *)
(* its first packets do not go to a closing handle (copyClientToPort takes *)
(* the claim under writeMu, releasePort refuses while another owns it).    *)
NoClaimWhileLending ==
    \A c \in Clients : pc[c] = "lending" => owner = NoOne

(* A write in flight keeps the port: no release lends it and no acquire    *)
(* replaces it until the write returns.                                    *)
NoWriteWhileLent ==
    \A c \in Clients : pc[c] = "writing" =>
        /\ ~lent
        /\ \A d \in Clients : pc[d] \notin {"lending", "opening"}

(* A claim, a lending and a write never meet on the port (writeMu).        *)
PortKept == NoClaimWhileLending /\ NoWriteWhileLent

(* A connection whose handler is past removeClient holds nothing: a claim  *)
(* of a vanished client would block every other connection for good. The   *)
(* end of a transfer is announced (the notice) only after that.            *)
DepartedHoldsNothing ==
    \A c \in Clients : pc[c] \in {"notice", "none"} =>
        owner # c /\ writeMu # c /\ c \notin clients

(* The check of the claim is not atomic with the write, so another         *)
(* connection's bytes can still reach the port during a transfer, but at   *)
(* most one chunk of each: the one that was checked before the claim.      *)
StrayBounded ==
    \A c \in Clients : stray[c] <= 1

(* "While a claim is held, writes from every other source are dropped"     *)
(* (transfer_claim.go).                                                    *)
OnlyOwnerWrites ==
    \A c \in Clients : stray[c] = 0

(* "The claim ends when the owning connection closes" (transfer_claim.go), *)
(* even if its handler is waiting for writeMu, the device or a full queue. *)
(* One peer can prevent it: one that asks for a claim and never reads the  *)
(* answer, which the server writes with writeMu held. So it is said of     *)
(* every behaviour in which no answer to a claim stays unread for ever.    *)
ClaimEnds ==
    (\A d \in Clients : []<>~Answers(d))
        => \A c \in Clients : owner = c /\ ~up[c] ~> owner # c

\* As the comment has it, whatever other peers do.
ClaimAlwaysEnds ==
    \A c \in Clients : owner = c /\ ~up[c] ~> owner # c

-----------------------------------------------------------------------------
(* The inductive invariant behind the theorems of SessionServerProofs.     *)

\* writeMu is held exactly by the handler that answers a claim, waits for a
\* read loop, opens the port or writes to it.
LockInv ==
    /\ \A c \in Clients :
          (writeMu = c) <=> (pc[c] \in {"granting", "refusing", "lending", "opening", "writing"})
    /\ \A c \in Clients : pc[c] = "writing" => ~lent
    /\ \A c \in Clients : pc[c] = "lending" => owner = NoOne

\* A claim belongs to a handler that got it and has not given it back; a
\* handler that is past removeClient is out of the client set.
OwnerInv ==
    /\ \A c \in Clients : owner = c =>
          pc[c] \in {"granting", "read", "forward", "checked", "writing", "leave", "removed"}
    /\ \A c \in Clients : pc[c] \in {"none", "removed", "notice"} => c \notin clients

\* A connection that passed the check and now waits for writeMu under
\* somebody else's claim has not written under that claim yet.
StrayInv ==
    \A c \in Clients :
        /\ stray[c] <= 1
        /\ owner \notin {NoOne, c} /\ pc[c] = "checked" => stray[c] = 0

ServerInv == LockInv /\ OwnerInv /\ StrayInv
=============================================================================
