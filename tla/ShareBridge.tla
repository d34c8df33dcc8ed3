----------------------------- MODULE ShareBridge -----------------------------
(***************************************************************************)
(* The worker of sio share: one physical port, one hub port for each       *)
(* virtual pair, and control or TCP clients (ShareBridge, shareBridge).    *)
(* copyPhysicalToOutputs reads the device, caches each chunk, puts it into *)
(* the bounded queue of every hub port and sends it to the clients; each   *)
(* hub port has a goroutine that writes its queue out and one that reads   *)
(* what its program sends; each client has a handler. The first of them    *)
(* that fails, or a stop, closes the bridge.                               *)
(*                                                                         *)
(* Chunks of the device are numbered. What clients and programs send has   *)
(* no content: it is a step of the goroutine that carries it.              *)
(***************************************************************************)
EXTENDS Naturals, Sequences, FiniteSets

CONSTANTS
    Endpoints,   \* hub ports
    Clients,     \* control and TCP connections
    Device,      \* the physical port
    NoOne,       \* no owner, no lock holder
    Capacity,    \* of a hub port's queue
    MaxChunks    \* bound: what the device says

Writers == Clients \cup Endpoints

ASSUME BridgeAssumption ==
    /\ Endpoints # {}
    /\ Clients \cap Endpoints = {}
    /\ NoOne \notin Writers /\ Device \notin Endpoints
    /\ Capacity \in Nat \ {0} /\ MaxChunks \in Nat

VARIABLES
    clients,   \* b.clients
    up,        \* the connection can be read and written
    pc,        \* where the handler of a client, or the reader of a hub port, is
    owner,     \* b.claim.owner
    writeMu,   \* who holds b.writeMu
    stray,     \* history: chunks a writer had on the device's line while
               \* another one owned it, since that claim was granted (0..2)
    reader,    \* where copyPhysicalToOutputs is
    todo,      \* hub ports or clients it has still to serve with this chunk
    said,      \* chunks read from the device and cached
    heard,     \* history: the chunks the program behind each hub port has got
    queue,     \* endpoint.writes, by hub port
    shut,      \* hub ports whose endpoint.writes is closed
    writing,   \* the chunk a hub writer is writing, 0: it waits for one
    hubDone,   \* hub writers that have returned
    ports,     \* open ports
    bridge,    \* where ShareBridge is
    crashed    \* a goroutine has panicked: the process is gone

clientVars == <<clients, up>>
claimVars  == <<owner, stray>>
lineVars   == <<pc, claimVars, writeMu>>
readerVars == <<reader, todo>>
hubVars    == <<queue, writing, hubDone>>
closeVars  == <<shut, ports, bridge>>
vars == <<clientVars, lineVars, readerVars, said, heard, hubVars, closeVars, crashed>>

Init ==
    /\ clients = {} /\ up = [c \in Clients |-> FALSE]
    /\ pc = [w \in Writers |-> "none"]
    /\ owner = NoOne /\ writeMu = NoOne /\ stray = [w \in Writers |-> 0]
    /\ reader = "none" /\ todo = {}
    /\ said = 0 /\ heard = [e \in Endpoints |-> << >>]
    /\ queue = [e \in Endpoints |-> << >>]
    /\ writing = [e \in Endpoints |-> 0] /\ hubDone = {}
    /\ shut = {} /\ ports = {}
    /\ bridge = "opening" /\ crashed = FALSE

Goto(w, step) == pc' = [pc EXCEPT ![w] = step]

\* Where the goroutine of a writer goes when it returns.
Gone(w) == IF w \in Clients THEN "leave" ELSE "exit"

\* allows(conn), and allows(nil) for a hub port, which never owns the claim.
SlipAllows(w) == TRUE
Allows(w)     == owner \in {NoOne, w}

SlipReleaseClaim(c) == owner' = owner
ReleaseClaim(c)     == owner' = IF owner = c THEN NoOne ELSE owner

-----------------------------------------------------------------------------
(* ShareBridge opens the ports one by one and starts the goroutines.       *)

OpenPort(p) ==
    /\ bridge = "opening" /\ p \notin ports
    /\ p # Device => Device \in ports
    /\ ports' = ports \cup {p}
    /\ UNCHANGED <<clientVars, lineVars, readerVars, said, heard, hubVars, shut, bridge,
                   crashed>>

\* A port that cannot be opened: those opened so far are closed again.
OpenFails ==
    /\ bridge = "opening"
    /\ ports' = {}
    /\ bridge' = "failed"
    /\ UNCHANGED <<clientVars, lineVars, readerVars, said, heard, hubVars, shut, crashed>>

Start ==
    /\ bridge = "opening" /\ ports = Endpoints \cup {Device}
    /\ bridge' = "running"
    /\ reader' = "read"
    /\ pc' = [w \in Writers |-> IF w \in Endpoints THEN "read" ELSE "none"]
    /\ UNCHANGED <<clientVars, claimVars, writeMu, todo, said, heard, hubVars, shut, ports,
                   crashed>>

-----------------------------------------------------------------------------
(* copyPhysicalToOutputs.                                                  *)

\* A chunk arrives and is in the cache; or the port or the cache fails.
ReadDevice ==
    /\ reader = "read" /\ Device \in ports /\ said < MaxChunks
    /\ said' = said + 1
    /\ reader' = "hub" /\ todo' = Endpoints
    /\ UNCHANGED <<clientVars, lineVars, heard, hubVars, closeVars, crashed>>

ReadFails ==
    /\ reader = "read"
    /\ reader' = "exit"
    /\ UNCHANGED <<clientVars, lineVars, todo, said, heard, hubVars, closeVars, crashed>>

\* writeToHubEndpoints: a full queue loses the chunk for its hub port alone.
SlipHubEnqueue(e) ==
    /\ reader = "hub" /\ e \in todo
    /\ e \notin shut
    /\ Len(queue[e]) < Capacity
    /\ queue' = [queue EXCEPT ![e] = Append(@, said)]
    /\ todo' = todo \ {e}
    /\ UNCHANGED <<clientVars, lineVars, reader, said, heard, writing, hubDone, closeVars,
                   crashed>>
HubEnqueue(e) ==
    /\ reader = "hub" /\ e \in todo
    /\ e \notin shut
    /\ queue' = IF Len(queue[e]) < Capacity
                THEN [queue EXCEPT ![e] = Append(@, said)]
                ELSE queue
    /\ todo' = todo \ {e}
    /\ UNCHANGED <<clientVars, lineVars, reader, said, heard, writing, hubDone, closeVars,
                   crashed>>

\* The bridge has closed endpoint.writes meanwhile: the send panics.
HubPanics(e) ==
    /\ reader = "hub" /\ e \in todo
    /\ e \in shut
    /\ crashed' = TRUE
    /\ UNCHANGED <<clientVars, lineVars, readerVars, said, heard, hubVars, closeVars>>

HubServed ==
    /\ reader = "hub" /\ todo = {}
    /\ reader' = "route"
    /\ UNCHANGED <<clientVars, lineVars, todo, said, heard, hubVars, closeVars, crashed>>

\* broadcast: the owner of the claim, or the clients of the moment.
RouteToOwner ==
    /\ reader = "route" /\ owner # NoOne
    /\ todo' = {owner}
    /\ reader' = "send"
    /\ UNCHANGED <<clientVars, lineVars, said, heard, hubVars, closeVars, crashed>>

RouteToAll ==
    /\ reader = "route" /\ owner = NoOne
    /\ reader' = "snapshot"
    /\ UNCHANGED <<clientVars, lineVars, todo, said, heard, hubVars, closeVars, crashed>>

Snapshot ==
    /\ reader = "snapshot"
    /\ todo' = clients
    /\ reader' = "send"
    /\ UNCHANGED <<clientVars, lineVars, said, heard, hubVars, closeVars, crashed>>

Send(c) ==
    /\ reader = "send" /\ c \in todo
    /\ up[c]
    /\ todo' = todo \ {c}
    /\ UNCHANGED <<clientVars, lineVars, reader, said, heard, hubVars, closeVars, crashed>>

\* A failed Write removes the client.
SendFails(c) ==
    /\ reader = "send" /\ c \in todo
    /\ ~up[c]
    /\ clients' = clients \ {c}
    /\ ReleaseClaim(c)
    /\ todo' = todo \ {c}
    /\ UNCHANGED <<up, pc, stray, writeMu, reader, said, heard, hubVars, closeVars, crashed>>

Sent ==
    /\ reader = "send" /\ todo = {}
    /\ reader' = "read"
    /\ UNCHANGED <<clientVars, lineVars, todo, said, heard, hubVars, closeVars, crashed>>

HubStep == HubServed \/ \E e \in Endpoints : HubEnqueue(e) \/ HubPanics(e)

ReadLoop ==
    \/ ReadDevice \/ ReadFails \/ HubStep \/ RouteToOwner \/ RouteToAll \/ Snapshot
    \/ \E c \in Clients : Send(c) \/ SendFails(c)
    \/ Sent

-----------------------------------------------------------------------------
(* startHubWriters: for data := range endpoint.writes.                     *)

SlipHubTakes(e) ==
    /\ writing[e] = 0 /\ queue[e] # << >>
    /\ writing' = [writing EXCEPT ![e] = Head(queue[e])]
    /\ UNCHANGED <<clientVars, lineVars, readerVars, said, heard, queue, hubDone, closeVars,
                   crashed>>
HubTakes(e) ==
    /\ writing[e] = 0 /\ queue[e] # << >>
    /\ writing' = [writing EXCEPT ![e] = Head(queue[e])]
    /\ queue' = [queue EXCEPT ![e] = Tail(@)]
    /\ UNCHANGED <<clientVars, lineVars, readerVars, said, heard, hubDone, closeVars, crashed>>

\* writeSerialPortWithTimeout: the program reads the chunk, at least a part
\* of it, or the write fails and the chunk is lost.
HubWritten(e) ==
    /\ writing[e] # 0
    /\ \/ e \in ports /\ heard' = [heard EXCEPT ![e] = Append(@, writing[e])]
       \/ heard' = heard
    /\ writing' = [writing EXCEPT ![e] = 0]
    /\ UNCHANGED <<clientVars, lineVars, readerVars, said, queue, hubDone, closeVars, crashed>>

HubReturns(e) ==
    /\ e \notin hubDone
    /\ e \in shut /\ writing[e] = 0 /\ queue[e] = << >>
    /\ hubDone' = hubDone \cup {e}
    /\ UNCHANGED <<clientVars, lineVars, readerVars, said, heard, queue, writing, closeVars,
                   crashed>>

-----------------------------------------------------------------------------
(* acceptControlClients. The listener closes before the bridge; a          *)
(* connection accepted in time is added whenever its goroutine gets there. *)

Accept(c) ==
    /\ bridge = "running" /\ pc[c] = "none" /\ c \notin todo
    /\ Goto(c, "accepted")
    /\ up' = [up EXCEPT ![c] = TRUE]
    /\ UNCHANGED <<clients, claimVars, writeMu, readerVars, said, heard, hubVars, closeVars,
                   crashed>>

AddClient(c) ==
    /\ pc[c] = "accepted"
    /\ clients' = clients \cup {c}
    /\ Goto(c, "request")
    /\ UNCHANGED <<up, claimVars, writeMu, readerVars, said, heard, hubVars, closeVars, crashed>>

HangUp(c) ==
    /\ up[c]
    /\ up' = [up EXCEPT ![c] = FALSE]
    /\ UNCHANGED <<clients, lineVars, readerVars, said, heard, hubVars, closeVars, crashed>>

-----------------------------------------------------------------------------
(* copyClientToEndpoints and copyEndpointToOthers.                         *)

\* forward and routeEndpointData: the claim is checked when the data is
\* there, writeMu is taken later.
Checked(w) == IF Allows(w) THEN "checked" ELSE "read"

\* readClaim: the first bytes are the preamble, or data to forward.
ReadClaim(c) ==
    /\ pc[c] = "request"
    /\ \E step \in IF up[c] THEN {"claim", Checked(c)} ELSE {"leave"} : Goto(c, step)
    /\ UNCHANGED <<clientVars, claimVars, writeMu, readerVars, said, heard, hubVars, closeVars,
                   crashed>>

\* answerClaim, without writeMu: a write of somebody else may be under way.
ClaimGranted(c) ==
    /\ pc[c] = "claim" /\ Allows(c)
    /\ owner' = c
    /\ stray' = [w \in Writers |-> IF pc[w] = "writing" THEN 1 ELSE 0]
    /\ \E step \in {"read", "checked"} : Goto(c, step)
    /\ UNCHANGED <<clientVars, writeMu, readerVars, said, heard, hubVars, closeVars, crashed>>

ClaimRefused(c) ==
    /\ pc[c] = "claim" /\ ~Allows(c)
    /\ Goto(c, "leave")
    /\ UNCHANGED <<clientVars, claimVars, writeMu, readerVars, said, heard, hubVars, closeVars,
                   crashed>>

\* conn.Read or source.port.Read.
Alive(w) == IF w \in Clients THEN up[w] ELSE w \in ports

ReadInput(w) ==
    /\ pc[w] = "read"
    /\ \/ Alive(w) /\ Goto(w, Checked(w))
       \/ (w \in Clients => ~up[w]) /\ Goto(w, Gone(w))
    /\ UNCHANGED <<clientVars, claimVars, writeMu, readerVars, said, heard, hubVars, closeVars,
                   crashed>>

WriteStarts(w) ==
    /\ pc[w] = "checked" /\ writeMu = NoOne
    /\ writeMu' = w
    /\ stray' = [stray EXCEPT ![w] = IF owner \in {NoOne, w} \/ @ = 2 THEN @ ELSE @ + 1]
    /\ Goto(w, "writing")
    /\ UNCHANGED <<clientVars, owner, readerVars, said, heard, hubVars, closeVars, crashed>>

\* The write, then captureTX; an error of either ends the goroutine.
WriteEnds(w) ==
    /\ pc[w] = "writing"
    /\ writeMu' = NoOne
    /\ \/ Device \in ports /\ Goto(w, "read")
       \/ Goto(w, Gone(w))
    /\ UNCHANGED <<clientVars, claimVars, readerVars, said, heard, hubVars, closeVars, crashed>>

\* The deferred removeClient: out of the set, then out of the claim, and
\* the connection is closed. The notice to the others changes nothing.
Leave(c) ==
    /\ pc[c] = "leave"
    /\ clients' = clients \ {c}
    /\ Goto(c, "removed")
    /\ UNCHANGED <<up, claimVars, writeMu, readerVars, said, heard, hubVars, closeVars, crashed>>

Removed(c) ==
    /\ pc[c] = "removed"
    /\ ReleaseClaim(c)
    /\ up' = [up EXCEPT ![c] = FALSE]
    /\ stray' = [stray EXCEPT ![c] = 0]
    /\ Goto(c, "none")
    /\ UNCHANGED <<clients, writeMu, readerVars, said, heard, hubVars, closeVars, crashed>>

-----------------------------------------------------------------------------
(* close, once: by the deferred call or by the stop goroutine.             *)

Failed == reader = "exit" \/ \E e \in Endpoints : pc[e] = "exit"

CloseBegins ==
    /\ bridge = "running"
    /\ bridge' = "channels"
    /\ ports' = ports \ {Device}
    /\ UNCHANGED <<clientVars, lineVars, readerVars, said, heard, hubVars, shut, crashed>>

SlipCloseChannel(e) ==
    /\ bridge = "channels" /\ e \notin shut
    /\ bridge' = "ports"
    /\ UNCHANGED <<clientVars, lineVars, readerVars, said, heard, hubVars, shut, ports, crashed>>
CloseChannel(e) ==
    /\ bridge = "channels" /\ e \notin shut
    /\ shut' = shut \cup {e}
    /\ bridge' = IF shut' = Endpoints THEN "ports" ELSE bridge
    /\ UNCHANGED <<clientVars, lineVars, readerVars, said, heard, hubVars, ports, crashed>>

\* closeShareEndpoints
ClosePort(e) ==
    /\ bridge = "ports" /\ e \in ports
    /\ ports' = ports \ {e}
    /\ bridge' = IF ports' = {} THEN "clients" ELSE bridge
    /\ UNCHANGED <<clientVars, lineVars, readerVars, said, heard, hubVars, shut, crashed>>

CloseClients ==
    /\ bridge = "clients"
    /\ clients' = {}
    /\ up' = [c \in Clients |-> up[c] /\ c \notin clients]
    /\ bridge' = "waiting"
    /\ UNCHANGED <<lineVars, readerVars, said, heard, hubVars, shut, ports, crashed>>

\* asyncWG.Wait()
Closed ==
    /\ bridge = "waiting" /\ hubDone = Endpoints
    /\ bridge' = "done"
    /\ UNCHANGED <<clientVars, lineVars, readerVars, said, heard, hubVars, shut, ports, crashed>>

Closing == CloseClients \/ Closed \/ \E e \in Endpoints : CloseChannel(e) \/ ClosePort(e)

-----------------------------------------------------------------------------
ClientStep(c) ==
    AddClient(c) \/ ReadClaim(c) \/ ClaimGranted(c) \/ ClaimRefused(c) \/ Leave(c) \/ Removed(c)

WriterStep(w) == ReadInput(w) \/ WriteEnds(w)

HubWriter(e) == HubTakes(e) \/ HubWritten(e) \/ HubReturns(e)

Step ==
    \/ \E p \in Endpoints \cup {Device} : OpenPort(p)
    \/ OpenFails \/ Start
    \/ ReadLoop
    \/ \E e \in Endpoints : HubWriter(e)
    \/ \E c \in Clients : Accept(c) \/ HangUp(c) \/ ClientStep(c)
    \/ \E w \in Writers : WriterStep(w) \/ WriteStarts(w)
    \/ CloseBegins \/ Closing

Next == ~crashed /\ Step

Spec == Init /\ [][Next]_vars

(* The reader gets past the hub ports, the hub writers and the closing run.*)
(* A write to a hub port returns for certain only when that port is        *)
(* closed; where the driver lets its timeouts be set, it ends earlier. The *)
(* bridge closes when one of its goroutines has failed. Nobody must        *)
(* connect, send, read, or stop the bridge, and no handler must go on.     *)
Fairness ==
    /\ WF_vars(~crashed /\ HubStep)
    /\ \A e \in Endpoints :
        /\ WF_vars(~crashed /\ (HubTakes(e) \/ HubReturns(e)))
        /\ WF_vars(~crashed /\ e \notin ports /\ HubWritten(e))
    /\ WF_vars(~crashed /\ Failed /\ CloseBegins)
    /\ WF_vars(~crashed /\ Closing)

FairSpec == Spec /\ Fairness

-----------------------------------------------------------------------------
Steps == {"none", "accepted", "request", "claim", "read", "checked", "writing",
          "leave", "removed", "exit"}

(* The type of every variable; a queue never holds more than its capacity  *)
(* (writeToHubEndpoints).                                                  *)
TypeOK ==
    /\ clients \subseteq Clients
    /\ up \in [Clients -> BOOLEAN]
    /\ pc \in [Writers -> Steps]
    /\ owner \in Clients \cup {NoOne}
    /\ writeMu \in Writers \cup {NoOne}
    /\ stray \in [Writers -> 0 .. 2]
    /\ reader \in {"none", "read", "hub", "route", "snapshot", "send", "exit"}
    /\ todo \subseteq Writers
    /\ said \in 0 .. MaxChunks
    /\ heard \in [Endpoints -> Seq(0 .. MaxChunks)]
    /\ queue \in [Endpoints -> Seq(0 .. MaxChunks)]
    /\ \A e \in Endpoints : Len(queue[e]) <= Capacity
    /\ writing \in [Endpoints -> 0 .. MaxChunks]
    /\ shut \subseteq Endpoints /\ hubDone \subseteq Endpoints
    /\ ports \subseteq Endpoints \cup {Device}
    /\ bridge \in {"opening", "failed", "running", "channels", "ports", "clients", "waiting",
                   "done"}
    /\ crashed \in BOOLEAN

(* The program behind each hub port hears what the device says in order    *)
(* and never twice, whatever queues, failed writes and shutdown lose.      *)
Fan == INSTANCE FanOut WITH Listeners <- Endpoints
BridgeFansOut == Fan!FanSpec

(* A bridge that has returned, or never got going, holds no port: sio stop *)
(* and the next attempt of the worker find the devices free. Its writers   *)
(* are gone, too.                                                          *)
ReturnedHoldsNothing ==
    bridge \in {"failed", "done"} =>
        ports = {} /\ \A e \in Endpoints : queue[e] = << >> /\ writing[e] = 0

(* A client whose handler has returned holds neither the claim nor the     *)
(* lock: no other transfer would ever be granted, nothing ever written.    *)
DepartedHoldsNothing ==
    \A c \in Clients : pc[c] = "none" => owner # c /\ writeMu # c /\ c \notin clients

(* What is gone holds nothing.                                             *)
GoneHoldsNothing == ReturnedHoldsNothing /\ DepartedHoldsNothing

(* The claim is neither checked nor taken under writeMu, so another        *)
(* writer's bytes can still be on the line during a transfer, but at most  *)
(* one chunk of each: the one under way or already checked.                *)
StrayBounded == \A w \in Writers : stray[w] <= 1

(* A program that does not read its virtual port never holds up the        *)
(* others: the reader gets past the hub ports whatever their writers do.   *)
HubNeverBlocks == reader = "hub" ~> reader # "hub" \/ crashed

(* When the device or a hub port fails, the bridge closes and returns, so  *)
(* that the worker can try again, even if programs and clients are stuck.  *)
BridgeReturns == Failed ~> bridge = "done" \/ crashed

(* "While a claim is held ... serial output goes to the owner only"        *)
(* (transfer_claim.go).                                                    *)
OnlyOwnerHears ==
    [][\A e \in Endpoints : Len(queue'[e]) > Len(queue[e]) => owner = NoOne]_vars

(* Closing the bridge does not bring the worker down.                      *)
NoPanic == ~crashed

-----------------------------------------------------------------------------
(* The inductive invariant behind the theorems of ShareBridgeProofs.       *)

\* writeMu belongs to the goroutine that writes to the device, the claim to
\* a client between its grant and its removal.
LineInv ==
    /\ \A w \in Writers : (writeMu = w) <=> (pc[w] = "writing")
    /\ \A c \in Clients : owner = c =>
          pc[c] \in {"read", "checked", "writing", "leave", "removed"}
    /\ \A c \in Clients : pc[c] \in {"none", "accepted", "removed"} => c \notin clients
    /\ \A w \in Writers :
        /\ stray[w] <= 1
        /\ owner \notin {NoOne, w} /\ pc[w] = "checked" => stray[w] = 0

\* What a hub port has in its queue comes after what its writer writes, and
\* that after what its program has heard. All of it is older than the chunk
\* the reader has still to hand to this hub port.
Older(e, n) == n <= said /\ (reader = "hub" /\ e \in todo => n < said)

QueueOf(e) ==
    /\ \A i \in 1 .. Len(queue[e]) :
        /\ Older(e, queue[e][i]) /\ writing[e] < queue[e][i]
        /\ \A j \in 1 .. Len(queue[e]) : i < j => queue[e][i] < queue[e][j]
    /\ Older(e, writing[e])
    /\ \A k \in 1 .. Len(heard[e]) :
        /\ Older(e, heard[e][k])
        /\ writing[e] # 0 => heard[e][k] < writing[e]
        /\ \A i \in 1 .. Len(queue[e]) : heard[e][k] < queue[e][i]

QueueInv == \A e \in Endpoints : QueueOf(e)

\* How far the bridge has closed.
CloseInv ==
    /\ bridge \in {"opening", "failed"} =>
          /\ reader = "none" /\ \A w \in Writers : pc[w] = "none"
          /\ \A e \in Endpoints : queue[e] = << >> /\ writing[e] = 0
    /\ bridge \in {"opening", "failed", "running"} => shut = {}
    /\ bridge \in {"failed", "clients", "waiting", "done"} => ports = {}
    /\ \A e \in hubDone : e \in shut /\ queue[e] = << >> /\ writing[e] = 0
    /\ bridge = "done" => hubDone = Endpoints
    /\ Device \in ports => bridge \in {"opening", "running"}

BridgeInv == LineInv /\ QueueInv /\ CloseInv
=============================================================================
