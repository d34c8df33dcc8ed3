# A formal model of go-serial-cli

`sio` keeps a serial port in a background worker and lets shells, scripts,
transfers and log readers share it. This directory holds TLA+ modules that model
its concurrent and stateful parts, TLC configurations that check them on small
instances, and TLAPS proofs about eight of the modules.

Run everything from this directory:

    tlc -workers 2 -config PortLeaseSlow.cfg PortLeaseMC     # one run
    tlapm PortLeaseProofs.tla                                # the proofs of a module

`PROJECT.json` lists the runs, the source lines every definition stands for, the
slip of the code each property notices (operators named `Slip...`), the findings
and the hazards.

## 1. The system

### Processes and what they share

    sio open/share/tcp ──starts──► worker (session-worker, session-tcp-worker)
           │                          │  RunWithRetry: open device, serve, retry
           │ state.json, port.released│
           ▼                          ▼
    session directory (gs/)      sessionServer ── portLease ── serial device
           ▲                      │  ▲      │
           │ index.jsonl, cache   │  │      └ asyncCapture ─► log and cache files
           └──────────────────────┘  │
    sio shell / send / ask / sz / rz ┘  control connections (TCP on loopback)

### Components

| component | state it keeps | operations | how it interacts |
|---|---|---|---|
| Port lease (`portlease.go`) | port, released, closed, the idle channel | `waitPort`, `current`, `retire`, `finishIdle`, `release`, `acquire`, `close` | read loop, request handlers and shutdown call it; `onChange` writes the marker `port.released` |
| Session server and claim (`serial.go` 969-1270, `transfer_claim.go`) | clients, claim owner, `writeMu` | accept, handle, forward, claim, release, acquire, broadcast, remove, close | one goroutine for each connection, one reader; all writes go through `writeMu` |
| Capture (`async_capture.go`, `timed_chunks.go`, `txoverlay.go`) | queue, sticky error, cache and index files, overlay offset | `WriteChunk`, `run`, `Close`, `writeChunk`, `sio clear`, overlay poll | handlers and the read loop queue chunks; another process truncates the files; the shell tails the index |
| ZMODEM session (`zmodem.go`) | for each side: file, position, window, retries; on the disk: targets and their `.zpart` | offer, stream, wait for ack, ZEOF, ZFIN; decide, ask for CRCs, resume, receive, commit; sum up | two programs over a serial line |
| ZMODEM link (`zmodem_link.go`, `zmodem_proto.go`) | read and write buffers, scanner | send and read headers and subpackets | below the session; noise, resynchronisation, cancel |
| ZMODEM in the shell (`zmodem_shell.go`, `zmodem_panel.go`) | gate, input state, panel, hand-back | pass or hold keys and output, start a transfer, wait for the worker's notice and for Enter, hand back | the shell's reader, the console reader and one goroutine for each summary |
| Share bridge (`serial.go` 495-944) | hub ports with bounded queues, clients, claim, `writeMu` | open, read and distribute, write out, forward, claim, remove, close | the programs behind the virtual ports and the clients share one device |
| Stream, ask, send, TCP bridge (`serial.go`, `payload.go`, `monitor.go`) | none beyond a call | copy one connection to another | clients of the session server |
| Session state and life cycle (`cli.go`, `state.go`, `process.go`) | `state.json`, marker, driver pairs, processes | open, share, tcp, pause, resume, check, clear, stop, rm | every command and worker loads, changes and saves the file; no lock |
| Worker retry loop (`retry.go`) | the attempt | `RunWithRetry` | around the server of each worker |
| Command line, shell input, pickers (`cli.go`, `process_windows.go`, `picker_windows.go`) | console modes | parsing, editing, dialogs | input and output |
| Diagnostics, skill installer, bundled tools | none | messages, file copies | none |

### What is hard, and what correct means

* **Port lease.** `release` closes the device while a read may be blocked on it,
  waits at most `portLeaseReleaseWait`, and may give up; `acquire` opens outside
  the lock while shutdown or another request runs. Correct: nobody's handle is closed
  under it, no open handle is lost, "released" is told only after the device is
  free, the marker agrees with the lease, nothing waits for ever.
* **Session server.** The claim, the client set, the lease and the write lock are
  guarded by different locks, and connections vanish at any step. Correct: a claim
  and a lending exclude each other, no write overlaps a lending, and whatever a
  connection held is given up when it goes.
* **Capture.** A bounded queue with blocking sources, a sticky disk error, a close
  that races the sources, and another process that truncates both files between
  two writes. Correct: order kept, queue flushed, a clear spoils at most one
  index entry, the overlay shows each foreign chunk once unless a transfer of the
  shell mutes it.
* **ZMODEM.** Stale, lost and repeated headers meet rewinds, refusals and local
  errors. Correct: what is committed is the source, success reported is a file
  saved, and both sides end. Over many sessions: a partial file may be that of
  another file or of an older source, and a late answer may be about another
  question. Correct: nothing is put together from two files, and no file is
  replaced that nobody gave up.
* **Shell.** The keyboard must go back once, when two conditions hold that two
  goroutines find out, while the next transfer may already be announced.
  Correct: no key reaches the device during a transfer, none is thrown away by
  the worker after it, the output comes in order and none vanishes but in the ways
  the code has for it.
* **Share bridge.** One reader serves queues that may be full and clients that
  may hang; the first port that fails takes everything down. Correct: each
  program hears the device in order and never twice, nobody holds up the
  others, a bridge that has returned holds no port.
* **Life cycle.** Load-change-save without a lock, workers that die, devices that
  go, starts that fail half-way. Correct: a living worker is recorded, stop stops,
  pause pauses, the marker and the virtual pairs do not go stale.

## 2. Modules and code

`PROJECT.json` maps every definition to its lines; the short version:

| module | models | how to read it |
|---|---|---|
| `PortOwnership` | what a lendable port promises (abstract) | three Booleans: the worker holds the device, it says the port is lent, it shuts down. Let go, then say so; take back, then say so |
| `PortLease` | `portlease.go`, the read loop, the release and acquire handlers, writes, shutdown, the marker, another program | a critical section of `portLease.mu` is a step, and so is every call made outside it (open, Close, Read, the wait for idle, the marker file). A handle is the number of its open |
| `PortLeaseProofs` | theorems about `PortLease` | |
| `SessionServer` | `sessionServer` and `portClaim` with every handler, the read loop's broadcast and the way out of `RunSessionServer` | `pc[c]` is the place in `copyClientToPort`. The lease is two Booleans, all that callers see of it through `current()` |
| `SessionServerProofs` | theorems about `SessionServer` | |
| `FanOut` | what the programs behind virtual ports may rely on (abstract) | chunks are numbered as the device says them; a listener may miss one |
| `ShareBridge` | `ShareBridge` and every method of `shareBridge` | `pc[w]` is the place of a client's handler or a hub port's reader, `reader` that of `copyPhysicalToOutputs`, `bridge` that of `ShareBridge` itself |
| `ShareBridgeProofs` | theorems about `ShareBridge` | |
| `CaptureLog` | `asyncCapture`, `timedCacheWriter`, `sio clear`, `tailTXOverlay` | chunks `<<source, number>>` take one unit of the cache and one index line; `accepted` and `written` are history variables |
| `CaptureLogProofs` | theorems about `CaptureLog` | |
| `ZModem` | a batch in `zmodem.go` over a link with noise | one action for each header each side can meet in each place; `st` is `zStream`, `part` the partial file, `saved` the committed ones |
| `ZModemProofs` | theorems about `ZModem` and `ZFraming` | |
| `ZResume` | one name on the receiver's disk over many sessions: `decide`, `identical`, `zPrefixCRC`, the partial file, `commitPart` | a content is a sequence of units and its own CRC; `questions` and `answers` are the ZCRC headers on the line |
| `ZResumeProofs` | theorems about `ZResume` and `ZOutcome` | |
| `ZOutcome` | `sessionOutcome`, `finish`, `transferExit` | a batch is how many files ended with each status |
| `ZFraming` | `zEscaper`, `zdlread`, hexadecimal headers, positions | a byte is a number; the masks of the code are remainders |
| `ShellTransfer` | `shellTransfer`, `shellGate`, `copyShellOutput`, the panel's hold | `hand[a]` is the place in `handBack` of a goroutine: the reader (0) or the dismisser of a transfer |
| `ShellTransferProofs` | theorems about `ShellTransfer` | |
| `SessionLife` | the commands and workers of one session | a Load or a Save of `state.json` is a step; a command is `cmd[c]`, a worker process `worker[pid]`, each with its own copy of the state |
| `SessionLifeProofs` | theorems about `SessionLife` | |
| `...MC` | | the instances for TLC |

How they compose: `PortLease` implements `PortOwnership` (checked and proved).
`SessionServer` uses the lease as `lent` and `down`: `lent` changes only in the
handler that holds `writeMu`, which is what `PortLease` shows of `released`.
`SessionLife` uses it as `holds` of a worker together with the marker, in the
order `PortOwnership` fixes. `CaptureLog` starts where `SessionServer` calls
`captureTXChunk`, at the step after the port write.

`ShareBridge` implements `FanOut` (checked and proved); its claim is the same
`portClaim` as in `SessionServer`, but no lease stands behind it. `ShellTransfer`
takes from `SessionServer` what the other end of its two connections does: a claim
is granted to a transfer, ends some time after its connection is closed, and the
notice follows. `ZResume` takes from `ZModem` that the data of one session arrives
in order and without gaps (`SavedFaithful`), and adds what is on the disk before
and after; `ZOutcome` starts from the file statuses both of them give.

### What the models leave out

* **PortLease**: the content of reads, the clients behind a request (they are in
  `SessionServer`). `MaxOpens` bounds the opens of a worker.
* **SessionServer**: bytes. A connection that is gone may come back under its
  name once nothing refers to the old one; `stray` counts to 2 and stops. The
  answer to a claim is a step of its own, taken with `writeMu` held as in the code;
  those to lease requests and the notices are written after `writeMu` is free and end
  with the handler.
* **CaptureLog**: the format of the logs, the plain text view, the line
  assembler, with it what of an unfinished line comes out late. A failed write may leave
  a part of a chunk in the cache, which takes one unit there and no index line points at,
  or an index line without its end. The transfers of the shell are one Boolean, `muted`,
  that changes at any moment (`ShellTransfer` has its cause); the look at it and the
  printing of an entry are one step.
* **ShareBridge**: what clients and programs send has no content; a write of a
  part of a chunk counts as the chunk. The capture behind it is in `CaptureLog`.
* **ZModem**: the handshake before the first offer, ZCRC and resuming (`ZResume`),
  XON/XOFF, the choice of a target name (`ZResume`), byte encodings (`ZFraming`)
  and CRCs (noise makes a CRC fail).
  The line keeps the order; a subpacket is damaged, never lost between two others.
  Time is nondeterministic: a wait may time out whenever there is nothing to read.
* **ZResume**: two contents never have the same CRC; the names are the one that is
  offered and `name_1`, `name_2`, ...; dates and sizes of the "dated" rules are
  a choice; one receiver writes to the directory, and nobody else does.
* **ZFraming**: one byte after another, so what the theorems say of a byte holds of
  any data; not the search for the next header in garbage.
* **ShellTransfer**: protocol bytes of a session are pieces of output; a header right
  after a transfer may be ignored (the cool-down), and a read returns any number of the items
  that have arrived, which matters behind a header only; the queue of typed lines holds one
  of the four; Ctrl+C only lets the session end. What the panel draws is left out, not
  what it holds.
* **SessionLife**: one session; a pid is not reused; `HubPID` is always 0, as
  the code writes it; the virtual ports and hub ports are one Boolean;
  `CheckOffset` is left out, so `sio check` is a Load and a Save of one copy;
  `Ctrl+C` arrives while a command waits for its worker; ports are prompt; torn
  reads of `state.json` and a refused kill are left out. After the wait
  for a killed process ran out the command goes on while the process lingers, and
  `StopStops` counts only workers that nobody has killed.

## 3. Runs

| run | distinct states | shows |
|---|---|---|
| `lease_prompt` | 2,748 | on ports whose read and Close return in time `LeaseHonest` holds: a port marked released is closed, a release is reported done after the device is closed, the marker follows the lease at rest. Parked readers wake and requests end (`EveryoneProceeds`), and the lease implements `PortOwnership` |
| `lease_slow` | 9,496 | also when releases time out, no handle is closed under a read or a write and none is lost (`HandlesSafe`); shutdown frees the port |
| `session_server` | 211,516 | claim, lending and writes exclude each other (`PortKept`); a gone connection holds nothing and its claim ends, unless some peer never reads the answer to its own; under a claim at most one chunk of each other connection slips through |
| `share_bridge` | 493,213 | the bridge implements `FanOut`; what is gone holds nothing; a full queue holds nobody up; a failed bridge returns; one stray chunk of each writer at most |
| `capture_log` | 120,266 | order and flush of the queue, one spoilt entry however often the files are cleared, no source blocked for good, the overlay faithful and up to date until a clear, but for what comes up during a transfer of the shell |
| `zmodem` | 1,015,689 | committed files are their sources, success reported is a file saved, both sides end |
| `zresume` | 574,032 | what is reported as received is on the disk, whatever partial files, late answers and changed sources meet; no file is replaced unasked; a file that is resumed again and again gets there |
| `shell_transfer` | 923,804 | the keyboard comes back once for a transfer, not before the worker has dropped the claim; the shell comes back after Enter; every piece of output is on its way, on the terminal in order, held, or accounted for as lost |
| `session_life` | 252,626 | no orphaned worker, stop stops, pause pauses, marker and pairs tracked, a worker that lost its device comes back |

Three more runs each show one place where the program does not do what a comment
or the user's README says; TLC prints the shortest trace.

| run | property | what happens |
|---|---|---|
| `zmodem_cut` | `SavedPrefix` | a ZRPOS voids the ZEOF of a cut file; the sender takes that for the end of the file, and data of the next file goes into this one |
| `life_race` | `StopReleases` | `sio check` overlaps `sio open` and saves the state it had loaded: the pid is gone, `sio stop` reports success, the worker serves on |
| `shell_handback` | `KeysHeld` | `handBack` opens the gate after it has let go of `t.mu`: the next transfer may have started by then, and keys go to the device in the middle of it |

The modules state ten more promises of comments that TLC refutes, with one line
in a configuration; they are milder, or known to the authors:

| property | module | what happens |
|---|---|---|
| `LentIsMarked` | `PortLease` | on slow ports: a release that times out returns without `notify` but stays released; the read loop parks later, and no marker says so |
| `DoneMeansClosed` | `PortLease` | on slow ports: the read loop signals the channel of a later release than the one that timed out ("finishIdle tells a waiting release that the port handle is closed"), whose client is told the port is free while a handle is open |
| `ClaimAlwaysEnds` | `SessionServer` | a peer that does not read the answer to its claim keeps `writeMu`, so the handler of a gone owner waits there and its claim stays ("The claim ends when the owning connection closes") |
| `OnlyOwnerWrites` | `SessionServer` | `forward` checks the claim before `writeSerial` takes `writeMu`: a chunk checked before the claim goes out during the transfer (`StrayBounded`: one of each connection) |
| `NoChunkDies` | `CaptureLog` | shutdown closes the queue while a handler is between its port write and its send; the send panics |
| `OverlayShowsOthers` | `CaptureLog` | after `sio clear` the overlay waits behind its old offset, and what others send meanwhile is not shown; nor is, ever, what comes up while a transfer or its summary mutes it |
| `OnlyOwnerHears` | `ShareBridge` | chunks are queued for the hub ports without a look at the claim |
| `NoPanic` | `ShareBridge` | the reader sends on a queue that the closing bridge has just closed |
| `SkippedMeansThere` | `ZResume` | a ZSKIP after a question about a partial file is reported as "identical" although the receiver had a local error |
| `AnswerFollowsQuestion` | `ShellTransfer` | a line typed before a question was asked answers it |

Two losses of output in a shell are steps of `ShellTransfer` rather than violations,
as `OutputKept` counts them (`missed`): what one read returns behind a header is dropped even if
the header is then ignored, against "output that arrives meanwhile is held by the panel and
shown after it" (`zmodem_shell.go:574`); and what the device sends between the end of the claim
and the release notice is skipped as "protocol bytes, not output" (`zmodem_shell.go:685`).

### Bounds, and why they are enough

* `PortLease`: two requesters and a writer give every pair of concurrent
  requests and every third party; 3 opens (4 on slow ports) are one for the first
  handle, one for each requester and, on slow ports, one more after a timeout.
  The safety theorems hold for any number of them.
* `SessionServer`: the interesting conflicts are between an owner and one other
  connection, and each may come back in another role; again the theorems are for any set.
* `CaptureLog`: `Capacity` 1 makes the queue full at once, two sources wait for
  it, two chunks surround a clear: one is written before or during it and one after.
  Two clears show that the second spoils no second entry.
* `ShareBridge`: `Capacity` 1 makes a queue full at the second chunk, the third is
  dropped or not; one hub port is enough as hub ports meet only in the reader, and
  the one client comes back in every role. The safety theorems and the refinement
  are for any of them.
* `ShellTransfer`: two transfers, as a hand-back can meet only the next one; the
  panel holds one piece and drops the second. `Overtakes` is FALSE in
  `shell_transfer`: there no transfer starts between the decision to hand back and its
  last step. `shell_handback` takes that assumption away, and `KeysHeldHolds` proves
  that nothing else breaks the gate.
* `ZResume`: contents of up to 2 of 2 units, so that one can be a prefix of the other, as
  long but different, or different from the start; 3 units after appending; one other
  name; two questions before the receiver gives up, so an old answer can meet a new
  question; one fault of any kind besides cuts of the link, of which there may be any number.
* `ZModem`: files of 2 and 1 units, window and checkpoint 1, so the window is
  full after each unit and a rewind goes back over one. `MaxSame` 1 and `MaxRetries` 2 stand for
  `zMaxRetries` and `zAckPokes`; `MaxAsks` 2 exceeds `MaxSame`, so the receiver
  may ask more often than the sender puts up with. One damaged frame combines
  with any number of timeouts. In `zmodem` the last file is unreadable, in
  `zmodem_cut` the first, where a next one follows.
* `SessionLife`: one user with every command and two workers, so that each
  start may meet the remains of an earlier worker. With three workers the safety
  properties hold as well (12.5 million states, too many for a regular run).
  `Recovers` also holds with three workers for open, share and tcp, where a share that could not
  create its pairs is followed by a tcp that is interrupted: that worker lacks its pairs and
  retries, which the property excepts.

### Fairness

* `PortLease`: goroutines run and lock holders go on. A read returns by itself
  only on a port that honours its timeout, and on any port once the handle is closed.
  A read loop that has returned leads to the deferred close. Nobody must send a
  request, stop the worker or borrow the port.
* `SessionServer`: handlers go on; a read from a peer, and the answer to its claim,
  return for certain only when the connection is down, and what is told to all the others need
  never return (`MayWait`). Strong fairness for the steps that take `writeMu`,
  since Go's mutex passes the lock to a waiter that has starved. None for the
  peers, the broadcast and shutdown. `ClaimEnds` is said of the behaviours in which no
  answer to a claim stays unread for ever; without that it is false (`ClaimAlwaysEnds`).
* `CaptureLog`: strong fairness for a source (a blocked channel send is
  served in turn), weak for `run`, an ongoing shutdown or clear, and the
  overlay's ticker. None for the beginning or the end of a transfer.
* `ShareBridge`: the reader gets on with the hub ports, whose queues never make it wait;
  hub writers run, and a write to a closed port returns; closing goes on once a port
  has failed. None for clients, programs or the device, nor for the reader's sends to
  clients.
* `ZModem`: both programs run and their timers fire.
* `ZResume`: both programs run and sessions are tried again; strong fairness for a unit of
  data and for the commit: of all the sessions that come that far, not every one is cut before
  another unit is through.
* `ShellTransfer`: the shell's goroutines run, its read deadline passes, and somebody
  presses Enter while a summary waits. Neither the worker nor the session owes anything.
* `SessionLife`: commands and workers are scheduled, a killed process ends, and an attempt to
  serve succeeds when the device stays free. `Recovers` assumes the device is
  plugged in and free from some point on, and for a share worker that its pairs are there.

`SessionServer`, `CaptureLog` and `ShareBridge` stop after a shutdown, `ZModem` when
both sides have ended, `ZResume` and `ShellTransfer` when their bounds are used up, so
their configurations do not check for deadlock. What must not stop before that is a
liveness property: `ClaimEnds`, `SourcesReturn`, `OverlayCatchesUp`, `HubNeverBlocks`,
`BridgeReturns`, `BothEnd`, `ResumeFinishes`, `ShellComesBack`.

## 4. Proofs

Everything below holds for every value of the constants. The assumptions are
those of the modules: requesters and writers, clients and hub ports are different,
`NoOne` is none of them, capacities and the bounds on opens and transfers are
positive, "no such file" is not a content.

**`PortLeaseProofs`.** The properties are not inductive by themselves: that a read
keeps its handle depends on who may close it, and that depends on who knows it.
`SafeInv` has three parts:

* `MutexInv`: `writeMu` is held exactly by the connection past its first step, so
  two requests, or a request and a write, never overlap;
* `HandleInv`: handles are numbered as they are opened, an open one is in one of
  four places (`port`, `retiring`, `newPort`, `closePort`), and one that is being
  installed is in no other;
* `LeaseInv`: how `released`, `closed` and the place of the read loop and of
  shutdown fit together; a read before shutdown is on an open handle.

`TypeCorrect` and `SafeCorrect` prove it from the 26 actions one by one, for slow ports
too. `HandlesSafeHolds` follows.

A port that honours its timeouts (`SlowPort = FALSE`, assumed by name) also has
`PromptInv`: `idle` is signalled only when the handle is closed, and a request in
each of its places knows the marker. From it `LeaseHonestHolds` with its three parts,
and `LeaseRefinesOwnership`: under the mapping `holds <- open \ {newPort} # {}`,
`lent <- marker`, `shut <- closed` every step of the lease is a step of
`PortOwnership` or a stutter. `newPort` is subtracted because an acquire that opens
the port and then meets shutdown drops it again without having taken the port back. On
a slow port none of this holds: `LentIsMarked` is refuted there.

**`SessionServerProofs`.** `ServerInv` is the conjunction of

* `LockInv`: `writeMu` is held exactly in the three places that hold it, a writer
  does not see a lent port, and a lending never starts under a claim;
* `OwnerInv`: an owner is a handler between its grant and its removal, and one
  past `removeClient` is out of the client set;
* `StrayInv`: a handler that has passed the check and waits under somebody else's
  claim has written nothing under that claim yet, which is why one chunk is the most.

`PortKeptHolds`, `DepartedHoldsNothingHolds` and `StrayBoundedHolds` follow.

**`ShareBridgeProofs`.** Three invariants, each inductive with the types:

* `LineInv`, as above, for `writeMu`, the claim and the strays of every writer;
* `QueueInv`: along each hub port what was heard, what is being written, what is
  queued and what the reader has still to queue are in the device's order;
* `CloseInv`: what is gone in each place of the closing bridge.

`StrayBoundedHolds` and `GoneHoldsNothingHolds` follow. `BridgeRefinesFanOut` maps the
hub ports to the listeners: only the end of a hub port's write changes `heard`, and
`QueueInv` says that the chunk is newer than all that was heard and not newer than what
the device has said.

**`CaptureLogProofs`.** `QueueInv`: as long as no write has failed, what was accepted is
what is in the cache, then the chunk the writer has, then the queue; `done` means closed and empty.
`FlushedOnCloseHolds` follows. `SpoilInv`: between two clears every index entry but
the first points at its own bytes, and the cache's end is where the next chunk goes unless
the index is empty. `ClearSpoilsOneHolds` follows. `OverlayInv`: of the lines before those it
has at hand the overlay has shown exactly what others sent, but for those that came up while it was
muted (`hushed`), and those at hand are the next lines of the index, as written. Up to a clear the index only grows, and `SpoilInv` makes
each line point at its own bytes, so a line read once stays what it was.
`OverlayFaithfulHolds` follows. `TypeCorrect` covers the log and the overlay.

**`ShellTransferProofs`.** What concerns the keyboard is proved from `~Overtakes`.
`HandInv` says which goroutine may be in `handBack` in each place of the reader, that the gate is opened
only when released, handed and not holding, and counts the hand-backs; `ClaimInv` relates the
claim and the notices under way to the reader; `GateInv` the gate to the reader.
`HandedOnceHolds`, `KeysHeldHolds` and `OpenMeansFreeHolds` follow.

What concerns the output needs no such hypothesis. `PanelInv`: output is held back
only while the summary of the latest transfer waits, or is about to; `WireInv`: the text on
the wire is in order and newer than all that came out, but for what the reader skips on
its way to its own notice; `Accounted`: every piece sent is on the wire, shown, held, dropped by
the panel, or missed.
Together they are inductive, and `OutputKeptHolds` follows.

**`ZResumeProofs`.** `ResumeInv` is the conjunction of

* `LineInv`: every question on the line is about a prefix of the source, every
  answer the CRC of one, so an answer to an older question that matches is as good;
* `ContentInv`: from the moment the start is known, the partial file and the buffer
  behind it are a prefix of the source;
* `RuleInv`: a file that exists is the target only by "replace", "dated" or "append";
* `ResultInv`: a report is made at the end of a session only, and is true.

It uses that the source does not change during a session, and no bound. `DoneMeansThereHolds` and
`KeepsFilesHolds` follow. `TypeCorrect` needs `Sized` besides, and that the disk has room
for one file (`MaxLen <= MaxDisk`): what `decide` measured before it appends still fits,
and a question about a partial file is about at least one unit of it. `ExitTellsDone` says what becomes of such reports in the exit code,
for batches of any length.

**`SessionLifeProofs`** is about one user, who gives one command after the other
(`Commands = {c}`), for any number of workers and any commands. With two users the
properties need not hold, for want of a lock on `state.json`, as `life_race` shows of a stop.
`LifeInv` is the conjunction of

* `PlaceInv`: which commands come to which step, and how many workers and addresses are
  left for them;
* `OwnerInv`: at most one worker lives, and in each place of the command either `state.json`
  or the command knows it;
* `ToldInv` and `PausedInv`: what a stop or a pause has promised can be met only by a check,
  which saves a copy that says the same;
* `PairsInv`: every copy of the state that may be written back names the pairs;
* `MarksInv` and `LeftInv`: what a living worker's mode and lease say of the marker, and that a
  marker left over when the state names virtual ports meets no pairs, so that the share worker,
  which alone clears no marker, cannot serve under it.

Whether a killed worker lingers does not matter to it, nor do crashes, failed
starts and interrupts. `NoOrphanHolds`, `StopStopsHolds`, `PausePromiseHolds`,
`MarkerHonestHolds` and `PairsTrackedHolds` follow.

**`ZModemProofs`.** `TypeCorrect` needs no more than that the receiver has a file whenever
it works on one. `BatchInv` is the conjunction of

* `OfferInv`: the offers on the line are of the sender's file or repeat the one the receiver
  answered last; behind the first offer of a new file, until it is read, nothing but the offer
  again follows (or the cancel sequence);
* `DataInv`, once the receiver has seen that offer: the units on the line are of the sender's
  file, a ZEOF names its end, and within a frame each unit follows the one before it
  (`ChainInv`) up to where the sender stands (`TipInv`). Noise may damage or take the first
  item only when it is read, so what is left is still a chain; a frame that is given up
  is followed by ZDATA with its own position before the next unit;
* `FrameInv`: the first unit on the line is the next one of a receiver that is in a frame;
* `OfferAnswers` and `DataAnswers`: a ZRPOS or ZSKIP that meets an offer was said of it,
  and a ZRINIT or ZSKIP that meets a file's data or its ZEOF was said after the receiver
  was done with that file. This is why a ZRINIT that answers something else never passes for
  the answer to ZEOF;
* `PlaceInv`, `ResultInv` and `PartInv`: where both sides are, what is reported, and that the
  partial file is the beginning of the sender's file.

Each was first checked by TLC on batches of one to three files. Every step is of one of the
kinds in `SenderMoves` and `ReceiverMoves`, and each kind keeps each part.
`SavedFaithfulHolds` and `OkMeansSavedHolds` follow, under `LastMayFail`: no source but
the last file's fails while it is sent. Without it they are false, and `zmodem_cut` shows how.
No bound is used: any files, window, retries and noise.

The same module proves of the bytes of `ZFraming`: `Transparent`,
`DataIsQuiet`, `FrameEndsAreRead` (a frame end is read as one, and no data is written like
it), `HexComesBack`, `PositionsWrap`, for every byte and position; the last says what becomes of files beyond 4 GiB, of which the models make no
more than the code does.

**Only model-checked:** liveness, that is every property of a run under `FairSpec`
(`EveryoneProceeds`, `PortFreedAtEnd`, `ClaimEnds`, `SourcesReturn`, `OverlayCatchesUp`,
`BothEnd`, `Recovers`, `HubNeverBlocks`, `BridgeReturns`, `ShellComesBack`,
`ResumeFinishes`): the provers do not do fairness and `ENABLED`. Every invariant, `KeepsFiles`
and both refinements that a passing run checks are theorems; those of `PortLease`,
`ShellTransfer`, `ZModem` and `SessionLife` that need a hypothesis name it in the statement.

## 5. Not modelled, and why

* Nothing to interleave and no state kept: the command line, console modes, pickers,
  diagnostics, the skill installer, the bundled tools, the panel's drawing, the
  payload parser. `stream`, `ask` and `send` copy one connection to another; the
  TCP bridge is a client of the session server or of the share bridge.
* The handshake before the first offer, XON/XOFF and the link's speed: they choose
  parameters and wait, and add nothing to what `ZModem` says of the data.
* The arithmetic of the CRCs (a CRC fails on noise by assumption), the scanner that
  finds the next header after garbage, the detector of a header in the shell's
  output: byte by byte they are parsers whose result is what `ZModem` and
  `ShellTransfer` choose from.
* The line assembler and the readers of the logs: pure functions of the files.
* Two receivers in one directory share a `.zpart` and may replace each other's
  target (`renamedPath` finds a free name, `commitPart` renames to it later). The
  code does nothing about it, and `ZResume` assumes one.

What is left to do, in this order: the ordering of log chunks across connections, on
which the code promises nothing; the line assembler against a reference definition.
