---------------------------- MODULE ShellTransfer ----------------------------
(***************************************************************************)
(* A file transfer inside sio shell. copyShellOutput reads what the worker *)
(* sends to the shell; a ZMODEM header in it starts a transfer in the same *)
(* goroutine (shellTransfer.start), over a connection of its own that      *)
(* claims the port. While it runs, the gate keeps the keys from the device.*)
(* On a terminal a panel shows it, then its summary, until Enter is typed: *)
(* a goroutine of the transfer waits for that (the dismisser). The         *)
(* keyboard goes back (handBack) once the worker has ended the claim and   *)
(* no summary waits, from whichever goroutine gets there last.             *)
(*                                                                         *)
(* Transfers are numbered. What the worker sends is a sequence of items: a *)
(* numbered piece of the device's output, a header, or the notice that a   *)
(* transfer has ended.                                                     *)
(***************************************************************************)
EXTENDS Naturals, Sequences, FiniteSets

CONSTANTS
    MaxTransfers,   \* bound: transfers of this shell
    MaxText,        \* bound: pieces of device output
    MaxWire,        \* bound: items on the wire before the device waits
    HoldMax,        \* shellPanelHoldMax: what the panel holds
    Overtakes       \* may a transfer start while the last one hands back

ASSUME ShellAssumption ==
    /\ MaxTransfers \in Nat \ {0} /\ MaxText \in Nat /\ MaxWire \in Nat /\ HoldMax \in Nat
    /\ Overtakes \in BOOLEAN

Transfers  == 1 .. MaxTransfers
Other      == 0                     \* a transfer of another program
NoClaim    == MaxTransfers + 1
Shell      == 0                     \* the shell's reader, among the goroutines that hand back
Goroutines == {Shell} \cup Transfers

VARIABLES
    wire,       \* items between the worker and the shell
    sent,       \* pieces of output the device has sent
    claim,      \* the worker's claim: a transfer, Other or NoClaim
    leaving,    \* transfers whose connection is closed, not yet noticed by the worker
    ending,     \* transfers whose claim has ended, before noticeOthers
    others,     \* bound: another program has had its one transfer
    reader,     \* where copyShellOutput is
    started,    \* the number of the latest transfer
    holding, released, handed,      \* fields of shellTransfer
    early,      \* history: transfers taken for released before their own notice came
    panel,      \* the panel of the latest transfer
    paused,     \* an inline prompt uses the input line
    held,       \* panel.held
    shown,      \* history: output on the terminal
    dropped,    \* history: pieces of output the panel had no room for
    missed,     \* history: pieces of output that the reader has not passed on
    active, dismiss,    \* shellGate; dismiss is the transfer whose summary waits, or 0
    line,       \* shellGate.lines: none, or one typed ahead of a question or after it
    closedCh,   \* dismiss channels that are closed
    hand,       \* where the goroutines that may hand back are
    commits,    \* history: how often the keyboard was handed back
    raw, inTransfer     \* shellInputState: rawKeys, transfer

workerVars == <<wire, sent, claim, leaving, ending, others>>
flagVars   == <<holding, released, handed, early>>
panelVars  == <<panel, paused, held, shown, dropped, missed>>
gateVars   == <<active, dismiss, line, closedCh>>
inputVars  == <<raw, inTransfer>>
vars == <<workerVars, reader, started, flagVars, panelVars, gateVars, hand, commits, inputVars>>

Init ==
    /\ wire = << >> /\ sent = 0 /\ claim = NoClaim /\ leaving = {} /\ ending = {}
    /\ others = FALSE
    /\ reader = "read" /\ started = 0
    /\ holding = FALSE /\ released = FALSE /\ handed = FALSE /\ early = {}
    /\ panel = "none" /\ paused = FALSE /\ held = << >> /\ shown = << >>
    /\ dropped = {} /\ missed = {}
    /\ active = FALSE /\ dismiss = 0 /\ line = "none" /\ closedCh = {}
    /\ hand = [a \in Goroutines |-> "none"] /\ commits = 0
    /\ raw = FALSE /\ inTransfer = FALSE

-----------------------------------------------------------------------------
(* The worker and the device (SessionServer models them in full).          *)

Text(n)   == [kind |-> "text", n |-> n]
Header    == [kind |-> "header", n |-> 0]
Notice(t) == [kind |-> "notice", n |-> t]

Arrives(item) == wire' = Append(wire, item)

\* The pieces among some items, and those of some output.
Texts(items) == {items[i].n : i \in {j \in DOMAIN items : items[j].kind = "text"}}
Of(output)   == {output[i] : i \in DOMAIN output}

\* Without a claim the shell hears the device.
DeviceSends ==
    /\ claim = NoClaim /\ Len(wire) < MaxWire
    /\ \/ sent < MaxText /\ Arrives(Text(sent + 1)) /\ sent' = sent + 1
       \/ started < MaxTransfers /\ Arrives(Header) /\ sent' = sent
    /\ UNCHANGED <<claim, leaving, ending, others, reader, started, flagVars, panelVars,
                   gateVars, hand, commits, inputVars>>

OtherClaims ==
    /\ claim = NoClaim /\ ~others
    /\ claim' = Other
    /\ others' = TRUE
    /\ UNCHANGED <<wire, sent, leaving, ending, reader, started, flagVars, panelVars,
                   gateVars, hand, commits, inputVars>>

\* removeClient(conn): the claim ends before the others are told.
ClaimEnds(t) ==
    /\ claim = t /\ t \in leaving \cup {Other}
    /\ claim' = NoClaim
    /\ ending' = ending \cup {t}
    /\ leaving' = leaving \ {t}
    /\ UNCHANGED <<wire, sent, others, reader, started, flagVars, panelVars, gateVars,
                   hand, commits, inputVars>>

NoticeOthers(t) ==
    /\ t \in ending
    /\ Arrives(Notice(t))
    /\ ending' = ending \ {t}
    /\ UNCHANGED <<sent, claim, leaving, others, reader, started, flagVars, panelVars,
                   gateVars, hand, commits, inputVars>>

-----------------------------------------------------------------------------
(* shellPanel: output goes to the terminal, or is held from the end of the *)
(* session until the summary is gone.                                      *)

SlipPanelHolds(item) ==
    IF panel \in {"last", "summary"}
    THEN held' = Append(held, item) /\ UNCHANGED <<shown, dropped>>
    ELSE shown' = Append(shown, item) /\ UNCHANGED <<held, dropped>>
PanelTakes(item) ==
    IF panel \in {"last", "summary"}
    THEN /\ held' = IF Len(held) < HoldMax THEN Append(held, item) ELSE Tail(Append(held, item))
         /\ dropped' = IF Len(held) < HoldMax THEN dropped
                       ELSE dropped \cup {Head(Append(held, item))}
         /\ UNCHANGED shown
    ELSE /\ shown' = Append(shown, item)
         /\ UNCHANGED <<held, dropped>>

-----------------------------------------------------------------------------
(* start: the gate closes, the flags are reset, the input layer and the    *)
(* panel change over, and the session runs.                                *)

Running == reader = "run"

Begin ==
    /\ reader = "found" /\ reader' = "begun"
    /\ active' = TRUE /\ dismiss' = 0 /\ line' = "none"
    /\ UNCHANGED <<workerVars, started, flagVars, panelVars, closedCh, hand, commits,
                   inputVars>>

Reset ==
    /\ reader = "begun" /\ reader' = "reset"
    /\ panel' = "none" /\ holding' = FALSE /\ released' = FALSE /\ handed' = FALSE
    /\ UNCHANGED <<workerVars, started, early, paused, held, shown, dropped, missed,
                   gateVars, hand, commits, inputVars>>

\* setTransfer(true); only a terminal has a panel, and raw keys with it.
Opens ==
    /\ reader = "reset" /\ reader' = "run"
    /\ inTransfer' = TRUE
    /\ \/ panel' = panel /\ raw' = raw
       \/ panel' = "up"  /\ raw' = TRUE
    /\ UNCHANGED <<workerVars, started, flagVars, paused, held, shown, dropped, missed,
                   gateVars, hand, commits>>

\* claimTransferPort: granted, unless another transfer is quicker; then run
\* returns an error.
Claims ==
    /\ Running /\ claim = NoClaim /\ started \notin leaving \cup ending
    /\ claim' = started
    /\ UNCHANGED <<wire, sent, leaving, ending, others, reader, started, flagVars,
                   panelVars, gateVars, hand, commits, inputVars>>

\* The panel hears that the session finishes; text of the device follows.
PhaseFinish ==
    /\ Running /\ claim = started /\ panel = "up" /\ ~paused
    /\ panel' = "last"
    /\ UNCHANGED <<workerVars, reader, started, flagVars, paused, held, shown, dropped,
                   missed, gateVars, hand, commits, inputVars>>

DeviceText ==
    /\ Running /\ claim = started /\ ~paused /\ sent < MaxText
    /\ sent' = sent + 1
    /\ PanelTakes(sent + 1)
    /\ UNCHANGED <<wire, claim, leaving, ending, others, reader, started, flagVars, panel,
                   paused, missed, gateVars, hand, commits, inputVars>>

\* inlinePicker.ask: the line editor and the input line are needed.
Asks ==
    /\ Running /\ claim = started /\ panel = "up" /\ ~paused
    /\ paused' = TRUE /\ raw' = FALSE
    /\ UNCHANGED <<workerVars, reader, started, flagVars, panel, held, shown, dropped,
                   missed, gateVars, hand, commits, inTransfer>>

Answered ==
    /\ paused /\ line # "none"
    /\ line' = "none"
    /\ paused' = FALSE /\ raw' = TRUE
    /\ UNCHANGED <<workerVars, reader, started, flagVars, panel, held, shown, dropped,
                   missed, active, dismiss, closedCh, hand, commits, inTransfer>>

\* Ctrl+C, or the device gave up (closePrompt).
GivenUp ==
    /\ paused
    /\ paused' = FALSE /\ raw' = TRUE
    /\ UNCHANGED <<workerVars, reader, started, flagVars, panel, held, shown, dropped,
                   missed, gateVars, hand, commits, inTransfer>>

\* run returns and its connection is closed, with or without a claim: the
\* session ended, failed or was cancelled. Without a panel start returns.
RunReturns ==
    /\ Running /\ ~paused
    /\ reader' = IF panel = "none" THEN "skip" ELSE "holds"
    /\ leaving' = IF claim = started THEN leaving \cup {started} ELSE leaving
    /\ UNCHANGED <<wire, sent, claim, ending, others, started, flagVars, panelVars,
                   gateVars, hand, commits, inputVars>>

\* The summary: holding and the gate, then the panel and the dismisser.
Holds ==
    /\ reader = "holds" /\ reader' = "finishes"
    /\ holding' = TRUE
    /\ dismiss' = started
    /\ UNCHANGED <<workerVars, started, released, handed, early, panelVars, active, line,
                   closedCh, hand, commits, inputVars>>

Finish ==
    /\ reader = "finishes" /\ reader' = "skip"
    /\ panel' = "summary"
    /\ hand' = [hand EXCEPT ![started] = "waits"]
    /\ UNCHANGED <<workerVars, started, flagVars, paused, held, shown, dropped, missed,
                   gateVars, commits, inputVars>>

StartSteps == Begin \/ Reset \/ Opens \/ Holds \/ Finish

Session == Claims \/ PhaseFinish \/ DeviceText \/ Asks \/ Answered \/ GivenUp \/ RunReturns

-----------------------------------------------------------------------------
(* copyShellOutput: one item after the other.                              *)

Reads(kinds) == wire # << >> /\ Head(wire).kind \in kinds /\ wire' = Tail(wire)

\* Up to the release notice everything is skipped.
Skips ==
    /\ reader = "skip" /\ Reads({"text", "header"})
    /\ missed' = missed \cup Texts(<<Head(wire)>>)
    /\ UNCHANGED <<sent, claim, leaving, ending, others, reader, started, flagVars, panel,
                   paused, held, shown, dropped, gateVars, hand, commits, inputVars>>

\* release: by the notice of any transfer, or, from an older worker or a slow
\* one, without it.
Releases(t) ==
    /\ released' = TRUE
    /\ early' = IF t = started THEN early ELSE early \cup {started}
    /\ hand' = [hand EXCEPT ![Shell] = "ready"]
    /\ reader' = "hands"

NoticeFound ==
    /\ reader = "skip" /\ Reads({"notice"})
    /\ Releases(Head(wire).n)
    /\ UNCHANGED <<sent, claim, leaving, ending, others, started, holding, handed,
                   panelVars, gateVars, commits, inputVars>>

ReleaseTimeout ==
    /\ reader = "skip"
    /\ Releases(Other)
    /\ UNCHANGED <<workerVars, started, holding, handed, panelVars, gateVars, commits,
                   inputVars>>

\* shellTransfer.write; a notice is not shown.
Shows ==
    /\ reader = "read" /\ Reads({"text", "notice"})
    /\ IF Head(wire).kind = "text"
       THEN PanelTakes(Head(wire).n)
       ELSE UNCHANGED <<held, shown, dropped>>
    /\ UNCHANGED <<sent, claim, leaving, ending, others, reader, started, flagVars, panel,
                   paused, missed, gateVars, hand, commits, inputVars>>

\* zDetector.feed: what the same read returned after a header is dropped with
\* it, before it is known whether the header counts.
DropsRead ==
    /\ reader = "read" /\ wire # << >> /\ Head(wire).kind = "header"
    /\ \E k \in 1 .. Len(wire) :
          /\ wire' = SubSeq(wire, k + 1, Len(wire))
          /\ missed' = missed \cup Texts(SubSeq(wire, 1, k))

\* A header under a summary is ignored, and, for shellTransferCooldown, one
\* that the device repeats after a transfer.
HeaderIgnored ==
    /\ DropsRead
    /\ holding \/ started > 0
    /\ UNCHANGED <<sent, claim, leaving, ending, others, reader, started, flagVars, panel,
                   paused, held, shown, dropped, gateVars, hand, commits, inputVars>>

HandsBack(a) == hand[a] \in {"ready", "opens", "opensRaw", "prompts", "promptsRaw"}

HeaderFound ==
    /\ DropsRead
    /\ ~holding /\ started < MaxTransfers
    /\ Overtakes \/ \A t \in Transfers : ~HandsBack(t)
    /\ started' = started + 1
    /\ reader' = "found"
    /\ UNCHANGED <<sent, claim, leaving, ending, others, flagVars, panel, paused, held,
                   shown, dropped, gateVars, hand, commits, inputVars>>

ReadSteps == Skips \/ NoticeFound \/ ReleaseTimeout \/ Shows \/ HeaderIgnored \/ HeaderFound

-----------------------------------------------------------------------------
(* The dismisser of a transfer: panel.close, then holding, then handBack.  *)

SlipClosePanel(t) ==
    /\ hand[t] = "waits" /\ t \in closedCh
    /\ panel' = "closed"
    /\ held' = << >> /\ shown' = shown
    /\ hand' = [hand EXCEPT ![t] = "unholds"]
    /\ UNCHANGED <<workerVars, reader, started, flagVars, paused, dropped, missed,
                   gateVars, commits, inputVars>>
ClosePanel(t) ==
    /\ hand[t] = "waits" /\ t \in closedCh
    /\ panel' = "closed"
    /\ shown' = shown \o held /\ held' = << >>
    /\ hand' = [hand EXCEPT ![t] = "unholds"]
    /\ UNCHANGED <<workerVars, reader, started, flagVars, paused, dropped, missed,
                   gateVars, commits, inputVars>>

SlipUnholds(t) ==
    /\ hand[t] = "unholds"
    /\ holding' = FALSE
    /\ hand' = [hand EXCEPT ![t] = "done"]
    /\ UNCHANGED <<workerVars, reader, started, released, handed, early, panelVars,
                   gateVars, commits, inputVars>>
Unholds(t) ==
    /\ hand[t] = "unholds"
    /\ holding' = FALSE
    /\ hand' = [hand EXCEPT ![t] = "ready"]
    /\ UNCHANGED <<workerVars, reader, started, released, handed, early, panelVars,
                   gateVars, commits, inputVars>>

-----------------------------------------------------------------------------
(* handBack, by the reader (a = Shell) or by a dismisser.                  *)

SlipHandBack(a) ==
    /\ hand[a] = "ready"
    /\ IF released /\ ~holding
       THEN /\ handed' = TRUE /\ commits' = commits + 1
            /\ hand' = [hand EXCEPT ![a] = IF panel = "none" THEN "opens" ELSE "opensRaw"]
       ELSE /\ UNCHANGED <<handed, commits>>
            /\ hand' = [hand EXCEPT ![a] = "done"]
    /\ UNCHANGED <<workerVars, reader, started, holding, released, early, panelVars,
                   gateVars, inputVars>>
SlipHandsBackEarly(a) ==
    /\ hand[a] = "ready"
    /\ IF ~holding /\ ~handed
       THEN /\ handed' = TRUE /\ commits' = commits + 1
            /\ hand' = [hand EXCEPT ![a] = IF panel = "none" THEN "opens" ELSE "opensRaw"]
       ELSE /\ UNCHANGED <<handed, commits>>
            /\ hand' = [hand EXCEPT ![a] = "done"]
    /\ UNCHANGED <<workerVars, reader, started, holding, released, early, panelVars,
                   gateVars, inputVars>>
HandBack(a) ==
    /\ hand[a] = "ready"
    /\ IF released /\ ~holding /\ ~handed
       THEN /\ handed' = TRUE /\ commits' = commits + 1
            /\ hand' = [hand EXCEPT ![a] = IF panel = "none" THEN "opens" ELSE "opensRaw"]
       ELSE /\ UNCHANGED <<handed, commits>>
            /\ hand' = [hand EXCEPT ![a] = "done"]
    /\ UNCHANGED <<workerVars, reader, started, holding, released, early, panelVars,
                   gateVars, inputVars>>

GateEnd(a) ==
    /\ hand[a] \in {"opens", "opensRaw"}
    /\ active' = FALSE /\ dismiss' = 0
    /\ hand' = [hand EXCEPT ![a] = IF @ = "opens" THEN "prompts" ELSE "promptsRaw"]
    /\ UNCHANGED <<workerVars, reader, started, flagVars, panelVars, line, closedCh,
                   commits, inputVars>>

\* Only a panel had raw keys; setTransfer(false) shows a fresh prompt.
InputBack(a) ==
    /\ hand[a] \in {"prompts", "promptsRaw"}
    /\ raw' = IF hand[a] = "promptsRaw" THEN FALSE ELSE raw
    /\ inTransfer' = FALSE
    /\ hand' = [hand EXCEPT ![a] = "done"]
    /\ UNCHANGED <<workerVars, reader, started, flagVars, panelVars, gateVars, commits>>

\* The reader goes on with what came after the notice.
ReadsOn ==
    /\ reader = "hands" /\ hand[Shell] = "done"
    /\ reader' = "read"
    /\ hand' = [hand EXCEPT ![Shell] = "none"]
    /\ UNCHANGED <<workerVars, started, flagVars, panelVars, gateVars, commits, inputVars>>

HandSteps(a) ==
    \/ HandBack(a) \/ GateEnd(a) \/ InputBack(a)
    \/ a # Shell /\ (ClosePanel(a) \/ Unholds(a))

-----------------------------------------------------------------------------
(* shellGate.feed: a closed gate keeps the key from the device. Enter or   *)
(* Ctrl+C dismisses the summary; before it, Ctrl+C only lets the session   *)
(* end sooner than it would, and a line is kept for a question.            *)

Dismisses ==
    /\ active /\ dismiss # 0
    /\ closedCh' = closedCh \cup {dismiss}
    /\ UNCHANGED <<workerVars, reader, started, flagVars, panelVars, active, dismiss, line,
                   hand, commits, inputVars>>

\* Four lines in the code; a line that finds no room is lost.
TypesLine ==
    /\ active /\ dismiss = 0 /\ line = "none"
    /\ line' = IF paused THEN "asked" ELSE "ahead"
    /\ UNCHANGED <<workerVars, reader, started, flagVars, panelVars, active, dismiss,
                   closedCh, hand, commits, inputVars>>

-----------------------------------------------------------------------------
Next ==
    \/ DeviceSends \/ OtherClaims
    \/ \E t \in {Other} \cup Transfers : ClaimEnds(t) \/ NoticeOthers(t)
    \/ StartSteps \/ Session \/ ReadSteps \/ ReadsOn
    \/ \E a \in Goroutines : HandSteps(a)
    \/ Dismisses \/ TypesLine

Spec == Init /\ [][Next]_vars

(* The shell's goroutines run, and its read deadline passes: the reader    *)
(* does not wait for a notice for ever. Someone presses Enter while a      *)
(* summary waits. Neither the worker nor the session owes anything.        *)
Fairness ==
    /\ WF_vars(StartSteps) /\ WF_vars(ReadsOn)
    /\ WF_vars(NoticeFound \/ ReleaseTimeout)
    /\ \A a \in Goroutines : WF_vars(HandSteps(a))
    /\ WF_vars(Dismisses)

FairSpec == Spec /\ Fairness

-----------------------------------------------------------------------------
Items == {Text(n) : n \in 1 .. MaxText} \cup {Header} \cup {Notice(t) : t \in 0 .. MaxTransfers}

(* The type of every variable; the panel holds no more than it has room    *)
(* for (shellPanelHoldMax).                                                *)
TypeOK ==
    /\ wire \in Seq(Items)
    /\ sent \in 0 .. MaxText
    /\ claim \in 0 .. NoClaim
    /\ leaving \subseteq Transfers /\ ending \subseteq {Other} \cup Transfers
    /\ reader \in {"read", "found", "begun", "reset", "run", "holds", "finishes", "skip",
                   "hands"}
    /\ started \in 0 .. MaxTransfers
    /\ others \in BOOLEAN /\ holding \in BOOLEAN /\ released \in BOOLEAN /\ handed \in BOOLEAN
    /\ paused \in BOOLEAN /\ active \in BOOLEAN /\ raw \in BOOLEAN /\ inTransfer \in BOOLEAN
    /\ early \subseteq Transfers /\ closedCh \subseteq Transfers
    /\ panel \in {"none", "up", "last", "summary", "closed"}
    /\ held \in Seq(1 .. MaxText) /\ Len(held) <= HoldMax
    /\ shown \in Seq(1 .. MaxText)
    /\ dropped \subseteq 1 .. MaxText /\ missed \subseteq 1 .. MaxText /\ commits \in Nat
    /\ dismiss \in 0 .. MaxTransfers
    /\ line \in {"none", "ahead", "asked"}
    /\ hand \in [Goroutines -> {"none", "waits", "unholds", "ready", "opens", "opensRaw",
                                "prompts", "promptsRaw", "done"}]

InSession == reader \in {"run", "holds", "finishes", "skip"}

(* "gatedReader holds keyboard input back from the device during a         *)
(* transfer", and the input layer knows that Ctrl+C belongs to it.         *)
KeysHeld == InSession => active /\ inTransfer

(* "whole lines go to an inline picker prompt if one waits": what answers  *)
(* a question was typed after it.                                          *)
AnswerFollowsQuestion == [][line # "none" /\ line' = "none" /\ paused => line = "asked"]_vars

(* handBack returns the keyboard "exactly once per transfer": a second     *)
(* time would throw away the line that is being typed.                     *)
HandedOnce == commits <= started

(* The gate opens only after the worker has dropped our claim, so that no  *)
(* key typed afterwards is thrown away by the worker (comment on start),   *)
(* except where the reader went by a time-out or by somebody else's notice.*)
OpenMeansFree == claim \in Transfers /\ ~active => claim \in early

(* Of the output of the device nothing gets lost on the way: every piece   *)
(* is still to be read, on the terminal, held by the panel, dropped by a   *)
(* panel without room, which says so, or missed: it came between a         *)
(* transfer and its release notice ("protocol bytes, not output"), or in   *)
(* one read behind a header, also one that is ignored. What is shown is in *)
(* the order it came, unless a release was early.                          *)
OutputKept ==
    /\ 1 .. sent = UNION {Texts(wire), Of(shown), Of(held), dropped, missed}
    /\ early = {} => LET out == shown \o held
                     IN  \A i, j \in DOMAIN out : i < j => out[i] < out[j]

(* After every transfer, once Enter was pressed, the shell is as it was:   *)
(* the keys go to the device, the line editor is back, and the output that *)
(* the panel has held is on the terminal.                                  *)
ShellComesBack ==
    active /\ reader = "skip" ~> ~active /\ ~raw /\ ~inTransfer /\ held = << >>
=============================================================================
