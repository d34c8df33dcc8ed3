------------------------------- MODULE ZResume -------------------------------
(***************************************************************************)
(* One name on the receiver's disk over many ZMODEM sessions: what becomes *)
(* of a target that exists, of the partial file <name>.zpart of a session  *)
(* that was cut, and what both sides report. ZModem shows that the data of *)
(* one session arrives in order; here a session's data comes unit by unit, *)
(* and the questions about CRCs may be lost, late or repeated.             *)
(*                                                                         *)
(* A CRC is the content it was computed from: two contents do not collide. *)
(***************************************************************************)
EXTENDS Naturals, Sequences, FiniteSets

CONSTANTS
    Units,      \* the data a file is made of
    None,       \* no such file
    MaxLen,     \* bound: units of an offered file
    MaxDisk,    \* bound: units of a file on the disk, what is appended to it included
    Copies,     \* bound: name_1 .. name_Copies besides the name itself
    Tries,      \* zCRCTries
    MaxFaults   \* bound: lost and late messages, early cuts, crashes, local errors, changes
                \* of the source

ASSUME ResumeAssumption ==
    /\ MaxLen \in Nat \ {0} /\ MaxDisk \in Nat /\ MaxLen <= MaxDisk /\ Copies \in Nat
    /\ Tries \in Nat \ {0, 1} /\ MaxFaults \in Nat
    /\ None \notin Seq(Units)

Contents == UNION {[1 .. n -> Units] : n \in 1 .. MaxLen}
Stored   == UNION {[1 .. n -> Units] : n \in 0 .. MaxDisk}
Names    == 0 .. Copies

(* What a sender may ask for and the receiver's own policy may overrule:   *)
(* the conversion, whether it answers ZCRC, and what becomes of a target   *)
(* that exists. "dated" stands for the rules that compare dates and sizes. *)
Rules  == {"compare", "replace", "keep", "rename", "append", "dated", "present"}
Offers == {o \in [resume : BOOLEAN, answers : BOOLEAN, rule : Rules] : o.resume => o.answers}

VARIABLES
    source,         \* the file the sender offers
    disk, part,     \* name -> content or None: the files, and their .zpart
    phase,          \* of the session
    offer,          \* what it asks for
    target, action, \* what decide chose
    tries,          \* questions asked for the present CRC
    questions, answers,     \* ZCRC headers on the line, each way
    crcAsked,       \* sendFile: the sender was asked for a CRC
    start, buf,     \* where the data began; the units not yet in the partial file
    received, sent, \* how the session ended, as each side reports it
    faults

lineVars   == <<questions, answers>>
resultVars == <<received, sent>>
vars == <<source, disk, part, phase, offer, target, action, tries, lineVars, crcAsked, start,
          buf, resultVars, faults>>

Init ==
    /\ source \in Contents
    /\ disk \in [Names -> Contents \cup {None}] /\ \A n \in Names \ {0} : disk[n] = None
    /\ part = [n \in Names |-> None]
    /\ phase = "idle"
    /\ offer = [resume |-> TRUE, answers |-> TRUE, rule |-> "compare"]
    /\ target = 0 /\ action = "write" /\ tries = 0
    /\ questions = << >> /\ answers = << >> /\ crcAsked = FALSE
    /\ start = 0 /\ buf = << >>
    /\ received = "none" /\ sent = "none"
    /\ faults = 0

Prefix(content, n) == SubSeq(content, 1, n)
Faulty == faults < MaxFaults /\ faults' = faults + 1

-----------------------------------------------------------------------------
(* A session begins and ends.                                              *)

Offering ==
    /\ phase = "idle"
    /\ phase' = "offered"
    /\ offer' \in Offers
    /\ received' = "none" /\ sent' = "none"
    /\ target' = 0 /\ action' = "write"
    /\ UNCHANGED <<source, disk, part, tries, lineVars, crcAsked, start, buf, faults>>

\* Between two sessions the file at the sender may be written.
SourceChanges ==
    /\ phase = "idle" /\ Faulty
    /\ source' \in Contents
    /\ received' = "none" /\ sent' = "none"
    /\ UNCHANGED <<disk, part, phase, offer, target, action, tries, lineVars, crcAsked, start,
                   buf>>

Ends(r, s) ==
    /\ phase' = "idle"
    /\ received' = r /\ sent' = s
    /\ questions' = << >> /\ answers' = << >>
    /\ tries' = 0 /\ crcAsked' = FALSE /\ start' = 0 /\ buf' = << >>

\* receiveFile's skip: ZSKIP before any data. The sender names the reason
\* after what it was asked.
Skips(status) == Ends(status, IF crcAsked THEN "skipped" ELSE "refused")

-----------------------------------------------------------------------------
(* decide, and the resume point after it.                                  *)

Asks(n) == questions' = Append(questions, n) /\ tries' = 1

Starts(from) ==
    /\ phase' = "opening"
    /\ start' = from
    /\ tries' = 0 /\ questions' = << >> /\ answers' = << >>

SlipResumable(name) ==
    /\ offer.resume
    /\ part[name] # None /\ Len(part[name]) < Len(source)
Resumable(name) ==
    /\ offer.resume
    /\ part[name] # None /\ Len(part[name]) \in 1 .. Len(source) - 1

Writes(name) ==
    /\ target' = name /\ action' = "write"
    /\ IF Resumable(name)
       THEN phase' = "prefix" /\ Asks(Len(part[name])) /\ UNCHANGED <<answers, start>>
       ELSE Starts(0)
    /\ UNCHANGED <<crcAsked, buf, resultVars>>

\* renamedPath: the first name that is free.
Free(name) == disk[name] = None /\ \A n \in 1 .. name - 1 : disk[n] # None
Renames == \E n \in Names \ {0} : Free(n) /\ Writes(n)

Exists == disk[0] # None
Decides == phase = "offered" /\ UNCHANGED <<source, disk, part, offer, faults>>

DecidesNew ==
    /\ Decides /\ ~Exists /\ offer.rule # "present"
    /\ Writes(0)

DecidesReplace ==
    /\ Decides /\ Exists /\ offer.rule \in {"replace", "dated"}
    /\ Writes(0)

SlipDecidesRename ==
    /\ Decides /\ Exists /\ offer.rule = "rename"
    /\ Writes(0)
DecidesRename ==
    /\ Decides /\ Exists /\ offer.rule = "rename"
    /\ Renames

DecidesRefuse ==
    /\ Decides
    /\ IF Exists THEN offer.rule \in {"keep", "dated"} ELSE offer.rule = "present"
    /\ Skips("refused")
    /\ UNCHANGED <<target, action>>

DecidesAppend ==
    /\ Decides /\ Exists /\ offer.rule = "append"
    /\ Len(disk[0]) + Len(source) <= MaxDisk
    /\ target' = 0 /\ action' = "append"
    /\ Starts(0)
    /\ UNCHANGED <<crcAsked, buf, resultVars>>

\* identical: only a sender that answers is asked, and only for equal sizes.
Comparable == offer.answers /\ Len(disk[0]) = Len(source)

DecidesCompare ==
    /\ Decides /\ Exists /\ offer.rule \in {"compare", "present"}
    /\ IF Comparable
       THEN /\ phase' = "identical" /\ Asks(Len(source))
            /\ UNCHANGED <<target, action, answers, start, crcAsked, buf, resultVars>>
       ELSE Renames

-----------------------------------------------------------------------------
(* The partial file is opened and cut where the data is to start.          *)

Opens ==
    /\ phase = "opening" /\ phase' = "data"
    /\ part' = [part EXCEPT ![target] = IF @ = None THEN << >> ELSE Prefix(@, start)]
    /\ UNCHANGED <<source, disk, offer, target, action, tries, lineVars, crcAsked, start, buf,
                   resultVars, faults>>

\* MkdirAll, OpenFile, Truncate or Seek fails.
OpenFails ==
    /\ phase = "opening" /\ Faulty
    /\ Skips("failed")
    /\ UNCHANGED <<source, disk, part, offer, target, action>>

-----------------------------------------------------------------------------
(* zPrefixCRC and the sender's answer.                                     *)

Asking == phase \in {"identical", "prefix"}

SenderAnswers ==
    /\ questions # << >>
    /\ questions' = Tail(questions)
    /\ answers' = Append(answers, Prefix(source, Head(questions)))
    /\ crcAsked' = TRUE
    /\ UNCHANGED <<source, disk, part, phase, offer, target, action, tries, start, buf,
                   resultVars, faults>>

Lost ==
    /\ Asking /\ Faulty
    /\ \/ questions # << >> /\ questions' = Tail(questions) /\ UNCHANGED answers
       \/ answers # << >> /\ answers' = Tail(answers) /\ UNCHANGED questions
    /\ UNCHANGED <<source, disk, part, phase, offer, target, action, tries, crcAsked, start, buf,
                   resultVars>>

\* The wait is over, or the answer came damaged. With a question or an
\* answer still on its way the sender is only slow.
Waited == IF questions = << >> /\ answers = << >> THEN UNCHANGED faults ELSE Faulty

AsksAgain ==
    /\ Asking /\ tries < Tries /\ Waited
    /\ tries' = tries + 1
    /\ questions' = Append(questions, IF phase = "identical" THEN Len(source) ELSE Len(part[target]))
    /\ UNCHANGED <<source, disk, part, phase, offer, target, action, answers, crcAsked, start,
                   buf, resultVars>>

\* No answer means different, and no resume.
NoAnswer ==
    /\ IF phase = "identical"
       THEN Renames
       ELSE Starts(0) /\ UNCHANGED <<target, action, crcAsked, buf, resultVars>>
    /\ UNCHANGED <<source, disk, part, offer>>

GivesUp == Asking /\ tries = Tries /\ NoAnswer /\ UNCHANGED faults

\* A sender that knows ZCRESUM but not ZCRC answers ZNAK.
SenderNaks == Asking /\ questions # << >> /\ NoAnswer /\ Faulty

Answered ==
    /\ answers # << >>
    /\ UNCHANGED <<source, disk, part, offer, faults>>

HearsIdentical ==
    /\ phase = "identical" /\ Answered
    /\ Head(answers) = disk[0]
    /\ Skips("skipped")
    /\ UNCHANGED <<target, action>>

\* An answer to an earlier question stays on the line for the next one.
HearsDifferent ==
    /\ phase = "identical" /\ Answered
    /\ Head(answers) # disk[0]
    /\ \E n \in Names \ {0} :
          /\ Free(n) /\ target' = n /\ action' = "write"
          /\ IF Resumable(n)
             THEN /\ phase' = "prefix" /\ Asks(Len(part[n])) /\ answers' = Tail(answers)
                  /\ UNCHANGED start
             ELSE Starts(0)
    /\ UNCHANGED <<crcAsked, buf, resultVars>>

SlipHearsPrefix ==
    /\ phase = "prefix" /\ Answered
    /\ Starts(Len(part[target]))
    /\ UNCHANGED <<target, action, crcAsked, buf, resultVars>>
HearsPrefix ==
    /\ phase = "prefix" /\ Answered
    /\ Starts(IF Head(answers) = part[target] THEN Len(part[target]) ELSE 0)
    /\ UNCHANGED <<target, action, crcAsked, buf, resultVars>>

-----------------------------------------------------------------------------
(* The data, through a buffer into the partial file, and its end.          *)

Content == part[target] \o buf

ReceivesUnit ==
    /\ phase = "data" /\ Len(Content) < Len(source)
    /\ buf' = Append(buf, source[Len(Content) + 1])
    /\ UNCHANGED <<source, disk, part, phase, offer, target, action, tries, lineVars, crcAsked,
                   start, resultVars, faults>>

SlipFlushed == UNCHANGED part
Flushed == part' = [part EXCEPT ![target] = Content]

Flushes ==
    /\ phase = "data" /\ buf # << >>
    /\ Flushed /\ buf' = << >>
    /\ UNCHANGED <<source, disk, phase, offer, target, action, tries, lineVars, crcAsked, start,
                   resultVars, faults>>

AtEOF == phase = "data" /\ Len(Content) = Len(source)

\* commitPart: a rename, or a copy to the end of the target.
Commits ==
    /\ AtEOF
    /\ disk' = [disk EXCEPT ![target] = IF action = "append" THEN @ \o Content ELSE Content]
    /\ part' = [part EXCEPT ![target] = None]
    /\ LET status == IF start > 0 THEN "resumed" ELSE "ok" IN Ends(status, status)
    /\ UNCHANGED <<source, offer, target, action, faults>>

\* The rename fails: the sender has its answer to ZEOF and does not learn it.
CommitFails ==
    /\ AtEOF /\ Faulty
    /\ Flushed
    /\ Ends("failed", IF start > 0 THEN "resumed" ELSE "ok")
    /\ UNCHANGED <<source, disk, offer, target, action>>

\* The link is cut or either side is cancelled: what has come is kept.
LinkCut ==
    /\ phase = "data"
    /\ Flushed
    /\ Ends("failed", "failed")
    /\ UNCHANGED <<source, disk, offer, target, action, faults>>

LinkCutEarly ==
    /\ phase \notin {"idle", "data"} /\ Faulty
    /\ Ends("failed", "failed")
    /\ UNCHANGED <<source, disk, part, offer, target, action>>

\* So it is, as far as it could be written, when the disk is full.
DiskFull ==
    /\ phase = "data" /\ Faulty
    /\ \E n \in 0 .. Len(buf) : part' = [part EXCEPT ![target] = @ \o Prefix(buf, n)]
    /\ Ends("failed", "failed")
    /\ UNCHANGED <<source, disk, offer, target, action>>

\* Any other write error: the partial file goes, the sender sees ZSKIP.
WriteFails ==
    /\ phase = "data" /\ Faulty
    /\ part' = [part EXCEPT ![target] = None]
    /\ Ends("failed", "refused")
    /\ UNCHANGED <<source, disk, offer, target, action>>

\* The receiving process dies: the buffer is lost, wherever it was.
Crashes ==
    /\ phase # "idle" /\ Faulty
    /\ Ends("none", "failed")
    /\ UNCHANGED <<source, disk, part, offer, target, action>>

\* ... or in the middle of appending, with some of the data copied.
CrashesAppending ==
    /\ AtEOF /\ action = "append" /\ Faulty
    /\ \E n \in 0 .. Len(Content) : disk' = [disk EXCEPT ![target] = @ \o Prefix(Content, n)]
    /\ Flushed
    /\ Ends("none", "failed")
    /\ UNCHANGED <<source, offer, target, action>>

-----------------------------------------------------------------------------
Decision == \/ DecidesNew \/ DecidesReplace \/ DecidesRename \/ DecidesRefuse
            \/ DecidesAppend \/ DecidesCompare
Comparing == \/ AsksAgain \/ GivesUp \/ SenderNaks \/ HearsIdentical \/ HearsDifferent
             \/ HearsPrefix

Next ==
    \/ Offering \/ SourceChanges \/ Decision \/ Opens \/ OpenFails
    \/ SenderAnswers \/ Lost \/ Comparing
    \/ ReceivesUnit \/ Flushes \/ Commits \/ CommitFails
    \/ LinkCut \/ LinkCutEarly \/ DiskFull \/ WriteFails \/ Crashes \/ CrashesAppending

Spec == Init /\ [][Next]_vars

(* Both programs run on, sessions are tried again and again, and those     *)
(* that come to their data get some of it through before the next cut.     *)
Proceeds == Offering \/ Decision \/ Opens \/ SenderAnswers \/ Comparing
Fairness == WF_vars(Proceeds) /\ SF_vars(ReceivesUnit) /\ SF_vars(Commits)

FairSpec == Spec /\ Fairness
-----------------------------------------------------------------------------
Results == {"none", "ok", "resumed", "skipped", "refused", "failed"}
Phases  == {"idle", "offered", "identical", "prefix", "opening", "data"}

(* The type of every variable.                                             *)
TypeOK ==
    /\ source \in Contents
    /\ disk \in [Names -> Stored \cup {None}] /\ part \in [Names -> Stored \cup {None}]
    /\ phase \in Phases /\ offer \in Offers
    /\ target \in Names /\ action \in {"write", "append"}
    /\ tries \in 0 .. Tries
    /\ questions \in Seq(1 .. MaxLen) /\ answers \in Seq(Contents)
    /\ crcAsked \in BOOLEAN
    /\ start \in 0 .. MaxLen /\ buf \in Stored
    /\ received \in Results /\ sent \in Results
    /\ faults \in 0 .. MaxFaults

There == \E n \in Names : disk[n] = source

(* What the receiver reports as received, resumed or identical is on its   *)
(* disk, whatever an earlier session or another file of that name has left *)
(* in the partial file and on the line.                                    *)
DoneMeansThere ==
    received \in {"ok", "resumed", "skipped"} =>
        IF action = "append" /\ received = "ok"
        THEN \E n \in 0 .. Len(disk[0]) : SubSeq(disk[0], n + 1, Len(disk[0])) = source
        ELSE There

(* A file that is there is replaced or appended to only when the sender or *)
(* the receiver's policy has asked for that (decide).                      *)
KeepsFiles ==
    [][\A n \in Names : disk[n] # None /\ disk'[n] # disk[n] =>
          /\ n = 0
          /\ \/ offer.rule \in {"replace", "dated"}
             \/ offer.rule = "append" /\ Prefix(disk'[n], Len(disk[n])) = disk[n]]_vars

(* "A cut link leaves the partial data in .zpart; the next transfer of the *)
(* same file resumes from it": however often the link is cut, a sender     *)
(* that asks to resume has its file there in the end.                      *)
ResumeFinishes ==
    <>[](offer.resume /\ offer.rule \in {"compare", "replace"}) =>
        <>[](There \/ \A n \in Names : disk[n] # None)

(* "`result: skipped` (3, identical file already there)" is what sio sz    *)
(* says for a file the receiver has not taken after it asked for a CRC.    *)
SkippedMeansThere == sent = "skipped" => There
=============================================================================
