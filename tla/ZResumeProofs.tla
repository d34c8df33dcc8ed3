---------------------------- MODULE ZResumeProofs ----------------------------
(***************************************************************************)
(* Theorems about ZResume, for any data, any number of units, names,       *)
(* questions and faults: what a receiver reports as received is there, and *)
(* no file is lost that nobody gave up. And of ZOutcome: what becomes of   *)
(* those reports in the exit code.                                         *)
(***************************************************************************)
EXTENDS ZResume, ZOutcome, TLAPS, SequenceTheorems

Data == Seq(Units)

-----------------------------------------------------------------------------
(* Prefixes and concatenations.                                            *)

\* A file that may be offered is a sequence of units.
LEMMA ContentsAreData == Contents \subseteq Data
<1>1. ASSUME NEW n \in Nat, NEW c \in [1 .. n -> Units] PROVE c \in Seq(Units)
  BY SeqDef, Zenon
<1>2. QED
  BY <1>1, ResumeAssumption DEF Contents, Data

\* What io.CopyN(n) of a file reads for a CRC (zFileCRC).
LEMMA PrefixType ==
    ASSUME NEW s \in Data, NEW n \in 0 .. Len(s)
    PROVE  /\ Prefix(s, n) \in Data /\ Len(Prefix(s, n)) = n
           /\ \A i \in 1 .. n : Prefix(s, n)[i] = s[i]
BY DEF Prefix, Data

\* A CRC over the whole of a file is one of its content.
LEMMA PrefixFull ==
    ASSUME NEW s \in Data
    PROVE  Prefix(s, Len(s)) = s
BY SubSeqFull DEF Prefix, Data

\* A unit after the first n makes the first n + 1.
LEMMA PrefixGrows ==
    ASSUME NEW s \in Data, NEW n \in 0 .. Len(s) - 1
    PROVE  Append(Prefix(s, n), s[n + 1]) = Prefix(s, n + 1)
<1>1. s[n + 1] \in Units /\ n \in 0 .. Len(s) /\ n + 1 \in 0 .. Len(s)
  BY DEF Data
<1>2. Append(Prefix(s, n), s[n + 1]) \in Data /\ Prefix(s, n + 1) \in Data
  BY <1>1, PrefixType DEF Data
<1>3. Len(Append(Prefix(s, n), s[n + 1])) = n + 1 /\ Len(Prefix(s, n + 1)) = n + 1
  BY <1>1, PrefixType DEF Data
<1>4. \A i \in 1 .. n + 1 : Append(Prefix(s, n), s[n + 1])[i] = Prefix(s, n + 1)[i]
  BY <1>1, PrefixType DEF Data
<1>5. QED
  BY <1>2, <1>3, <1>4, SeqEqual DEF Data

\* A unit into the buffer is a unit behind the partial file.
LEMMA ConcatAppend ==
    ASSUME NEW p \in Data, NEW b \in Data, NEW u \in Units
    PROVE  p \o Append(b, u) = Append(p \o b, u)
<1>1. p \o b \in Data /\ <<u>> \in Data
  BY DEF Data
<1>2. Append(b, u) = b \o <<u>> /\ Append(p \o b, u) = (p \o b) \o <<u>>
  BY <1>1, AppendIsConcat DEF Data
<1>3. QED
  BY <1>1, <1>2, ConcatAssociative DEF Data

\* Appending to a file (commitPart) leaves what was there, and the new behind
\* it.
LEMMA ConcatParts ==
    ASSUME NEW a \in Data, NEW b \in Data
    PROVE  /\ a \o b \in Data /\ Len(a \o b) = Len(a) + Len(b)
           /\ Prefix(a \o b, Len(a)) = a
           /\ SubSeq(a \o b, Len(a) + 1, Len(a \o b)) = b
<1>1. a \o b \in Data /\ Len(a \o b) = Len(a) + Len(b) /\ Len(a) \in Nat /\ Len(b) \in Nat
  BY ConcatProperties DEF Data
<1>2. Prefix(a \o b, Len(a)) = a
  <2>1. Len(a) \in 0 .. Len(a \o b)
    BY <1>1
  <2>2. Prefix(a \o b, Len(a)) \in Data /\ Len(Prefix(a \o b, Len(a))) = Len(a)
    BY <1>1, <2>1, PrefixType
  <2>3. \A i \in 1 .. Len(a) : Prefix(a \o b, Len(a))[i] = a[i]
    <3>1. \A i \in 1 .. Len(a) : Prefix(a \o b, Len(a))[i] = (a \o b)[i]
      BY <1>1, <2>1, PrefixType
    <3>2. \A i \in 1 .. Len(a) : (a \o b)[i] = a[i]
      BY <1>1, ConcatProperties DEF Data
    <3>3. QED
      BY <3>1, <3>2
  <2>4. QED
    BY <2>2, <2>3, SeqEqual DEF Data
<1>3. SubSeq(a \o b, Len(a) + 1, Len(a \o b)) = b
  <2> DEFINE suffix == SubSeq(a \o b, Len(a) + 1, Len(a \o b))
  <2>1. suffix \in Data /\ Len(suffix) = Len(b)
    BY <1>1 DEF Data
  <2>2. \A i \in 1 .. Len(b) : suffix[i] = b[i]
    BY <1>1 DEF Data
  <2>3. QED
    BY <2>1, <2>2, SeqEqual DEF Data
<1>4. QED
  BY <1>1, <1>2, <1>3

-----------------------------------------------------------------------------
(* The invariant.                                                          *)

Types ==
    /\ source \in Data /\ buf \in Data
    /\ disk \in [Names -> Data \cup {None}] /\ part \in [Names -> Data \cup {None}]
    /\ phase \in Phases /\ offer \in Offers
    /\ target \in Names /\ action \in {"write", "append"}
    /\ questions \in Seq(Nat) /\ answers \in Seq(Data)
    /\ start \in Nat
    /\ received \in Results

\* Whatever is on the line is about a prefix of the source.
LineInv ==
    /\ \A i \in DOMAIN questions : questions[i] \in 0 .. Len(source)
    /\ \A i \in DOMAIN answers : \E n \in 0 .. Len(source) : answers[i] = Prefix(source, n)
    /\ phase = "idle" => questions = << >> /\ answers = << >>
    /\ phase = "identical" => disk[0] # None /\ Len(disk[0]) = Len(source)
    /\ phase = "prefix" => part[target] # None /\ Len(part[target]) \in 0 .. Len(source)

\* The partial file and its buffer are a prefix of the source, as soon as
\* the point where the data starts is known.
ContentInv ==
    /\ phase = "opening" /\ start # 0 =>
          /\ part[target] # None
          /\ start = Len(part[target]) /\ start <= Len(source)
          /\ part[target] = Prefix(source, start)
    /\ phase = "data" =>
          /\ part[target] # None
          /\ Len(Content) <= Len(source)
          /\ Content = Prefix(source, Len(Content))
    /\ phase # "data" => buf = << >>

\* A file that exists is the target only by the rule that says so.
RuleInv ==
    /\ phase \in {"offered", "identical", "prefix"} => action = "write"
    /\ phase \in {"prefix", "opening", "data"} =>
          IF action = "append"
          THEN target = 0 /\ disk[0] # None /\ offer.rule = "append" /\ start = 0
          ELSE disk[target] # None => target = 0 /\ offer.rule \in {"replace", "dated"}

ResultInv ==
    /\ received # "none" => phase = "idle"
    /\ action = "append" => target = 0
    /\ DoneMeansThere

ResumeInv == Types /\ LineInv /\ ContentInv /\ RuleInv /\ ResultInv

-----------------------------------------------------------------------------
(* Types.                                                                  *)

\* What decide, and every answer, leads to.
LEMMA WritesType ==
    ASSUME Types, NEW name \in Names, Writes(name)
    PROVE  /\ target' = name /\ action' = "write" /\ phase' \in {"prefix", "opening"}
           /\ questions' \in Seq(Nat) /\ answers' \in Seq(Data) /\ start' \in Nat
           /\ UNCHANGED <<crcAsked, buf, received, sent>>
<1> USE DEF Types, resultVars
<1>1. target' = name /\ action' = "write" /\ UNCHANGED <<crcAsked, buf, received, sent>>
  BY DEF Writes
<1>2. CASE Resumable(name)
  <2>1. part[name] # None /\ part[name] \in Data
    BY <1>2 DEF Resumable
  <2>2. Len(part[name]) \in Nat
    BY <2>1 DEF Data
  <2>3. phase' = "prefix" /\ questions' = Append(questions, Len(part[name])) /\ UNCHANGED <<answers, start>>
    BY <1>2 DEF Writes, Asks
  <2>4. questions' \in Seq(Nat)
    BY <2>2, <2>3
  <2>5. QED
    BY <1>1, <2>3, <2>4
<1>3. CASE ~Resumable(name)
  BY <1>1, <1>3 DEF Writes, Starts
<1>4. QED
  BY <1>2, <1>3

\* What the end of a session leaves: nothing on the line, nothing buffered.
LEMMA EndsType ==
    ASSUME NEW r \in Results, NEW x, Ends(r, x)
    PROVE  /\ phase' = "idle" /\ received' = r
           /\ questions' = << >> /\ answers' = << >> /\ start' = 0 /\ buf' = << >>
           /\ questions' \in Seq(Nat) /\ answers' \in Seq(Data) /\ start' \in Nat /\ buf' \in Data
BY DEF Ends, Data

\* Every step, by whichever side, keeps the types.
LEMMA TypesStep == ResumeInv /\ [Next]_vars => Types'
<1> SUFFICES ASSUME ResumeInv, [Next]_vars PROVE Types'
  OBVIOUS
<1>0. Types
  BY DEF ResumeInv
<1> USE ResumeAssumption, <1>0 DEF Types, Phases, Results, lineVars, resultVars
<1>1. 0 \in Names /\ "none" \in Results /\ "write" \in {"write", "append"}
  BY DEF Names
<1>2. Contents \subseteq Data
  BY ContentsAreData
<1>3. ASSUME phase = "data"
      PROVE  /\ part[target] \in Data /\ Content \in Data
             /\ Len(Content) \in Nat /\ Len(source) \in Nat
  <2>1. part[target] \in Data
    BY <1>3 DEF ResumeInv, ContentInv
  <2>2. QED
    BY <2>1, ConcatParts DEF Content, Data
<1>4. CASE Offering
  BY <1>4, <1>1 DEF Offering
<1>5. CASE SourceChanges
  BY <1>5, <1>1, <1>2 DEF SourceChanges
<1>6. ASSUME NEW name \in Names, Writes(name), UNCHANGED <<source, disk, part, offer>> PROVE Types'
  BY <1>6, WritesType
<1>7. CASE DecidesNew \/ DecidesReplace
  BY <1>6, <1>7, <1>1 DEF DecidesNew, DecidesReplace, Decides
<1>8. CASE Renames /\ UNCHANGED <<source, disk, part, offer>>
  BY <1>6, <1>8 DEF Renames
<1>9. CASE DecidesRename
  BY <1>8, <1>9 DEF DecidesRename, Decides
<1>10. CASE DecidesRefuse
  BY <1>10, EndsType DEF DecidesRefuse, Decides, Skips
<1>11. CASE DecidesAppend
  BY <1>11, <1>1 DEF DecidesAppend, Decides, Starts
<1>12. CASE DecidesCompare
  <2>1. CASE Comparable
    <3>1. questions' = Append(questions, Len(source)) /\ Len(source) \in Nat
      BY <1>12, <2>1 DEF DecidesCompare, Asks, Data
    <3>2. QED
      BY <1>12, <2>1, <3>1 DEF DecidesCompare, Decides
  <2>2. CASE ~Comparable
    BY <1>8, <1>12, <2>2 DEF DecidesCompare, Decides
  <2>3. QED
    BY <2>1, <2>2
<1>13. CASE Opens
  <2>1. (IF part[target] = None THEN << >> ELSE Prefix(part[target], start)) \in Data
    BY <1>13, PrefixType DEF Opens, ResumeInv, ContentInv, Data, Prefix
  <2>2. part' \in [Names -> Data \cup {None}]
    BY <1>13, <2>1 DEF Opens
  <2>3. QED
    BY <1>13, <2>2 DEF Opens
<1>14. CASE OpenFails
  BY <1>14, EndsType DEF OpenFails, Skips
<1>15. CASE SenderAnswers
  <2>1. Head(questions) \in 0 .. Len(source) /\ questions' \in Seq(Nat)
    BY <1>15 DEF SenderAnswers, ResumeInv, LineInv
  <2>2. Prefix(source, Head(questions)) \in Data
    BY <2>1, PrefixType
  <2>3. answers' \in Seq(Data)
    BY <1>15, <2>2 DEF SenderAnswers
  <2>4. QED
    BY <1>15, <2>1, <2>3 DEF SenderAnswers
<1>16. CASE Lost
  <2>1. questions # << >> => Tail(questions) \in Seq(Nat)
    BY HeadTailProperties
  <2>2. answers # << >> => Tail(answers) \in Seq(Data)
    BY HeadTailProperties
  <2>3. QED
    BY <1>16, <2>1, <2>2 DEF Lost
<1>17. CASE AsksAgain
  <2>1. (IF phase = "identical" THEN Len(source) ELSE Len(part[target])) \in Nat
    BY <1>17 DEF AsksAgain, Asking, ResumeInv, LineInv, Data
  <2>2. questions' \in Seq(Nat)
    BY <1>17, <2>1 DEF AsksAgain
  <2>3. QED
    BY <1>17, <2>2 DEF AsksAgain
<1>18. CASE GivesUp \/ SenderNaks
  <2>1. NoAnswer
    BY <1>18 DEF GivesUp, SenderNaks
  <2>2. CASE phase = "identical"
    BY <1>8, <2>1, <2>2 DEF NoAnswer
  <2>3. CASE phase # "identical"
    BY <2>1, <2>3 DEF NoAnswer, Starts
  <2>4. QED
    BY <2>2, <2>3
<1>19. CASE HearsIdentical
  BY <1>19, EndsType DEF HearsIdentical, Answered, Skips
<1>20. CASE HearsDifferent
  <2>1. PICK n \in Names \ {0} :
            /\ target' = n /\ action' = "write"
            /\ IF Resumable(n)
               THEN /\ phase' = "prefix" /\ Asks(Len(part[n])) /\ answers' = Tail(answers)
                    /\ UNCHANGED start
               ELSE Starts(0)
    BY <1>20 DEF HearsDifferent
  <2>2. answers # << >> /\ UNCHANGED <<source, disk, part, offer, buf, received>>
    BY <1>20 DEF HearsDifferent, Answered
  <2>3. CASE Resumable(n)
    <3>1. Len(part[n]) \in Nat
      BY <2>3 DEF Resumable, Data
    <3>2. questions' \in Seq(Nat) /\ answers' \in Seq(Data)
      <4>1. questions' = Append(questions, Len(part[n])) /\ answers' = Tail(answers)
        BY <2>1, <2>3 DEF Asks
      <4>2. Tail(answers) \in Seq(Data)
        BY <2>2, HeadTailProperties
      <4>3. QED
        BY <3>1, <4>1, <4>2
    <3>3. QED
      BY <2>1, <2>2, <2>3, <3>2
  <2>4. CASE ~Resumable(n)
    BY <2>1, <2>2, <2>4 DEF Starts
  <2>5. QED
    BY <2>3, <2>4
<1>21. CASE HearsPrefix
  <2>1. Len(part[target]) \in Nat
    BY <1>21 DEF HearsPrefix, ResumeInv, LineInv, Data
  <2>2. QED
    BY <1>21, <2>1 DEF HearsPrefix, Answered, Starts
<1>22. CASE ReceivesUnit
  <2>1. source[Len(Content) + 1] \in Units
    BY <1>3, <1>22 DEF ReceivesUnit, Data
  <2>2. buf' \in Data
    BY <1>22, <2>1 DEF ReceivesUnit, Data
  <2>3. QED
    BY <1>22, <2>2 DEF ReceivesUnit
<1>23. ASSUME phase = "data", Flushed PROVE part' \in [Names -> Data \cup {None}]
  BY <1>3, <1>23 DEF Flushed
<1>24. CASE Flushes
  BY <1>23, <1>24 DEF Flushes, Data
<1>25. CASE Commits
  <2>1. disk' \in [Names -> Data \cup {None}]
    <3>1. CASE action = "append"
      <4>1. disk[target] \in Data
        BY <1>25, <3>1 DEF Commits, AtEOF, ResumeInv, RuleInv
      <4>2. disk[target] \o Content \in Data
        BY <1>3, <1>25, <4>1, ConcatParts DEF Commits, AtEOF
      <4>3. QED
        BY <1>25, <3>1, <4>2 DEF Commits
    <3>2. CASE action # "append"
      BY <1>3, <1>25, <3>2 DEF Commits, AtEOF
    <3>3. QED
      BY <3>1, <3>2
  <2>2. part' \in [Names -> Data \cup {None}]
    BY <1>25 DEF Commits
  <2>3. PICK r \in Results : Ends(r, r)
    BY <1>25 DEF Commits
  <2>4. QED
    BY <1>25, <2>1, <2>2, <2>3, EndsType DEF Commits
<1>26. CASE CommitFails
  BY <1>23, <1>26, EndsType DEF CommitFails, AtEOF
<1>27. CASE LinkCut
  BY <1>23, <1>27, EndsType DEF LinkCut
<1>28. CASE LinkCutEarly
  BY <1>28, EndsType DEF LinkCutEarly
<1>29. CASE DiskFull
  <2>1. PICK n \in 0 .. Len(buf) : part' = [part EXCEPT ![target] = @ \o Prefix(buf, n)]
    BY <1>29 DEF DiskFull
  <2>2. part[target] \o Prefix(buf, n) \in Data
    BY <1>3, <1>29, PrefixType, ConcatParts DEF DiskFull
  <2>3. part' \in [Names -> Data \cup {None}]
    BY <2>1, <2>2
  <2>4. QED
    BY <1>29, <2>3, EndsType DEF DiskFull
<1>30. CASE WriteFails
  BY <1>30, EndsType DEF WriteFails
<1>31. CASE Crashes
  BY <1>31, EndsType DEF Crashes
<1>32. CASE CrashesAppending
  <2>1. PICK n \in 0 .. Len(Content) : disk' = [disk EXCEPT ![target] = @ \o Prefix(Content, n)]
    BY <1>32 DEF CrashesAppending
  <2>2. disk[target] \in Data /\ phase = "data"
    BY <1>32 DEF CrashesAppending, AtEOF, ResumeInv, RuleInv
  <2>3. disk[target] \o Prefix(Content, n) \in Data
    BY <1>3, <2>2, PrefixType, ConcatParts
  <2>4. disk' \in [Names -> Data \cup {None}]
    BY <2>1, <2>3
  <2>5. QED
    BY <1>23, <1>32, <2>2, <2>4, EndsType DEF CrashesAppending
<1>33. CASE UNCHANGED vars
  BY <1>33 DEF vars
<1>34. QED
  BY <1>4, <1>5, <1>7, <1>9, <1>10, <1>11, <1>12, <1>13, <1>14, <1>15, <1>16, <1>17, <1>18, <1>19,
     <1>20, <1>21, <1>22, <1>24, <1>25, <1>26, <1>27, <1>28, <1>29, <1>30, <1>31, <1>32, <1>33
     DEF Next, Decision, Comparing

-----------------------------------------------------------------------------
(* The line.                                                               *)

\* A question more, or one less, on the line.
LEMMA QuestionMore ==
    ASSUME Types, NEW n \in 0 .. Len(source), questions' = Append(questions, n), source' = source,
           \A i \in DOMAIN questions : questions[i] \in 0 .. Len(source)
    PROVE  \A i \in DOMAIN questions' : questions'[i] \in 0 .. Len(source')
<1>1. questions \in Seq(Nat) /\ Len(source) \in Nat
  BY DEF Types, Data
<1>2. QED
  BY <1>1

\* An answer that is read, or lost, leaves the others as they were.
LEMMA AnswersLess ==
    ASSUME Types, answers # << >>, answers' = Tail(answers), source' = source,
           \A i \in DOMAIN answers : \E n \in 0 .. Len(source) : answers[i] = Prefix(source, n)
    PROVE  \A i \in DOMAIN answers' : \E n \in 0 .. Len(source') : answers'[i] = Prefix(source', n)
<1>1. answers \in Seq(Data)
  BY DEF Types
<1>2. \A i \in DOMAIN Tail(answers) : i + 1 \in DOMAIN answers /\ Tail(answers)[i] = answers[i + 1]
  BY <1>1
<1>3. QED
  BY <1>2

\* With a target chosen, a CRC of its partial file may be asked for.
LEMMA WritesLine ==
    ASSUME Types, LineInv, NEW name \in Names, Writes(name), UNCHANGED <<source, disk, part>>
    PROVE  LineInv'
<1> USE DEF Types, LineInv
<1>1. CASE Resumable(name)
  <2>1. part[name] # None /\ Len(part[name]) \in 0 .. Len(source)
    BY <1>1 DEF Resumable, Data
  <2>2. /\ phase' = "prefix" /\ target' = name /\ questions' = Append(questions, Len(part[name]))
        /\ UNCHANGED answers
    BY <1>1 DEF Writes, Asks
  <2>3. \A i \in DOMAIN questions' : questions'[i] \in 0 .. Len(source')
    BY <2>1, <2>2, QuestionMore
  <2>4. QED
    BY <2>1, <2>2, <2>3
<1>2. CASE ~Resumable(name)
  BY <1>2 DEF Writes, Starts
<1>3. QED
  BY <1>1, <1>2

\* Where no CRC is being asked for and nothing is on the line.
LEMMA LineEmpty == ASSUME questions' = << >>, answers' = << >>, phase' \notin {"identical", "prefix"}
                   PROVE  LineInv'
BY DEF LineInv

\* Every question is about a prefix of the source and every answer is the
\* CRC of one, however old.
LEMMA LineStep == ResumeInv /\ [Next]_vars => LineInv'
<1> SUFFICES ASSUME ResumeInv, [Next]_vars PROVE LineInv'
  OBVIOUS
<1>0. Types /\ LineInv
  BY DEF ResumeInv
<1> USE DEF lineVars, resultVars
<1>1. Len(source) \in Nat /\ 0 \in Names
  BY <1>0, ResumeAssumption DEF Types, Data, Names
<1>2. CASE UNCHANGED <<source, disk, part, phase, target, questions, answers>>
  BY <1>0, <1>2 DEF LineInv
<1>3. CASE Offering \/ SourceChanges
  BY <1>0, <1>3, LineEmpty DEF LineInv, Offering, SourceChanges
<1>4. CASE Renames /\ UNCHANGED <<source, disk, part>>
  BY <1>0, <1>4, WritesLine DEF Renames
<1>5. CASE Decision
  <2>1. UNCHANGED <<source, disk, part>>
    BY <1>5 DEF Decision, DecidesNew, DecidesReplace, DecidesRename, DecidesRefuse, DecidesAppend,
                DecidesCompare, Decides
  <2>2. CASE DecidesNew \/ DecidesReplace
    BY <1>0, <1>1, <2>1, <2>2, WritesLine DEF DecidesNew, DecidesReplace
  <2>3. CASE DecidesRename
    BY <1>4, <2>1, <2>3 DEF DecidesRename
  <2>4. CASE DecidesRefuse
    BY <2>4, LineEmpty DEF DecidesRefuse, Skips, Ends
  <2>5. CASE DecidesAppend
    BY <2>5, LineEmpty DEF DecidesAppend, Starts
  <2>6. CASE DecidesCompare /\ Comparable
    <3>1. /\ questions' = Append(questions, Len(source)) /\ phase' = "identical" /\ UNCHANGED answers
          /\ disk[0] # None /\ Len(disk[0]) = Len(source)
      BY <2>6 DEF DecidesCompare, Asks, Comparable, Exists
    <3>2. \A i \in DOMAIN questions' : questions'[i] \in 0 .. Len(source')
      BY <1>0, <1>1, <2>1, <3>1, QuestionMore DEF LineInv
    <3>3. QED
      BY <1>0, <2>1, <3>1, <3>2 DEF LineInv
  <2>7. CASE DecidesCompare /\ ~Comparable
    BY <1>4, <2>1, <2>7 DEF DecidesCompare
  <2>8. QED
    BY <1>5, <2>2, <2>3, <2>4, <2>5, <2>6, <2>7 DEF Decision
<1>6. CASE SenderAnswers
  <2>1. /\ questions \in Seq(Nat) /\ questions # << >> /\ questions' = Tail(questions)
        /\ answers \in Seq(Data) /\ answers' = Append(answers, Prefix(source, Head(questions)))
        /\ UNCHANGED <<source, disk, part, phase, target>>
    BY <1>0, <1>6 DEF SenderAnswers, Types
  <2>2. Head(questions) \in 0 .. Len(source)
    BY <1>0, <2>1 DEF LineInv
  <2>3. \A i \in DOMAIN questions' : questions'[i] \in 0 .. Len(source')
    BY <1>0, <2>1 DEF LineInv
  <2>4. \A i \in DOMAIN answers' : \/ answers'[i] = answers[i] /\ i \in DOMAIN answers
                                   \/ answers'[i] = Prefix(source, Head(questions))
    BY <2>1, <2>2, PrefixType, <1>0 DEF Types
  <2>5. \A i \in DOMAIN answers' : \E n \in 0 .. Len(source') : answers'[i] = Prefix(source', n)
    BY <1>0, <2>1, <2>2, <2>4 DEF LineInv
  <2>6. phase # "idle"
    BY <1>0, <2>1 DEF LineInv
  <2>7. QED
    BY <1>0, <2>1, <2>3, <2>5, <2>6 DEF LineInv
<1>7. CASE Lost
  <2>1. /\ UNCHANGED <<source, disk, part, phase, target>> /\ phase # "idle"
    BY <1>7 DEF Lost, Asking
  <2>2. CASE questions # << >> /\ questions' = Tail(questions) /\ UNCHANGED answers
    <3>1. questions \in Seq(Nat)
      BY <1>0 DEF Types
    <3>2. \A i \in DOMAIN questions' : questions'[i] \in 0 .. Len(source')
      BY <1>0, <2>1, <2>2, <3>1 DEF LineInv
    <3>3. QED
      BY <1>0, <2>1, <2>2, <3>2 DEF LineInv
  <2>3. CASE answers # << >> /\ answers' = Tail(answers) /\ UNCHANGED questions
    <3>1. \A i \in DOMAIN answers' : \E n \in 0 .. Len(source') : answers'[i] = Prefix(source', n)
      BY <1>0, <2>1, <2>3, AnswersLess DEF LineInv
    <3>2. QED
      BY <1>0, <2>1, <2>3, <3>1 DEF LineInv
  <2>4. QED
    BY <1>7, <2>2, <2>3 DEF Lost
<1>8. CASE AsksAgain
  <2>1. PICK n \in 0 .. Len(source) : questions' = Append(questions, n)
    BY <1>0, <1>1, <1>8 DEF AsksAgain, Asking, LineInv
  <2>2. UNCHANGED <<source, disk, part, phase, target, answers>> /\ phase # "idle"
    BY <1>8 DEF AsksAgain, Asking
  <2>3. \A i \in DOMAIN questions' : questions'[i] \in 0 .. Len(source')
    BY <1>0, <2>1, <2>2, QuestionMore DEF LineInv
  <2>4. QED
    BY <1>0, <2>2, <2>3 DEF LineInv
<1>9. CASE GivesUp \/ SenderNaks
  <2>1. NoAnswer /\ UNCHANGED <<source, disk, part>>
    BY <1>9 DEF GivesUp, SenderNaks, NoAnswer
  <2>2. CASE phase = "identical"
    BY <1>4, <2>1, <2>2 DEF NoAnswer
  <2>3. CASE phase # "identical"
    BY <2>1, <2>3, LineEmpty DEF NoAnswer, Starts
  <2>4. QED
    BY <2>2, <2>3
<1>10. CASE HearsIdentical
  BY <1>10, LineEmpty DEF HearsIdentical, Skips, Ends
<1>11. CASE HearsDifferent
  <2>1. PICK n \in Names \ {0} :
            /\ target' = n
            /\ IF Resumable(n)
               THEN /\ phase' = "prefix" /\ Asks(Len(part[n])) /\ answers' = Tail(answers)
               ELSE Starts(0)
    BY <1>11 DEF HearsDifferent
  <2>2. answers # << >> /\ UNCHANGED <<source, disk, part>>
    BY <1>11 DEF HearsDifferent, Answered
  <2>3. CASE Resumable(n)
    <3>1. part[n] # None /\ Len(part[n]) \in 0 .. Len(source)
      BY <1>0, <1>1, <2>3 DEF Resumable, Types, Data
    <3>2. questions' = Append(questions, Len(part[n])) /\ phase' = "prefix" /\ answers' = Tail(answers)
      BY <2>1, <2>3 DEF Asks
    <3>3. \A i \in DOMAIN questions' : questions'[i] \in 0 .. Len(source')
      BY <1>0, <2>2, <3>1, <3>2, QuestionMore DEF LineInv
    <3>4. \A i \in DOMAIN answers' : \E k \in 0 .. Len(source') : answers'[i] = Prefix(source', k)
      BY <1>0, <2>2, <3>2, AnswersLess DEF LineInv
    <3>5. QED
      BY <2>1, <2>2, <3>1, <3>2, <3>3, <3>4 DEF LineInv
  <2>4. CASE ~Resumable(n)
    BY <2>1, <2>4, LineEmpty DEF Starts
  <2>5. QED
    BY <2>3, <2>4
<1>12. CASE HearsPrefix
  BY <1>12, LineEmpty DEF HearsPrefix, Starts
<1>13. CASE Opens \/ OpenFails \/ ReceivesUnit \/ Flushes
  <2>1. CASE Opens
    BY <1>0, <2>1 DEF Opens, LineInv
  <2>2. CASE OpenFails
    BY <2>2, LineEmpty DEF OpenFails, Skips, Ends
  <2>3. CASE ReceivesUnit
    BY <1>2, <2>3 DEF ReceivesUnit
  <2>4. CASE Flushes
    BY <1>0, <2>4 DEF Flushes, LineInv
  <2>5. QED
    BY <1>13, <2>1, <2>2, <2>3, <2>4
<1>14. CASE \/ Commits \/ CommitFails \/ LinkCut \/ LinkCutEarly \/ DiskFull \/ WriteFails
            \/ Crashes \/ CrashesAppending
  <2>1. questions' = << >> /\ answers' = << >> /\ phase' = "idle"
    BY <1>14 DEF Commits, CommitFails, LinkCut, LinkCutEarly, DiskFull, WriteFails, Crashes,
                 CrashesAppending, Ends
  <2>2. QED
    BY <2>1, LineEmpty
<1>15. CASE UNCHANGED vars
  BY <1>2, <1>15 DEF vars
<1>16. QED
  BY <1>3, <1>5, <1>6, <1>7, <1>8, <1>9, <1>10, <1>11, <1>12, <1>13, <1>14, <1>15
     DEF Next, Comparing

-----------------------------------------------------------------------------
(* The data.                                                               *)

\* Before the data, and after it, nothing is buffered.
LEMMA ContentIdle ==
    ASSUME buf' = << >>, phase' # "data", start' = 0 \/ phase' # "opening"
    PROVE  ContentInv'
BY DEF ContentInv

\* An answer that equals the partial file makes it a prefix of the source.
LEMMA AnswerIsPrefix ==
    ASSUME Types, LineInv, answers # << >>
    PROVE  /\ Len(Head(answers)) \in 0 .. Len(source)
           /\ Head(answers) = Prefix(source, Len(Head(answers)))
<1>1. answers \in Seq(Data) /\ source \in Data
  BY DEF Types
<1>2. 1 \in DOMAIN answers /\ Head(answers) = answers[1]
  BY <1>1
<1>3. PICK n \in 0 .. Len(source) : answers[1] = Prefix(source, n)
  BY <1>2 DEF LineInv
<1>4. QED
  BY <1>1, <1>2, <1>3, PrefixType

\* Resuming and receiving keep the partial file a prefix of the source.
LEMMA ContentStep == ResumeInv /\ [Next]_vars => ContentInv'
<1> SUFFICES ASSUME ResumeInv, [Next]_vars PROVE ContentInv'
  OBVIOUS
<1>0. Types /\ LineInv /\ ContentInv
  BY DEF ResumeInv
<1> USE DEF lineVars, resultVars
<1>1. CASE UNCHANGED <<source, part, phase, target, start, buf>>
  BY <1>0, <1>1 DEF ContentInv, Content
<1>2. CASE Offering \/ SourceChanges
  BY <1>0, <1>2, ContentIdle DEF ContentInv, Offering, SourceChanges
<1>3. ASSUME NEW name \in Names, Writes(name), phase # "data" PROVE ContentInv'
  <2>1. buf' = << >>
    BY <1>0, <1>3 DEF ContentInv, Writes
  <2>2. CASE Resumable(name)
    BY <1>3, <2>1, <2>2, ContentIdle DEF Writes
  <2>3. CASE ~Resumable(name)
    BY <1>3, <2>1, <2>3, ContentIdle DEF Writes, Starts
  <2>4. QED
    BY <2>2, <2>3
<1>4. CASE Renames /\ phase # "data"
  BY <1>3, <1>4 DEF Renames
<1>5. CASE Decision
  <2>1. phase # "data" /\ buf = << >>
    BY <1>0, <1>5 DEF Decision, DecidesNew, DecidesReplace, DecidesRename, DecidesRefuse, DecidesAppend,
                DecidesCompare, Decides, ContentInv
  <2>2. CASE DecidesNew \/ DecidesReplace
    BY <1>3, <2>1, <2>2, ResumeAssumption DEF DecidesNew, DecidesReplace, Names
  <2>3. CASE DecidesRename
    BY <1>4, <2>1, <2>3 DEF DecidesRename
  <2>4. CASE DecidesRefuse
    BY <2>4, ContentIdle DEF DecidesRefuse, Skips, Ends
  <2>5. CASE DecidesAppend
    BY <2>1, <2>5, ContentIdle DEF DecidesAppend, Starts
  <2>6. CASE DecidesCompare /\ Comparable
    BY <2>1, <2>6, ContentIdle DEF DecidesCompare
  <2>7. CASE DecidesCompare /\ ~Comparable
    BY <1>4, <2>1, <2>7 DEF DecidesCompare
  <2>8. QED
    BY <1>5, <2>2, <2>3, <2>4, <2>5, <2>6, <2>7 DEF Decision
<1>6. CASE SenderAnswers \/ Lost \/ AsksAgain
  BY <1>1, <1>6 DEF SenderAnswers, Lost, AsksAgain
<1>7. CASE GivesUp \/ SenderNaks
  <2>1. NoAnswer /\ phase # "data" /\ buf = << >>
    BY <1>0, <1>7 DEF GivesUp, SenderNaks, Asking, ContentInv
  <2>2. CASE phase = "identical"
    BY <1>4, <2>1, <2>2 DEF NoAnswer
  <2>3. CASE phase # "identical"
    BY <2>1, <2>3, ContentIdle DEF NoAnswer, Starts
  <2>4. QED
    BY <2>2, <2>3
<1>8. CASE HearsIdentical
  BY <1>8, ContentIdle DEF HearsIdentical, Skips, Ends
<1>9. CASE HearsDifferent
  <2>1. buf' = << >>
    BY <1>0, <1>9 DEF HearsDifferent, ContentInv
  <2>2. PICK n \in Names \ {0} : IF Resumable(n) THEN phase' = "prefix" ELSE Starts(0)
    BY <1>9 DEF HearsDifferent
  <2>3. phase' = "prefix" \/ (phase' = "opening" /\ start' = 0)
    BY <2>2 DEF Starts
  <2>4. QED
    BY <2>1, <2>3, ContentIdle
<1>10. CASE HearsPrefix
  <2>1. /\ phase' = "opening" /\ buf' = << >> /\ part[target] # None
        /\ start' = IF Head(answers) = part[target] THEN Len(part[target]) ELSE 0
        /\ UNCHANGED <<source, part, target>> /\ answers # << >>
    BY <1>0, <1>10 DEF HearsPrefix, Answered, Starts, ContentInv, LineInv
  <2>2. CASE Head(answers) = part[target]
    BY <1>0, <2>1, <2>2, AnswerIsPrefix DEF ContentInv
  <2>3. CASE Head(answers) # part[target]
    BY <2>1, <2>3, ContentIdle
  <2>4. QED
    BY <2>2, <2>3
<1>11. CASE Opens
  <2>1. /\ phase = "opening" /\ phase' = "data" /\ UNCHANGED <<source, target, start>>
        /\ buf = << >> /\ buf' = << >>
        /\ part'[target] = IF part[target] = None THEN << >> ELSE Prefix(part[target], start)
    BY <1>0, <1>11 DEF Opens, Types, ContentInv
  <2>2. part'[target] \in Data /\ Len(part'[target]) <= Len(source)
        /\ part'[target] = Prefix(source, Len(part'[target]))
    <3>1. CASE start = 0
      <4>1. part'[target] = << >>
        BY <2>1, <3>1 DEF Prefix
      <4>2. Prefix(source, 0) = << >> /\ << >> \in Data /\ Len(<< >>) = 0 /\ Len(source) \in Nat
        BY <1>0 DEF Prefix, Data, Types
      <4>3. QED
        BY <4>1, <4>2
    <3>2. CASE start # 0
      <4>1. /\ part[target] \in Data /\ start = Len(part[target]) /\ start <= Len(source)
            /\ part[target] = Prefix(source, start) /\ part[target] # None
        BY <1>0, <2>1, <3>2 DEF ContentInv, Types
      <4>2. part'[target] = part[target]
        BY <2>1, <4>1, PrefixFull
      <4>3. QED
        BY <4>1, <4>2
    <3>3. QED
      BY <3>1, <3>2
  <2>3. Content' = part'[target]
    BY <2>1, <2>2, ConcatEmptySeq DEF Content, Data
  <2>4. part'[target] # None
    BY <2>2, ResumeAssumption DEF Data
  <2>5. QED
    BY <2>1, <2>2, <2>3, <2>4 DEF ContentInv
<1>12. CASE OpenFails
  BY <1>12, ContentIdle DEF OpenFails, Skips, Ends
<1>13. CASE ReceivesUnit
  <2>1. /\ phase = "data" /\ Len(Content) < Len(source) /\ buf' = Append(buf, source[Len(Content) + 1])
        /\ UNCHANGED <<source, part, phase, target, start>>
    BY <1>13 DEF ReceivesUnit
  <2>2. /\ part[target] \in Data /\ buf \in Data /\ source \in Data /\ Content \in Data
        /\ Len(Content) \in 0 .. Len(source) - 1 /\ source[Len(Content) + 1] \in Units
    <3>1. part[target] \in Data /\ buf \in Data /\ source \in Data
      BY <1>0, <2>1 DEF Types, ContentInv
    <3>2. Content \in Data
      BY <3>1, ConcatParts DEF Content
    <3>3. QED
      BY <2>1, <3>1, <3>2 DEF Data
  <2>3. Content' = Append(Content, source[Len(Content) + 1])
    BY <2>1, <2>2, ConcatAppend DEF Content
  <2>4. Content' = Prefix(source, Len(Content) + 1)
    BY <1>0, <2>1, <2>2, <2>3, PrefixGrows DEF ContentInv
  <2>5. Len(Content') = Len(Content) + 1
    BY <2>2, <2>3, AppendProperties DEF Data
  <2>6. QED
    BY <1>0, <2>1, <2>2, <2>4, <2>5 DEF ContentInv
<1>14. CASE Flushes
  <2>1. phase = "data" /\ Flushed /\ buf' = << >> /\ UNCHANGED <<source, phase, target, start>>
    BY <1>14 DEF Flushes
  <2>2. Content \in Data /\ target \in Names
    BY <1>0, <2>1, ConcatParts DEF Types, ContentInv, Content
  <2>3. part'[target] = Content
    BY <1>0, <2>1, <2>2 DEF Flushed, Types
  <2>4. Content' = Content
    BY <2>1, <2>2, <2>3, ConcatEmptySeq DEF Content, Data
  <2>5. part'[target] # None
    BY <2>2, <2>3, ResumeAssumption DEF Data
  <2>6. QED
    BY <1>0, <2>1, <2>4, <2>5 DEF ContentInv
<1>15. CASE \/ Commits \/ CommitFails \/ LinkCut \/ LinkCutEarly \/ DiskFull \/ WriteFails
            \/ Crashes \/ CrashesAppending
  <2>1. buf' = << >> /\ phase' = "idle"
    BY <1>15 DEF Commits, CommitFails, LinkCut, LinkCutEarly, DiskFull, WriteFails, Crashes,
                 CrashesAppending, Ends
  <2>2. QED
    BY <2>1, ContentIdle
<1>16. CASE UNCHANGED vars
  BY <1>1, <1>16 DEF vars
<1>17. QED
  BY <1>2, <1>5, <1>6, <1>7, <1>8, <1>9, <1>10, <1>11, <1>12, <1>13, <1>14, <1>15, <1>16
     DEF Next, Comparing
-----------------------------------------------------------------------------
(* The rules.                                                              *)

\* A name that is free, or that decide was told to replace.
LEMMA WritesRule ==
    ASSUME Types, NEW name \in Names, Writes(name), UNCHANGED <<disk, offer>>,
           disk[name] # None => name = 0 /\ offer.rule \in {"replace", "dated"}
    PROVE  RuleInv'
<1>1. target' = name /\ action' = "write" /\ phase' \in {"prefix", "opening"}
  BY WritesType
<1>2. QED
  BY <1>1 DEF RuleInv

\* A session that ends leaves nothing for decide's rules to hold of.
LEMMA RuleIdle == ASSUME phase' = "idle" PROVE RuleInv'
BY DEF RuleInv

\* Every step keeps to the rule by which decide chose the target.
LEMMA RuleStep == ResumeInv /\ [Next]_vars => RuleInv'
<1> SUFFICES ASSUME ResumeInv, [Next]_vars PROVE RuleInv'
  OBVIOUS
<1>0. Types /\ RuleInv /\ 0 \in Names
  BY ResumeAssumption DEF ResumeInv, Names
<1> USE DEF lineVars, resultVars
<1>1. CASE UNCHANGED <<disk, phase, offer, target, action, start>>
  BY <1>0, <1>1 DEF RuleInv
<1>2. CASE Offering \/ SourceChanges
  BY <1>2 DEF RuleInv, Offering, SourceChanges
<1>3. CASE Renames /\ UNCHANGED <<disk, offer>>
  <2>1. PICK n \in Names \ {0} : Free(n) /\ Writes(n)
    BY <1>3 DEF Renames
  <2>2. QED
    BY <1>0, <1>3, <2>1, WritesRule DEF Free
<1>4. CASE Decision
  <2>1. UNCHANGED <<disk, offer>> /\ phase = "offered" /\ action = "write"
    BY <1>0, <1>4 DEF Decision, DecidesNew, DecidesReplace, DecidesRename, DecidesRefuse, DecidesAppend,
                DecidesCompare, Decides, RuleInv
  <2>2. CASE DecidesNew \/ DecidesReplace
    BY <1>0, <2>1, <2>2, WritesRule DEF DecidesNew, DecidesReplace, Exists
  <2>3. CASE DecidesRename
    BY <1>3, <2>1, <2>3 DEF DecidesRename
  <2>4. CASE DecidesRefuse
    BY <2>4, RuleIdle DEF DecidesRefuse, Skips, Ends
  <2>5. CASE DecidesAppend
    BY <2>1, <2>5 DEF DecidesAppend, Starts, Exists, RuleInv
  <2>6. CASE DecidesCompare /\ Comparable
    BY <2>1, <2>6 DEF DecidesCompare, RuleInv
  <2>7. CASE DecidesCompare /\ ~Comparable
    BY <1>3, <2>1, <2>7 DEF DecidesCompare
  <2>8. QED
    BY <1>4, <2>2, <2>3, <2>4, <2>5, <2>6, <2>7 DEF Decision
<1>5. CASE SenderAnswers \/ Lost \/ AsksAgain \/ ReceivesUnit \/ Flushes
  BY <1>1, <1>5 DEF SenderAnswers, Lost, AsksAgain, ReceivesUnit, Flushes
<1>6. CASE GivesUp \/ SenderNaks
  <2>1. NoAnswer /\ UNCHANGED <<disk, offer>> /\ phase \in {"identical", "prefix"}
    BY <1>6 DEF GivesUp, SenderNaks, Asking, NoAnswer
  <2>2. CASE phase = "identical"
    BY <1>3, <2>1, <2>2 DEF NoAnswer
  <2>3. CASE phase # "identical"
    <3>1. phase' = "opening" /\ UNCHANGED <<target, action>>
      BY <2>1, <2>3 DEF NoAnswer, Starts
    <3>2. QED
      BY <1>0, <2>1, <2>3, <3>1 DEF RuleInv
  <2>4. QED
    BY <2>2, <2>3
<1>7. CASE HearsDifferent
  <2>1. PICK n \in Names \ {0} :
            /\ Free(n) /\ target' = n /\ action' = "write"
            /\ IF Resumable(n) THEN phase' = "prefix" ELSE Starts(0)
    BY <1>7 DEF HearsDifferent
  <2>2. UNCHANGED <<disk, offer>> /\ disk[n] = None
    BY <1>7, <2>1 DEF HearsDifferent, Answered, Free
  <2>3. QED
    BY <2>1, <2>2 DEF RuleInv, Starts
<1>8. CASE HearsPrefix
  <2>1. /\ phase = "prefix" /\ phase' = "opening"
        /\ UNCHANGED <<disk, offer, target, action>>
    BY <1>8 DEF HearsPrefix, Answered, Starts
  <2>2. QED
    BY <1>0, <2>1 DEF RuleInv
<1>9. CASE Opens
  BY <1>0, <1>9 DEF Opens, RuleInv
<1>10. CASE \/ HearsIdentical \/ OpenFails \/ Commits \/ CommitFails \/ LinkCut \/ LinkCutEarly
            \/ DiskFull \/ WriteFails \/ Crashes \/ CrashesAppending
  BY <1>10, RuleIdle DEF HearsIdentical, OpenFails, Commits, CommitFails, LinkCut, LinkCutEarly,
                DiskFull, WriteFails, Crashes, CrashesAppending, Skips, Ends
<1>11. CASE UNCHANGED vars
  BY <1>1, <1>11 DEF vars
<1>12. QED
  BY <1>2, <1>4, <1>5, <1>6, <1>7, <1>8, <1>9, <1>10, <1>11 DEF Next, Comparing
-----------------------------------------------------------------------------
(* What is reported.                                                       *)

Received == {"ok", "resumed", "skipped"}

\* A session that goes on has reported nothing.
LEMMA NotReceived ==
    ASSUME received' = "none" \/ (phase' = "idle" /\ received' \notin Received),
           action' = "append" => target' = 0
    PROVE  ResultInv'
BY DEF ResultInv, DoneMeansThere, Received

\* commitPart: what is renamed or copied is the source.
LEMMA CommitsSource ==
    ASSUME ResumeInv, AtEOF
    PROVE  /\ Content = source /\ Content \in Data
           /\ action = "append" => disk[target] \in Data
<1>1. part[target] \in Data /\ buf \in Data /\ source \in Data
  BY DEF ResumeInv, Types, ContentInv, AtEOF
<1>2. Content \in Data
  BY <1>1, ConcatParts DEF Content
<1>3. Content = Prefix(source, Len(source))
  BY DEF ResumeInv, ContentInv, AtEOF
<1>4. action = "append" => disk[target] \in Data
  BY DEF ResumeInv, Types, RuleInv, AtEOF
<1>5. QED
  BY <1>1, <1>2, <1>3, <1>4, PrefixFull

\* So what the receiver then reports is true, renamed or appended.
LEMMA CommitsResult == ResumeInv /\ Commits => ResultInv'
<1> SUFFICES ASSUME ResumeInv, Commits PROVE ResultInv'
  OBVIOUS
<1>1. /\ Content = source /\ source \in Data
      /\ action = "append" => disk[target] \in Data
  BY CommitsSource DEF Commits
<1>2. /\ phase = "data" /\ phase' = "idle" /\ UNCHANGED <<source, target, action>>
      /\ received' = IF start > 0 THEN "resumed" ELSE "ok"
      /\ disk' = [disk EXCEPT ![target] = IF action = "append" THEN @ \o source ELSE source]
  BY <1>1 DEF Commits, AtEOF, Ends
<1>3. target \in Names /\ disk \in [Names -> Data \cup {None}]
  BY DEF ResumeInv, Types
<1>4. CASE action = "append"
  <2>1. target = 0 /\ start = 0 /\ disk[0] \in Data
    BY <1>1, <1>2, <1>4 DEF ResumeInv, RuleInv
  <2>2. disk'[0] = disk[0] \o source /\ received' = "ok"
    BY <1>2, <1>3, <1>4, <2>1
  <2>3. SubSeq(disk'[0], Len(disk[0]) + 1, Len(disk'[0])) = source
    BY <1>1, <2>1, <2>2, ConcatParts
  <2>4. Len(disk[0]) \in 0 .. Len(disk'[0])
    <3>1. Len(disk[0]) \in Nat /\ Len(source) \in Nat
      BY <1>1, <2>1 DEF Data
    <3>2. Len(disk'[0]) = Len(disk[0]) + Len(source)
      BY <1>1, <2>1, <2>2, ConcatParts
    <3>3. QED
      BY <3>1, <3>2
  <2>5. QED
    BY <1>2, <1>4, <2>1, <2>2, <2>3, <2>4 DEF ResultInv, DoneMeansThere
<1>5. CASE action # "append"
  <2>1. disk'[target] = source'
    BY <1>2, <1>3, <1>5
  <2>2. There'
    BY <1>3, <2>1 DEF There
  <2>3. QED
    BY <1>2, <1>5, <2>2 DEF ResultInv, DoneMeansThere
<1>6. QED
  BY <1>4, <1>5

\* receiveFile's identical: a CRC of all of the source.
LEMMA IdenticalResult == ResumeInv /\ HearsIdentical => ResultInv'
<1> SUFFICES ASSUME ResumeInv, HearsIdentical PROVE ResultInv'
  OBVIOUS
<1>1. /\ phase = "identical" /\ answers # << >> /\ Head(answers) = disk[0]
      /\ phase' = "idle" /\ received' = "skipped"
      /\ UNCHANGED <<source, disk, target, action>>
  BY DEF HearsIdentical, Answered, Skips, Ends
<1>2. Len(disk[0]) = Len(source) /\ source \in Data /\ action = "write"
  BY <1>1 DEF ResumeInv, Types, LineInv, RuleInv
<1>3. Head(answers) = Prefix(source, Len(Head(answers)))
  BY <1>1, AnswerIsPrefix DEF ResumeInv
<1>4. disk[0] = source
  BY <1>1, <1>2, <1>3, PrefixFull
<1>5. There'
  BY <1>1, <1>4, ResumeAssumption DEF There, Names
<1>6. QED
  BY <1>1, <1>2, <1>5 DEF ResultInv, DoneMeansThere

\* Whatever ends a session otherwise does not report a file as received.
LEMMA ResultStep == ResumeInv /\ [Next]_vars => ResultInv'
<1> SUFFICES ASSUME ResumeInv, [Next]_vars PROVE ResultInv'
  OBVIOUS
<1>0. /\ action = "append" => target = 0
      /\ phase # "idle" => received = "none"
      /\ phase = "idle" => questions = << >>
  BY DEF ResumeInv, ResultInv, LineInv
<1> USE DEF lineVars, resultVars
<1>1. CASE UNCHANGED <<target, action, received>> /\ phase # "idle"
  BY <1>0, <1>1, NotReceived
<1>2. CASE Offering \/ SourceChanges
  BY <1>0, <1>2, NotReceived DEF Offering, SourceChanges
<1>3. ASSUME NEW name, Writes(name), phase # "idle" PROVE ResultInv'
  <2>1. action' = "write" /\ received' = "none"
    BY <1>0, <1>3 DEF Writes
  <2>2. QED
    BY <2>1, NotReceived
<1>4. CASE Renames /\ phase # "idle"
  BY <1>3, <1>4 DEF Renames
<1>5. CASE Decision
  <2>1. phase # "idle"
    BY <1>5 DEF Decision, DecidesNew, DecidesReplace, DecidesRename, DecidesRefuse, DecidesAppend,
                DecidesCompare, Decides
  <2>2. CASE DecidesNew \/ DecidesReplace
    BY <1>3, <2>1, <2>2 DEF DecidesNew, DecidesReplace
  <2>3. CASE DecidesRename
    BY <1>4, <2>1, <2>3 DEF DecidesRename
  <2>4. CASE DecidesRefuse
    BY <1>0, <2>4, NotReceived DEF DecidesRefuse, Skips, Ends, Received
  <2>5. CASE DecidesAppend
    BY <1>0, <2>1, <2>5, NotReceived DEF DecidesAppend
  <2>6. CASE DecidesCompare /\ Comparable
    BY <1>1, <2>1, <2>6 DEF DecidesCompare
  <2>7. CASE DecidesCompare /\ ~Comparable
    BY <1>4, <2>1, <2>7 DEF DecidesCompare
  <2>8. QED
    BY <1>5, <2>2, <2>3, <2>4, <2>5, <2>6, <2>7 DEF Decision
<1>6. CASE SenderAnswers \/ Lost \/ AsksAgain \/ HearsPrefix \/ Opens \/ ReceivesUnit \/ Flushes
  <2>1. UNCHANGED <<target, action, received>>
    BY <1>6 DEF SenderAnswers, Lost, AsksAgain, HearsPrefix, Opens, ReceivesUnit, Flushes
  <2>2. phase # "idle"
    BY <1>0, <1>6 DEF SenderAnswers, Lost, AsksAgain, Asking, HearsPrefix, Opens, ReceivesUnit, Flushes
  <2>3. QED
    BY <1>1, <2>1, <2>2
<1>7. CASE GivesUp \/ SenderNaks
  <2>1. NoAnswer /\ phase # "idle"
    BY <1>7 DEF GivesUp, SenderNaks, Asking
  <2>2. CASE phase = "identical"
    BY <1>4, <2>1, <2>2 DEF NoAnswer
  <2>3. CASE phase # "identical"
    BY <1>1, <2>1, <2>3 DEF NoAnswer
  <2>4. QED
    BY <2>2, <2>3
<1>8. CASE HearsIdentical
  BY <1>8, IdenticalResult
<1>9. CASE HearsDifferent
  <2>1. action' = "write" /\ received' = "none"
    BY <1>0, <1>9 DEF HearsDifferent
  <2>2. QED
    BY <2>1, NotReceived
<1>10. CASE Commits
  BY <1>10, CommitsResult
<1>11. CASE \/ OpenFails \/ CommitFails \/ LinkCut \/ LinkCutEarly \/ DiskFull \/ WriteFails
            \/ Crashes \/ CrashesAppending
  <2>1. phase' = "idle" /\ received' \in {"failed", "none"} /\ UNCHANGED <<target, action>>
    BY <1>11 DEF OpenFails, CommitFails, LinkCut, LinkCutEarly, DiskFull, WriteFails, Crashes,
                 CrashesAppending, Skips, Ends
  <2>2. QED
    BY <1>0, <2>1, NotReceived DEF Received
<1>12. CASE UNCHANGED vars
  BY <1>12 DEF vars, ResumeInv, ResultInv, DoneMeansThere, There
<1>13. QED
  BY <1>2, <1>5, <1>6, <1>7, <1>8, <1>9, <1>10, <1>11, <1>12 DEF Next, Comparing

-----------------------------------------------------------------------------
(* Before the first session nothing is there but what was on the disk.     *)
LEMMA InitResumeInv == Init => ResumeInv
<1> SUFFICES ASSUME Init PROVE ResumeInv
  OBVIOUS
<1> USE ResumeAssumption DEF Init
<1>1. Contents \subseteq Data
  BY ContentsAreData
<1>2. Types
  <2>1. source \in Data /\ buf \in Data /\ disk \in [Names -> Data \cup {None}]
    BY <1>1 DEF Data
  <2>2. part \in [Names -> Data \cup {None}]
    OBVIOUS
  <2>3. offer \in Offers
    BY DEF Offers, Rules
  <2>4. QED
    BY <2>1, <2>2, <2>3 DEF Types, Phases, Results, Names
<1>3. LineInv /\ ContentInv /\ RuleInv /\ ResultInv
  BY DEF LineInv, ContentInv, RuleInv, ResultInv, DoneMeansThere
<1>4. QED
  BY <1>2, <1>3 DEF ResumeInv

(* The line, the partial file, the target and the report agree in every    *)
(* state of every session on one name (receiveFile).                       *)
THEOREM ResumeInvCorrect == Spec => []ResumeInv
<1>1. ResumeInv /\ [Next]_vars => ResumeInv'
  BY TypesStep, LineStep, ContentStep, RuleStep, ResultStep DEF ResumeInv
<1>2. QED
  BY <1>1, InitResumeInv, PTL DEF Spec

(* What the receiver reports as received, resumed or identical is on its   *)
(* disk (receiveFile, commitPart).                                         *)
THEOREM DoneMeansThereHolds == Spec => []DoneMeansThere
<1>1. ResumeInv => DoneMeansThere
  BY DEF ResumeInv, ResultInv
<1>2. QED
  BY <1>1, ResumeInvCorrect, PTL

\* A file that is there is the target only by the rules that say so.
LEMMA KeepsStep ==
    ASSUME ResumeInv, [Next]_vars
    PROVE  [\A n \in Names : disk[n] # None /\ disk'[n] # disk[n] =>
               /\ n = 0
               /\ \/ offer.rule \in {"replace", "dated"}
                  \/ offer.rule = "append" /\ Prefix(disk'[n], Len(disk[n])) = disk[n]]_vars
<1>1. CASE ~(Commits \/ CrashesAppending)
  <2>1. UNCHANGED disk
    BY <1>1 DEF Next, Offering, SourceChanges, Decision, DecidesNew, DecidesReplace, DecidesRename,
        DecidesRefuse, DecidesAppend, DecidesCompare, Decides, Opens, OpenFails, SenderAnswers, Lost,
        Comparing, AsksAgain, GivesUp, SenderNaks, NoAnswer, HearsIdentical, HearsDifferent,
        HearsPrefix, Answered, ReceivesUnit, Flushes, CommitFails, LinkCut, LinkCutEarly, DiskFull,
        WriteFails, Crashes, vars
  <2>2. QED
    BY <2>1
<1>2. ASSUME NEW more \in Data, AtEOF,
             disk' = [disk EXCEPT ![target] = IF action = "append" THEN @ \o more ELSE more],
             NEW n \in Names, disk[n] # None, disk'[n] # disk[n]
      PROVE  /\ n = 0
             /\ \/ offer.rule \in {"replace", "dated"}
                \/ offer.rule = "append" /\ Prefix(disk'[n], Len(disk[n])) = disk[n]
  <2>1. n = target /\ disk \in [Names -> Data \cup {None}]
    BY <1>2 DEF ResumeInv, Types
  <2>2. CASE action = "append"
    <3>1. disk[n] \in Data /\ disk'[n] = disk[n] \o more
      BY <1>2, <2>1, <2>2
    <3>2. Prefix(disk'[n], Len(disk[n])) = disk[n]
      BY <3>1, ConcatParts
    <3>3. QED
      BY <1>2, <2>1, <2>2, <3>2 DEF ResumeInv, RuleInv, AtEOF
  <2>3. CASE action # "append"
    BY <1>2, <2>1, <2>3 DEF ResumeInv, RuleInv, AtEOF
  <2>4. QED
    BY <2>2, <2>3
<1>3. CASE Commits
  <2>1. /\ Content \in Data /\ AtEOF
        /\ disk' = [disk EXCEPT ![target] = IF action = "append" THEN @ \o Content ELSE Content]
    BY <1>3, CommitsSource DEF Commits
  <2>2. QED
    BY <1>2, <2>1
<1>4. CASE CrashesAppending
  <2>1. PICK k \in 0 .. Len(Content) : disk' = [disk EXCEPT ![target] = @ \o Prefix(Content, k)]
    BY <1>4 DEF CrashesAppending
  <2>2. AtEOF /\ action = "append" /\ Content \in Data
    BY <1>4, CommitsSource DEF CrashesAppending
  <2>3. Prefix(Content, k) \in Data
    BY <2>1, <2>2, PrefixType
  <2>4. QED
    BY <1>2, <2>1, <2>2, <2>3
<1>5. QED
  BY <1>1, <1>3, <1>4

(* No file that is there is replaced or changed, but by the rule the       *)
(* sender or the receiver's policy has given (decide, commitPart).         *)
THEOREM KeepsFilesHolds == Spec => KeepsFiles
BY KeepsStep, ResumeInvCorrect, PTL DEF Spec, KeepsFiles

-----------------------------------------------------------------------------
(* The bounds. A file is a sequence of units, and no longer than its bound.*)

LEMMA DataBounds ==
    /\ \A s \in Data : Len(s) <= MaxDisk => s \in Stored
    /\ \A s \in Data : Len(s) \in 1 .. MaxLen => s \in Contents
    /\ \A s \in Stored : s \in Data /\ Len(s) \in 0 .. MaxDisk
    /\ \A s \in Contents : s \in Data /\ Len(s) \in 1 .. MaxLen
<1>0. ASSUME NEW n \in Nat, NEW s \in [1 .. n -> Units] PROVE s \in Seq(Units)
  BY SeqDef, Zenon
<1> USE ResumeAssumption
<1>1. ASSUME NEW s \in Data PROVE s \in [1 .. Len(s) -> Units] /\ Len(s) \in Nat
  BY <1>1 DEF Data
<1>2. ASSUME NEW n \in Nat, NEW s \in [1 .. n -> Units] PROVE s \in Data /\ Len(s) = n
  <2>1. s \in Seq(Units)
    BY <1>0
  <2>2. DOMAIN s = 1 .. n
    OBVIOUS
  <2>3. QED
    BY <2>1, <2>2, LenProperties DEF Data
<1>3. \A s \in Data : Len(s) <= MaxDisk => s \in Stored
  BY <1>1 DEF Stored
<1>4. \A s \in Data : Len(s) \in 1 .. MaxLen => s \in Contents
  BY <1>1 DEF Contents
<1>5. ASSUME NEW s \in Stored PROVE s \in Data /\ Len(s) \in 0 .. MaxDisk
  <2>1. PICK n \in 0 .. MaxDisk : s \in [1 .. n -> Units]
    BY DEF Stored
  <2>2. QED
    BY <1>2, <2>1
<1>6. ASSUME NEW s \in Contents PROVE s \in Data /\ Len(s) \in 1 .. MaxLen
  <2>1. PICK n \in 1 .. MaxLen : s \in [1 .. n -> Units]
    BY DEF Contents
  <2>2. QED
    BY <1>2, <2>1
<1>7. QED
  BY <1>3, <1>4, <1>5, <1>6

\* What decide has measured before it appended, and a question about a
\* partial file is about some of its data.
Sized ==
    /\ TypeOK
    /\ phase = "prefix" => Len(part[target]) > 0
    /\ phase \in {"opening", "data"} /\ action = "append" => Len(disk[0]) + Len(source) <= MaxDisk

\* The sizes that a step of a session starts from.
LEMMA Sizes ==
    ASSUME ResumeInv, Sized
    PROVE  /\ source \in Data /\ Len(source) \in 1 .. MaxLen /\ MaxLen \in Nat /\ MaxDisk \in Nat
           /\ \A n \in Names : disk[n] # None => disk[n] \in Data /\ Len(disk[n]) \in 0 .. MaxDisk
           /\ \A n \in Names : part[n] # None => part[n] \in Data /\ Len(part[n]) \in 0 .. MaxDisk
           /\ phase = "data" => /\ Content \in Data /\ Len(Content) \in 0 .. Len(source)
                                /\ part[target] \in Data
                                /\ Len(Content) = Len(part[target]) + Len(buf)
<1> USE ResumeAssumption
<1>1. source \in Data /\ Len(source) \in 1 .. MaxLen
  BY DataBounds DEF Sized, TypeOK
<1>2. ASSUME NEW n \in Names
      PROVE  /\ disk[n] # None => disk[n] \in Data /\ Len(disk[n]) \in 0 .. MaxDisk
             /\ part[n] # None => part[n] \in Data /\ Len(part[n]) \in 0 .. MaxDisk
  <2>1. disk[n] \in Stored \cup {None} /\ part[n] \in Stored \cup {None}
    BY DEF Sized, TypeOK
  <2>2. QED
    BY <2>1, DataBounds
<1>3. ASSUME phase = "data"
      PROVE  /\ Content \in Data /\ Len(Content) \in 0 .. Len(source) /\ part[target] \in Data
             /\ Len(Content) = Len(part[target]) + Len(buf)
  <2>1. target \in Names /\ buf \in Data /\ part[target] # None /\ Len(Content) <= Len(source)
    BY <1>3 DEF ResumeInv, Types, ContentInv
  <2>2. part[target] \in Data
    BY <1>2, <2>1
  <2>3. Content \in Data /\ Len(Content) = Len(part[target]) + Len(buf)
    BY <2>1, <2>2, ConcatParts DEF Content
  <2>4. Len(Content) \in Nat
    BY <2>3 DEF Data
  <2>5. QED
    BY <1>1, <2>1, <2>2, <2>3, <2>4
<1>4. QED
  BY <1>1, <1>2, <1>3

\* The actions that leave a file, its partial file or the offer alone.
LEMMA FilesKept ==
    ASSUME [Next]_vars
    PROVE  /\ ~SourceChanges => UNCHANGED source
           /\ ~(Commits \/ CrashesAppending) => UNCHANGED disk
           /\ \/ UNCHANGED part
              \/ Opens \/ WriteFails \/ DiskFull \/ Commits
              \/ phase = "data" /\ Flushed
<1> USE DEF vars, lineVars, resultVars
<1>1. CASE UNCHANGED vars
  BY <1>1
<1>2. CASE Offering \/ SourceChanges \/ Opens \/ OpenFails \/ SenderAnswers \/ Lost
  BY <1>2 DEF Offering, SourceChanges, Opens, OpenFails, SenderAnswers, Lost
<1>3. CASE Decision
  BY <1>3 DEF Decision, DecidesNew, DecidesReplace, DecidesRename, DecidesRefuse, DecidesAppend,
              DecidesCompare, Decides
<1>4. CASE Comparing
  BY <1>4 DEF Comparing, AsksAgain, GivesUp, SenderNaks, NoAnswer, HearsIdentical, HearsDifferent,
              HearsPrefix, Answered
<1>5. CASE ReceivesUnit \/ Flushes \/ Commits \/ CommitFails \/ LinkCut \/ LinkCutEarly
  BY <1>5 DEF ReceivesUnit, Flushes, Commits, CommitFails, AtEOF, LinkCut, LinkCutEarly
<1>6. CASE DiskFull \/ WriteFails \/ Crashes \/ CrashesAppending
  BY <1>6 DEF DiskFull, WriteFails, Crashes, CrashesAppending, AtEOF
<1>7. QED
  BY <1>1, <1>2, <1>3, <1>4, <1>5, <1>6 DEF Next

\* No file outgrows its bound, whether it is renamed, appended to, flushed or
\* cut.
LEMMA FilesStep ==
    ASSUME ResumeInv, Sized, [Next]_vars
    PROVE  /\ source' \in Contents
           /\ disk' \in [Names -> Stored \cup {None}] /\ part' \in [Names -> Stored \cup {None}]
<1> USE ResumeAssumption
<1>0. /\ source \in Contents /\ target \in Names
      /\ disk \in [Names -> Stored \cup {None}] /\ part \in [Names -> Stored \cup {None}]
  BY DEF Sized, TypeOK
<1>1. source' \in Contents
  BY <1>0, FilesKept DEF SourceChanges
<1>2. ASSUME phase = "data" PROVE Content \in Stored
  BY <1>2, Sizes, DataBounds
<1>3. ASSUME NEW more \in Data, Len(more) <= Len(source), phase = "data", action = "append"
      PROVE  disk[target] \o more \in Stored
  <2>1. /\ target = 0 /\ disk[0] # None /\ Len(disk[0]) + Len(source) <= MaxDisk
    BY <1>3 DEF ResumeInv, RuleInv, Sized
  <2>2. disk[target] \in Data /\ Len(disk[target]) \in Nat /\ Len(source) \in Nat
    BY <1>0, <2>1, Sizes
  <2>3. disk[target] \o more \in Data /\ Len(disk[target] \o more) = Len(disk[target]) + Len(more)
    BY <1>3, <2>2, ConcatParts
  <2>4. Len(more) \in Nat
    BY DEF Data
  <2>5. Len(disk[target] \o more) <= MaxDisk
    BY <1>3, <2>1, <2>2, <2>3, <2>4
  <2>6. QED
    BY <2>3, <2>5, DataBounds
<1>4. disk' \in [Names -> Stored \cup {None}]
  <2>1. CASE Commits
    <3>1. /\ phase = "data" /\ Content \in Data /\ Len(Content) <= Len(source)
          /\ disk' = [disk EXCEPT ![target] = IF action = "append" THEN @ \o Content ELSE Content]
      BY <2>1, Sizes DEF Commits, AtEOF
    <3>2. (IF action = "append" THEN disk[target] \o Content ELSE Content) \in Stored
      BY <1>2, <1>3, <3>1
    <3>3. QED
      BY <1>0, <3>1, <3>2
  <2>2. CASE CrashesAppending
    <3>1. phase = "data" /\ action = "append" /\ Content \in Data /\ Len(Content) \in 0 .. Len(source)
      BY <2>2, Sizes DEF CrashesAppending, AtEOF
    <3>2. PICK n \in 0 .. Len(Content) : disk' = [disk EXCEPT ![target] = @ \o Prefix(Content, n)]
      BY <2>2 DEF CrashesAppending
    <3>3. Prefix(Content, n) \in Data /\ Len(Prefix(Content, n)) = n
      BY <3>1, <3>2, PrefixType
    <3>4. Len(source) \in Nat /\ Len(Content) \in Nat
      BY <3>1, Sizes
    <3>5. Len(Prefix(Content, n)) <= Len(source)
      BY <3>1, <3>2, <3>3, <3>4
    <3>6. disk[target] \o Prefix(Content, n) \in Stored
      BY <1>3, <3>1, <3>3, <3>5
    <3>7. QED
      BY <1>0, <3>2, <3>6
  <2>3. QED
    BY <1>0, <2>1, <2>2, FilesKept
<1>5. part' \in [Names -> Stored \cup {None}]
  <2>1. CASE Opens
    <3>1. part' = [part EXCEPT ![target] = IF @ = None THEN << >> ELSE Prefix(@, start)]
      BY <2>1 DEF Opens
    <3>2. << >> \in Stored
      <4>1. << >> \in Data /\ Len(<< >>) <= MaxDisk
        BY DEF Data
      <4>2. QED
        BY <4>1, DataBounds
    <3>3. ASSUME part[target] # None PROVE Prefix(part[target], start) \in Stored
      <4>1. part[target] \in Data /\ Len(part[target]) \in 0 .. MaxDisk /\ start \in Nat
        BY <1>0, <3>3, Sizes DEF ResumeInv, Types
      <4>2. start \in 0 .. Len(part[target])
        BY <2>1, <4>1 DEF Opens, ResumeInv, ContentInv
      <4>3. Prefix(part[target], start) \in Data /\ Len(Prefix(part[target], start)) = start
        BY <4>1, <4>2, PrefixType
      <4>4. QED
        BY <4>1, <4>2, <4>3, DataBounds
    <3>4. QED
      BY <1>0, <3>1, <3>2, <3>3
  <2>2. CASE phase = "data" /\ Flushed
    BY <1>0, <1>2, <2>2 DEF Flushed
  <2>3. CASE DiskFull
    <3>1. PICK n \in 0 .. Len(buf) : part' = [part EXCEPT ![target] = @ \o Prefix(buf, n)]
      BY <2>3 DEF DiskFull
    <3>2. /\ part[target] \in Data /\ buf \in Data /\ Len(Content) \in 0 .. Len(source)
          /\ Len(Content) = Len(part[target]) + Len(buf)
          /\ Len(source) \in 1 .. MaxLen
      BY <2>3, Sizes DEF DiskFull, ResumeInv, Types
    <3>3. Prefix(buf, n) \in Data /\ Len(Prefix(buf, n)) = n
      BY <3>1, <3>2, PrefixType
    <3>4. Len(part[target]) \in Nat /\ Len(buf) \in Nat
      BY <3>2 DEF Data
    <3>5. Len(part[target]) + n <= MaxDisk
      BY <3>1, <3>2, <3>4
    <3>6. ASSUME NEW p \in Data, NEW more \in Data, Len(p) + Len(more) <= MaxDisk
          PROVE  p \o more \in Stored
      BY <3>6, ConcatParts, DataBounds
    <3>7. part[target] \o Prefix(buf, n) \in Stored
      BY <3>2, <3>3, <3>5, <3>6
    <3>8. QED
      BY <1>0, <3>1, <3>7
  <2>4. CASE WriteFails \/ Commits
    BY <1>0, <2>4 DEF WriteFails, Commits
  <2>5. QED
    BY <1>0, <2>1, <2>2, <2>3, <2>4, FilesKept
<1>6. QED
  BY <1>1, <1>4, <1>5


\* What decide, and every answer, leaves on the line when a name is chosen.
LEMMA WritesSized ==
    ASSUME Types, Sized, NEW name \in Names, Writes(name), UNCHANGED <<source, disk, part>>
    PROVE  /\ tries' \in 0 .. Tries /\ questions' \in Seq(1 .. MaxLen) /\ answers' \in Seq(Contents)
           /\ start' \in 0 .. MaxLen
           /\ phase' = "prefix" => Len(part'[target']) > 0
           /\ UNCHANGED <<crcAsked, buf, received, sent>>
<1> USE ResumeAssumption DEF Types
<1>1. /\ questions \in Seq(1 .. MaxLen) /\ answers \in Seq(Contents) /\ start \in 0 .. MaxLen
      /\ source \in Contents
  BY DEF Sized, TypeOK
<1>2. Len(source) \in 1 .. MaxLen /\ source \in Data
  BY <1>1, DataBounds
<1>3. UNCHANGED <<crcAsked, buf, received, sent>> /\ target' = name
  BY DEF Writes, resultVars
<1>4. CASE Resumable(name)
  <2>1. Len(part[name]) \in 1 .. MaxLen
    BY <1>2, <1>4 DEF Resumable
  <2>2. /\ tries' = 1 /\ questions' = Append(questions, Len(part[name])) /\ UNCHANGED <<answers, start>>
    BY <1>4 DEF Writes, Asks
  <2>3. questions' \in Seq(1 .. MaxLen)
    BY <1>1, <2>1, <2>2
  <2>4. QED
    BY <1>1, <1>3, <2>1, <2>2, <2>3
<1>5. CASE ~Resumable(name)
  BY <1>3, <1>5 DEF Writes, Starts
<1>6. QED
  BY <1>4, <1>5

\* What a session ends with, as the sender reports it.
LEMMA EndsSized ==
    ASSUME NEW r, NEW x \in Results, Ends(r, x)
    PROVE  /\ tries' \in 0 .. Tries /\ questions' \in Seq(1 .. MaxLen) /\ answers' \in Seq(Contents)
           /\ crcAsked' \in BOOLEAN /\ start' \in 0 .. MaxLen
           /\ sent' \in Results /\ phase' = "idle"
<1>1. /\ tries' = 0 /\ questions' = << >> /\ answers' = << >>
      /\ crcAsked' = FALSE /\ start' = 0 /\ sent' = x /\ phase' = "idle"
  BY DEF Ends
<1>2. tries' \in 0 .. Tries /\ start' \in 0 .. MaxLen
  BY <1>1, ResumeAssumption
<1>3. questions' \in Seq(1 .. MaxLen)
  BY <1>1
<1>4. answers' \in Seq(Contents)
  BY <1>1
<1>5. QED
  BY <1>1, <1>2, <1>3, <1>4

\* The questions, the answers, the tries and the reports keep their bounds.
SessionSized ==
    /\ tries \in 0 .. Tries
    /\ questions \in Seq(1 .. MaxLen) /\ answers \in Seq(Contents)
    /\ crcAsked \in BOOLEAN
    /\ start \in 0 .. MaxLen
    /\ sent \in Results
    /\ phase = "prefix" => Len(part[target]) > 0

LEMMA SessionStep == ResumeInv /\ Sized /\ [Next]_vars => SessionSized'
<1> SUFFICES ASSUME ResumeInv, Sized, [Next]_vars PROVE SessionSized'
  OBVIOUS
<1> USE ResumeAssumption DEF SessionSized
<1>0. SessionSized /\ Types /\ LineInv /\ source \in Contents
  BY DEF Sized, TypeOK, ResumeInv
<1>1. Len(source) \in 1 .. MaxLen /\ source \in Data
  BY <1>0, DataBounds
<1> USE DEF lineVars, resultVars
<1>2. "skipped" \in Results /\ "refused" \in Results /\ "failed" \in Results
      /\ "resumed" \in Results /\ "ok" \in Results /\ "none" \in Results
  BY DEF Results
<1>3. ASSUME NEW name \in Names, Writes(name), UNCHANGED <<source, disk, part>> PROVE SessionSized'
  BY <1>0, <1>3, WritesSized
<1>4. CASE Renames /\ UNCHANGED <<source, disk, part>>
  BY <1>3, <1>4 DEF Renames
<1>5. CASE Offering \/ SourceChanges
  BY <1>0, <1>2, <1>5 DEF Offering, SourceChanges
<1>6. CASE Decision
  <2>1. CASE DecidesNew \/ DecidesReplace
    <3>1. 0 \in Names
      BY DEF Names
    <3>2. QED
      BY <1>3, <2>1, <3>1 DEF DecidesNew, DecidesReplace, Decides
  <2>2. CASE DecidesRename
    BY <1>4, <2>2 DEF DecidesRename, Decides
  <2>3. CASE DecidesRefuse
    BY <1>2, <2>3, EndsSized DEF DecidesRefuse, Skips
  <2>4. CASE DecidesAppend
    BY <1>0, <2>4 DEF DecidesAppend, Starts
  <2>5. CASE DecidesCompare
    <3>1. CASE Comparable
      <4>1. /\ phase' = "identical" /\ tries' = 1 /\ questions' = Append(questions, Len(source))
            /\ UNCHANGED <<answers, start, crcAsked, sent>>
        BY <2>5, <3>1 DEF DecidesCompare, Asks
      <4>2. questions' \in Seq(1 .. MaxLen)
        BY <1>0, <1>1, <4>1
      <4>3. QED
        BY <1>0, <4>1, <4>2
    <3>2. CASE ~Comparable
      BY <1>4, <2>5, <3>2 DEF DecidesCompare, Decides
    <3>3. QED
      BY <3>1, <3>2
  <2>6. QED
    BY <1>6, <2>1, <2>2, <2>3, <2>4, <2>5 DEF Decision
<1>7. CASE Opens
  BY <1>0, <1>7 DEF Opens
<1>8. CASE SenderAnswers
  <2>1. /\ questions # << >> /\ questions' = Tail(questions)
        /\ answers' = Append(answers, Prefix(source, Head(questions)))
        /\ crcAsked' = TRUE /\ UNCHANGED <<phase, part, target, tries, start, sent>>
    BY <1>8 DEF SenderAnswers
  <2>2. Head(questions) \in 1 .. MaxLen /\ questions' \in Seq(1 .. MaxLen)
    BY <1>0, <2>1, HeadTailProperties
  <2>3. Head(questions) \in 0 .. Len(source)
    BY <1>0, <2>1 DEF LineInv
  <2>4. /\ Prefix(source, Head(questions)) \in Data
        /\ Len(Prefix(source, Head(questions))) = Head(questions)
    BY <1>1, <2>3, PrefixType
  <2>5. Prefix(source, Head(questions)) \in Contents
    BY <2>2, <2>4, DataBounds
  <2>6. answers' \in Seq(Contents)
    BY <1>0, <2>1, <2>5
  <2>7. QED
    BY <1>0, <2>1, <2>2, <2>6
<1>9. CASE Lost
  <2>1. questions # << >> => Tail(questions) \in Seq(1 .. MaxLen)
    BY <1>0, HeadTailProperties
  <2>2. answers # << >> => Tail(answers) \in Seq(Contents)
    BY <1>0, HeadTailProperties
  <2>3. QED
    BY <1>0, <1>9, <2>1, <2>2 DEF Lost
<1>10. CASE AsksAgain
  <2>1. /\ tries < Tries /\ tries' = tries + 1 /\ phase \in {"identical", "prefix"}
        /\ questions' = Append(questions, IF phase = "identical" THEN Len(source) ELSE Len(part[target]))
        /\ UNCHANGED <<phase, part, target, answers, crcAsked, start, sent>>
    BY <1>10 DEF AsksAgain, Asking
  <2>2. phase = "prefix" => Len(part[target]) \in 1 .. MaxLen
    BY <1>0, <1>1 DEF LineInv
  <2>3. questions' \in Seq(1 .. MaxLen)
    BY <1>0, <1>1, <2>1, <2>2
  <2>4. QED
    BY <1>0, <2>1, <2>3
<1>11. CASE GivesUp \/ SenderNaks
  <2>1. NoAnswer
    BY <1>11 DEF GivesUp, SenderNaks
  <2>2. CASE phase = "identical"
    BY <1>4, <2>1, <2>2 DEF NoAnswer
  <2>3. CASE phase # "identical"
    BY <1>0, <2>1, <2>3 DEF NoAnswer, Starts
  <2>4. QED
    BY <2>2, <2>3
<1>12. CASE HearsIdentical
  BY <1>2, <1>12, EndsSized DEF HearsIdentical, Skips
<1>13. CASE HearsDifferent
  <2>1. PICK n \in Names \ {0} :
            /\ target' = n
            /\ IF Resumable(n)
               THEN /\ phase' = "prefix" /\ Asks(Len(part[n])) /\ answers' = Tail(answers)
                    /\ UNCHANGED start
               ELSE Starts(0)
    BY <1>13 DEF HearsDifferent
  <2>2. answers # << >> /\ UNCHANGED <<part, crcAsked, sent>>
    BY <1>13 DEF HearsDifferent, Answered
  <2>3. CASE Resumable(n)
    <3>1. Len(part[n]) \in 1 .. MaxLen
      BY <1>1, <2>3 DEF Resumable
    <3>2. /\ tries' = 1 /\ questions' = Append(questions, Len(part[n])) /\ answers' = Tail(answers)
          /\ UNCHANGED start
      BY <2>1, <2>3 DEF Asks
    <3>3. questions' \in Seq(1 .. MaxLen)
      BY <1>0, <3>1, <3>2
    <3>4. answers' \in Seq(Contents)
      BY <1>0, <2>2, <3>2, HeadTailProperties
    <3>5. QED
      BY <1>0, <2>1, <2>2, <3>1, <3>2, <3>3, <3>4
  <2>4. CASE ~Resumable(n)
    BY <1>0, <2>1, <2>2, <2>4 DEF Starts
  <2>5. QED
    BY <2>3, <2>4
<1>14. CASE HearsPrefix
  <2>1. Len(part[target]) \in 0 .. MaxLen
    BY <1>0, <1>1, <1>14 DEF HearsPrefix, LineInv
  <2>2. QED
    BY <1>0, <1>14, <2>1 DEF HearsPrefix, Starts
<1>15. CASE ReceivesUnit \/ Flushes
  <2>1. phase' = "data" /\ UNCHANGED <<tries, questions, answers, crcAsked, start, sent>>
    BY <1>15 DEF ReceivesUnit, Flushes
  <2>2. QED
    BY <1>0, <2>1
<1>16. CASE \/ OpenFails \/ Commits \/ CommitFails \/ LinkCut \/ LinkCutEarly \/ DiskFull \/ WriteFails
            \/ Crashes \/ CrashesAppending
  <2>1. \E r, x : Ends(r, x) /\ x \in Results
    BY <1>2, <1>16 DEF OpenFails, Skips, Commits, CommitFails, LinkCut, LinkCutEarly, DiskFull,
        WriteFails, Crashes, CrashesAppending
  <2>2. QED
    BY <2>1, EndsSized
<1>17. CASE UNCHANGED vars
  BY <1>0, <1>17 DEF vars
<1>18. QED
  BY <1>5, <1>6, <1>7, <1>8, <1>9, <1>10, <1>11, <1>12, <1>13, <1>14, <1>15, <1>16, <1>17
     DEF Next, Comparing

\* There is room for what is appended from when decide has measured it until
\* commitPart.
LEMMA AppendStep ==
    ASSUME ResumeInv, Sized, [Next]_vars, phase' \in {"opening", "data"}, action' = "append"
    PROVE  Len(disk'[0]) + Len(source') <= MaxDisk
<1> USE DEF lineVars, resultVars
<1>1. CASE DecidesAppend
  BY <1>1 DEF DecidesAppend, Decides
<1>2. CASE /\ phase \in {"opening", "data"} /\ action = "append"
           /\ UNCHANGED <<source, disk>>
  BY <1>2 DEF Sized
<1>3. phase' # "idle" /\ phase \in {"offered", "identical", "prefix"} => action = "write"
  BY DEF ResumeInv, RuleInv
<1>4. CASE Opens \/ ReceivesUnit \/ Flushes
  BY <1>2, <1>4 DEF Opens, ReceivesUnit, Flushes
<1>5. CASE SenderAnswers
  BY <1>2, <1>5 DEF SenderAnswers
<1>6. CASE UNCHANGED vars
  BY <1>2, <1>6 DEF vars
<1>7. CASE Offering \/ SourceChanges \/ Lost
  BY <1>7 DEF Offering, SourceChanges, Lost, Asking
<1>8. CASE Decision /\ ~DecidesAppend
  BY <1>3, <1>8 DEF Decision, DecidesNew, DecidesReplace, DecidesRename, DecidesRefuse,
      DecidesCompare, Writes, Renames, Skips, Ends
<1>9. CASE Comparing
  BY <1>3, <1>9 DEF Comparing, AsksAgain, GivesUp, SenderNaks, NoAnswer, HearsIdentical, HearsDifferent,
      HearsPrefix, Asking, Renames, Writes, Skips, Ends
<1>10. CASE \/ OpenFails \/ Commits \/ CommitFails \/ LinkCut \/ LinkCutEarly \/ DiskFull \/ WriteFails
            \/ Crashes \/ CrashesAppending
  BY <1>10 DEF OpenFails, Skips, Commits, CommitFails, LinkCut, LinkCutEarly, DiskFull,
        WriteFails, Crashes, CrashesAppending, Ends
<1>11. QED
  BY <1>1, <1>4, <1>5, <1>6, <1>7, <1>8, <1>9, <1>10 DEF Next

\* Every step is one without a fault or takes one of those that are left.
LEMMA FaultsStep == Sized /\ [Next]_vars => faults' \in 0 .. MaxFaults
<1> SUFFICES ASSUME Sized, [Next]_vars PROVE faults' \in 0 .. MaxFaults
  OBVIOUS
<1>1. faults \in 0 .. MaxFaults /\ MaxFaults \in Nat
  BY ResumeAssumption DEF Sized, TypeOK
<1>2. CASE Offering \/ SourceChanges \/ Opens \/ OpenFails \/ SenderAnswers \/ Lost
  BY <1>1, <1>2 DEF Offering, SourceChanges, Opens, OpenFails, SenderAnswers, Lost, Faulty
<1>3. CASE Decision
  BY <1>1, <1>3 DEF Decision, DecidesNew, DecidesReplace, DecidesRename, DecidesRefuse, DecidesAppend,
              DecidesCompare, Decides
<1>4. CASE Comparing
  BY <1>1, <1>4 DEF Comparing, AsksAgain, Waited, GivesUp, SenderNaks, HearsIdentical, HearsDifferent,
              HearsPrefix, Answered, Faulty
<1>5. CASE ReceivesUnit \/ Flushes \/ Commits \/ CommitFails \/ LinkCut \/ LinkCutEarly
  BY <1>1, <1>5 DEF ReceivesUnit, Flushes, Commits, CommitFails, LinkCut, LinkCutEarly, Faulty
<1>6. CASE DiskFull \/ WriteFails \/ Crashes \/ CrashesAppending
  BY <1>1, <1>6 DEF DiskFull, WriteFails, Crashes, CrashesAppending, Faulty
<1>7. CASE UNCHANGED vars
  BY <1>1, <1>7 DEF vars
<1>8. QED
  BY <1>2, <1>3, <1>4, <1>5, <1>6, <1>7 DEF Next

\* A buffer is no longer than the source.
LEMMA BufferSized ==
    ASSUME NEW p \in Data, NEW b \in Data, NEW c \in Contents, Len(p \o b) <= Len(c)
    PROVE  b \in Stored
<1>1. Len(p) \in Nat /\ Len(b) \in Nat /\ Len(c) \in 1 .. MaxLen
  BY DataBounds DEF Data
<1>2. Len(p \o b) = Len(p) + Len(b)
  BY ConcatParts
<1>3. Len(b) <= MaxDisk
  BY <1>1, <1>2, ResumeAssumption
<1>4. QED
  BY <1>3, DataBounds

LEMMA SizedStep == ResumeInv /\ Sized /\ [Next]_vars => Sized'
<1> SUFFICES ASSUME ResumeInv, Sized, [Next]_vars PROVE Sized'
  OBVIOUS
<1>1. Types' /\ ContentInv'
  BY TypesStep, ContentStep
<1>2. /\ source' \in Contents
      /\ disk' \in [Names -> Stored \cup {None}] /\ part' \in [Names -> Stored \cup {None}]
  BY FilesStep
<1>3. SessionSized'
  BY SessionStep
<1>4. faults' \in 0 .. MaxFaults
  BY FaultsStep
<1>5. buf' \in Stored
  <2>1. CASE phase' = "data"
    <3>1. part'[target'] \in Data /\ buf' \in Data /\ Len(part'[target'] \o buf') <= Len(source')
      BY <1>1, <2>1 DEF Types, ContentInv, Content
    <3>2. QED
      BY <1>2, <3>1, BufferSized
  <2>2. CASE phase' # "data"
    <3>1. buf' \in Data /\ Len(buf') <= MaxDisk
      BY <1>1, <2>2, ResumeAssumption DEF ContentInv, Data
    <3>2. QED
      BY <3>1, DataBounds
  <2>3. QED
    BY <2>1, <2>2
<1>6. phase' \in {"opening", "data"} /\ action' = "append" => Len(disk'[0]) + Len(source') <= MaxDisk
  BY AppendStep
<1>7. TypeOK'
  BY <1>1, <1>2, <1>3, <1>4, <1>5 DEF TypeOK, Types, SessionSized
<1>8. QED
  BY <1>3, <1>6, <1>7 DEF Sized, SessionSized

LEMMA InitSized == Init => Sized
<1> SUFFICES ASSUME Init PROVE Sized
  OBVIOUS
<1> USE ResumeAssumption DEF Init
<1>1. Types
  BY InitResumeInv DEF ResumeInv
<1>2. Contents \subseteq Stored
  BY DataBounds
<1>3. disk \in [Names -> Stored \cup {None}]
  BY <1>2
<1>4. part \in [Names -> Stored \cup {None}]
  OBVIOUS
<1>5. buf \in Stored
  <2>1. buf \in Data /\ Len(buf) <= MaxDisk
    BY DEF Data
  <2>2. QED
    BY <2>1, DataBounds
<1>6. questions \in Seq(1 .. MaxLen) /\ answers \in Seq(Contents)
  OBVIOUS
<1>7. tries \in 0 .. Tries /\ start \in 0 .. MaxLen /\ faults \in 0 .. MaxFaults
  OBVIOUS
<1>8. crcAsked \in BOOLEAN /\ sent \in Results
  BY DEF Results
<1>9. TypeOK
  BY <1>1, <1>3, <1>4, <1>5, <1>6, <1>7, <1>8 DEF TypeOK, Types
<1>10. QED
  BY <1>9 DEF Sized

(* Every variable keeps its type and its bound in every session: no file   *)
(* outgrows what it is made from, no CRC is asked for or answered beyond   *)
(* the file that is offered, no question is repeated more than zCRCTries   *)
(* times (zPrefixCRC, commitPart).                                         *)
THEOREM TypeCorrect == Spec => []TypeOK
<1>1. Spec => []Sized
  BY ResumeInvCorrect, SizedStep, InitSized, PTL DEF Spec
<1>2. Sized => TypeOK
  BY DEF Sized
<1>3. QED
  BY <1>1, <1>2, PTL

-----------------------------------------------------------------------------
(* sessionOutcome: "any refused or failed file makes the batch partial (or *)
(* wholly refused or failed), never plain ok". An exit code that says done *)
(* comes from a session without an error and a batch without such a file,  *)
(* whatever its length, and every such batch gets one.                     *)
THEOREM ExitTellsDone ==
    \A err \in Errors, n \in Batches :
        transferExit(finish(err, n)) \in {0, 3, 4} <=>
            err = "none" /\ n.refused = 0 /\ n.failed = 0
<1>1. SUFFICES ASSUME NEW err \in Errors, NEW n \in Batches
               PROVE  transferExit(finish(err, n)) \in {0, 3, 4} <=>
                          err = "none" /\ n.refused = 0 /\ n.failed = 0
    OBVIOUS
<1>2. /\ n.ok \in Nat /\ n.resumed \in Nat /\ n.skipped \in Nat
      /\ n.refused \in Nat /\ n.failed \in Nat
    BY DEF Batches
<1>3. CASE err # "none"
    BY <1>3 DEF finish, transferExit, Errors
<1>4. CASE err = "none"
    <2>1. finish(err, n) = sessionOutcome(n)
        BY <1>4 DEF finish
    <2>2. CASE n.refused = 0 /\ n.failed = 0
        <3>1. sessionOutcome(n) \in {"ok", "resumed", "skipped"}
            BY <1>2, <2>2 DEF sessionOutcome
        <3> QED BY <1>4, <2>1, <2>2, <3>1 DEF transferExit
    <2>3. CASE n.refused > 0 \/ n.failed > 0
        <3>1. n.refused + n.failed # 0
            BY <1>2, <2>3
        <3>2. sessionOutcome(n) \in {"partial", "refused", "failed"}
            BY <3>1 DEF sessionOutcome
        <3> QED BY <1>2, <1>4, <2>1, <2>3, <3>2 DEF transferExit
    <2> QED BY <1>2, <2>2, <2>3
<1> QED BY <1>3, <1>4
=============================================================================
