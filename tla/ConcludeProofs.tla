---------------------------- MODULE ConcludeProofs ----------------------------
(***************************************************************************)
(* What conclude certifies, proved for any number of runs, verdicts and    *)
(* inputs: typing first, then the invariant of the files, then that of     *)
(* the concluder.                                                          *)
(***************************************************************************)
EXTENDS Conclude, TLAPS

-------------------------------------------------------------------------------
(***************************************************************************)
(* Typing                                                                  *)
(***************************************************************************)

\* A stage other than "idle" belongs to a run (main.go:153-165).
InRun == stage # "idle" => run > 0

\* What writeResult writes was decided (main.go:536).
Decided == stage \in {"full", "open", "fill"} => decided[run] \in Verdicts

\* The deferred emitter has something to say (main.go:160-165).
Reporting == stage = "status" => status \in StatusReasons

\* The outputs are appended after the conclusion is drawn (conclude.go:747-769).
Concluded == phase = "emit" => outcome \in Outcomes

TypeInv == TypeOK /\ InRun /\ Decided /\ Reporting /\ Concluded

LEMMA InitTyped == Init => TypeInv
<1> SUFFICES ASSUME Init PROVE TypeInv
  OBVIOUS
<1>1. aliased \in BOOLEAN
  BY FilesAssumption DEF Init, WriterInit
<1>2. log \in Seq(LogLine)
  <2>1. log = << >>
    BY DEF Init, WriterInit
  <2> QED
    BY <2>1
<1>3. /\ run \in 0 .. Runs /\ stage \in Stages
      /\ status \in StatusReasons \cup {"none"}
      /\ output \in ResultFile \cup {Missing, Broken}
      /\ full \in ResultFile \cup {Missing, Broken}
  <2>1. run = 0 /\ stage = "idle" /\ status = "none" /\ output = Missing /\ full = Missing
    BY DEF Init, WriterInit
  <2> QED
    BY <2>1, FilesAssumption DEF Stages
<1>4. /\ decided \in [1 .. Runs -> Verdicts \cup {NoVerdict}]
      /\ ended \in [1 .. Runs -> StatusReasons \cup {"none", "killed", "cut"}]
  <2>1. /\ decided = [r \in 1 .. Runs |-> NoVerdict]
        /\ ended = [r \in 1 .. Runs |-> "none"]
    BY DEF Init, WriterInit
  <2> QED
    BY <2>1
<1>5. phase \in Phases /\ mode \in Modes
  BY DEF Init, Phases, Modes
<1>6. /\ outcome \in Outcomes \cup {"none"} /\ reason \in HostReasons
      /\ written \in 0 .. 5
      /\ jobOutput \in [Keys -> Values \cup {"unset"}]
      /\ jobEnv \in [Keys -> Values \cup {"unset"}]
  <2>1. /\ outcome = "none" /\ reason = "" /\ written = 0
        /\ jobOutput = [k \in Keys |-> "unset"]
        /\ jobEnv = [k \in Keys |-> "unset"]
    BY DEF Init
  <2>2. outcome \in Outcomes \cup {"none"} /\ reason \in HostReasons
    BY <2>1 DEF HostReasons
  <2>3. written \in 0 .. 5
    <3>1. written = 0
      BY <2>1, Zenon
    <3> QED
      BY <3>1
  <2>4. /\ jobOutput \in [Keys -> Values \cup {"unset"}]
        /\ jobEnv \in [Keys -> Values \cup {"unset"}]
    BY <2>1, Zenon
  <2> QED
    BY <2>2, <2>3, <2>4
<1>7. InRun /\ Decided /\ Reporting /\ Concluded
  BY DEF Init, WriterInit, InRun, Decided, Reporting, Concluded
<1> QED
  BY <1>1, <1>2, <1>3, <1>4, <1>5, <1>6, <1>7
  DEF Init, TypeInv, TypeOK, WriterTypeOK

\* What a run writes are result files: complete ones, and only the redacted one
\* without reasons.
LEMMA WrittenFiles ==
    ASSUME TypeInv, stage \in {"full", "fill"}
    PROVE  /\ Full \in ResultFile
           /\ Redacted \in ResultFile
<1>1. run \in 1 .. Runs /\ decided[run] \in Verdicts
  BY FilesAssumption DEF TypeInv, TypeOK, WriterTypeOK, InRun, Decided
<1> QED
  BY <1>1 DEF Full, Redacted, ResultFile

LEMMA LogGrows ==
    ASSUME NEW l \in LogLine, log \in Seq(LogLine)
    PROVE  Append(log, l) \in Seq(LogLine)
OBVIOUS

LEMMA StatusLineTyped ==
    ASSUME NEW r \in StatusReasons \cup {""}
    PROVE  StatusLine(r) \in LogLine
BY DEF StatusLine, LogLine

\* A step of a run keeps the types of the files and of the run.
LEMMA RunStepTyped ==
    TypeInv /\ WriterNext => (WriterTypeOK /\ InRun /\ Decided /\ Reporting)'
<1> SUFFICES ASSUME TypeInv, WriterNext
             PROVE (WriterTypeOK /\ InRun /\ Decided /\ Reporting)'
  OBVIOUS
<1>a. aliased' = aliased /\ aliased \in BOOLEAN
  BY DEF TypeInv, TypeOK, WriterTypeOK, WriterNext, StartRun, ForwardLine,
      QuoteLine, FailRun, DecideVerdict, WriteFull, OpenOutput, FillOutput, EmitStatus, KillRun
<1>b. aliased' \in BOOLEAN
  BY <1>a
<1> USE <1>b, FilesAssumption DEF TypeInv, TypeOK, WriterTypeOK, InRun, Decided,
      Reporting, Stages, fileVars, StatusReasons, FailureReasons
<1>1. CASE StartRun
  BY <1>1 DEF StartRun
<1>2. CASE ForwardLine \/ QuoteLine
  <2>1. log' \in Seq(LogLine)
    <3>1. PICK k \in {"forwarded", "diagnostic"}, r \in StatusReasons :
              log' = Append(log, [kind |-> k, reason |-> r])
      BY <1>2 DEF ForwardLine, QuoteLine
    <3>2. [kind |-> k, reason |-> r] \in LogLine
      BY DEF LogLine
    <3> QED
      BY <3>1, <3>2, LogGrows
  <2> QED
    BY <1>2, <2>1 DEF ForwardLine, QuoteLine
<1>3. CASE FailRun
  BY <1>3 DEF FailRun
<1>4. CASE DecideVerdict
  BY <1>4 DEF DecideVerdict
<1>5. CASE WriteFull
  <2>1. Full \in ResultFile
    BY <1>5, WrittenFiles DEF WriteFull
  <2>2. /\ output' \in ResultFile \cup {Missing, Broken}
        /\ full' \in ResultFile \cup {Missing, Broken}
    BY <1>5, <2>1 DEF WriteFull
  <2> QED
    BY <1>5, <2>2 DEF WriteFull
<1>6. CASE OpenOutput
  BY <1>6 DEF OpenOutput, Truncated, OpenError
<1>7. CASE FillOutput
  <2>1. Redacted \in ResultFile
    BY <1>7, WrittenFiles DEF FillOutput
  <2> QED
    BY <1>7, <2>1 DEF FillOutput
<1>8. CASE EmitStatus
  <2>1. log' \in Seq(LogLine)
    BY <1>8, StatusLineTyped, LogGrows DEF EmitStatus
  <2> QED
    BY <1>8, <2>1 DEF EmitStatus
<1>9. CASE KillRun
  <2>1. log' \in Seq(LogLine)
    <3>1. log' = log \/ log' = Append(log, StatusLine(""))
      BY <1>9 DEF KillRun
    <3> QED
      BY <3>1, StatusLineTyped, LogGrows
  <2> QED
    BY <1>9, <2>1 DEF KillRun
<1> QED
  BY <1>1, <1>2, <1>3, <1>4, <1>5, <1>6, <1>7, <1>8, <1>9 DEF WriterNext

\* The n-th output: a key and the value this conclusion gives it.
LEMMA WritesAt ==
    ASSUME TypeInv, phase = "emit", NEW n \in 1 .. 5
    PROVE  /\ Writes[n].key \in Keys
           /\ Writes[n].key = "conclusion" => Writes[n].value = outcome
           /\ Writes[n].key = "reason" => Writes[n].value = reason
           /\ Writes[n].key = "success" =>
                 Writes[n].value = IF Certifies THEN "true" ELSE "false"
<1>1. CASE Certifies
  <2>1. /\ Writes[1] = ToOutput("conclusion", outcome)
        /\ Writes[2] = ToEnv("conclusion", outcome)
        /\ Writes[3] = ToOutput("success", "true")
        /\ Writes[4] = ToOutput("reason", reason)
        /\ Writes[5] = ToEnv("reason", reason)
    BY <1>1 DEF Writes
  <2> QED
    BY <1>1, <2>1 DEF ToOutput, ToEnv, Keys
<1>2. CASE ~Certifies
  <2>1. /\ Writes[1] = ToOutput("reason", reason)
        /\ Writes[2] = ToEnv("reason", reason)
        /\ Writes[3] = ToOutput("conclusion", outcome)
        /\ Writes[4] = ToEnv("conclusion", outcome)
        /\ Writes[5] = ToOutput("success", "false")
    BY <1>2 DEF Writes
  <2> QED
    BY <1>2, <2>1 DEF ToOutput, ToEnv, Keys
<1> QED
  BY <1>1, <1>2

\* An output has a value of the contract.
LEMMA ValueAt ==
    ASSUME TypeInv, phase = "emit", NEW n \in 1 .. 5
    PROVE  Writes[n].value \in Values
<1>1. outcome \in Outcomes /\ reason \in HostReasons
  BY DEF TypeInv, Concluded, TypeOK
<1> QED
  BY <1>1, WritesAt DEF Values, Keys

LEMMA HostReasonTyped ==
    ASSUME NEW r PROVE HostReason(r) \in HostReasons
BY DEF HostReason, HostReasons

\* The steps of conclude that decide nothing about the files.
LEMMA NextTyped == TypeInv /\ [Next]_vars => TypeInv'
<1> SUFFICES ASSUME TypeInv, [Next]_vars PROVE TypeInv'
  OBVIOUS
<1>1. CASE RunStep
  <2>1. UNCHANGED concluderVars /\ WriterNext
    BY <1>1 DEF RunStep
  <2> QED
    BY <2>1, RunStepTyped DEF TypeInv, TypeOK, Concluded, concluderVars
<1>2. ASSUME UNCHANGED writerVars PROVE (WriterTypeOK /\ InRun /\ Decided /\ Reporting)'
  BY <1>2 DEF writerVars, fileVars, TypeInv, TypeOK, WriterTypeOK, InRun,
       Decided, Reporting
<1>3. CASE Begin
  <2>1. mode' \in Modes
    BY <1>3, ConcludeAssumption DEF Begin
  <2> QED
    BY <1>2, <1>3, <2>1 DEF Begin, TypeInv, TypeOK, Concluded, Phases
<1>4. CASE Skip
  BY <1>2, <1>4 DEF Skip, TypeInv, TypeOK, Concluded, Phases, Outcomes, HostReasons
<1>5. CASE ReadMissing
  BY <1>2, <1>5, HostReasonTyped
  DEF ReadMissing, FailWith, Failed, TypeInv, TypeOK, Concluded, Phases, Outcomes
<1>6. CASE ReadMalformed
  BY <1>2, <1>6
  DEF ReadMalformed, FailWith, Failed, TypeInv, TypeOK, Concluded, Phases,
      Outcomes, HostReasons
<1>7. CASE ReadVerdict
  BY <1>2, <1>7
  DEF ReadVerdict, Readable, TypeInv, TypeOK, WriterTypeOK, Concluded, Phases
<1>8. CASE Evaluate
  <2>1. rendered' \in ResultFile \cup {Missing}
    BY <1>8 DEF Evaluate, ResolveReasons, SameVerdict, Readable, TypeInv, TypeOK, WriterTypeOK
  <2>2. /\ outcome' \in Outcomes /\ reason' \in HostReasons /\ phase' = "emit"
    BY <1>8 DEF Evaluate, FailWith, Failed, Outcomes, HostReasons
  <2> QED
    BY <1>2, <1>8, <2>1, <2>2 DEF Evaluate, TypeInv, TypeOK, Concluded, Phases
<1>9. CASE Emit
  <2>1. written + 1 \in 1 .. 5 /\ written' \in 0 .. 5 /\ phase = "emit"
    BY <1>9 DEF Emit, TypeInv, TypeOK
  <2>2. /\ jobOutput' \in [Keys -> Values \cup {"unset"}]
        /\ jobEnv' \in [Keys -> Values \cup {"unset"}]
    BY <1>9, <2>1, WritesAt, ValueAt DEF Emit, AppendLine, TypeInv, TypeOK
  <2>3. /\ output' \in ResultFile \cup {Missing, Broken}
        /\ full' \in ResultFile \cup {Missing, Broken}
    BY <1>9 DEF Emit, AppendLine, TypeInv, TypeOK, WriterTypeOK
  <2>4. UNCHANGED <<log, aliased, run, stage, decided, status, ended>>
    BY <1>9 DEF Emit
  <2>5. (WriterTypeOK /\ InRun /\ Decided /\ Reporting)'
    BY <2>3, <2>4 DEF TypeInv, TypeOK, WriterTypeOK, InRun, Decided, Reporting
  <2> QED
    BY <1>9, <2>1, <2>2, <2>5 DEF Emit, TypeInv, TypeOK, Concluded
<1>10. CASE Exit
  BY <1>2, <1>10 DEF Exit, TypeInv, TypeOK, Concluded, Phases
<1>11. CASE KillConclude
  BY <1>2, <1>11 DEF KillConclude, TypeInv, TypeOK, Concluded, Phases
<1>12. CASE UNCHANGED vars
  BY <1>2, <1>12 DEF vars, concluderVars, TypeInv, TypeOK, Concluded
<1> QED
  BY <1>1, <1>3, <1>4, <1>5, <1>6, <1>7, <1>8, <1>9, <1>10, <1>11, <1>12 DEF Next

\* Type correctness of the runs, their files and conclude.
THEOREM ConcludeTypeCorrect == Spec => []TypeOK
<1>1. Spec => []TypeInv
  BY InitTyped, NextTyped, PTL DEF Spec
<1>2. TypeInv => TypeOK
  BY DEF TypeInv
<1> QED
  BY <1>1, <1>2, PTL

-------------------------------------------------------------------------------
(***************************************************************************)
(* The files                                                               *)
(***************************************************************************)

\* Runs that have not begun decided and reported nothing; the current one has
\* not reported (main.go:160-165).
HistoryInv ==
    /\ \A r \in 1 .. Runs : r > run => ended[r] = "none"
    /\ stage # "idle" => ended[run] = "none"

\* A run that got past its checks has two destinations (main.go:364-377).
DestinationsInv == stage \in {"working", "full", "open", "fill"} => ~aliased

\* A readable --output is the redacted verdict of the run that wrote it, and no
\* later run claims to have recorded one (main.go:809-840).
OutputInv ==
    /\ ~OutputGiven => output = Missing /\ stage # "fill"
    /\ Readable(output) =>
          /\ output.run <= run
          /\ output.reasons = FALSE
          /\ output.verdict = decided[output.run]
          /\ \A r \in 1 .. run : r > output.run => ended[r] # "result_recorded"
          /\ stage \in {"working", "full", "open", "fill"} => output.run < run

\* A run that says, or is about to say, that it recorded its verdict did so
\* (main.go:826-840).
RecordedInv ==
    OutputGiven =>
      /\ stage = "status" /\ status = "result_recorded" =>
            Readable(output) /\ output.run = run
      /\ run > 0 /\ ended[run] = "result_recorded" =>
            Readable(output) /\ output.run = run
      /\ (\E r \in 1 .. run : ended[r] = "result_recorded") => output # Missing

FilesInv == HistoryInv /\ DestinationsInv /\ OutputInv /\ RecordedInv

LEMMA InitFiles == Init => FilesInv
<1> SUFFICES ASSUME Init PROVE FilesInv
  OBVIOUS
<1>1. run = 0 /\ stage = "idle" /\ output = Missing
  BY DEF Init, WriterInit
<1>2. \A r \in 1 .. Runs : ended[r] = "none"
  BY DEF Init, WriterInit
<1> QED
  BY <1>1, <1>2
  DEF FilesInv, HistoryInv, DestinationsInv, OutputInv, RecordedInv, Readable

LEMMA RunStepFiles == TypeInv /\ FilesInv /\ WriterNext => FilesInv'
<1> SUFFICES ASSUME TypeInv, FilesInv, WriterNext PROVE FilesInv'
  OBVIOUS
<1>t. /\ run \in 0 .. Runs /\ Runs \in Nat
      /\ decided \in [1 .. Runs -> Verdicts \cup {NoVerdict}]
      /\ ended \in [1 .. Runs -> StatusReasons \cup {"none", "killed", "cut"}]
      /\ stage # "idle" => run \in 1 .. Runs
      /\ output \in ResultFile \cup {Missing, Broken}
      /\ Readable(output) => output.run \in 1 .. Runs
  BY FilesAssumption DEF TypeInv, TypeOK, WriterTypeOK, InRun, Readable, ResultFile
<1>h. HistoryInv /\ OutputInv /\ RecordedInv /\ DestinationsInv
  BY DEF FilesInv
<1>1. CASE StartRun
  <2>1. run' = run + 1 /\ run' \in 1 .. Runs /\ stage = "idle"
    BY <1>t, <1>1 DEF StartRun
  <2>2. UNCHANGED <<output, decided, ended>>
    BY <1>1 DEF StartRun, fileVars
  <2>3. HistoryInv'
    BY <1>t, <1>h, <2>1, <2>2 DEF HistoryInv
  <2>4. DestinationsInv'
    BY <1>1 DEF StartRun, DestinationsInv, Collision
  <2>5. ended'[run'] = "none"
    BY <1>t, <1>h, <2>1, <2>2 DEF HistoryInv
  <2>7. /\ stage' = "status" => status' = "config_error"
        /\ stage' \in {"status", "working"}
    BY <1>1 DEF StartRun
  <2>6. OutputInv'
    BY <1>t, <1>h, <2>1, <2>2, <2>5, <2>7 DEF OutputInv, Readable
  <2>8. RecordedInv'
    BY <1>t, <1>h, <2>1, <2>2, <2>5, <2>7 DEF RecordedInv
  <2> QED
    BY <2>3, <2>4, <2>6, <2>8 DEF FilesInv
<1>2. CASE ForwardLine \/ QuoteLine
  BY <1>2, <1>h
  DEF ForwardLine, QuoteLine, FilesInv, HistoryInv, DestinationsInv, OutputInv, RecordedInv, Readable
<1>3. CASE FailRun
  <2>1. status' # "result_recorded"
    BY <1>3, FilesAssumption DEF FailRun, FailureReasons
  <2> QED
    BY <1>3, <1>h, <2>1
    DEF FailRun, fileVars, FilesInv, HistoryInv, DestinationsInv, OutputInv,
        RecordedInv, Readable
<1>4. CASE DecideVerdict
  <2>1. /\ UNCHANGED <<output, full, log, aliased, run, status, ended>>
        /\ stage = "working" /\ stage' = "full"
        /\ \A r \in 1 .. Runs : r # run => decided'[r] = decided[r]
    BY <1>t, <1>4 DEF DecideVerdict, fileVars
  <2>2. OutputInv'
    BY <1>t, <1>h, <2>1 DEF OutputInv, Readable
  <2> QED
    BY <1>h, <2>1, <2>2 DEF FilesInv, HistoryInv, DestinationsInv, RecordedInv, Readable
<1>5. CASE WriteFull
  <2>1. output' = output
    BY <1>5, <1>h DEF WriteFull, DestinationsInv
  <2>2. /\ UNCHANGED <<log, aliased, run, decided, status, ended>>
        /\ stage = "full" /\ stage' = "open"
    BY <1>5 DEF WriteFull
  <2> QED
    BY <1>h, <2>1, <2>2
    DEF FilesInv, HistoryInv, DestinationsInv, OutputInv, RecordedInv, Readable
<1>6. CASE OpenOutput
  <2>1. /\ UNCHANGED <<aliased, run, decided, ended>> /\ stage = "open"
        /\ stage' \in {"fill", "status"}
    BY <1>6 DEF OpenOutput
  <2>2. output' = output \/ (OutputGiven /\ output' = Broken)
    BY <1>6 DEF OpenOutput, Truncated
  <2>3. OutputGiven /\ stage' = "status" => status' # "result_recorded"
    BY <1>6 DEF OpenOutput, OpenError
  <2>4. HistoryInv' /\ DestinationsInv'
    BY <1>h, <2>1 DEF HistoryInv, DestinationsInv
  <2>o. stage' = "fill" => OutputGiven
    BY <1>6 DEF OpenOutput
  <2>5. OutputInv'
    BY <1>h, <2>1, <2>2, <2>o DEF OutputInv, Readable
  <2>6. RecordedInv'
    <3>1. ended'[run'] # "result_recorded"
      BY <1>h, <2>1 DEF HistoryInv
    <3> QED
      BY <1>h, <2>1, <2>2, <2>3, <3>1, FilesAssumption DEF RecordedInv, Readable
  <2> QED
    BY <2>4, <2>5, <2>6 DEF FilesInv
<1>7. CASE FillOutput
  <2>1. /\ UNCHANGED <<aliased, run, decided, ended>> /\ stage = "fill"
        /\ stage' = "status"
    BY <1>7 DEF FillOutput
  <2>2. \/ output' = Redacted
        \/ output' = Broken /\ status' = "output_write_error"
    BY <1>7 DEF FillOutput
  <2>3. Redacted \in ResultFile
    BY <2>1, WrittenFiles
  <2>4. Readable(Redacted)
    BY <2>3, FilesAssumption DEF Readable
  <2>5. /\ Redacted.run = run /\ Redacted.reasons = FALSE
        /\ Redacted.verdict = decided[run]
    BY DEF Redacted
  <2>o. OutputGiven
    BY <1>h, <2>1 DEF OutputInv
  <2>6. HistoryInv' /\ DestinationsInv'
    BY <1>h, <2>1 DEF HistoryInv, DestinationsInv
  <2>7. OutputInv'
    BY <1>t, <2>1, <2>2, <2>4, <2>5, <2>o DEF OutputInv, Readable
  <2>8. RecordedInv'
    <3>1. ended'[run'] # "result_recorded"
      BY <1>h, <2>1 DEF HistoryInv
    <3>2. output' # Missing
      BY <2>2, <2>4, FilesAssumption DEF Readable
    <3> QED
      BY <2>1, <2>2, <2>4, <2>5, <3>1, <3>2 DEF RecordedInv, Readable
  <2> QED
    BY <2>6, <2>7, <2>8 DEF FilesInv
<1>8. CASE EmitStatus
  <2>1. /\ UNCHANGED <<output, full, aliased, run, decided>> /\ stage = "status"
        /\ stage' = "idle" /\ ended' = [ended EXCEPT ![run] = status]
    BY <1>8 DEF EmitStatus
  <2>2. ended'[run] = status /\ \A r \in 1 .. Runs : r # run => ended'[r] = ended[r]
    BY <1>t, <2>1
  <2>3. HistoryInv' /\ DestinationsInv'
    BY <1>t, <1>h, <2>1, <2>2 DEF HistoryInv, DestinationsInv
  <2>4. OutputInv'
    <3>1. Readable(output) => OutputGiven
      BY <1>h DEF OutputInv, Readable
    <3>2. Readable(output) /\ run > output.run => status # "result_recorded"
      BY <1>t, <1>h, <2>1, <3>1 DEF RecordedInv
    <3> QED
      BY <1>t, <1>h, <2>1, <2>2, <3>2 DEF OutputInv, Readable
  <2>5. RecordedInv'
    BY <1>t, <1>h, <2>1, <2>2 DEF RecordedInv, Readable
  <2> QED
    BY <2>3, <2>4, <2>5 DEF FilesInv
<1>9. CASE KillRun
  <2>1. /\ UNCHANGED <<output, full, aliased, run, decided>> /\ stage # "idle"
        /\ stage' = "idle"
        /\ \E e \in {"killed", "cut"} : ended' = [ended EXCEPT ![run] = e]
    BY <1>9 DEF KillRun
  <2>2. /\ ended'[run] # "result_recorded"
        /\ \A r \in 1 .. Runs : r # run => ended'[r] = ended[r]
    BY <1>t, <2>1
  <2>3. HistoryInv' /\ DestinationsInv'
    BY <1>t, <1>h, <2>1, <2>2 DEF HistoryInv, DestinationsInv
  <2>4. OutputInv'
    BY <1>t, <1>h, <2>1, <2>2 DEF OutputInv, Readable
  <2>5. RecordedInv'
    BY <1>t, <1>h, <2>1, <2>2 DEF RecordedInv, Readable
  <2> QED
    BY <2>3, <2>4, <2>5 DEF FilesInv
<1> QED
  BY <1>1, <1>2, <1>3, <1>4, <1>5, <1>6, <1>7, <1>8, <1>9 DEF WriterNext

-------------------------------------------------------------------------------
(***************************************************************************)
(* Conclude                                                                *)
(***************************************************************************)

\* Conclude begins after the runs, with nothing read or decided, and goes on
\* only if no path collides (conclude.go:135-145).
PhaseInv ==
    /\ phase # "before" => stage = "idle"
    /\ phase \in {"before", "begin", "resolve"} => outcome = "none"
    /\ phase \in {"before", "begin"} => verdict = Missing
    /\ phase \in {"begin", "resolve", "emit"} => ~mode.collides
    /\ phase = "resolve" => mode.required /\ verdict # Missing
    /\ phase = "proceed" => outcome \in Outcomes \ {"failure"}

\* The verdict is that of --output, and the reasons reported with it agree with
\* it (conclude.go:335-365).
VerdictInv ==
    /\ verdict # Missing => verdict = output /\ Readable(output)
    /\ rendered # Missing => verdict # Missing /\ rendered.verdict = verdict.verdict

\* Why an outcome was chosen (conclude.go:234-300, 747-769).
OutcomeInv ==
    /\ outcome = "skipped" => ~mode.required
    /\ outcome = "success" => verdict # Missing /\ verdict.verdict \notin Threats
    /\ outcome \in {"warning", "failure"} =>
          /\ outcome = Failed
          /\ mode.required
          /\ verdict # Missing => verdict.verdict \in Threats /\ reason = "threat_detected"
          /\ verdict = Missing => mode.ioErrors \/ ~Readable(output)

\* What the command files say follows from the outcome (conclude.go:293-299, 755-768).
OutputsInv ==
    /\ jobOutput["success"] = "true" => Certifies
    /\ jobOutput["conclusion"] = "success" => outcome = "success"
    /\ jobEnv["conclusion"] = "success" => outcome = "success"

ConcludeInv == PhaseInv /\ VerdictInv /\ OutcomeInv /\ OutputsInv

Inv == TypeInv /\ FilesInv /\ ConcludeInv

LEMMA InitConclude == Init => ConcludeInv
<1> SUFFICES ASSUME Init PROVE ConcludeInv
  OBVIOUS
<1>1. phase = "before" /\ outcome = "none" /\ verdict = Missing /\ rendered = Missing
      /\ stage = "idle"
  BY DEF Init, WriterInit
<1>2. jobOutput["success"] = "unset" /\ jobOutput["conclusion"] = "unset"
      /\ jobEnv["conclusion"] = "unset"
  BY DEF Init, Keys
<1> QED
  BY <1>1, <1>2 DEF ConcludeInv, PhaseInv, VerdictInv, OutcomeInv, OutputsInv

LEMMA NextConclude == Inv /\ [Next]_vars => ConcludeInv'
<1> SUFFICES ASSUME Inv, [Next]_vars PROVE ConcludeInv'
  OBVIOUS
<1>h. TypeInv /\ PhaseInv /\ VerdictInv /\ OutcomeInv /\ OutputsInv
  BY DEF Inv, ConcludeInv
<1>1. CASE RunStep
  <2>1. UNCHANGED concluderVars /\ phase = "before"
    BY <1>1 DEF RunStep
  <2> QED
    BY <1>h, <2>1
    DEF concluderVars, ConcludeInv, PhaseInv, VerdictInv, OutcomeInv, OutputsInv, Certifies,
        Failed
<1>2. CASE Begin
  <2>1. /\ UNCHANGED <<output, stage, verdict, rendered, outcome, jobOutput, jobEnv>>
        /\ phase = "before" /\ stage = "idle"
        /\ phase' \in {"fail", "begin"} /\ (phase' = "begin" => ~mode'.collides)
    BY <1>2 DEF Begin, PathCollision, writerVars, fileVars
  <2> QED
    BY <1>h, <2>1
    DEF ConcludeInv, PhaseInv, VerdictInv, OutcomeInv, OutputsInv, Certifies
<1> DEFINE Kept == UNCHANGED <<output, stage, mode, jobOutput, jobEnv>>
<1>3. CASE Skip
  <2>1. Kept /\ UNCHANGED <<verdict, rendered>>
    BY <1>3 DEF Skip, writerVars, fileVars
  <2> QED
    BY <1>h, <1>3, <2>1
    DEF Skip, ConcludeInv, PhaseInv, VerdictInv, OutcomeInv, OutputsInv, Certifies
<1>4. CASE ReadMissing
  <2>1. Kept /\ UNCHANGED <<verdict, rendered>>
    BY <1>4 DEF ReadMissing, writerVars, fileVars
  <2>2. /\ phase = "begin" /\ phase' = "emit" /\ outcome' = Failed /\ mode.required
        /\ output = Missing \/ mode.ioErrors
    BY <1>4 DEF ReadMissing, FailWith
  <2> QED
    BY <1>h, <2>1, <2>2
    DEF ConcludeInv, PhaseInv, VerdictInv, OutcomeInv, OutputsInv, Certifies, Failed,
        Readable
<1>5. CASE ReadMalformed
  <2>1. Kept /\ UNCHANGED <<verdict, rendered>>
    BY <1>5 DEF ReadMalformed, writerVars, fileVars
  <2>2. /\ phase = "begin" /\ phase' = "emit" /\ outcome' = Failed /\ mode.required
        /\ output = Broken
    BY <1>5 DEF ReadMalformed, FailWith
  <2> QED
    BY <1>h, <2>1, <2>2
    DEF ConcludeInv, PhaseInv, VerdictInv, OutcomeInv, OutputsInv, Certifies, Failed,
        Readable
<1>6. CASE ReadVerdict
  <2>1. Kept /\ UNCHANGED <<rendered, outcome, reason>>
    BY <1>6 DEF ReadVerdict, writerVars, fileVars
  <2>2. /\ phase = "begin" /\ phase' = "resolve" /\ mode.required
        /\ verdict' = output /\ Readable(output)
    BY <1>6 DEF ReadVerdict
  <2> QED
    BY <1>h, <2>1, <2>2
    DEF ConcludeInv, PhaseInv, VerdictInv, OutcomeInv, OutputsInv, Certifies, Readable
<1>7. CASE Evaluate
  <2>1. Kept /\ UNCHANGED verdict /\ phase = "resolve" /\ phase' = "emit"
    BY <1>7 DEF Evaluate, FailWith, writerVars, fileVars
  <2>2. \/ /\ verdict.verdict \in Threats
           /\ outcome' = Failed /\ reason' = "threat_detected"
        \/ verdict.verdict \notin Threats /\ outcome' = "success"
    BY <1>7 DEF Evaluate, FailWith, Authoritative
  <2>3. rendered' # Missing => rendered'.verdict = verdict.verdict
    BY <1>7 DEF Evaluate, ResolveReasons, SameVerdict
  <2> QED
    BY <1>h, <2>1, <2>2, <2>3
    DEF ConcludeInv, PhaseInv, VerdictInv, OutcomeInv, OutputsInv, Certifies, Failed
<1>8. CASE Emit
  <2>1. /\ UNCHANGED <<stage, phase, mode, verdict, rendered, outcome, reason>>
        /\ phase = "emit" /\ written + 1 \in 1 .. 5
    BY <1>8, <1>h DEF Emit, TypeInv, TypeOK
  <2>2. output' = output
    BY <1>8, <1>h, <2>1 DEF Emit, AppendLine, PhaseInv
  <2>3. OutputsInv'
    <3>1. CASE UNCHANGED <<jobOutput, jobEnv>>
      BY <1>h, <2>1, <3>1 DEF OutputsInv, Certifies
    <3>2. CASE AppendLine(Writes[written + 1])
      BY <1>h, <2>1, <3>2, WritesAt
      DEF AppendLine, OutputsInv, Certifies, Keys, TypeInv, TypeOK
    <3> QED
      BY <1>8, <3>1, <3>2 DEF Emit
  <2> QED
    BY <1>h, <2>1, <2>2, <2>3
    DEF ConcludeInv, PhaseInv, VerdictInv, OutcomeInv, Failed, Readable
<1>9. CASE Exit
  <2>1. Kept /\ UNCHANGED <<verdict, rendered, outcome, reason>>
    BY <1>9 DEF Exit, writerVars, fileVars
  <2>2. /\ phase = "emit" /\ phase' \in {"fail", "proceed"}
        /\ phase' = "proceed" => outcome # "failure"
    BY <1>9 DEF Exit
  <2> QED
    BY <1>h, <2>1, <2>2
    DEF ConcludeInv, PhaseInv, VerdictInv, OutcomeInv, OutputsInv, Certifies, Failed,
        Readable, TypeInv, Concluded
<1>10. CASE KillConclude
  <2>1. Kept /\ UNCHANGED <<verdict, rendered, outcome, reason>>
    BY <1>10 DEF KillConclude, writerVars, fileVars
  <2>2. phase \in {"begin", "resolve", "emit"} /\ phase' = "killed"
    BY <1>10 DEF KillConclude
  <2> QED
    BY <1>h, <2>1, <2>2
    DEF ConcludeInv, PhaseInv, VerdictInv, OutcomeInv, OutputsInv, Certifies, Failed,
        Readable
<1>11. CASE UNCHANGED vars
  BY <1>h, <1>11
  DEF vars, concluderVars, writerVars, fileVars, ConcludeInv, PhaseInv, VerdictInv,
      OutcomeInv, OutputsInv, Certifies, Failed, Readable
<1> QED
  BY <1>1, <1>2, <1>3, <1>4, <1>5, <1>6, <1>7, <1>8, <1>9, <1>10, <1>11 DEF Next

\* Conclude changes no file, so the invariant of the files only needs the runs.
LEMMA NextFiles == Inv /\ [Next]_vars => FilesInv'
<1> SUFFICES ASSUME Inv, [Next]_vars PROVE FilesInv'
  OBVIOUS
<1>1. CASE RunStep
  BY <1>1, RunStepFiles DEF RunStep, Inv
<1>2. CASE ~RunStep
  <2>1. UNCHANGED <<output, aliased, run, stage, decided, status, ended>>
    BY <1>2 DEF Next, Begin, Skip, ReadMissing, ReadMalformed, ReadVerdict, Evaluate,
        Emit, AppendLine, Exit, KillConclude, vars, writerVars, fileVars, Inv,
        ConcludeInv, PhaseInv
  <2> QED
    BY <2>1
    DEF Inv, FilesInv, HistoryInv, DestinationsInv, OutputInv, RecordedInv, Readable
<1> QED
  BY <1>1, <1>2

LEMMA Invariance == Spec => []Inv
<1>1. Init => Inv
  BY InitTyped, InitFiles, InitConclude DEF Inv
<1>2. Inv /\ [Next]_vars => Inv'
  BY NextTyped, NextFiles, NextConclude DEF Inv
<1> QED
  BY <1>1, <1>2, PTL DEF Spec

-------------------------------------------------------------------------------
(***************************************************************************)
(* Theorems                                                                *)
(***************************************************************************)

\* No run, however it ends, leaves the model's reasons in the published file.
THEOREM UploadNeverCarriesReasons == Spec => []UploadCarriesNoReasons
<1>1. Inv => UploadCarriesNoReasons
  BY DEF Inv, FilesInv, OutputInv, UploadCarriesNoReasons
<1> QED
  BY <1>1, Invariance, PTL

\* Success is only certified for a clean verdict that its run decided and that
\* no later run has replaced.
THEOREM SuccessIsCertified == Spec => []CertifiesOnlyTheLatestCleanVerdict
<1>1. Inv => CertifiesOnlyTheLatestCleanVerdict
  <2> SUFFICES ASSUME Inv, mode.required,
                      \/ jobOutput["success"] = "true"
                      \/ "success" \in {jobOutput["conclusion"], jobEnv["conclusion"]}
                      \/ phase = "proceed" /\ ~mode.warn
               PROVE  /\ Readable(output)
                      /\ output.verdict \notin Threats
                      /\ output.verdict = decided[output.run]
                      /\ \A r \in 1 .. run : r > output.run => ended[r] # "result_recorded"
    BY DEF CertifiesOnlyTheLatestCleanVerdict
  <2>1. outcome = "success"
    BY DEF Inv, ConcludeInv, OutputsInv, OutcomeInv, PhaseInv, Certifies, Failed, Outcomes
  <2>2. verdict = output /\ Readable(output) /\ output.verdict \notin Threats
    BY <2>1 DEF Inv, ConcludeInv, OutcomeInv, VerdictInv
  <2> QED
    BY <2>2 DEF Inv, FilesInv, OutputInv
<1> QED
  BY <1>1, Invariance, PTL

\* Where the result can be read, conclude decides by the verdict of the last
\* run, if that run reported that it had recorded one.
THEOREM RecordedVerdictIsDecisive == Spec => []RecordedVerdictDecides
<1>1. Inv => RecordedVerdictDecides
  <2> SUFFICES ASSUME Inv, run > 0, ended[run] = "result_recorded", OutputGiven,
                      ~mode.ioErrors, outcome \notin {"none", "skipped"}
               PROVE  IF decided[run] \in Threats
                      THEN outcome = Failed /\ reason = "threat_detected"
                      ELSE outcome = "success"
    BY DEF RecordedVerdictDecides
  <2>1. Readable(output) /\ output.verdict = decided[run]
    BY DEF Inv, FilesInv, RecordedInv, OutputInv
  <2>2. outcome \in {"success", "warning", "failure"}
    BY DEF Inv, TypeInv, TypeOK, Outcomes
  <2>3. verdict = output
    BY <2>1, <2>2 DEF Inv, ConcludeInv, OutcomeInv, VerdictInv
  <2>4. verdict # Missing
    BY <2>1, <2>3 DEF Readable
  <2> QED
    BY <2>1, <2>2, <2>3, <2>4 DEF Inv, ConcludeInv, OutcomeInv
<1> QED
  BY <1>1, Invariance, PTL

\* The reasons reported were given for the verdict they are reported with.
THEOREM ReasonsAlwaysFit == Spec => []ReasonsFitVerdict
<1>1. Inv => ReasonsFitVerdict
  BY DEF Inv, ConcludeInv, VerdictInv, ReasonsFitVerdict
<1> QED
  BY <1>1, Invariance, PTL

\* With --output, a recorded verdict always leaves a file.
THEOREM RecordedFileExists == Spec => []RecordedLeavesAFile
<1>1. Inv => RecordedLeavesAFile
  BY DEF Inv, FilesInv, RecordedInv, RecordedLeavesAFile
<1> QED
  BY <1>1, Invariance, PTL

\* Conclude never changes the result, and the full result only where that file
\* was named as a command file, when its reasons have been taken.
THEOREM ConcludeOnlyReads == Spec => ConcludeLeavesResults
<1> DEFINE Only == phase # "before" =>
              /\ output' = output
              /\ full' # full => /\ mode.fullCommand # "no"
                                /\ outcome # "none"
                                /\ UNCHANGED <<outcome, reason, rendered>>
<1>1. Inv /\ [Next]_vars => [Only]_vars
  <2> SUFFICES ASSUME Inv, [Next]_vars, phase # "before"
               PROVE  Only
    OBVIOUS
  <2>1. ~RunStep
    BY DEF RunStep
  <2>2. CASE Emit
    <3>1. output' = output
      BY <2>2 DEF Emit, AppendLine, Inv, ConcludeInv, PhaseInv
    <3>2. outcome # "none" /\ UNCHANGED <<outcome, reason, rendered>>
      BY <2>2 DEF Emit, Inv, TypeInv, Concluded, Outcomes
    <3>3. CASE UNCHANGED full
      BY <3>1, <3>3
    <3>4. CASE AppendLine(Writes[written + 1])
      <4>1. Writes[written + 1].file \in {"output", "env"}
        <5>1. written + 1 \in 1 .. 5
          BY <2>2 DEF Emit, Inv, TypeInv, TypeOK
        <5>2. PICK n \in 1 .. 5 : n = written + 1
          BY <5>1
        <5>3. Writes[n].file \in {"output", "env"}
          BY DEF Writes, ToOutput, ToEnv
        <5> QED
          BY <5>2, <5>3
      <4> QED
        BY <3>1, <3>2, <3>4, <4>1 DEF AppendLine
    <3> QED
      BY <2>2, <3>3, <3>4 DEF Emit
  <2>3. CASE ~Emit
    BY <2>1, <2>3 DEF Next, Begin, Skip, ReadMissing, ReadMalformed, ReadVerdict,
        Evaluate, Exit, KillConclude, vars, writerVars, fileVars
  <2> QED
    BY <2>2, <2>3
<1> QED
  BY <1>1, Invariance, PTL DEF Spec, ConcludeLeavesResults

-------------------------------------------------------------------------------
(***************************************************************************)
(* The reason of a failure                                                 *)
(***************************************************************************)

\* What the status line of a run says, given how the run ended.
Text(end) == IF end = "cut" THEN "" ELSE end

\* The largest of some numbers is the one that CHOOSE takes.
LEMMA LargestIsChosen ==
    ASSUME NEW S, S \subseteq Nat, NEW i \in S, \A j \in S : j <= i
    PROVE  i = CHOOSE k \in S : \A j \in S : j <= k
<1> DEFINE m == CHOOSE k \in S : \A j \in S : j <= k
<1>1. m \in S /\ \A j \in S : j <= m
  BY Zenon
<1> HIDE DEF m
<1>2. i = m
  BY <1>1
<1> QED
  BY <1>2 DEF m

\* Only a run that was killed, or has not ended, leaves a diagnostic that quotes
\* the marker behind the last status line (main.go:160-165).
QuotedInv == Quoted => run > 0 /\ ended[run] \in {"none", "killed"}

\* Unless there is one, the last line of the detector with the marker tells how
\* the last run ended that wrote one; the witnesses make the two CHOOSEs of the
\* model determinate (conclude.go:704-733).
LogTells ==
    \/ Quoted
    \/ OwnLines = {} /\ Reported = {}
    \/ \E i \in OwnLines, r \in Reported :
          /\ \A j \in OwnLines : j <= i
          /\ \A s \in Reported : s <= r
          /\ log[i].reason = Text(ended[r])

\* Between two runs the last one has ended somehow (main.go:160-165).
EndedInv == stage = "idle" /\ run > 0 => ended[run] # "none"

\* A failure without a verdict, and with no quoted marker that counts, has the
\* reason of the log, or of the file
\* (conclude.go:237-254).
ReasonTold ==
    outcome \in {"warning", "failure"} /\ verdict = Missing /\ ~Quoted =>
      \/ reason = HostReason(LastStatus)
      \/ output = Broken /\ reason = "parse_error"

\* Appending a line after which run n has reported keeps LogTells.
LEMMA LineTold ==
    ASSUME TypeInv, FilesInv, stage # "idle",
           NEW e \in StatusReasons \cup {"cut"},
           log' = Append(log, StatusLine(Text(e))),
           ended' = [ended EXCEPT ![run] = e], run' = run
    PROVE  LogTells' /\ ~Quoted' /\ ended'[run'] # "none"
<1>1. /\ run \in 1 .. Runs /\ log \in Seq(LogLine)
      /\ ended \in [1 .. Runs -> StatusReasons \cup {"none", "killed", "cut"}]
  BY FilesAssumption DEF TypeInv, TypeOK, WriterTypeOK, InRun
<1> DEFINE n == Len(log) + 1
<1>2. /\ n \in DOMAIN log' /\ log'[n] = StatusLine(Text(e))
      /\ \A i \in DOMAIN log' : i <= n
  BY <1>1
<1>3. n \in OwnLines' /\ \A j \in OwnLines' : j <= n
  BY <1>2 DEF OwnLines, StatusLine
<1>7. ~Quoted'
  <2>1. /\ \A i \in DOMAIN log' : i # n => n > i
        /\ log'[n].kind = "status"
    <3>1. DOMAIN log' = 1 .. n /\ n \in Nat
      BY <1>1
    <3> QED
      BY <1>2, <3>1 DEF StatusLine
  <2> QED
    BY <1>2, <2>1 DEF Quoted
<1>4. ended'[run] = e /\ e \notin {"none", "killed"}
  BY <1>1 DEF StatusReasons, FailureReasons
<1>5. run \in Reported' /\ \A s \in Reported' : s <= run
  BY <1>1, <1>4 DEF Reported
<1>6. log'[n].reason = Text(ended'[run])
  BY <1>2, <1>4 DEF StatusLine
<1> QED
  BY <1>3, <1>4, <1>5, <1>6, <1>7 DEF LogTells

\* What a line that is no status line changes: a forwarded line counts for
\* nothing, and a diagnostic that quotes the marker is the last line that counts.
LEMMA ForeignLine ==
    ASSUME log \in Seq(LogLine),
           NEW k \in {"forwarded", "diagnostic"}, NEW q,
           log' = Append(log, [kind |-> k, reason |-> q])
    PROVE  /\ k = "diagnostic" => Quoted'
           /\ k = "forwarded" =>
                 /\ Quoted' = Quoted
                 /\ OwnLines' = OwnLines
                 /\ \A i \in OwnLines : log'[i] = log[i]
<1> DEFINE n == Len(log) + 1
<1>1. /\ DOMAIN log' = DOMAIN log \cup {n} /\ n \notin DOMAIN log
      /\ \A i \in DOMAIN log : log'[i] = log[i]
      /\ log'[n].kind = k
      /\ \A i \in DOMAIN log' : ~(i > n)
  OBVIOUS
<1> HIDE DEF n
<1>2. CASE k = "diagnostic"
  <2>1. n \in DOMAIN log' /\ log'[n].kind = "diagnostic"
    BY <1>1, <1>2
  <2> QED
    BY <1>1, <1>2, <2>1 DEF Quoted
<1>3. CASE k = "forwarded"
  <2>1. OwnLines' = OwnLines /\ \A i \in OwnLines : log'[i] = log[i]
    BY <1>1, <1>3 DEF OwnLines
  <2>2. ASSUME Quoted PROVE Quoted'
    <3>1. PICK i \in DOMAIN log :
              /\ log[i].kind = "diagnostic"
              /\ \A j \in DOMAIN log : j > i => log[j].kind # "status"
      BY <2>2 DEF Quoted
    <3>2. /\ i \in DOMAIN log'
          /\ log'[i].kind = "diagnostic"
          /\ \A j \in DOMAIN log' : j > i => log'[j].kind # "status"
      BY <1>1, <1>3, <3>1
    <3> QED
      BY <3>2 DEF Quoted
  <2>3. ASSUME Quoted' PROVE Quoted
    <3>1. PICK i \in DOMAIN log' :
              /\ log'[i].kind = "diagnostic"
              /\ \A j \in DOMAIN log' : j > i => log'[j].kind # "status"
      BY <2>3 DEF Quoted
    <3>2. i \in DOMAIN log
      BY <1>1, <1>3, <3>1
    <3>3. /\ log[i].kind = "diagnostic"
          /\ \A j \in DOMAIN log : j > i => log[j].kind # "status"
      BY <1>1, <3>1, <3>2
    <3> QED
      BY <3>2, <3>3 DEF Quoted
  <2>4. Quoted' \in BOOLEAN /\ Quoted \in BOOLEAN
    BY DEF Quoted
  <2> QED
    BY <1>3, <2>1, <2>2, <2>3, <2>4
<1> QED
  BY <1>2, <1>3

LEMMA RunStepTold ==
    TypeInv /\ FilesInv /\ LogTells /\ QuotedInv /\ EndedInv /\ WriterNext
    => (LogTells /\ QuotedInv /\ EndedInv)'
<1> SUFFICES ASSUME TypeInv, FilesInv, LogTells, QuotedInv, EndedInv, WriterNext
             PROVE (LogTells /\ QuotedInv /\ EndedInv)'
  OBVIOUS
<1>t. /\ run \in 0 .. Runs /\ log \in Seq(LogLine) /\ Runs \in Nat
      /\ ended \in [1 .. Runs -> StatusReasons \cup {"none", "killed", "cut"}]
      /\ \A r \in 1 .. Runs : r > run => ended[r] = "none"
      /\ stage # "idle" => run \in 1 .. Runs /\ ended[run] = "none"
  BY FilesAssumption DEF TypeInv, TypeOK, WriterTypeOK, InRun, FilesInv, HistoryInv
<1>1. CASE StartRun
  <2>1. UNCHANGED <<log, ended>> /\ run' = run + 1 /\ run < Runs
    BY <1>1 DEF StartRun, fileVars
  <2>2. Reported' = Reported
    BY <1>t, <2>1 DEF Reported
  <2>3. run' > 0 /\ ended'[run'] = "none" /\ stage' # "idle"
    BY <1>t, <1>1, <2>1 DEF StartRun
  <2>4. LogTells'
    BY <2>1, <2>2 DEF LogTells, OwnLines, Quoted
  <2> QED
    BY <2>3, <2>4 DEF QuotedInv, EndedInv
<1>2. CASE ForwardLine \/ QuoteLine
  <2>1. PICK k \in {"forwarded", "diagnostic"}, q \in Forged :
            log' = Append(log, [kind |-> k, reason |-> q])
    BY <1>2 DEF ForwardLine, QuoteLine
  <2>2. UNCHANGED <<run, stage, ended>> /\ stage # "idle"
    BY <1>2 DEF ForwardLine, QuoteLine
  <2>3. /\ k = "diagnostic" => Quoted'
        /\ k = "forwarded" =>
              /\ Quoted' = Quoted
              /\ OwnLines' = OwnLines
              /\ \A i \in OwnLines : log'[i] = log[i]
    BY <1>t, <2>1, ForeignLine
  <2>4. LogTells'
    <3>1. CASE k = "diagnostic"
      BY <2>3, <3>1 DEF LogTells
    <3>2. CASE k = "forwarded"
      BY <2>2, <2>3, <3>2 DEF LogTells, Reported
    <3> QED
      BY <3>1, <3>2
  <2>5. run' > 0 /\ ended'[run'] = "none" /\ stage' # "idle"
    BY <1>t, <2>2
  <2> QED
    BY <2>4, <2>5 DEF QuotedInv, EndedInv
<1>3. CASE FailRun \/ DecideVerdict \/ WriteFull \/ OpenOutput \/ FillOutput
  <2>1. UNCHANGED <<log, ended, run>> /\ stage' # "idle"
    BY <1>3 DEF FailRun, DecideVerdict, WriteFull, OpenOutput, FillOutput, fileVars
  <2> QED
    BY <2>1 DEF LogTells, OwnLines, Reported, Quoted, QuotedInv, EndedInv
<1>4. CASE EmitStatus
  <2>1. status \in StatusReasons /\ status # "cut"
    BY <1>4 DEF EmitStatus, TypeInv, Reporting, StatusReasons, FailureReasons
  <2>2. Text(status) = status
    BY <2>1 DEF Text
  <2>3. LogTells' /\ ~Quoted' /\ ended'[run'] # "none"
    BY <1>4, <2>1, <2>2, LineTold DEF EmitStatus
  <2> QED
    BY <2>3 DEF QuotedInv, EndedInv
<1>5. CASE KillRun
  <2>1. CASE log' = Append(log, StatusLine("")) /\ ended' = [ended EXCEPT ![run] = "cut"]
    <3>1. Text("cut") = ""
      BY DEF Text
    <3>2. LogTells' /\ ~Quoted' /\ ended'[run'] # "none"
      BY <1>5, <2>1, <3>1, LineTold DEF KillRun
    <3> QED
      BY <3>2 DEF QuotedInv, EndedInv
  <2>2. CASE log' = log /\ ended' = [ended EXCEPT ![run] = "killed"]
    <3>1. run' = run /\ run \in 1 .. Runs /\ ended[run] = "none"
      BY <1>t, <1>5 DEF KillRun
    <3>2. /\ ended'[run] = "killed"
          /\ \A r \in 1 .. Runs : r # run => ended'[r] = ended[r]
      BY <1>t, <2>2, <3>1
    <3>3. Reported' = Reported
      BY <1>t, <3>1, <3>2 DEF Reported
    <3>4. \A r \in Reported : ended'[r] = ended[r]
      BY <1>t, <3>1, <3>2 DEF Reported
    <3>5. LogTells'
      BY <2>2, <3>3, <3>4 DEF LogTells, OwnLines, Quoted
    <3>6. run' > 0 /\ ended'[run'] = "killed"
      BY <1>t, <3>1, <3>2
    <3> QED
      BY <3>5, <3>6 DEF QuotedInv, EndedInv
  <2> QED
    BY <1>5, <2>1, <2>2 DEF KillRun
<1> QED
  BY <1>1, <1>2, <1>3, <1>4, <1>5 DEF WriterNext

\* The invariant of the log, and of the reason taken from it.
ToldInv == LogTells /\ QuotedInv /\ EndedInv /\ ReasonTold

LEMMA NextTold == Inv /\ ToldInv /\ [Next]_vars => ToldInv'
<1> SUFFICES ASSUME Inv, LogTells, QuotedInv, EndedInv, ReasonTold, [Next]_vars
             PROVE (LogTells /\ QuotedInv /\ EndedInv /\ ReasonTold)'
  BY DEF ToldInv
<1>1. CASE RunStep
  <2>1. (LogTells /\ QuotedInv /\ EndedInv)'
    BY <1>1, RunStepTold DEF RunStep, Inv
  <2>2. outcome' = "none"
    BY <1>1 DEF RunStep, concluderVars, Inv, ConcludeInv, PhaseInv
  <2> QED
    BY <2>1, <2>2 DEF ReasonTold
<1>2. CASE ~RunStep
  <2>1. UNCHANGED <<output, log, run, stage, ended>>
    BY <1>2 DEF Next, Begin, Skip, ReadMissing, ReadMalformed, ReadVerdict, Evaluate,
        Emit, AppendLine, Exit, KillConclude, vars, writerVars, fileVars, Inv,
        ConcludeInv, PhaseInv
  <2>2. (LogTells /\ QuotedInv /\ EndedInv)'
    BY <2>1 DEF LogTells, OwnLines, Reported, Quoted, QuotedInv, EndedInv
  <2>4. Quoted' = Quoted
    BY <2>1 DEF Quoted
  <2>3. ReasonTold'
    <3>1. CASE Begin \/ Skip \/ ReadVerdict
      <4>1. outcome' \in {"none", "skipped"}
        BY <3>1 DEF Begin, Skip, ReadVerdict, Inv, ConcludeInv, PhaseInv
      <4> QED
        BY <4>1 DEF ReasonTold
    <3>6. CASE Quoted
      BY <2>4, <3>6 DEF ReasonTold
    <3>2. CASE ReadMissing /\ ~Quoted
      <4>1. reason' = HostReason(LastStatus) /\ UNCHANGED mode
        BY <3>2 DEF ReadMissing, FailWith
      <4>2. LastStatus' = LastStatus
        <5>1. OwnLines' = OwnLines
          BY <2>1 DEF OwnLines
        <5>2. UNCHANGED <<mode, log>>
          BY <2>1, <4>1
        <5>3. CASE OwnLines = {} \/ ~mode.logKept
          BY <5>1, <5>2, <5>3 DEF LastStatus
        <5>4. ASSUME NEW i \in OwnLines, \A j \in OwnLines : j <= i, mode.logKept
              PROVE  LastStatus' = LastStatus
          <6>1. OwnLines \subseteq Nat
            BY DEF OwnLines, Inv, TypeInv, TypeOK, WriterTypeOK
          <6>2. i = CHOOSE k \in OwnLines : \A j \in OwnLines : j <= k
            BY <5>4, <6>1, LargestIsChosen
          <6>3. i = CHOOSE k \in OwnLines' : \A j \in OwnLines' : j <= k
            BY <5>1, <5>4, <6>1, LargestIsChosen
          <6>4. LastStatus = log[i].reason
            BY <5>4, <6>2 DEF LastStatus
          <6>5. LastStatus' = log'[i].reason
            BY <5>1, <5>2, <5>4, <6>3 DEF LastStatus
          <6> QED
            BY <5>2, <6>4, <6>5
        <5> QED
          BY <3>2, <5>3, <5>4 DEF LogTells
      <4>3. reason' = HostReason(LastStatus')
        BY <4>1, <4>2
      <4> QED
        BY <4>3 DEF ReasonTold, HostReason
    <3>3. CASE ReadMalformed
      BY <2>1, <3>3 DEF ReadMalformed, FailWith, ReasonTold
    <3>4. CASE Evaluate
      BY <3>4 DEF Evaluate, ReasonTold, Inv, ConcludeInv, PhaseInv
    <3>5. CASE Emit \/ Exit \/ KillConclude \/ UNCHANGED vars
      <4>1. UNCHANGED <<outcome, verdict, reason, mode>>
        BY <3>5 DEF Emit, Exit, KillConclude, vars, concluderVars
      <4> QED
        BY <2>1, <2>4, <4>1 DEF ReasonTold, LastStatus, OwnLines
    <3> QED
      BY <1>2, <3>1, <3>2, <3>3, <3>4, <3>5, <3>6 DEF Next
  <2> QED
    BY <2>2, <2>3
<1> QED
  BY <1>1, <1>2

\* A failure without a verdict gets the reason of the last run that reported
\* one, or is the parse error of a broken file, unless the last run was killed
\* behind a diagnostic that quotes a status marker.
THEOREM FailureReasonIsOwn == Spec => []FailureIsTheRunsOwn
<1>1. Init => ToldInv
  <2> SUFFICES ASSUME Init PROVE LogTells /\ QuotedInv /\ EndedInv /\ ReasonTold
    BY DEF ToldInv
  <2>1. log = << >> /\ run = 0 /\ outcome = "none"
    BY DEF Init, WriterInit
  <2> QED
    BY <2>1 DEF LogTells, QuotedInv, EndedInv, ReasonTold, OwnLines, Reported, Quoted
<1>2. Inv /\ LogTells /\ ~Quoted /\ mode.logKept
      => HostReason(LastStatus) = HostReason(LastReported)
  <2> SUFFICES ASSUME Inv, LogTells, ~Quoted, mode.logKept
               PROVE  HostReason(LastStatus) = HostReason(LastReported)
    OBVIOUS
  <2>1. CASE OwnLines = {} /\ Reported = {}
    BY <2>1 DEF LastStatus, LastReported
  <2>2. ASSUME NEW i \in OwnLines, NEW r \in Reported,
               \A j \in OwnLines : j <= i, \A s \in Reported : s <= r,
               log[i].reason = Text(ended[r])
        PROVE  HostReason(LastStatus) = HostReason(LastReported)
    <3>1. OwnLines \subseteq Nat /\ Reported \subseteq Nat
      <4>1. log \in Seq(LogLine) /\ run \in Nat
        BY FilesAssumption DEF Inv, TypeInv, TypeOK, WriterTypeOK
      <4> QED
        BY <4>1 DEF OwnLines, Reported
    <3>2. i = CHOOSE k \in OwnLines : \A j \in OwnLines : j <= k
      BY <2>2, <3>1, LargestIsChosen
    <3>3. r = CHOOSE k \in Reported : \A s \in Reported : s <= k
      BY <2>2, <3>1, LargestIsChosen
    <3>4. LastStatus = log[i].reason /\ LastReported = ended[r]
      BY <2>2, <3>2, <3>3 DEF LastStatus, LastReported
    <3> QED
      BY <2>2, <3>4 DEF Text, HostReason
  <2> QED
    BY <2>1, <2>2 DEF LogTells
<1>3. Inv /\ ToldInv => FailureIsTheRunsOwn
  <2> SUFFICES ASSUME Inv, ToldInv, outcome \in {"warning", "failure"}, verdict = Missing,
                      mode.logKept, run > 0 /\ ended[run] = "killed" => ~Quoted
               PROVE  \/ reason = HostReason(LastReported)
                      \/ output = Broken /\ reason = "parse_error"
    BY DEF FailureIsTheRunsOwn
  <2>1. stage = "idle"
    BY DEF Inv, ConcludeInv, PhaseInv, TypeInv, TypeOK, Phases
  <2>2. ~Quoted
    BY <2>1 DEF ToldInv, QuotedInv, EndedInv
  <2> QED
    BY <1>2, <2>2 DEF ToldInv, ReasonTold
<1> QED
  BY <1>1, <1>3, NextTold, Invariance, PTL DEF Spec
===============================================================================
