----------------------------- MODULE ResultFiles ------------------------------
(***************************************************************************)
(* The files a detection run leaves behind (writeResult and the ends of    *)
(* run(), cmd/threat-detect/main.go): the redacted --output, the full      *)
(* result beside it, and the log the host captures from standard error.    *)
(* Runs follow one another over the same files, as in a retried step, and  *)
(* may be killed at any point.  What an engine does is DetectionRun; here  *)
(* a run only decides a verdict or fails.                                  *)
(***************************************************************************)
EXTENDS Naturals, Sequences, FiniteSets

CONSTANTS
    Verdicts,       \* combinations of the three threat booleans
    Threats,        \* those with a threat: HasThreats()
    NoVerdict,      \* the absence of a verdict
    Missing,        \* a file that does not exist
    Broken,         \* a file that is empty, truncated or malformed
    Failures,       \* the failures a run of this instance may report
    Forged,         \* the reasons in status lines a model may make up
    Runs,           \* bound: how often the host starts the detector
    LogBound,       \* bound: lines of engine output or names in the log
    OutputGiven,    \* --output is set; if not, the result goes to stdout
    FullGiven,      \* the full result is enabled
    Kills           \* may the host kill a run?

\* A result file that ReadResultFile accepts: the verdict, whether it carries
\* reasons, and (auxiliary) the run that wrote it.
ResultFile == [verdict : Verdicts, reasons : BOOLEAN, run : 1 .. Runs]

\* The terminal reasons of a run that decided no verdict.
FailureReasons == {"config_error", "cancelled", "engine_timeout",
                   "engine_error", "invalid_report_exhausted"}

StatusReasons == FailureReasons \cup {"result_recorded", "output_write_error"}

ASSUME FilesAssumption ==
    /\ Threats \subseteq Verdicts
    /\ NoVerdict \notin Verdicts
    /\ Failures \subseteq FailureReasons
    /\ Forged \subseteq StatusReasons
    /\ Runs \in Nat
    /\ LogBound \in Nat
    /\ OutputGiven \in BOOLEAN
    /\ FullGiven \in BOOLEAN
    /\ Kills \in BOOLEAN
    /\ Missing \notin ResultFile
    /\ Broken \notin ResultFile
    /\ Missing # Broken

\* Does ReadResultFile succeed?
Readable(file) == file \notin {Missing, Broken}

\* A line of the captured log that holds the status marker: engine output that
\* is forwarded behind the prefix, a diagnostic of the detector that quotes
\* engine output or the name of an artifact, without the prefix, or the status
\* line itself.  The reason "" is a malformed line.
LogLine == [kind   : {"forwarded", "diagnostic", "status"},
            reason : StatusReasons \cup {""}]

VARIABLES
    aliased,    \* --output and the full result name the same file
    run,        \* number of the current run, 0 before the first
    stage,      \* where that run is, "idle" between runs
    decided,    \* decided[r]: the verdict run r decided
    status,     \* the reason the run will report
    output,     \* the file at --output
    full,       \* the file of the full result, if it is another one
    log,        \* the lines of the captured log that hold the marker
    ended       \* auxiliary: what each run reported, or how it was killed

fileVars == <<output, full, log>>
writerVars == <<fileVars, aliased, run, stage, decided, status, ended>>

Stages == {"idle", "working", "full", "open", "fill", "status"}

WriterTypeOK ==
    /\ aliased \in BOOLEAN
    /\ run \in 0 .. Runs
    /\ stage \in Stages
    /\ decided \in [1 .. Runs -> Verdicts \cup {NoVerdict}]
    /\ status \in StatusReasons \cup {"none"}
    /\ output \in ResultFile \cup {Missing, Broken}
    /\ full \in ResultFile \cup {Missing, Broken}
    /\ log \in Seq(LogLine)
    /\ ended \in [1 .. Runs -> StatusReasons \cup {"none", "killed", "cut"}]

\* The host starts from an empty detection directory.
WriterInit ==
    /\ aliased \in BOOLEAN
    /\ aliased => OutputGiven /\ FullGiven
    /\ run = 0
    /\ stage = "idle"
    /\ decided = [r \in 1 .. Runs |-> NoVerdict]
    /\ status = "none"
    /\ output = Missing
    /\ full = Missing
    /\ log = << >>
    /\ ended = [r \in 1 .. Runs |-> "none"]

-------------------------------------------------------------------------------
\* Bug: the two destinations are not compared.
NoCollision == FALSE

\* samePath(outputJSON, fullOutputJSON)
Collision == aliased

\* A run starts.  A collision, or any other error found before the engine is
\* started, is a configuration error.
StartRun ==
    /\ stage = "idle"
    /\ run < Runs
    /\ run' = run + 1
    /\ \/ /\ status' = "config_error"
          /\ stage' = "status"
       \/ /\ ~Collision
          /\ status' = "none"
          /\ stage' = "working"
    /\ UNCHANGED <<fileVars, aliased, decided, ended>>

\* The lines that hold text the detector did not write itself.
Foreign == {i \in DOMAIN log : log[i].kind # "status"}

\* A line of the engine's output is forwarded; it may look like a status line.
ForwardLine ==
    /\ stage = "working"
    /\ Cardinality(Foreign) < LogBound
    /\ \E r \in Forged :
          log' = Append(log, [kind |-> "forwarded", reason |-> r])
    /\ UNCHANGED <<output, full, aliased, run, stage, decided, status, ended>>

\* The detector prints a name of the inventory or, when an attempt or the run
\* fails, what the engine said last; stderrf keeps a status marker in it.
QuoteLine ==
    /\ stage \in {"working", "status"}
    /\ decided[run] = NoVerdict
    /\ Cardinality(Foreign) < LogBound
    /\ \E r \in Forged :
          log' = Append(log, [kind |-> "diagnostic", reason |-> r])
    /\ UNCHANGED <<output, full, aliased, run, stage, decided, status, ended>>

\* The attempts of the run end without a verdict.
FailRun ==
    /\ stage = "working"
    /\ status' \in Failures
    /\ stage' = "status"
    /\ UNCHANGED <<fileVars, aliased, run, decided, ended>>

\* They end with a verdict, and writeResult is called.
DecideVerdict ==
    /\ stage = "working"
    /\ \E v \in Verdicts : decided' = [decided EXCEPT ![run] = v]
    /\ stage' = "full"
    /\ UNCHANGED <<fileVars, aliased, run, status, ended>>

-------------------------------------------------------------------------------
\* The result with its reasons.
Full == [verdict |-> decided[run], reasons |-> TRUE, run |-> run]

\* Bug: the reasons stay in the published result.
Unredacted == Full

Redacted == [verdict |-> decided[run], reasons |-> FALSE, run |-> run]

\* WriteResultFile renames a complete file into place, or changes nothing; a
\* failure only is a warning.
WriteFull ==
    /\ stage = "full"
    /\ stage' = "open"
    /\ \/ UNCHANGED <<output, full>>
       \/ /\ FullGiven
          /\ IF aliased
             THEN output' = Full /\ UNCHANGED full
             ELSE full' = Full /\ UNCHANGED output
    /\ UNCHANGED <<log, aliased, run, decided, status, ended>>

\* Bug: the old file is removed, and the new one created later.
Unlinked == Missing

\* What os.WriteFile makes of the old content when it opens the file.
Truncated == Broken

\* Bug: the error of the open is dropped.
OpenErrorDropped == "result_recorded"

\* The reason of a run that could not open its --output.
OpenError == "output_write_error"

\* os.WriteFile truncates --output in place; without --output the result is
\* printed.  The open may fail, and leaves the file alone.
OpenOutput ==
    /\ stage = "open"
    /\ \/ /\ OutputGiven
          /\ output' = Truncated
          /\ stage' = "fill"
          /\ UNCHANGED status
       \/ /\ ~OutputGiven
          /\ status' = "result_recorded"
          /\ stage' = "status"
          /\ UNCHANGED output
       \/ /\ OutputGiven
          /\ status' = OpenError
          /\ stage' = "status"
          /\ UNCHANGED output
    /\ UNCHANGED <<full, log, aliased, run, decided, ended>>

\* The content is written, or the file stays truncated; closing it may fail when
\* everything has been written.
FillOutput ==
    /\ stage = "fill"
    /\ stage' = "status"
    /\ \/ output' = Redacted /\ status' \in {"result_recorded", "output_write_error"}
       \/ output' = Broken /\ status' = "output_write_error"
    /\ UNCHANGED <<full, log, aliased, run, decided, ended>>

-------------------------------------------------------------------------------
StatusLine(r) == [kind |-> "status", reason |-> r]

\* The deferred emitter writes the single status line.
EmitStatus ==
    /\ stage = "status"
    /\ log' = Append(log, StatusLine(status))
    /\ ended' = [ended EXCEPT ![run] = status]
    /\ stage' = "idle"
    /\ status' = "none"
    /\ UNCHANGED <<output, full, aliased, run, decided>>

\* The host kills the run, or the capture of its log, in the middle of the
\* status line or earlier.  A line cut behind its reason says what EmitStatus
\* says, one cut inside the marker nothing.
KillRun ==
    /\ Kills
    /\ stage # "idle"
    /\ \/ /\ ended' = [ended EXCEPT ![run] = "killed"]
          /\ UNCHANGED log
       \/ /\ stage = "status"
          /\ ended' = [ended EXCEPT ![run] = "cut"]
          /\ log' = Append(log, StatusLine(""))
    /\ stage' = "idle"
    /\ status' = "none"
    /\ UNCHANGED <<output, full, aliased, run, decided>>

WriterNext ==
    \/ StartRun \/ ForwardLine \/ QuoteLine \/ FailRun \/ DecideVerdict
    \/ WriteFull \/ OpenOutput \/ FillOutput \/ EmitStatus \/ KillRun
===============================================================================
