------------------------------- MODULE Conclude -------------------------------
(***************************************************************************)
(* The conclude subcommand (cmd/threat-detect/conclude.go) after any       *)
(* number of detection runs.  It reads what ResultFiles leaves, maps it    *)
(* to the job outputs, appends these one by one to the two command files   *)
(* of the runner, and exits.  Each append may fail, which is only logged,  *)
(* and the host may kill conclude between two of them.                     *)
(***************************************************************************)
EXTENDS ResultFiles

CONSTANT Inputs     \* the flags and environments conclude is started with

Modes == [required : BOOLEAN,   \* RUN_DETECTION = "true"
          warn     : BOOLEAN,   \* GH_AW_DETECTION_CONTINUE_ON_ERROR
          collides : BOOLEAN,   \* the result file is a command file
          lookup   : BOOLEAN,   \* the full result is consulted
          logKept  : BOOLEAN,   \* the captured log can be read
          ioErrors : BOOLEAN,   \* reading an existing result file may fail
          fullCommand :         \* the command file that is named as the full
              {"no", "output", "env"}]  \* result, of the runs and of conclude

ASSUME ConcludeAssumption == Inputs \subseteq Modes

VARIABLES
    phase,      \* where conclude is
    mode,       \* the inputs of this invocation
    verdict,    \* the result file as parsed, Missing if there is none
    rendered,   \* the full result whose reasons are reported, or Missing
    outcome,    \* the conclusion it decided
    reason,     \* and the reason it gives
    written,    \* how many of the job outputs it tried to append
    jobOutput,  \* what $GITHUB_OUTPUT holds
    jobEnv      \* what $GITHUB_ENV holds

concluderVars == <<phase, mode, verdict, rendered, outcome, reason, written,
                   jobOutput, jobEnv>>
vars == <<writerVars, concluderVars>>

Phases == {"before", "begin", "resolve", "emit", "proceed", "fail",
           "killed"}

Outcomes == {"skipped", "success", "warning", "failure"}

HostReasons == {"", "agent_failure", "parse_error", "threat_detected"}

Keys == {"conclusion", "success", "reason"}

Values == Outcomes \cup HostReasons \cup {"true", "false"}

TypeOK ==
    /\ WriterTypeOK
    /\ phase \in Phases
    /\ mode \in Modes
    /\ verdict \in ResultFile \cup {Missing}
    /\ rendered \in ResultFile \cup {Missing}
    /\ outcome \in Outcomes \cup {"none"}
    /\ reason \in HostReasons
    /\ written \in 0 .. 5
    /\ jobOutput \in [Keys -> Values \cup {"unset"}]
    /\ jobEnv \in [Keys -> Values \cup {"unset"}]

Init ==
    /\ WriterInit
    /\ phase = "before"
    /\ mode = [required |-> FALSE, warn |-> TRUE, collides |-> FALSE,
                lookup |-> TRUE, logKept |-> TRUE, ioErrors |-> FALSE,
                fullCommand |-> "no"]
    /\ verdict = Missing
    /\ rendered = Missing
    /\ outcome = "none"
    /\ reason = ""
    /\ written = 0
    /\ jobOutput = [k \in Keys |-> "unset"]
    /\ jobEnv = [k \in Keys |-> "unset"]

-------------------------------------------------------------------------------
\* A step of a detection run; conclude runs after them.
RunStep ==
    /\ phase = "before"
    /\ WriterNext
    /\ UNCHANGED concluderVars

\* Bug: the paths are not checked.
NoPathCollision(m) == FALSE

\* rejectPathCollisions compares the result file with the command files, and
\* does not ask for the full result.
PathCollision(m) == m.collides

\* The host runs the conclude step with some flags and environment; a collision
\* of paths is refused.
Begin ==
    /\ phase = "before"
    /\ stage = "idle"
    /\ mode' \in Inputs
    /\ phase' = IF PathCollision(mode') THEN "fail" ELSE "begin"
    /\ UNCHANGED <<writerVars, verdict, rendered, outcome, reason,
                   written, jobOutput, jobEnv>>

\* Detection was not required: no file is read.
Skip ==
    /\ phase = "begin"
    /\ ~mode.required
    /\ outcome' = "skipped"
    /\ reason' = ""
    /\ phase' = "emit"
    /\ UNCHANGED <<writerVars, mode, verdict, rendered, written, jobOutput, jobEnv>>

-------------------------------------------------------------------------------
\* Bug: forwarded lines are not skipped.
OwnUnframed == DOMAIN log

\* Every line without the prefix that has the marker somewhere in it, be it the
\* status line or a diagnostic that quotes one.
OwnLines == {i \in DOMAIN log : log[i].kind # "forwarded"}

\* The reason on the last of them, "" if there is none, it is malformed or the
\* log cannot be read.
LastStatus ==
    IF ~mode.logKept \/ OwnLines = {} THEN ""
    ELSE log[CHOOSE i \in OwnLines : \A j \in OwnLines : j <= i].reason

\* Bug: a reason the map does not contain is passed on.
RawReason(r) ==
    IF r \in {"invalid_report_exhausted", "output_write_error"}
    THEN "parse_error" ELSE r

\* detectionStatusReasonMap, and the default for what it does not contain.
HostReason(r) ==
    IF r \in {"invalid_report_exhausted", "output_write_error"}
    THEN "parse_error" ELSE "agent_failure"

\* Bug: warn mode lets the job pass as a success.
Forgiven == IF mode.warn THEN "success" ELSE "failure"

\* Warn and strict mode.
Failed == IF mode.warn THEN "warning" ELSE "failure"

\* fail(): the reason and the policy; the appends follow.
FailWith(r) ==
    /\ outcome' = Failed
    /\ reason' = r
    /\ phase' = "emit"

\* The file is missing, or cannot be read: the log tells why.
ReadMissing ==
    /\ phase = "begin"
    /\ mode.required
    /\ output = Missing \/ mode.ioErrors
    /\ FailWith(HostReason(LastStatus))
    /\ UNCHANGED <<writerVars, mode, verdict, rendered, written, jobOutput, jobEnv>>

\* Empty, too large, or not a result: ReadResultFile returns an error that is
\* not about the path.
ReadMalformed ==
    /\ phase = "begin"
    /\ mode.required
    /\ output = Broken
    /\ FailWith("parse_error")
    /\ UNCHANGED <<writerVars, mode, verdict, rendered, written, jobOutput, jobEnv>>

ReadVerdict ==
    /\ phase = "begin"
    /\ mode.required
    /\ Readable(output)
    /\ verdict' = output
    /\ phase' = "resolve"
    /\ UNCHANGED <<writerVars, mode, rendered, outcome, reason, written,
                   jobOutput, jobEnv>>

-------------------------------------------------------------------------------
\* Bug: the full result is not compared.
AnyVerdict(file) == Readable(file)

\* The full result can be read and agrees on the three booleans.
SameVerdict(file) == Readable(file) /\ file.verdict = verdict.verdict

\* Bug: the file with the reasons is taken for the better one.
FullIsAuthoritative == IF Readable(full) THEN full ELSE verdict

\* The verdict to evaluate.
Authoritative == verdict

\* resolveReasons takes the reasons of the full result, or those the result
\* itself carries.
ResolveReasons ==
    \/ /\ mode.lookup
       /\ SameVerdict(full)
       /\ rendered' = full
    \/ /\ ~mode.lookup \/ ~SameVerdict(full) \/ mode.ioErrors
       /\ rendered' = IF verdict.reasons THEN verdict ELSE Missing

\* The verdict is reported with the reasons found, and evaluated.
Evaluate ==
    /\ phase = "resolve"
    /\ ResolveReasons
    /\ IF Authoritative.verdict \in Threats
       THEN FailWith("threat_detected")
       ELSE outcome' = "success" /\ reason' = "" /\ phase' = "emit"
    /\ UNCHANGED <<writerVars, mode, verdict, written, jobOutput, jobEnv>>

-------------------------------------------------------------------------------
ToOutput(key, value) == [file |-> "output", key |-> key, value |-> value]
ToEnv(key, value) == [file |-> "env", key |-> key, value |-> value]

Certifies == outcome \in {"skipped", "success"}

\* The job outputs in the order in which they are appended.
Writes ==
    IF Certifies
    THEN << ToOutput("conclusion", outcome), ToEnv("conclusion", outcome),
            ToOutput("success", "true"),
            ToOutput("reason", reason), ToEnv("reason", reason) >>
    ELSE << ToOutput("reason", reason), ToEnv("reason", reason),
            ToOutput("conclusion", outcome), ToEnv("conclusion", outcome),
            ToOutput("success", "false") >>

\* What appending w does: the last line for a key counts.  A command file that
\* is a result file as well is spoilt as a result.
AppendLine(w) ==
    /\ IF w.file = "output"
       THEN jobOutput' = [jobOutput EXCEPT ![w.key] = w.value] /\ UNCHANGED jobEnv
       ELSE jobEnv' = [jobEnv EXCEPT ![w.key] = w.value] /\ UNCHANGED jobOutput
    /\ output' = IF mode.collides THEN Broken ELSE output
    /\ full' = IF mode.fullCommand = w.file THEN Broken ELSE full

\* appendKV logs an error and goes on.
Emit ==
    /\ phase = "emit"
    /\ written < 5
    /\ written' = written + 1
    /\ \/ AppendLine(Writes[written + 1])
       \/ UNCHANGED <<jobOutput, jobEnv, output, full>>
    /\ UNCHANGED <<log, aliased, run, stage, decided, status, ended,
                   phase, mode, verdict, rendered, outcome, reason>>

Exit ==
    /\ phase = "emit"
    /\ written = 5
    /\ phase' = IF outcome = "failure" THEN "fail" ELSE "proceed"
    /\ UNCHANGED <<writerVars, mode, verdict, rendered, outcome, reason, written,
                   jobOutput, jobEnv>>

\* The host kills the step.
KillConclude ==
    /\ Kills
    /\ phase \in {"begin", "resolve", "emit"}
    /\ phase' = "killed"
    /\ UNCHANGED <<writerVars, mode, verdict, rendered, outcome, reason, written,
                   jobOutput, jobEnv>>

Next ==
    \/ RunStep
    \/ Begin \/ Skip \/ ReadMissing \/ ReadMalformed \/ ReadVerdict
    \/ Evaluate \/ Emit \/ Exit \/ KillConclude

Spec == Init /\ [][Next]_vars

-------------------------------------------------------------------------------
(***************************************************************************)
(* Properties                                                              *)
(***************************************************************************)

\* The published file never carries the model's reasons, whatever run was
\* killed or failed and wherever the full result was to go (main.go:360-377,
\* result.go:106-113).
UploadCarriesNoReasons == Readable(output) => ~output.reasons

\* A job is told that detection succeeded, in its outputs or by the exit status
\* in strict mode, only for a clean verdict that the run which wrote the file
\* decided, and that no later run has replaced: lost appends and kills never
\* turn a failure into a success (conclude.go:234-300, 747-794).
CertifiesOnlyTheLatestCleanVerdict ==
    /\ mode.required
    /\ \/ jobOutput["success"] = "true"
       \/ "success" \in {jobOutput["conclusion"], jobEnv["conclusion"]}
       \/ phase = "proceed" /\ ~mode.warn
    => /\ Readable(output)
       /\ output.verdict \notin Threats
       /\ output.verdict = decided[output.run]
       /\ \A r \in 1 .. run : r > output.run => ended[r] # "result_recorded"

\* When the last run reported that it recorded a verdict in --output, and the
\* file can be read, conclude decides by that verdict and by no other file,
\* whatever older runs left behind (conclude.go:325-330).
RecordedVerdictDecides ==
    /\ run > 0
    /\ ended[run] = "result_recorded"
    /\ OutputGiven
    /\ ~mode.ioErrors
    /\ outcome \notin {"none", "skipped"}
    => IF decided[run] \in Threats
       THEN outcome = Failed /\ reason = "threat_detected"
       ELSE outcome = "success"

\* The runs that wrote a status line, or the beginning of one.
Reported == {r \in 1 .. run : ended[r] \notin {"none", "killed"}}

LastReported ==
    IF Reported = {} THEN ""
    ELSE ended[CHOOSE r \in Reported : \A s \in Reported : s <= r]

\* A diagnostic that quotes the marker stands behind the last status line.
Quoted ==
    \E i \in DOMAIN log :
        /\ log[i].kind = "diagnostic"
        /\ \A j \in DOMAIN log : j > i => log[j].kind # "status"

\* When no verdict could be read, the reason conclude gives is that of the last
\* run which reported one, whatever engines had forwarded or quoted before, and
\* never that of an earlier run behind a malformed line.  There is one exception:
\* the last run was killed before its status line, and behind the last status
\* line there is a diagnostic that quotes engine output or an artifact's name
\* with the marker in it; then conclude takes the reason quoted there.  A
\* malformed file is a parse error of its own (conclude.go:227-234, 695-730,
\* main.go:515, 571, 750).
FailureIsTheRunsOwn ==
    /\ outcome \in {"warning", "failure"}
    /\ verdict = Missing
    /\ mode.logKept
    /\ run > 0 /\ ended[run] = "killed" => ~Quoted
    => \/ reason = HostReason(LastReported)
       \/ output = Broken /\ reason = "parse_error"

\* Reasons are reported only with the verdict they were given for, even if the
\* full result is of another run than the result (conclude.go:357-361).
ReasonsFitVerdict ==
    rendered # Missing => rendered.verdict = output.verdict

\* They are not those of a run before the one that wrote the result, whose
\* verdict happened to be the same (threat-detection-spec.md:712-715).
NoStaleReasonsReported ==
    rendered # Missing => rendered.run >= output.run

\* Where a run recorded a verdict, there is a file, if --output names one: the
\* tooling failure of a missing result is never reported for it, and no failed
\* or killed write of a later run removes it (conclude.go:80-82, main.go:827).
RecordedLeavesAFile ==
    /\ OutputGiven
    /\ \E r \in 1 .. run : ended[r] = "result_recorded"
    => output # Missing

\* Conclude never changes the result it concludes from.  The full result it
\* changes only if that file was named as a command file, which is not refused,
\* and then not before the verdict and its reasons are settled
\* (conclude.go:135-145, 783-794).
ConcludeLeavesResults ==
    [][phase # "before" =>
          /\ output' = output
          /\ full' # full => /\ mode.fullCommand # "no"
                            /\ outcome # "none"
                            /\ UNCHANGED <<outcome, reason, rendered>>]_vars

(***************************************************************************)
(* The files and conclude together implement Certification: verdicts pass  *)
(* from the runs to the job through files that may be stale or torn, and   *)
(* the outputs are appended one by one, yet the job concludes once, on a   *)
(* verdict that stands, and never says two things (conclude.go:225-300).   *)
(***************************************************************************)
RecordedRuns == {r \in 1 .. Runs : ended[r] = "result_recorded"}

Said == {jobOutput["conclusion"], jobEnv["conclusion"], jobOutput["success"]}

ToldJobs ==
    {m \in {"cleared"} : Said \cap {"skipped", "success", "true"} # {}} \cup
    {m \in {"refused"} : Said \cap {"warning", "failure", "false"} # {}}

Promise == INSTANCE Certification WITH
    recorded   <- RecordedRuns,
    conclusion <- outcome,
    told       <- ToldJobs,
    exit       <- IF phase \in {"proceed", "fail"} THEN phase ELSE "none"

ImplementsCertification == Promise!Spec
===============================================================================
