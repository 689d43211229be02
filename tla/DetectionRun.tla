----------------------------- MODULE DetectionRun -----------------------------
(***************************************************************************)
(* One detection run from the first attempt to the status line:            *)
(* analyzeWithRetries and the end of run() (cmd/threat-detect/main.go),    *)
(* the engine subprocess started by runCLIEnvWithSink (pkg/engine/         *)
(* engine.go), the sink watcher (pkg/engine/tool.go), the wall-clock       *)
(* deadline, the interrupt signal, and the result tool of ReportTool.      *)
(*                                                                         *)
(* The detector, the watcher, the engine and every tool call are separate  *)
(* processes that communicate through the sink file, the process group     *)
(* and the contexts; each step below is one read, write or signal.         *)
(***************************************************************************)
EXTENDS ReportTool

CONSTANTS
    TimeoutEnabled, \* --engine-timeout > 0
    DirectWrites,   \* may the engine's file tool write the sink itself?
    Orphans,        \* may the engine exit and leave descendants running?
    SigTerm         \* may the host send SIGTERM?

ASSUME RunFlagsAssumption ==
    /\ TimeoutEnabled \in BOOLEAN
    /\ DirectWrites \in BOOLEAN
    /\ Orphans \in BOOLEAN
    /\ SigTerm \in BOOLEAN

VARIABLES
    pc,             \* where the detector is
    attempt,        \* number of the current attempt, 0 before the first
    engine,         \* the direct engine process
    attemptCtx,     \* attemptCtx.Err(): "live", "deadline" or "cancelled"
    interrupted,    \* ctx.Err() # nil: SIGINT was received
    watcherFired,   \* the sink watcher cancelled the engine's context
    execErr,        \* the error returned by the engine call, is it non-nil?
    readback,       \* the verdict the detector read from the sink
    failure,        \* the error analyzeWithRetries returns
    outcome,        \* the "attempt N outcome=" lines written so far
    overran,        \* auxiliary: attempts killed by their deadline
    reason          \* the reason of the status line, "none" before it

detectorVars == <<pc, attempt, engine, attemptCtx, interrupted, watcherFired,
                  execErr, readback, failure, outcome, overran, reason>>
vars == <<toolVars, detectorVars>>

PCs == {"loop", "provision", "start", "running", "suppress", "read",
        "decide", "publish", "classify", "done", "dead"}

\* The process has been started and not yet collected by Wait.
EngineStates == {"none", "running", "exit0", "exit1", "killed"}

Outcomes == {"none", "recorded", "ineligible", "no_verdict", "timeout",
             "engine_error"}

Failures == {"none", "engine_timeout", "engine_error",
             "invalid_report_exhausted"}

Reasons == Failures \cup {"result_recorded", "output_write_error", "cancelled"}

DetectorTypeOK ==
    /\ pc \in PCs
    /\ attempt \in 0 .. Attempts
    /\ engine \in EngineStates
    /\ attemptCtx \in {"live", "deadline", "cancelled"}
    /\ interrupted \in BOOLEAN
    /\ watcherFired \in BOOLEAN
    /\ execErr \in BOOLEAN
    /\ readback \in Record \cup {NoVerdict}
    /\ failure \in Failures
    /\ outcome \in [Sessions -> Outcomes]
    /\ overran \subseteq Sessions
    /\ reason \in Reasons

TypeOK == ToolTypeOK /\ DetectorTypeOK

\* The detector has returned from run() or was killed.
Over == pc \in {"done", "dead"}

\* Bug: the engine runs under the run's context, without the deadline.
DeadlineUnseen == attemptCtx = "cancelled" \/ watcherFired

\* Bug: the deadline is set on a context of its own, cut off from the run's.
InterruptUnseen == attemptCtx = "deadline" \/ watcherFired

\* The context the engine runs under has been cancelled: by the interrupt, by
\* the deadline, or by the watcher.
RunCtxDone == attemptCtx # "live" \/ watcherFired

\* The run starts once the prompt is built and the placeholder of the sink is
\* removed.
Init ==
    /\ SharedInit
    /\ alive = {}
    /\ installed = {}
    /\ pc = "loop"
    /\ attempt = 0
    /\ engine = "none"
    /\ attemptCtx = "live"
    /\ interrupted = FALSE
    /\ watcherFired = FALSE
    /\ execErr = FALSE
    /\ readback = NoVerdict
    /\ failure = "none"
    /\ outcome = [a \in Sessions |-> "none"]
    /\ overran = {}
    /\ reason = "none"

-------------------------------------------------------------------------------
\* Bug: one attempt too many.
OneTooMany == attempt <= Attempts

MoreAttempts == attempt < Attempts

\* Bug: the sink of the attempt before stays.
StaleSink == sink

\* os.Remove(sinkPath), before each attempt and at the end of the run.
CleanSink == NoVerdict

(***************************************************************************)
(* The top of the retry loop: remove a stale sink, narrow the context to   *)
(* this attempt's deadline.                                                *)
(***************************************************************************)
BeginAttempt ==
    /\ pc = "loop"
    /\ MoreAttempts
    /\ attempt' = attempt + 1
    /\ sink' = CleanSink
    /\ attemptCtx' = IF interrupted THEN "cancelled" ELSE "live"
    /\ watcherFired' = FALSE
    /\ execErr' = FALSE
    /\ pc' = "provision"
    /\ UNCHANGED <<reasonsFile, job, alive, installed, offered, engine,
                   interrupted, readback, failure, outcome, overran, reason>>

\* Every attempt ended without a verdict.
Exhaust ==
    /\ pc = "loop"
    /\ ~MoreAttempts
    /\ failure' = "invalid_report_exhausted"
    /\ pc' = "classify"
    /\ UNCHANGED <<toolVars, attempt, engine, attemptCtx, interrupted,
                   watcherFired, execErr, readback, outcome, overran, reason>>

(***************************************************************************)
(* provisionResultTool removes the reasons file of an earlier attempt and  *)
(* installs the wrapper.  Any of its steps, or writing the prompt file,    *)
(* may fail; the engine is then never started.                             *)
(***************************************************************************)
Provision ==
    /\ pc = "provision"
    /\ \/ /\ reasonsFile' = Nobody
          /\ installed' = installed \cup {attempt}
          /\ pc' = "start"
          /\ UNCHANGED execErr
       \/ /\ reasonsFile' \in {reasonsFile, Nobody}
          /\ execErr' = TRUE
          /\ pc' = "read"
          /\ UNCHANGED installed
    /\ UNCHANGED <<sink, job, alive, offered, attempt, engine, attemptCtx,
                   interrupted, watcherFired, readback, failure, outcome,
                   overran, reason>>

\* Bug: a cancelled context does not keep the engine from starting.
StartsAnyway == TRUE

\* cmd.Start refuses a context that is already done.
MayStart == ~RunCtxDone

(***************************************************************************)
(* cmd.Start: the engine becomes the leader of a process group of its own. *)
(***************************************************************************)
StartEngine ==
    /\ pc = "start"
    /\ \/ /\ MayStart
          /\ engine' = "running"
          /\ alive' = alive \cup {attempt}
          /\ pc' = "running"
          /\ UNCHANGED execErr
       \/ /\ execErr' = TRUE
          /\ pc' = "suppress"
          /\ UNCHANGED <<engine, alive>>
    /\ UNCHANGED <<sink, reasonsFile, job, installed, offered, attempt,
                   attemptCtx, interrupted, watcherFired, readback, failure,
                   outcome, overran, reason>>

(***************************************************************************)
(* The engine knows the path of the sink and may write it with its own     *)
(* file tool.  Such a write need not be atomic, so it may leave the sink   *)
(* unreadable.                                                             *)
(***************************************************************************)
DirectWrite(s) ==
    /\ DirectWrites
    /\ s \in alive
    /\ \/ /\ sink' = NoVerdict
          /\ UNCHANGED offered
       \/ \E v \in Verdicts, w \in {Nobody, s} :
            /\ sink' = [verdict |-> v, session |-> s, reasons |-> w]
            /\ offered' = offered \cup {v}
    /\ UNCHANGED <<reasonsFile, job, alive, installed, detectorVars>>

(***************************************************************************)
(* The engine exits by itself.  Its descendants are gone by then unless    *)
(* Orphans, in which case the rest of its group may live on.               *)
(***************************************************************************)
Quiet(s) == \A r \in Reports : ~RunningIn(r, s)

EngineExits ==
    /\ engine = "running"
    /\ engine' \in {"exit0", "exit1"}
    /\ \/ Quiet(attempt) /\ alive' = alive \ {attempt}
       \/ Orphans /\ UNCHANGED alive
    /\ UNCHANGED <<sink, reasonsFile, job, installed, offered, pc, attempt,
                   attemptCtx, interrupted, watcherFired, execErr, readback,
                   failure, outcome, overran, reason>>

\* The last of the descendants an engine left behind exits.
OrphansExit(s) ==
    /\ s \in alive
    /\ Quiet(s)
    /\ s = attempt => engine # "running"
    /\ alive' = alive \ {s}
    /\ UNCHANGED <<sink, reasonsFile, job, installed, offered, detectorVars>>
-------------------------------------------------------------------------------
\* Bug: only a verdict the run could accept stops the engine.
StopsOnEligible == Readable(sink) /\ sink.verdict \in Eligible

\* The watcher stops the engine on any verdict it can read.
StopsEngine == Readable(sink)

(***************************************************************************)
(* watchResultSink: one poll of the sink that finds a verdict.             *)
(***************************************************************************)
WatcherTick ==
    /\ pc \in {"start", "running"}
    /\ ~RunCtxDone
    /\ StopsEngine
    /\ watcherFired' = TRUE
    /\ UNCHANGED <<toolVars, pc, attempt, engine, attemptCtx, interrupted,
                   execErr, readback, failure, outcome, overran, reason>>

\* The attempt's deadline expires before attemptCancel is called.
Deadline ==
    /\ TimeoutEnabled
    /\ pc \in {"provision", "start", "running", "suppress", "read"}
    /\ attemptCtx = "live"
    /\ attemptCtx' = "deadline"
    /\ UNCHANGED <<toolVars, pc, attempt, engine, interrupted, watcherFired,
                   execErr, readback, failure, outcome, overran, reason>>

(***************************************************************************)
(* SIGINT, the only signal run() registers: it cancels the run's context   *)
(* and, through it, the attempt's.                                         *)
(***************************************************************************)
Interrupt ==
    /\ ~Over
    /\ ~interrupted
    /\ interrupted' = TRUE
    /\ attemptCtx' = IF attemptCtx = "live" THEN "cancelled" ELSE attemptCtx
    /\ UNCHANGED <<toolVars, pc, attempt, engine, watcherFired, execErr,
                   readback, failure, outcome, overran, reason>>

\* SIGTERM has its default disposition: the detector dies where it is.
Terminate ==
    /\ SigTerm
    /\ ~Over
    /\ pc' = "dead"
    /\ UNCHANGED <<toolVars, attempt, engine, attemptCtx, interrupted,
                   watcherFired, execErr, readback, failure, outcome, overran,
                   reason>>

\* Bug: only the leader of the group is signalled.
SignalLeader(s) == UNCHANGED <<job, alive>>

\* SIGKILL to the whole process group.
SignalGroup(s) == job' = JobsAfterKill(s) /\ alive' = alive \ {s}

(***************************************************************************)
(* cmd.Cancel, once the engine's context is done.  It may reach an engine  *)
(* that has exited but was not collected yet; Wait then reports the        *)
(* context's error, unless the group was already gone.                     *)
(***************************************************************************)
KillGroup ==
    /\ pc = "running"
    /\ RunCtxDone
    /\ engine \in {"running", "exit0", "exit1"}
    /\ engine' \in IF engine = "running" \/ attempt \in alive
                   THEN {"killed"} ELSE {engine, "killed"}
    /\ SignalGroup(attempt)
    /\ overran' = IF /\ engine = "running"
                     /\ attemptCtx = "deadline"
                     /\ ~watcherFired
                  THEN overran \cup {attempt} ELSE overran
    /\ UNCHANGED <<sink, reasonsFile, installed, offered, pc, attempt,
                   attemptCtx, interrupted, watcherFired, execErr, readback,
                   failure, outcome, reason>>

\* Bug: the call returns on cancellation without waiting for the engine.
ReturnsOnCancel == engine # "running" \/ RunCtxDone

\* cmd.Wait has collected the direct process.
Collected == engine # "running"

(***************************************************************************)
(* cmd.Run returns: after the process, it waits for the output pipes, at   *)
(* most WaitDelay.  A descendant that still holds one then turns a clean   *)
(* exit into ErrWaitDelay; it may also have closed them.                   *)
(***************************************************************************)
Collect ==
    /\ pc = "running"
    /\ Collected
    /\ execErr' \in IF engine # "exit0" THEN {TRUE}
                    ELSE IF attempt \in alive THEN BOOLEAN ELSE {FALSE}
    /\ pc' = "suppress"
    /\ UNCHANGED <<toolVars, attempt, engine, attemptCtx, interrupted,
                   watcherFired, readback, failure, outcome, overran, reason>>

\* The error of the engine is dropped when the sink holds a verdict: the process
\* is taken to have been killed for it.
DropsError == Readable(sink)

(***************************************************************************)
(* The error is dropped or kept; runCLIWithPromptFile then adds one of its *)
(* own when it cannot remove the prompt file, and Analyze removes the      *)
(* wrapper: calls of the tool that are running go on, none can start.      *)
(***************************************************************************)
Suppress ==
    /\ pc = "suppress"
    /\ \E promptRemoved \in BOOLEAN :
         execErr' = ((execErr /\ ~DropsError) \/ ~promptRemoved)
    /\ pc' = "read"
    /\ installed' = installed \ {attempt}
    /\ UNCHANGED <<sink, reasonsFile, job, alive, offered, attempt, engine,
                   attemptCtx, interrupted, watcherFired, readback, failure,
                   outcome, overran, reason>>

\* analyzeWithRetries reads the sink itself, then cancels the attempt.
ReadSink ==
    /\ pc = "read"
    /\ readback' = sink
    /\ attemptCtx' = IF attemptCtx = "live" THEN "cancelled" ELSE attemptCtx
    /\ pc' = "decide"
    /\ UNCHANGED <<toolVars, attempt, engine, interrupted, watcherFired,
                   execErr, failure, outcome, overran, reason>>

-------------------------------------------------------------------------------
\* Bug: the eligibility of the recorded verdict is not checked again.
AcceptsAny == Readable(readback)

\* Bug: the engine's error is looked at before the sink.
AcceptsOnCleanExit ==
    Readable(readback) /\ readback.verdict \in Eligible /\ ~execErr

\* The binding eligibility check, on the sink alone.
Accepts == Readable(readback) /\ readback.verdict \in Eligible

\* Bug: an expired deadline is retried like a missing verdict.
FailsUnlessLate == execErr /\ attemptCtx # "deadline"

EngineFails == execErr

Ends(o, next) ==
    /\ outcome' = [outcome EXCEPT ![attempt] = o]
    /\ pc' = next
    /\ UNCHANGED <<toolVars, attempt, engine, attemptCtx, interrupted,
                   watcherFired, execErr, readback, overran, reason>>

(***************************************************************************)
(* The classification of an attempt, in the order of the code: the sink    *)
(* first, then the engine's error, then a correction and the next attempt. *)
(***************************************************************************)
Decide ==
    /\ pc = "decide"
    /\ \/ /\ Accepts
          /\ Ends("recorded", "publish")
          /\ UNCHANGED failure
       \/ /\ ~Accepts
          /\ EngineFails
          /\ IF ~interrupted /\ attemptCtx = "deadline"
             THEN Ends("timeout", "classify") /\ failure' = "engine_timeout"
             ELSE Ends("engine_error", "classify") /\ failure' = "engine_error"
       \/ /\ ~Accepts
          /\ ~EngineFails
          /\ Ends(IF Readable(readback) THEN "ineligible" ELSE "no_verdict", "loop")
          /\ UNCHANGED failure

\* The end of run() without a verdict: an interrupt overrides every failure.
Classify ==
    /\ pc = "classify"
    /\ reason' = IF interrupted THEN "cancelled" ELSE failure
    /\ sink' = CleanSink
    /\ pc' = "done"
    /\ UNCHANGED <<reasonsFile, job, alive, installed, offered, attempt,
                   engine, attemptCtx, interrupted, watcherFired, execErr,
                   readback, failure, outcome, overran>>

\* The end of run() with one: writeResult, whose files are not modelled here.
Publish ==
    /\ pc = "publish"
    /\ reason' \in {"result_recorded", "output_write_error"}
    /\ sink' = CleanSink
    /\ pc' = "done"
    /\ UNCHANGED <<reasonsFile, job, alive, installed, offered, attempt,
                   engine, attemptCtx, interrupted, watcherFired, execErr,
                   readback, failure, outcome, overran>>

-------------------------------------------------------------------------------
\* The detector's own goroutine.
DetectorStep ==
    \/ BeginAttempt \/ Exhaust \/ Provision \/ StartEngine \/ Collect
    \/ Suppress \/ ReadSink \/ Decide \/ Classify \/ Publish

\* The engine, its descendants and the tool calls they make.
EngineStep ==
    \/ ToolStep /\ UNCHANGED detectorVars
    \/ EngineExits
    \/ \E s \in Sessions : DirectWrite(s) \/ OrphansExit(s)

Next ==
    \/ DetectorStep
    \/ EngineStep
    \/ WatcherTick \/ Deadline \/ KillGroup
    \/ Interrupt \/ Terminate

Spec == Init /\ [][Next]_vars

(***************************************************************************)
(* The detector runs, the watcher's ticker ticks and a cancelled context   *)
(* kills the group.  Nothing is assumed of the engine: it may hang         *)
(* forever, and its tool calls may never return.  That an armed timer      *)
(* expires is left to the one property that needs it, so that the others   *)
(* are about runs without a timeout as well.                               *)
(***************************************************************************)
Fairness ==
    /\ WF_vars(DetectorStep)
    /\ WF_vars(WatcherTick)
    /\ WF_vars(KillGroup)

FairSpec == Spec /\ Fairness

-------------------------------------------------------------------------------
(***************************************************************************)
(* The verdict of a run is one that was really written to the sink and     *)
(* that the bundle is eligible for, although the tool's own check may have *)
(* been skipped, the engine may write the sink by hand and the file may    *)
(* change between the watcher's read, the suppression's and the            *)
(* detector's.                                                             *)
(***************************************************************************)
RecordedIsGenuine ==
    reason = "result_recorded" =>
        Readable(readback) /\ readback.verdict \in Eligible \cap offered

(***************************************************************************)
(* What the detector reads at the end of an attempt was reported, and its  *)
(* reasons were authored, in that attempt: removing the sink and the       *)
(* reasons file and killing the group are enough to keep attempts apart    *)
(* (main.go:694, tool.go:41, README.md:118).                               *)
(***************************************************************************)
FreshVerdict ==
    Readable(readback) /\ pc \in {"decide", "publish"} =>
        /\ readback.session = attempt
        /\ readback.reasons \in {Nobody, attempt}

(***************************************************************************)
(* A verdict the tool acknowledged is not lost: whatever kills the engine  *)
(* afterwards (watcher, deadline, interrupt, a crash of its own), an       *)
(* attempt whose acknowledged verdicts are all eligible ends recorded.     *)
(***************************************************************************)
AcknowledgedIn(a) ==
    {r \in Reports : job[r].pc = "recorded" /\ job[r].rec.session = a}

AcknowledgedIsRecorded ==
    \A a \in Sessions :
        /\ outcome[a] # "none"
        /\ AcknowledgedIn(a) # {}
        /\ \A r \in AcknowledgedIn(a) : job[r].rec.verdict \in Eligible
        => outcome[a] = "recorded"

(***************************************************************************)
(* A wall-clock timeout is terminal: no attempt follows one whose engine   *)
(* was killed at its deadline (main.go:94, README.md:200).                 *)
(***************************************************************************)
TimeoutIsTerminal == \A a \in overran : attempt = a

(***************************************************************************)
(* How far that goes when the tool's own check may be skipped: the only    *)
(* attempt at its deadline that is followed by another is one that left a  *)
(* verdict the bundle is not eligible for, which suppresses the error of   *)
(* the kill (engine.go:643-648) and is then rejected (main.go:744-757).    *)
(***************************************************************************)
LateRetryOnlyAfterIneligible ==
    \A a \in overran : attempt # a => outcome[a] = "ineligible"

(***************************************************************************)
(* No engine outlives the detector: when the run is over, the process it   *)
(* started has exited or been killed, so that no runaway keeps spending    *)
(* after the detector has moved on (engine.go:570).                        *)
(***************************************************************************)
NoEngineLeftBehind == Over => engine # "running"

(***************************************************************************)
(* An interrupted run starts no further engine, not even to correct an     *)
(* ineligible verdict whose error the readable sink suppressed.            *)
(***************************************************************************)
NoEngineAfterInterrupt ==
    [][interrupted /\ engine # "running" => engine' # "running"]_vars

\* With a timeout that expires every run ends, however long the engine would
\* hang (main.go:697-707).
RunTerminates == TimeoutEnabled /\ WF_vars(Deadline) => <>Over

\* Without one, a verdict in the sink still ends the engine it came from,
\* eligible or not (tool.go:69-85).
VerdictStopsEngine ==
    Readable(sink) /\ engine = "running" ~> engine # "running"

\* Without one, so does an interrupt: it ends the whole run (main.go:154-156).
InterruptEndsRun == interrupted ~> Over

(***************************************************************************)
(* The run implements VerdictRun: every step is one of its steps or        *)
(* changes nothing it can see.  Its decision is taken when the reason is.  *)
(***************************************************************************)
Promise == INSTANCE VerdictRun WITH
    Pending  <- "pending",
    Failed   <- "failed",
    working  <- engine = "running",
    decision <- IF reason = "none" THEN "pending"
                ELSE IF reason = "result_recorded" THEN readback.verdict
                ELSE "failed"

ImplementsVerdictRun == Promise!Spec

(***************************************************************************)
(* Provisioning removes the reasons file of an earlier attempt "so a retry *)
(* cannot report stale reasons that the model did not author this time     *)
(* around" (tool.go:41, README.md:118): a verdict this attempt reported    *)
(* carries reasons this attempt wrote.                                     *)
(***************************************************************************)
NoStaleReasons ==
    Readable(readback) /\ readback.session = attempt =>
        readback.reasons \in {Nobody, attempt}
===============================================================================
