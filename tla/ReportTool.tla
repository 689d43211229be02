------------------------------ MODULE ReportTool ------------------------------
(***************************************************************************)
(* The `report-result` subcommand (cmd/threat-detect/report.go) and the    *)
(* files it shares with the detector: the result sink and the reasons      *)
(* file.  An engine session is the process group of one detection attempt; *)
(* any process of a live session may run the tool, through the wrapper the *)
(* detector installed for it, and several may do so at the same time.      *)
(*                                                                         *)
(* A verdict is the value of the three booleans.  What the tool writes is  *)
(* abstracted to the verdict, the session that wrote it, and the session   *)
(* whose model authored the reasons it carries.                            *)
(***************************************************************************)
EXTENDS Naturals

CONSTANTS
    Verdicts,       \* the possible values of the three booleans
    Threats,        \* those with at least one boolean set
    Eligible,       \* those Eligibility.Validate accepts on this bundle
    Reports,        \* the invocations of the tool during one run (bound)
    Attempts,       \* retries + 1: the number of sessions a run may start
    NoVerdict,      \* what a reader gets when ReadResultFile returns an error
    EnvDropped      \* may the eligibility variables not reach the tool?

Sessions == 1 .. Attempts

\* The author of the reasons of a verdict that has none, and of a reasons file
\* that does not exist.
Nobody == 0

Record == [verdict : Verdicts, session : Sessions, reasons : 0 .. Attempts]

(***************************************************************************)
(* Only booleans set to true can be ineligible, so a verdict without a     *)
(* threat always is eligible.                                              *)
(***************************************************************************)
ASSUME VerdictAssumption ==
    /\ Threats \subseteq Verdicts
    /\ Eligible \subseteq Verdicts
    /\ Verdicts \ Threats \subseteq Eligible
ASSUME AttemptsAssumption == Attempts \in Nat \ {0}
ASSUME NoVerdictAssumption == NoVerdict \notin Record
ASSUME EnvAssumption == EnvDropped \in BOOLEAN

VARIABLES
    sink,           \* what ReadResultFile(sinkPath) would return now
    reasonsFile,    \* session that last wrote the reasons file
    job,            \* every invocation: where it is, and what it would record
    alive,          \* sessions that still have a process running
    installed,      \* sessions whose threat_detection_result wrapper exists
    offered         \* auxiliary: every verdict the sink ever held

toolVars == <<sink, reasonsFile, job, alive, installed, offered>>

JobStates == {"idle", "checking", "writing", "recorded", "already",
              "rejected", "failed", "killed"}

Job == [pc : {"idle"}, rec : {NoVerdict}]
       \cup [pc : JobStates \ {"idle"}, rec : Record]

\* ReadResultFile succeeds.
Readable(s) == s # NoVerdict

\* Invocation r is in progress, on behalf of session s.
RunningIn(r, s) == job[r].pc \in {"checking", "writing"} /\ job[r].rec.session = s

ToolTypeOK ==
    /\ sink \in Record \cup {NoVerdict}
    /\ reasonsFile \in 0 .. Attempts
    /\ job \in [Reports -> Job]
    /\ alive \subseteq Sessions
    /\ installed \subseteq Sessions
    /\ offered \subseteq Verdicts

SharedInit ==
    /\ sink = NoVerdict
    /\ reasonsFile = Nobody
    /\ job = [r \in Reports |-> [pc |-> "idle", rec |-> NoVerdict]]
    /\ offered = {}

-------------------------------------------------------------------------------
\* The engine writes the reasons file with its own file tool.
WriteReasons(s) ==
    /\ s \in alive
    /\ reasonsFile' = s
    /\ UNCHANGED <<sink, job, alive, installed, offered>>

(***************************************************************************)
(* Who authored the reasons of a call: the calling session, when they come *)
(* from --reason flags, or whoever last wrote the shared reasons file.  A  *)
(* verdict without a threat needs none.                                    *)
(***************************************************************************)
ReasonsFor(v, s) == IF v \in Threats THEN {s, reasonsFile} ELSE {Nobody}

\* The advisory check of EligibilityFromEnv, which passes without its variables.
EligibleByEnv(v) == v \in Eligible \/ EnvDropped

\* Bug: the at-least-one-reason rule is forgotten.
ValidWithoutReasons(v, w) == EligibleByEnv(v)

\* Field validation, the at-least-one-reason rule, and eligibility.
Valid(v, w) ==
    /\ v \in Threats => w # Nobody
    /\ EligibleByEnv(v)

(***************************************************************************)
(* runReport up to the eligibility check, through the wrapper of session   *)
(* s.  A rejected call exits without touching the sink, and the model may  *)
(* correct itself with another one.                                        *)
(***************************************************************************)
Invoke(r, s) ==
    /\ s \in alive \cap installed
    /\ job[r].pc = "idle"
    /\ \E v \in Verdicts : \E w \in ReasonsFor(v, s) :
         job' = [job EXCEPT ![r] =
                   [pc  |-> IF Valid(v, w) THEN "checking" ELSE "rejected",
                    rec |-> [verdict |-> v, session |-> s, reasons |-> w]]]
    /\ UNCHANGED <<sink, reasonsFile, alive, installed, offered>>

\* Bug: the call does not look at the sink before writing it.
NeverRecorded == FALSE

\* "Idempotent: first valid write wins": a readable sink ends the call.
AlreadyRecorded == Readable(sink)

CheckSink(r) ==
    /\ job[r].pc = "checking"
    /\ job' = [job EXCEPT ![r].pc =
                 IF AlreadyRecorded THEN "already" ELSE "writing"]
    /\ UNCHANGED <<sink, reasonsFile, alive, installed, offered>>

\* Bug: the sink is truncated and rewritten in place.
CommitInPlace(r) ==
    /\ job[r].pc = "writing"
    /\ \/ sink' = NoVerdict /\ UNCHANGED <<job, offered>>
       \/ /\ sink' = job[r].rec
          /\ offered' = offered \cup {job[r].rec.verdict}
          /\ job' = [job EXCEPT ![r].pc = "recorded"]
    /\ UNCHANGED <<reasonsFile, alive, installed>>

(***************************************************************************)
(* WriteResultFile: a temporary file in the sink's directory, renamed over *)
(* the sink, so a reader sees the old content or the whole new one.        *)
(***************************************************************************)
Commit(r) ==
    /\ job[r].pc = "writing"
    /\ sink' = job[r].rec
    /\ offered' = offered \cup {job[r].rec.verdict}
    /\ job' = [job EXCEPT ![r].pc = "recorded"]
    /\ UNCHANGED <<reasonsFile, alive, installed>>

\* Any step of WriteResultFile fails: the sink keeps its content.
CommitFails(r) ==
    /\ job[r].pc = "writing"
    /\ job' = [job EXCEPT ![r].pc = "failed"]
    /\ UNCHANGED <<sink, reasonsFile, alive, installed, offered>>

ToolStep ==
    \/ \E s \in Sessions :
         \/ WriteReasons(s)
         \/ \E r \in Reports : Invoke(r, s)
    \/ \E r \in Reports : CheckSink(r) \/ Commit(r) \/ CommitFails(r)

\* The jobs once every process of session s has been killed.
JobsAfterKill(s) ==
    [r \in Reports |-> IF RunningIn(r, s) THEN [job[r] EXCEPT !.pc = "killed"]
                                          ELSE job[r]]

-------------------------------------------------------------------------------
(***************************************************************************)
(* The tool on its own: every session is alive from the start, and any of  *)
(* them may be killed at any time, in the middle of a call included.  Only *)
(* the tool writes the sink.                                               *)
(***************************************************************************)
KillSession(s) ==
    /\ s \in alive
    /\ alive' = alive \ {s}
    /\ job' = JobsAfterKill(s)
    /\ UNCHANGED <<sink, reasonsFile, installed, offered>>

ToolInit == SharedInit /\ alive = Sessions /\ installed = Sessions

ToolNext == ToolStep \/ \E s \in Sessions : KillSession(s)

ToolSpec == ToolInit /\ [][ToolNext]_toolVars

-------------------------------------------------------------------------------
(***************************************************************************)
(* What the comment on the sink check promises: the first valid verdict is *)
(* the one that stays, whatever later calls report (report.go:118,         *)
(* README.md:143).                                                         *)
(***************************************************************************)
FirstValidWriteWins ==
    [][Readable(sink) => Readable(sink') /\ sink'.verdict = sink.verdict]_toolVars

(***************************************************************************)
(* What the check really gives.  Reading the sink and renaming over it are *)
(* two steps, so a recorded verdict is settled exactly when no call is     *)
(* between them: from then on no call ever replaces it.                    *)
(***************************************************************************)
SettledVerdictStays ==
    [][Readable(sink) /\ (\A r \in Reports : job[r].pc # "writing")
         => sink' = sink /\ \A r \in Reports : job'[r].pc # "writing"]_toolVars

(***************************************************************************)
(* A call that printed THREAT_DETECTION_RESULT_RECORDED, for its own       *)
(* verdict or for an earlier one, leaves a readable sink behind whatever   *)
(* other calls are racing it or being killed: the engine stops on that     *)
(* line, so a sink it lost would be a run without a verdict.               *)
(***************************************************************************)
AcknowledgedIsReadable ==
    (\E r \in Reports : job[r].pc \in {"recorded", "already"}) => Readable(sink)

(***************************************************************************)
(* Whatever call won, the verdict in the sink passed the validation of the *)
(* call that wrote it: a threat carries a reason, and its class is         *)
(* eligible while the eligibility variables reach the tool.                *)
(***************************************************************************)
SinkWasValidated ==
    Readable(sink) => /\ sink.verdict \in Threats => sink.reasons # Nobody
                      /\ EnvDropped \/ sink.verdict \in Eligible
===============================================================================
