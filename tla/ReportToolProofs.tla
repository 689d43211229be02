--------------------------- MODULE ReportToolProofs ---------------------------
(***************************************************************************)
(* Proofs about ReportTool, for any number of invocations and sessions.    *)
(***************************************************************************)
EXTENDS ReportTool, TLAPS

(***************************************************************************)
(* Every step of the tool keeps the types, and so does writing the reasons.*)
(* The lemma is also used by the run that embeds the tool.                 *)
(***************************************************************************)
LEMMA ToolStepKeepsTypes ==
    ASSUME ToolTypeOK, ToolStep
    PROVE  ToolTypeOK'
<1> USE AttemptsAssumption DEF ToolTypeOK, Job, JobStates, Record, Sessions, Nobody
<1>1. ASSUME NEW s \in Sessions, WriteReasons(s)
      PROVE  ToolTypeOK'
  BY <1>1 DEF WriteReasons
<1>2. ASSUME NEW s \in Sessions, NEW r \in Reports, Invoke(r, s)
      PROVE  ToolTypeOK'
  BY <1>2 DEF Invoke, ReasonsFor
<1>3. ASSUME NEW r \in Reports, CheckSink(r)
      PROVE  ToolTypeOK'
  BY <1>3 DEF CheckSink
<1>4. ASSUME NEW r \in Reports, Commit(r)
      PROVE  ToolTypeOK'
  BY <1>4 DEF Commit
<1>5. ASSUME NEW r \in Reports, CommitFails(r)
      PROVE  ToolTypeOK'
  BY <1>5 DEF CommitFails
<1>. QED
  BY <1>1, <1>2, <1>3, <1>4, <1>5 DEF ToolStep

\* Killing a session leaves every invocation well formed.
LEMMA KillKeepsJobs ==
    ASSUME ToolTypeOK, NEW s
    PROVE  JobsAfterKill(s) \in [Reports -> Job]
BY DEF ToolTypeOK, JobsAfterKill, RunningIn, Job, JobStates

\* Every step of the tool on its own keeps the types.
LEMMA ToolNextKeepsTypes ==
    ASSUME ToolTypeOK, [ToolNext]_toolVars
    PROVE  ToolTypeOK'
<1>1. CASE ToolStep
  BY <1>1, ToolStepKeepsTypes
<1>2. ASSUME NEW s \in Sessions, KillSession(s)
      PROVE  ToolTypeOK'
  BY <1>2, KillKeepsJobs DEF KillSession, ToolTypeOK
<1>3. CASE UNCHANGED toolVars
  BY <1>3 DEF toolVars, ToolTypeOK
<1>. QED
  BY <1>1, <1>2, <1>3 DEF ToolNext

(***************************************************************************)
(* Type correctness of the tool on its own.                                *)
(***************************************************************************)
THEOREM ToolTypeCorrect == ToolSpec => []ToolTypeOK
<1>1. ToolInit => ToolTypeOK
  BY AttemptsAssumption DEF ToolInit, SharedInit, ToolTypeOK, Job, Sessions, Nobody
<1>2. ToolTypeOK /\ [ToolNext]_toolVars => ToolTypeOK'
  BY ToolNextKeepsTypes
<1>. QED
  BY <1>1, <1>2, PTL DEF ToolSpec

-------------------------------------------------------------------------------
\* The validation an invocation passed still holds of what it is about to write.
JobsValidated ==
    \A r \in Reports : job[r].pc \in {"checking", "writing"} =>
        /\ job[r].rec.verdict \in Threats => job[r].rec.reasons # Nobody
        /\ EnvDropped \/ job[r].rec.verdict \in Eligible

ValidatedInv == ToolTypeOK /\ JobsValidated /\ SinkWasValidated

(***************************************************************************)
(* What the sink holds passed the validation of the call that wrote it, as *)
(* only the tool writes it here.  Validation and write are two             *)
(* steps with other calls in between, so the invariant carries the         *)
(* validation with the invocation.                                         *)
(***************************************************************************)
THEOREM SinkOnlyHoldsValidated == ToolSpec => []SinkWasValidated
<1>1. ToolInit => ValidatedInv
  BY AttemptsAssumption
  DEF ToolInit, SharedInit, ValidatedInv, ToolTypeOK, JobsValidated,
      SinkWasValidated, Readable, Job, Sessions, Nobody
<1>2. ValidatedInv /\ [ToolNext]_toolVars => ValidatedInv'
  <2> SUFFICES ASSUME ToolTypeOK, JobsValidated, SinkWasValidated, [ToolNext]_toolVars
               PROVE  ToolTypeOK' /\ JobsValidated' /\ SinkWasValidated'
    BY DEF ValidatedInv
  <2> USE DEF JobsValidated, SinkWasValidated, Readable
  <2>1. ASSUME NEW s \in Sessions, WriteReasons(s)
        PROVE  JobsValidated' /\ SinkWasValidated'
    BY <2>1 DEF WriteReasons
  <2>2. ASSUME NEW s \in Sessions, NEW r \in Reports, Invoke(r, s)
        PROVE  JobsValidated' /\ SinkWasValidated'
    BY <2>2 DEF Invoke, Valid, EligibleByEnv, ToolTypeOK, Job
  <2>3. ASSUME NEW r \in Reports, CheckSink(r)
        PROVE  JobsValidated' /\ SinkWasValidated'
    BY <2>3 DEF CheckSink, ToolTypeOK, Job
  <2>4. ASSUME NEW r \in Reports, Commit(r)
        PROVE  JobsValidated' /\ SinkWasValidated'
    BY <2>4 DEF Commit, ToolTypeOK, Job
  <2>5. ASSUME NEW r \in Reports, CommitFails(r)
        PROVE  JobsValidated' /\ SinkWasValidated'
    BY <2>5 DEF CommitFails, ToolTypeOK, Job
  <2>6. ASSUME NEW s \in Sessions, KillSession(s)
        PROVE  JobsValidated' /\ SinkWasValidated'
    BY <2>6 DEF KillSession, JobsAfterKill, ToolTypeOK, Job
  <2>7. ToolTypeOK'
    BY ToolNextKeepsTypes
  <2>8. CASE UNCHANGED toolVars
    BY <2>7, <2>8 DEF toolVars
  <2>. QED
    BY <2>1, <2>2, <2>3, <2>4, <2>5, <2>6, <2>7, <2>8 DEF ToolNext, ToolStep
<1>3. ValidatedInv => SinkWasValidated
  BY DEF ValidatedInv
<1>. QED
  BY <1>1, <1>2, <1>3, PTL DEF ToolSpec

-------------------------------------------------------------------------------
AcknowledgedInv == ToolTypeOK /\ AcknowledgedIsReadable

(***************************************************************************)
(* A call that was told RECORDED left a readable sink behind, and nothing  *)
(* the other calls do, or being killed, makes it unreadable again.         *)
(***************************************************************************)
THEOREM AcknowledgedStaysReadable == ToolSpec => []AcknowledgedIsReadable
<1>1. ToolInit => AcknowledgedInv
  BY AttemptsAssumption
  DEF ToolInit, SharedInit, AcknowledgedInv, ToolTypeOK, AcknowledgedIsReadable,
      Job, Sessions, Nobody
<1>2. AcknowledgedInv /\ [ToolNext]_toolVars => AcknowledgedInv'
  <2> SUFFICES ASSUME ToolTypeOK, AcknowledgedIsReadable, [ToolNext]_toolVars
               PROVE  ToolTypeOK' /\ AcknowledgedIsReadable'
    BY DEF AcknowledgedInv
  <2> USE DEF AcknowledgedIsReadable, Readable
  <2>1. ASSUME NEW s \in Sessions, WriteReasons(s)
        PROVE  AcknowledgedIsReadable'
    BY <2>1 DEF WriteReasons
  <2>2. ASSUME NEW s \in Sessions, NEW r \in Reports, Invoke(r, s)
        PROVE  AcknowledgedIsReadable'
    BY <2>2 DEF Invoke, ToolTypeOK, Job
  <2>3. ASSUME NEW r \in Reports, CheckSink(r)
        PROVE  AcknowledgedIsReadable'
    BY <2>3 DEF CheckSink, AlreadyRecorded, ToolTypeOK, Job
  <2>4. ASSUME NEW r \in Reports, Commit(r)
        PROVE  AcknowledgedIsReadable'
    BY <2>4, NoVerdictAssumption DEF Commit, ToolTypeOK, Job
  <2>5. ASSUME NEW r \in Reports, CommitFails(r)
        PROVE  AcknowledgedIsReadable'
    BY <2>5 DEF CommitFails, ToolTypeOK, Job
  <2>6. ASSUME NEW s \in Sessions, KillSession(s)
        PROVE  AcknowledgedIsReadable'
    BY <2>6 DEF KillSession, JobsAfterKill, ToolTypeOK, Job
  <2>7. ToolTypeOK'
    BY ToolNextKeepsTypes
  <2>8. CASE UNCHANGED toolVars
    BY <2>7, <2>8 DEF toolVars
  <2>. QED
    BY <2>1, <2>2, <2>3, <2>4, <2>5, <2>6, <2>7, <2>8 DEF ToolNext, ToolStep
<1>3. AcknowledgedInv => AcknowledgedIsReadable
  BY DEF AcknowledgedInv
<1>. QED
  BY <1>1, <1>2, <1>3, PTL DEF ToolSpec

-------------------------------------------------------------------------------
(***************************************************************************)
(* Once a verdict is in the sink and no call is between its check and its  *)
(* write, no call ever replaces it, and none ever gets there again.        *)
(***************************************************************************)
THEOREM SettledVerdictIsFinal == ToolSpec => SettledVerdictStays
<1> DEFINE Settled == Readable(sink) /\ \A r \in Reports : job[r].pc # "writing"
           Kept == sink' = sink /\ \A r \in Reports : job'[r].pc # "writing"
<1>1. ToolTypeOK /\ [ToolNext]_toolVars => [Settled => Kept]_toolVars
  <2> SUFFICES ASSUME ToolTypeOK, Settled, ToolNext
               PROVE  Kept
    OBVIOUS
  <2>1. ASSUME NEW s \in Sessions, WriteReasons(s)
        PROVE  Kept
    BY <2>1 DEF WriteReasons
  <2>2. ASSUME NEW s \in Sessions, NEW r \in Reports, Invoke(r, s)
        PROVE  Kept
    BY <2>2 DEF Invoke, ToolTypeOK, Job
  <2>3. ASSUME NEW r \in Reports, CheckSink(r)
        PROVE  Kept
    BY <2>3 DEF CheckSink, AlreadyRecorded, ToolTypeOK, Job
  <2>4. ASSUME NEW r \in Reports, Commit(r) \/ CommitFails(r)
        PROVE  FALSE
    BY <2>4 DEF Commit, CommitFails
  <2>5. ASSUME NEW s \in Sessions, KillSession(s)
        PROVE  Kept
    BY <2>5 DEF KillSession, JobsAfterKill, ToolTypeOK, Job
  <2>. QED
    BY <2>1, <2>2, <2>3, <2>4, <2>5 DEF ToolNext, ToolStep
<1>. QED
  BY <1>1, ToolTypeCorrect, PTL DEF ToolSpec, SettledVerdictStays
===============================================================================
