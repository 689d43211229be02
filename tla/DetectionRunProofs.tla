-------------------------- MODULE DetectionRunProofs --------------------------
(***************************************************************************)
(* Proofs about DetectionRun, for any number of attempts, invocations and  *)
(* verdicts, with and without a timeout, orphans, direct writes of the     *)
(* sink, SIGTERM, and whether or not the tool's own eligibility check runs.*)
(***************************************************************************)
EXTENDS DetectionRun, ReportToolProofs

(***************************************************************************)
(* Type correctness.  The number of the attempt is only a session once one *)
(* has begun, and everything that uses it as one comes after that.         *)
(***************************************************************************)
InAttempt ==
    pc \in {"provision", "start", "running", "suppress", "read", "decide", "publish"}
        => attempt \in Sessions

TypeInv == TypeOK /\ InAttempt

\* The detector's variables.
LEMMA NextKeepsDetectorTypes ==
    ASSUME TypeInv, [Next]_vars
    PROVE  DetectorTypeOK' /\ InAttempt'
<1> USE AttemptsAssumption
    DEF TypeInv, TypeOK, InAttempt, DetectorTypeOK, PCs, EngineStates, Outcomes,
        Failures, Reasons, Sessions, detectorVars
<1>1. CASE BeginAttempt
  <2>1. attempt' \in Sessions
    BY <1>1 DEF BeginAttempt, CleanSink, MoreAttempts
  <2>2. interrupted' \in BOOLEAN /\ watcherFired' \in BOOLEAN /\ execErr' \in BOOLEAN
    BY <1>1, Zenon DEF BeginAttempt, CleanSink, MoreAttempts
  <2>3. pc' \in PCs /\ attemptCtx' \in {"live", "deadline", "cancelled"}
    BY <1>1 DEF BeginAttempt, CleanSink, MoreAttempts
  <2>4. UNCHANGED <<engine, readback, failure, outcome, overran, reason>>
    BY <1>1 DEF BeginAttempt, CleanSink, MoreAttempts
  <2>. QED
    BY <2>1, <2>2, <2>3, <2>4
<1>2. CASE Exhaust
  BY <1>2 DEF Exhaust
<1>3. CASE Provision
  <2>1. /\ interrupted' \in BOOLEAN
        /\ watcherFired' \in BOOLEAN
        /\ execErr' \in BOOLEAN
    BY <1>3, Zenon DEF Provision
  <2>2. pc' \in PCs /\ pc \in {"provision"}
    BY <1>3 DEF Provision
  <2>3. UNCHANGED <<attempt, engine, attemptCtx, readback, failure, outcome, overran, reason>>
    BY <1>3 DEF Provision
  <2>. QED
    BY <2>1, <2>2, <2>3
<1>4. CASE StartEngine
  <2>1. /\ interrupted' \in BOOLEAN
        /\ watcherFired' \in BOOLEAN
        /\ execErr' \in BOOLEAN
    BY <1>4, Zenon DEF StartEngine
  <2>2. pc' \in PCs /\ engine' \in EngineStates /\ pc \in {"start"}
    BY <1>4 DEF StartEngine
  <2>3. UNCHANGED <<attempt, attemptCtx, readback, failure, outcome, overran, reason>>
    BY <1>4 DEF StartEngine
  <2>. QED
    BY <2>1, <2>2, <2>3
<1>5. CASE Collect
  <2>1. execErr' \in BOOLEAN
    BY <1>5 DEF Collect
  <2>2. pc' \in PCs /\ pc = "running"
    BY <1>5 DEF Collect
  <2>3. UNCHANGED <<attempt, engine, attemptCtx, interrupted, watcherFired,
                    readback, failure, outcome, overran, reason>>
    BY <1>5 DEF Collect
  <2>. QED
    BY <2>1, <2>2, <2>3
<1>6. CASE Suppress
  <2>1. /\ interrupted' \in BOOLEAN
        /\ watcherFired' \in BOOLEAN
        /\ execErr' \in BOOLEAN
    BY <1>6, Zenon DEF Suppress
  <2>2. pc' \in PCs /\ pc = "suppress"
    BY <1>6 DEF Suppress
  <2>3. UNCHANGED <<attempt, engine, attemptCtx, readback, failure, outcome,
                    overran, reason>>
    BY <1>6 DEF Suppress
  <2>. QED
    BY <2>1, <2>2, <2>3
<1>7. CASE ReadSink
  BY <1>7 DEF ReadSink, ToolTypeOK
<1>8. CASE Decide
  <2>1. \E o \in Outcomes : outcome' = [outcome EXCEPT ![attempt] = o]
    BY <1>8 DEF Decide, Ends
  <2>2. UNCHANGED <<attempt, engine, attemptCtx, interrupted, watcherFired, execErr,
                    readback, overran, reason>>
    BY <1>8 DEF Decide, Ends
  <2>3. pc = "decide" /\ pc' \in PCs /\ failure' \in Failures
    BY <1>8 DEF Decide, Ends
  <2>. QED
    BY <2>1, <2>2, <2>3
<1>9. CASE Classify
  BY <1>9 DEF Classify
<1>10. CASE Publish
  BY <1>10 DEF Publish
<1>11. CASE UNCHANGED detectorVars
  BY <1>11
<1>12. CASE EngineExits
  BY <1>12 DEF EngineExits
<1>13. ASSUME NEW s \in Sessions, DirectWrite(s) \/ OrphansExit(s)
       PROVE  DetectorTypeOK' /\ InAttempt'
  BY <1>13, <1>11 DEF DirectWrite, OrphansExit
<1>14. CASE WatcherTick
  BY <1>14 DEF WatcherTick
<1>15. CASE Deadline
  BY <1>15 DEF Deadline
<1>16. CASE KillGroup
  BY <1>16 DEF KillGroup
<1>17. CASE Interrupt
  BY <1>17 DEF Interrupt
<1>18. CASE Terminate
  BY <1>18 DEF Terminate
<1>. QED
  BY <1>1, <1>2, <1>3, <1>4, <1>5, <1>6, <1>7, <1>8, <1>9, <1>10, <1>11,
     <1>12, <1>13, <1>14, <1>15, <1>16, <1>17, <1>18
  DEF Next, DetectorStep, EngineStep, vars

\* The variables of the tool: most steps leave them alone, or change one.
LEMMA NextKeepsToolTypes ==
    ASSUME TypeInv, [Next]_vars
    PROVE  ToolTypeOK'
<1> USE DEF TypeInv, TypeOK
<1>1. CASE BeginAttempt
  BY <1>1 DEF BeginAttempt, CleanSink, MoreAttempts, ToolTypeOK
<1>2. CASE Provision
  <2>1. reasonsFile' \in 0 .. Attempts
    BY <1>2, AttemptsAssumption DEF Provision, ToolTypeOK, Nobody
  <2>2. installed' \subseteq Sessions
    BY <1>2 DEF Provision, ToolTypeOK, InAttempt
  <2>. QED
    BY <1>2, <2>1, <2>2 DEF Provision, ToolTypeOK
<1>3. CASE StartEngine
  BY <1>3 DEF StartEngine, ToolTypeOK, InAttempt
<1>4. CASE Classify \/ Publish
  BY <1>4 DEF Classify, Publish, CleanSink, ToolTypeOK
<1>5. CASE ToolStep
  BY <1>5, ToolStepKeepsTypes
<1>6. CASE EngineExits
  BY <1>6 DEF EngineExits, ToolTypeOK
<1>7. ASSUME NEW s \in Sessions, OrphansExit(s)
      PROVE  ToolTypeOK'
  BY <1>7 DEF OrphansExit, ToolTypeOK
<1>8. ASSUME NEW s \in Sessions, DirectWrite(s)
      PROVE  ToolTypeOK'
  BY <1>8, AttemptsAssumption
  DEF DirectWrite, ToolTypeOK, Record, Sessions, Nobody
<1>9. CASE KillGroup
  BY <1>9, KillKeepsJobs DEF KillGroup, SignalGroup, ToolTypeOK
<1>10. CASE Suppress
  BY <1>10 DEF Suppress, ToolTypeOK
<1>11. CASE UNCHANGED toolVars
  BY <1>11 DEF toolVars, ToolTypeOK
<1>. QED
  BY <1>1, <1>2, <1>3, <1>4, <1>5, <1>6, <1>7, <1>8, <1>9, <1>10, <1>11
  DEF Next, DetectorStep, EngineStep, vars, Exhaust, Collect, ReadSink,
      Decide, Ends, WatcherTick, Deadline, Interrupt, Terminate

LEMMA InitHasTypes == ASSUME Init PROVE TypeInv
<1>1. ToolTypeOK
  BY AttemptsAssumption DEF Init, SharedInit, ToolTypeOK, Job, Sessions, Nobody
<1>2. DetectorTypeOK
  <2>1. interrupted \in BOOLEAN /\ watcherFired \in BOOLEAN /\ execErr \in BOOLEAN
    BY Zenon DEF Init
  <2>2. outcome \in [Sessions -> Outcomes]
    BY DEF Init, Outcomes
  <2>. QED
    BY <2>1, <2>2, AttemptsAssumption
    DEF Init, DetectorTypeOK, PCs, EngineStates, Failures, Reasons
<1>3. InAttempt
  BY DEF Init, InAttempt
<1>. QED
  BY <1>1, <1>2, <1>3 DEF TypeInv, TypeOK

(***************************************************************************)
(* Type correctness of a whole run.                                        *)
(***************************************************************************)
THEOREM RunTypeCorrect == Spec => []TypeOK
<1>1. Init => TypeInv
  BY InitHasTypes
<1>2. TypeInv /\ [Next]_vars => TypeInv'
  BY NextKeepsToolTypes, NextKeepsDetectorTypes DEF TypeInv, TypeOK
<1>3. TypeInv => TypeOK
  BY DEF TypeInv
<1>. QED
  BY <1>1, <1>2, <1>3, PTL DEF Spec

-------------------------------------------------------------------------------
(***************************************************************************)
(* The inductive invariant behind the other theorems.  Each conjunct says  *)
(* what a later step relies on after the fact was established:             *)
(***************************************************************************)

\* the detector decides on a copy of the sink that other processes may since
\* have replaced, so the copy and the sink both descend from an offer;
ReadingsWereOffered ==
    /\ Readable(sink) => sink.verdict \in offered
    /\ Readable(readback) => readback.verdict \in offered

\* a run that publishes accepted what it publishes, and has not read again;
PublishedWasAccepted ==
    pc = "publish" \/ reason = "result_recorded" => Accepts

\* the reason is the last thing that is decided;
ReasonEndsRun == reason # "none" => pc = "done"

\* only a detector that waits for the engine, or was killed then, has one;
EngineIsAwaited == engine = "running" => pc \in {"running", "dead"}

\* an interrupt reaches the context of the attempt, and of every later one;
InterruptReachesAttempt == interrupted => attemptCtx # "live"

\* and only SIGTERM kills the detector.
OnlySigTermKills == pc = "dead" => SigTerm

RunInv ==
    /\ ReadingsWereOffered
    /\ PublishedWasAccepted
    /\ ReasonEndsRun
    /\ EngineIsAwaited
    /\ InterruptReachesAttempt
    /\ OnlySigTermKills

\* What the tool writes was offered, and it writes nothing else the run reads.
LEMMA ToolStepOffers ==
    ASSUME ToolTypeOK, ReadingsWereOffered, ToolStep, UNCHANGED readback
    PROVE  ReadingsWereOffered'
<1> USE DEF ReadingsWereOffered, Readable
<1>1. ASSUME NEW s \in Sessions, WriteReasons(s)
      PROVE  ReadingsWereOffered'
  BY <1>1 DEF WriteReasons
<1>2. ASSUME NEW s \in Sessions, NEW r \in Reports, Invoke(r, s)
      PROVE  ReadingsWereOffered'
  BY <1>2 DEF Invoke
<1>3. ASSUME NEW r \in Reports, CheckSink(r) \/ CommitFails(r)
      PROVE  ReadingsWereOffered'
  BY <1>3 DEF CheckSink, CommitFails
<1>4. ASSUME NEW r \in Reports, Commit(r)
      PROVE  ReadingsWereOffered'
  BY <1>4 DEF Commit
<1>. QED
  BY <1>1, <1>2, <1>3, <1>4 DEF ToolStep

\* One step per action, and only what the action can disturb.
LEMMA NextKeepsRunInv ==
    ASSUME TypeInv, RunInv, [Next]_vars
    PROVE  RunInv'
<1> USE DEF RunInv, PublishedWasAccepted, ReasonEndsRun, EngineIsAwaited,
            InterruptReachesAttempt, OnlySigTermKills, Accepts
<1>f. ASSUME UNCHANGED <<sink, offered, readback>> PROVE ReadingsWereOffered'
  BY <1>f DEF ReadingsWereOffered, Readable
<1>1. CASE BeginAttempt
  <2>1. ReadingsWereOffered'
    BY <1>1 DEF BeginAttempt, CleanSink, MoreAttempts, ReadingsWereOffered, Readable
  <2>2. interrupted' => attemptCtx' # "live"
    BY <1>1, Zenon DEF BeginAttempt, CleanSink, MoreAttempts
  <2>. QED
    BY <1>1, <2>1, <2>2 DEF BeginAttempt, CleanSink, MoreAttempts
<1>2. CASE Exhaust
  BY <1>2, <1>f DEF Exhaust, toolVars
<1>3. CASE Provision
  BY <1>3, <1>f DEF Provision
<1>4. CASE StartEngine
  BY <1>4, <1>f DEF StartEngine
<1>5. CASE Collect
  BY <1>5, <1>f DEF Collect, Collected, toolVars
<1>6. CASE Suppress
  BY <1>6, <1>f DEF Suppress, toolVars
<1>7. CASE ReadSink
  BY <1>7 DEF ReadSink, ReadingsWereOffered, Readable, toolVars
<1>8. CASE Decide
  BY <1>8, <1>f DEF Decide, Ends, toolVars
<1>9. CASE Classify
  BY <1>9 DEF Classify, CleanSink, ReadingsWereOffered, Readable, TypeInv, TypeOK,
              DetectorTypeOK, Failures
<1>10. CASE Publish
  BY <1>10 DEF Publish, CleanSink, ReadingsWereOffered, Readable
<1>11. CASE ToolStep /\ UNCHANGED detectorVars
  BY <1>11, ToolStepOffers DEF detectorVars, TypeInv, TypeOK
<1>12. CASE EngineExits
  BY <1>12, <1>f DEF EngineExits
<1>13. ASSUME NEW s \in Sessions, OrphansExit(s)
       PROVE  RunInv'
  BY <1>13, <1>f DEF OrphansExit, detectorVars
<1>14. ASSUME NEW s \in Sessions, DirectWrite(s)
       PROVE  RunInv'
  <2>1. ReadingsWereOffered'
    BY <1>14 DEF DirectWrite, detectorVars, ReadingsWereOffered, Readable
  <2>. QED
    BY <1>14, <2>1 DEF DirectWrite, detectorVars
<1>15. CASE WatcherTick
  BY <1>15, <1>f DEF WatcherTick, toolVars
<1>16. CASE Deadline
  BY <1>16, <1>f DEF Deadline, toolVars
<1>17. CASE KillGroup
  BY <1>17, <1>f DEF KillGroup
<1>18. CASE Interrupt
  BY <1>18, <1>f DEF Interrupt, Over, toolVars
<1>19. CASE Terminate
  BY <1>19, <1>f DEF Terminate, Over, toolVars
<1>20. CASE UNCHANGED vars
  BY <1>20, <1>f DEF vars, toolVars, detectorVars
<1>. QED
  BY <1>1, <1>2, <1>3, <1>4, <1>5, <1>6, <1>7, <1>8, <1>9, <1>10, <1>11,
     <1>12, <1>13, <1>14, <1>15, <1>16, <1>17, <1>18, <1>19, <1>20
  DEF Next, DetectorStep, EngineStep

LEMMA InitHasRunInv == ASSUME Init PROVE RunInv
BY DEF Init, SharedInit, RunInv, ReadingsWereOffered, PublishedWasAccepted,
       ReasonEndsRun, EngineIsAwaited, InterruptReachesAttempt, OnlySigTermKills,
       Readable

LEMMA RunInvAlways == Spec => [](TypeInv /\ RunInv)
<1>1. Init => TypeInv /\ RunInv
  BY InitHasTypes, InitHasRunInv
<1>2. TypeInv /\ RunInv /\ [Next]_vars => TypeInv' /\ RunInv'
  BY NextKeepsToolTypes, NextKeepsDetectorTypes, NextKeepsRunInv DEF TypeInv, TypeOK
<1>. QED
  BY <1>1, <1>2, PTL DEF Spec

-------------------------------------------------------------------------------
(***************************************************************************)
(* The verdict of a run was really written to the sink and is eligible,    *)
(* even where the tool's own check is skipped and the engine writes the    *)
(* sink by hand.                                                           *)
(***************************************************************************)
THEOREM VerdictIsGenuine == Spec => []RecordedIsGenuine
<1>1. RunInv => RecordedIsGenuine
  BY DEF RunInv, ReadingsWereOffered, PublishedWasAccepted, RecordedIsGenuine, Accepts
<1>. QED
  BY <1>1, RunInvAlways, PTL

(***************************************************************************)
(* Without SIGTERM the detector never ends while its engine runs: every    *)
(* way out of the call waits for the process.                              *)
(***************************************************************************)
THEOREM EngineNeverLeftBehind ==
    ASSUME SigTerm = FALSE
    PROVE  Spec => []NoEngineLeftBehind
<1>1. RunInv => NoEngineLeftBehind
  BY SigTerm = FALSE
  DEF RunInv, EngineIsAwaited, OnlySigTermKills, NoEngineLeftBehind, Over
<1>. QED
  BY <1>1, RunInvAlways, PTL

(***************************************************************************)
(* Once the run is interrupted no engine starts: the interrupt is already  *)
(* in the context of the attempt, or the next attempt inherits it.         *)
(***************************************************************************)
THEOREM InterruptStartsNothing == Spec => NoEngineAfterInterrupt
<1>1. RunInv /\ [Next]_vars
        => [interrupted /\ engine # "running" => engine' # "running"]_vars
  <2> SUFFICES ASSUME RunInv, Next, interrupted, engine # "running"
               PROVE  engine' # "running"
    OBVIOUS
  <2>1. ~MayStart
    BY DEF RunInv, InterruptReachesAttempt, MayStart, RunCtxDone
  <2>2. CASE StartEngine
    BY <2>1, <2>2 DEF StartEngine
  <2>3. CASE EngineExits \/ KillGroup
    BY <2>3 DEF EngineExits, KillGroup
  <2>4. CASE UNCHANGED engine
    BY <2>4
  <2>. QED
    BY <2>2, <2>3, <2>4
    DEF Next, DetectorStep, EngineStep, BeginAttempt, Exhaust, Provision, Collect,
        Suppress, ReadSink, Decide, Ends, Classify, Publish, OrphansExit, DirectWrite,
        detectorVars, WatcherTick, Deadline, Interrupt, Terminate
<1>. QED
  BY <1>1, RunInvAlways, PTL DEF Spec, NoEngineAfterInterrupt

-------------------------------------------------------------------------------
(***************************************************************************)
(* A run implements VerdictRun.                                            *)
(***************************************************************************)
\* A tool step offers at most one verdict and is otherwise invisible.
LEMMA ToolStepIsOfferOrStutter ==
    ASSUME ToolTypeOK, ToolStep
    PROVE  UNCHANGED offered \/ \E v \in Verdicts : offered' = offered \cup {v}
<1>1. ASSUME NEW r \in Reports, Commit(r)
      PROVE  \E v \in Verdicts : offered' = offered \cup {v}
  <2>1. job[r].rec.verdict \in Verdicts
    BY <1>1 DEF Commit, ToolTypeOK, Job, Record
  <2>. QED
    BY <1>1, <2>1 DEF Commit
<1>. QED
  BY <1>1 DEF ToolStep, WriteReasons, Invoke, CheckSink, CommitFails

THEOREM RunImplementsVerdictRun == Spec => ImplementsVerdictRun
<1>1. Init => Promise!Init
  BY DEF Init, SharedInit, Promise!Init
<1>2. TypeInv /\ RunInv /\ [Next]_vars => [Promise!Next]_(Promise!vars)
  <2> SUFFICES ASSUME TypeInv, RunInv, [Next]_vars
               PROVE  Promise!Next \/ UNCHANGED Promise!vars
    OBVIOUS
  <2> USE DEF Promise!vars, Promise!Next
  <2>1. CASE StartEngine
    <3>1. reason = "none" /\ engine # "running"
      BY <2>1 DEF StartEngine, RunInv, ReasonEndsRun, EngineIsAwaited
    <3>. QED
      BY <2>1, <3>1 DEF StartEngine, Promise!StartEngine
  <2>2. CASE EngineExits
    BY <2>2 DEF EngineExits, Promise!StopEngine
  <2>3. CASE KillGroup
    BY <2>3 DEF KillGroup, Promise!StopEngine
  <2>4. CASE ToolStep /\ UNCHANGED detectorVars
    BY <2>4, ToolStepIsOfferOrStutter DEF TypeInv, TypeOK, detectorVars, Promise!Offer
  <2>5. CASE Publish
    <3>1. /\ reason = "none"
          /\ engine # "running"
          /\ readback.verdict \in offered \cap Eligible
      BY <2>5 DEF Publish, RunInv, ReasonEndsRun, EngineIsAwaited,
                  PublishedWasAccepted, ReadingsWereOffered, Accepts
    <3>. QED
      BY <2>5, <3>1 DEF Publish, Promise!Decide
  <2>6. CASE Classify
    <3>1. /\ reason = "none"
          /\ engine # "running"
          /\ reason' # "result_recorded"
      BY <2>6 DEF Classify, CleanSink, RunInv, ReasonEndsRun, EngineIsAwaited, TypeInv, TypeOK,
                  DetectorTypeOK, Failures
    <3>. QED
      BY <2>6, <3>1 DEF Classify, CleanSink, Promise!Decide
  <2>7. CASE ReadSink
    <3>1. reason = "none"
      BY <2>7 DEF ReadSink, RunInv, ReasonEndsRun
    <3>. QED
      BY <2>7, <3>1 DEF ReadSink, toolVars
  <2>8. ASSUME NEW s \in Sessions, DirectWrite(s)
        PROVE  Promise!Next \/ UNCHANGED Promise!vars
    BY <2>8 DEF DirectWrite, detectorVars, Promise!Offer
  <2>9. CASE UNCHANGED <<engine, offered, reason, readback>>
    BY <2>9
  <2>. QED
    BY <2>1, <2>2, <2>3, <2>4, <2>5, <2>6, <2>7, <2>8, <2>9
    DEF Next, DetectorStep, EngineStep, BeginAttempt, Exhaust, Provision, Collect,
        Suppress, Decide, Ends, OrphansExit, WatcherTick, Deadline, Interrupt,
        Terminate, vars, toolVars, detectorVars
<1>. QED
  BY <1>1, <1>2, RunInvAlways, PTL DEF Spec, ImplementsVerdictRun, Promise!Spec
===============================================================================
