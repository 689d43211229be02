----------------------------- MODULE AttemptProofs -----------------------------
(***************************************************************************)
(* Proofs about the attempts of DetectionRun when the engine reports only  *)
(* through the tool: what a timeout leaves behind, and, when an engine     *)
(* leaves no descendants, that attempts do not mix and no acknowledged     *)
(* verdict is lost.  For any number of attempts, invocations and verdicts. *)
(***************************************************************************)
EXTENDS DetectionRunProofs

\* What Invoke makes of call r: a verdict, and reasons of one of three authors.
Invoked(r, s, v, w) ==
    /\ job[r].pc = "idle"
    /\ job' = [job EXCEPT ![r] =
                 [pc  |-> IF Valid(v, w) THEN "checking" ELSE "rejected",
                  rec |-> [verdict |-> v, session |-> s, reasons |-> w]]]
    /\ UNCHANGED <<sink, reasonsFile>>

\* What every step after it makes of a call that does not commit.
Moved(r, p) ==
    /\ job[r].pc \in {"checking", "writing"}
    /\ p = "writing" => job[r].pc = "checking" /\ ~Readable(sink)
    /\ job' = [job EXCEPT ![r].pc = p]
    /\ UNCHANGED <<sink, reasonsFile>>

\* What is left of Commit(r).
Committed(r) ==
    /\ job[r].pc = "writing"
    /\ sink' = job[r].rec
    /\ job' = [job EXCEPT ![r].pc = "recorded"]
    /\ UNCHANGED reasonsFile

\* A step of the tool has one of four forms.
LEMMA ToolForms ==
    ASSUME ToolStep
    PROVE  \/ \E s \in alive : reasonsFile' = s /\ UNCHANGED <<sink, job>>
           \/ \E s \in alive, r \in Reports, v \in Verdicts :
              \E w \in {Nobody, s, reasonsFile} : Invoked(r, s, v, w)
           \/ \E r \in Reports, p \in {"already", "writing", "failed"} : Moved(r, p)
           \/ \E r \in Reports : Committed(r)
<1>1. ASSUME NEW s \in Sessions, WriteReasons(s)
      PROVE  \E t \in alive : reasonsFile' = t /\ UNCHANGED <<sink, job>>
  BY <1>1, Zenon DEF WriteReasons
<1>2. ASSUME NEW s \in Sessions, NEW r \in Reports, Invoke(r, s)
      PROVE  s \in alive /\ \E v \in Verdicts : \E w \in {Nobody, s, reasonsFile} :
                               Invoked(r, s, v, w)
  <2>1. PICK v \in Verdicts : \E w \in ReasonsFor(v, s) : Invoked(r, s, v, w)
    BY <1>2, Zenon DEF Invoke, Invoked
  <2>2. ReasonsFor(v, s) \subseteq {Nobody, s, reasonsFile}
    BY DEF ReasonsFor
  <2>3. s \in alive
    BY <1>2 DEF Invoke
  <2>. QED
    BY <2>1, <2>2, <2>3, Zenon
<1>3. ASSUME NEW r \in Reports, CheckSink(r)
      PROVE  \E p \in {"already", "writing", "failed"} : Moved(r, p)
  <2>1. CASE Readable(sink)
    <3>1. Moved(r, "already")
      BY <1>3, <2>1 DEF CheckSink, AlreadyRecorded, Moved
    <3>. QED
      BY <3>1
  <2>2. CASE ~Readable(sink)
    <3>1. Moved(r, "writing")
      BY <1>3, <2>2 DEF CheckSink, AlreadyRecorded, Moved
    <3>. QED
      BY <3>1
  <2>. QED
    BY <2>1, <2>2
<1>4. ASSUME NEW r \in Reports, CommitFails(r)
      PROVE  \E p \in {"already", "writing", "failed"} : Moved(r, p)
  <2>1. Moved(r, "failed")
    BY <1>4 DEF CommitFails, Moved
  <2>. QED
    BY <2>1
<1>5. ASSUME NEW r \in Reports, Commit(r)
      PROVE  Committed(r)
  BY <1>5 DEF Commit, Committed
<1>6. CASE \E s \in Sessions : WriteReasons(s)
  BY <1>1, <1>6, Zenon
<1>7. CASE \E s \in Sessions : \E r \in Reports : Invoke(r, s)
  <2>1. PICK s \in Sessions, r \in Reports : Invoke(r, s)
    BY <1>7
  <2>. QED
    BY <1>2, <2>1
<1>8. CASE \E r \in Reports : CheckSink(r) \/ Commit(r) \/ CommitFails(r)
  BY <1>3, <1>4, <1>5, <1>8, Zenon
<1>. QED
  BY <1>6, <1>7, <1>8, Zenon DEF ToolStep

-------------------------------------------------------------------------------
(***************************************************************************)
(* Timeouts.                                                               *)
(***************************************************************************)
\* Within an attempt nobody takes a verdict out of the sink again.
LEMMA VerdictStaysInSink ==
    ASSUME TypeInv, DirectWrites = FALSE, [Next]_vars, Readable(sink),
           pc \notin {"loop", "classify", "publish"}
    PROVE  Readable(sink')
<1>1. CASE ToolStep
  <2>1. ToolTypeOK
    BY DEF TypeInv, TypeOK
  <2>2. ASSUME NEW r \in Reports, job[r].pc = "writing"
        PROVE  job[r].rec \in Record
    BY <2>1, <2>2 DEF ToolTypeOK, Job
  <2>3. sink' = sink \/ sink' \in Record
    BY <1>1, <2>2, ToolForms, Zenon DEF Invoked, Moved, Committed
  <2>. QED
    BY <2>3, NoVerdictAssumption DEF Readable
<1>2. CASE BeginAttempt \/ Classify \/ Publish
  BY <1>2 DEF BeginAttempt, Classify, Publish
<1>3. ASSUME NEW s \in Sessions, DirectWrite(s)
      PROVE  FALSE
  BY <1>3 DEF DirectWrite
<1>4. CASE UNCHANGED sink
  BY <1>4
<1>. QED
  BY <1>1, <1>2, <1>3, <1>4
  DEF Next, DetectorStep, EngineStep, Exhaust, Provision, StartEngine, Collect, Suppress,
      ReadSink, Decide, Ends, EngineExits, OrphansExit, WatcherTick, Deadline, KillGroup,
      Interrupt, Terminate, vars, toolVars

(***************************************************************************)
(* What an attempt killed at its deadline carries to the next step: the    *)
(* error of the kill, until a verdict that is in the sink takes its place. *)
(***************************************************************************)
OverranCarries ==
    /\ \A a \in overran : a <= attempt
    /\ \A a \in overran : a # attempt \/ pc = "loop" => outcome[a] = "ineligible"
    /\ attempt \in overran =>
          /\ pc \notin {"provision", "start"}
          /\ pc = "running" => engine = "killed"
          /\ pc = "suppress" => execErr
          /\ pc = "read" => execErr \/ Readable(sink)
          /\ pc = "decide" => execErr \/ Readable(readback)

LEMMA NextKeepsOverranCarries ==
    ASSUME TypeInv, RunInv, DirectWrites = FALSE, OverranCarries, [Next]_vars
    PROVE  OverranCarries'
<1> USE DEF OverranCarries
<1>0. /\ overran \subseteq Nat /\ attempt \in Nat
      /\ overran \subseteq Sessions /\ outcome \in [Sessions -> Outcomes]
  BY AttemptsAssumption DEF TypeInv, TypeOK, DetectorTypeOK, Sessions
<1>1. CASE BeginAttempt
  <2>1. /\ pc = "loop" /\ pc' = "provision" /\ attempt' = attempt + 1
        /\ UNCHANGED <<overran, outcome>>
    BY <1>1, Zenon DEF BeginAttempt
  <2>. QED
    BY <1>0, <2>1
<1>2. CASE Exhaust
  BY <1>2 DEF Exhaust
<1>3. CASE Provision \/ StartEngine
  <2>1. pc \in {"provision", "start"} /\ UNCHANGED <<overran, outcome, attempt>>
    BY <1>3 DEF Provision, StartEngine
  <2>2. attempt \notin overran
    BY <2>1
  <2>3. pc' # "loop"
    BY <1>3 DEF Provision, StartEngine
  <2>. QED
    BY <2>1, <2>2, <2>3
<1>4. CASE Collect
  <2>1. pc = "running" /\ pc' = "suppress" /\ UNCHANGED <<overran, outcome, attempt, engine>>
    BY <1>4, Zenon DEF Collect
  <2>2. engine = "killed" => execErr' = TRUE
    BY <1>4 DEF Collect
  <2>. QED
    BY <2>1, <2>2
<1>5. CASE Suppress
  <2>1. pc = "suppress" /\ pc' = "read" /\ UNCHANGED <<overran, outcome, attempt, sink>>
    BY <1>5, Zenon DEF Suppress
  <2>2. execErr => execErr' \/ Readable(sink)
    BY <1>5, Zenon DEF Suppress, DropsError
  <2>3. Readable(sink)' <=> Readable(sink)
    BY <2>1, Zenon DEF Readable
  <2>4. \A a \in overran : a # attempt => outcome[a] = "ineligible"
    OBVIOUS
  <2>5. attempt \in overran => execErr
    BY <2>1, Zenon
  <2>6. attempt' \in overran' => execErr' \/ Readable(sink')
    BY <2>1, <2>2, <2>5, Zenon
  <2>. QED
    BY <1>0, <2>1, <2>4, <2>6
<1>6. CASE ReadSink
  <2>1. /\ pc = "read" /\ pc' = "decide" /\ readback' = sink
        /\ UNCHANGED <<overran, outcome, attempt, execErr>>
    BY <1>6, Zenon DEF ReadSink
  <2>2. attempt \in overran => execErr \/ Readable(sink)
    BY <2>1, Zenon
  <2>. QED
    BY <2>1, <2>2
<1>7. CASE Decide
  <2>1. pc = "decide" /\ attempt \in Sessions
    BY <1>7 DEF Decide, TypeInv, InAttempt
  <2>2. UNCHANGED <<overran, attempt>>
    BY <1>7 DEF Decide, Ends
  <2>3. \A a \in Sessions : a # attempt => outcome'[a] = outcome[a]
    BY <1>0, <1>7 DEF Decide, Ends
  <2>4. pc' = "loop" => /\ ~execErr
                        /\ outcome' = [outcome EXCEPT ![attempt] =
                              IF Readable(readback) THEN "ineligible" ELSE "no_verdict"]
    BY <1>7 DEF Decide, Ends, EngineFails
  <2>5. pc' = "loop" /\ attempt \in overran => outcome'[attempt] = "ineligible"
    BY <1>0, <2>1, <2>4
  <2>6. pc' \in {"publish", "classify", "loop"}
    BY <1>7 DEF Decide, Ends
  <2>. QED
    BY <1>0, <2>1, <2>2, <2>3, <2>5, <2>6
<1>8. CASE KillGroup
  <2>1. /\ pc = "running" /\ engine' \in {"killed", engine} /\ engine \in {"running", "exit0", "exit1"}
        /\ UNCHANGED <<pc, attempt, outcome>>
        /\ overran' \in {overran, overran \cup {attempt}}
    BY <1>8 DEF KillGroup
  <2>2. engine = "running" => engine' = "killed"
    BY <1>8 DEF KillGroup
  <2>3. engine # "running" => overran' = overran
    BY <1>8, Zenon DEF KillGroup
  <2>4. attempt \notin overran
    BY <2>1
  <2>. QED
    BY <1>0, <2>1, <2>2, <2>3, <2>4
<1>9. CASE EngineExits
  <2>1. /\ engine = "running"
        /\ UNCHANGED <<pc, attempt, outcome, overran, execErr, readback, sink>>
    BY <1>9, Zenon DEF EngineExits
  <2>2. pc \in {"running", "dead"}
    BY <2>1 DEF RunInv, EngineIsAwaited
  <2>. QED
    BY <2>1, <2>2
<1>10. CASE Classify \/ Publish \/ Terminate
  <2>1. pc' \in {"done", "dead"} /\ UNCHANGED <<attempt, outcome, overran>>
    BY <1>10 DEF Classify, Publish, Terminate
  <2>2. pc # "loop" \/ pc = "loop"
    OBVIOUS
  <2>. QED
    BY <2>1
<1>11. CASE UNCHANGED <<pc, attempt, engine, execErr, readback, outcome, overran>>
  <2>1. pc = "read" /\ Readable(sink) => Readable(sink')
    BY VerdictStaysInSink
  <2>. QED
    BY <1>11, <2>1
<1>. QED
  BY <1>1, <1>2, <1>3, <1>4, <1>5, <1>6, <1>7, <1>8, <1>9, <1>10, <1>11, Zenon
  DEF Next, DetectorStep, EngineStep, DirectWrite, OrphansExit, WatcherTick, Deadline,
      Interrupt, vars, detectorVars

LEMMA InitOverranCarries == ASSUME Init PROVE OverranCarries
BY DEF Init, OverranCarries

(***************************************************************************)
(* A timeout is retried for one reason only: a verdict was in the sink,    *)
(* took the place of the kill's error, and was then not eligible           *)
(* (engine.go:643-648, main.go:744-757).                                   *)
(***************************************************************************)
THEOREM OnlyIneligibleIsRetriedLate ==
    ASSUME DirectWrites = FALSE
    PROVE  Spec => []LateRetryOnlyAfterIneligible
<1>1. Init => OverranCarries
  BY InitOverranCarries
<1>2. TypeInv /\ RunInv /\ OverranCarries /\ [Next]_vars => OverranCarries'
  BY DirectWrites = FALSE, NextKeepsOverranCarries
<1>3. OverranCarries => LateRetryOnlyAfterIneligible
  BY Zenon DEF OverranCarries, LateRetryOnlyAfterIneligible
<1>. QED
  BY <1>1, <1>2, <1>3, RunInvAlways, PTL DEF Spec
(***************************************************************************)
(* While the eligibility variables reach the tool, it commits nothing else *)
(* and the detector reads nothing else, so that no attempt can be rejected *)
(* as ineligible.                                                          *)
(***************************************************************************)
OnlyEligible ==
    /\ \A r \in Reports : job[r].pc \in {"checking", "writing"} =>
          job[r].rec.verdict \in Eligible
    /\ Readable(sink) => sink.verdict \in Eligible
    /\ Readable(readback) => readback.verdict \in Eligible
    /\ \A a \in Sessions : outcome[a] # "ineligible"

LEMMA ToolKeepsEligible ==
    ASSUME ToolTypeOK, OnlyEligible, EnvDropped = FALSE, ToolStep
    PROVE  /\ \A r \in Reports : job'[r].pc \in {"checking", "writing"} =>
                 job'[r].rec.verdict \in Eligible
           /\ Readable(sink') => sink'.verdict \in Eligible
<1>0. job \in [Reports -> Job]
  BY DEF ToolTypeOK
<1>1. ASSUME NEW s \in alive, NEW r \in Reports, NEW v \in Verdicts,
             NEW w \in {Nobody, s, reasonsFile}, Invoked(r, s, v, w)
      PROVE  \A q \in Reports : job'[q].pc \in {"checking", "writing"} =>
                job'[q].rec.verdict \in Eligible
  <2>1. Valid(v, w) => v \in Eligible
    BY EnvDropped = FALSE DEF Valid, EligibleByEnv
  <2>2. job'[r].pc \in {"checking", "writing"} => v \in Eligible
    BY <1>0, <1>1, <2>1 DEF Invoked
  <2>3. job'[r].rec.verdict = v
    BY <1>0, <1>1 DEF Invoked
  <2>4. \A q \in Reports : q # r => job'[q] = job[q]
    BY <1>0, <1>1 DEF Invoked
  <2>. QED
    BY <2>2, <2>3, <2>4 DEF OnlyEligible
<1>2. ASSUME NEW r \in Reports, NEW p \in {"already", "writing", "failed"}, Moved(r, p)
      PROVE  \A q \in Reports : job'[q].pc \in {"checking", "writing"} =>
                job'[q].rec.verdict \in Eligible
  BY <1>0, <1>2 DEF Moved, OnlyEligible, Job
<1>3. ASSUME NEW r \in Reports, Committed(r)
      PROVE  /\ \A q \in Reports : job'[q].pc \in {"checking", "writing"} =>
                   job'[q].rec.verdict \in Eligible
             /\ sink'.verdict \in Eligible
  BY <1>0, <1>3 DEF Committed, OnlyEligible, Job
<1>4. CASE \E s \in alive : reasonsFile' = s /\ UNCHANGED <<sink, job>>
  BY <1>4 DEF OnlyEligible
<1>5. CASE \E s \in alive, r \in Reports, v \in Verdicts :
           \E w \in {Nobody, s, reasonsFile} : Invoked(r, s, v, w)
  <2>1. PICK s \in alive, r \in Reports, v \in Verdicts :
           \E w \in {Nobody, s, reasonsFile} : Invoked(r, s, v, w)
    BY <1>5
  <2>2. sink' = sink
    BY <2>1 DEF Invoked
  <2>. QED
    BY <1>1, <2>1, <2>2 DEF OnlyEligible
<1>6. CASE \E r \in Reports, p \in {"already", "writing", "failed"} : Moved(r, p)
  <2>1. sink' = sink
    BY <1>6 DEF Moved
  <2>. QED
    BY <1>2, <1>6, <2>1 DEF OnlyEligible
<1>7. CASE \E r \in Reports : Committed(r)
  BY <1>3, <1>7
<1>. QED
  BY <1>4, <1>5, <1>6, <1>7, ToolForms

LEMMA NextKeepsOnlyEligible ==
    ASSUME TypeInv, EnvDropped = FALSE, DirectWrites = FALSE, OnlyEligible, [Next]_vars
    PROVE  OnlyEligible'
<1> USE DEF OnlyEligible, Readable
<1>1. CASE BeginAttempt \/ Classify \/ Publish
  BY <1>1 DEF BeginAttempt, Classify, Publish, CleanSink
<1>2. CASE ReadSink
  BY <1>2 DEF ReadSink, toolVars
<1>3. CASE Decide
  <2>1. \E o \in Outcomes \ {"ineligible"} : outcome' = [outcome EXCEPT ![attempt] = o]
    BY <1>3 DEF Decide, Ends, Outcomes, Accepts
  <2>2. outcome \in [Sessions -> Outcomes]
    BY DEF TypeInv, TypeOK, DetectorTypeOK
  <2>3. UNCHANGED <<job, sink, readback>>
    BY <1>3 DEF Decide, Ends, toolVars
  <2>. QED
    BY <2>1, <2>2, <2>3
<1>4. CASE ToolStep /\ UNCHANGED detectorVars
  <2>1. UNCHANGED <<readback, outcome>>
    BY <1>4 DEF detectorVars
  <2>2. ToolTypeOK
    BY DEF TypeInv, TypeOK
  <2>. QED
    BY <1>4, <2>1, <2>2, ToolKeepsEligible
<1>5. CASE KillGroup
  <2>1. \A r \in Reports : /\ job'[r].pc \in {job[r].pc, "killed"}
                           /\ job'[r].rec = job[r].rec
    <3>1. job \in [Reports -> Job]
      BY DEF TypeInv, TypeOK, ToolTypeOK
    <3>. QED
      BY <1>5, <3>1 DEF KillGroup, SignalGroup, JobsAfterKill, Job
  <2>2. UNCHANGED <<sink, readback, outcome>>
    BY <1>5 DEF KillGroup
  <2>. QED
    BY <2>1, <2>2
<1>6. ASSUME NEW s \in Sessions, DirectWrite(s)
      PROVE  FALSE
  BY <1>6 DEF DirectWrite
<1>7. CASE UNCHANGED <<job, sink, readback, outcome>>
  BY <1>7
<1>. QED
  BY <1>1, <1>2, <1>3, <1>4, <1>5, <1>6, <1>7
  DEF Next, DetectorStep, EngineStep, Exhaust, Provision, StartEngine, Collect, Suppress,
      EngineExits, OrphansExit, WatcherTick, Deadline, Interrupt, Terminate, vars,
      toolVars, detectorVars

(***************************************************************************)
(* A wall-clock timeout is terminal (main.go:94) while the eligibility     *)
(* variables reach the tool and the engine reports only through it.        *)
(***************************************************************************)
THEOREM TimeoutEndsRun ==
    ASSUME DirectWrites = FALSE, EnvDropped = FALSE
    PROVE  Spec => []TimeoutIsTerminal
<1>1. Init => OverranCarries /\ OnlyEligible
  <2>1. ASSUME Init PROVE OnlyEligible
    BY <2>1 DEF Init, SharedInit, OnlyEligible, Readable
  <2>. QED
    BY <2>1, InitOverranCarries
<1>2. TypeInv /\ RunInv /\ OverranCarries /\ OnlyEligible /\ [Next]_vars
        => OverranCarries' /\ OnlyEligible'
  BY DirectWrites = FALSE, EnvDropped = FALSE, NextKeepsOverranCarries,
     NextKeepsOnlyEligible
<1>3. TypeInv /\ OverranCarries /\ OnlyEligible => TimeoutIsTerminal
  BY DEF TypeInv, TypeOK, DetectorTypeOK, OverranCarries, OnlyEligible, TimeoutIsTerminal
<1>. QED
  BY <1>1, <1>2, <1>3, RunInvAlways, PTL DEF Spec

-------------------------------------------------------------------------------
(***************************************************************************)
(* Attempts do not mix.  While an engine takes its descendants with it,    *)
(* everything alive, every call in progress, the reasons file and the sink *)
(* belong to the attempt that runs now:                                    *)
(***************************************************************************)
\* only the engine of this attempt has processes, and only while it runs;
OwnDescendants ==
    /\ alive \subseteq {attempt}
    /\ alive # {} => engine = "running"

\* a call in progress is one of theirs and took its reasons from this attempt;
OwnCalls ==
    \A r \in Reports : job[r].pc \in {"checking", "writing"} =>
        /\ job[r].rec.session \in alive
        /\ job[r].rec.reasons \in {Nobody, attempt}

\* since provisioning, nobody else wrote the reasons file;
OwnReasons ==
    engine = "running" \/ pc = "start" => reasonsFile \in {Nobody, attempt}

\* and what is in the sink was reported and argued in this attempt.
OwnSink ==
    Readable(sink) => /\ sink.session = attempt
                      /\ sink.reasons \in {Nobody, attempt}

Apart == OwnDescendants /\ OwnCalls /\ OwnReasons /\ OwnSink

\* Without an engine there is no call in progress.
LEMMA NoEngineNoCalls ==
    ASSUME Apart, engine # "running"
    PROVE  alive = {} /\ \A r \in Reports : job[r].pc \notin {"checking", "writing"}
BY DEF Apart, OwnDescendants, OwnCalls

LEMMA ToolKeepsApart ==
    ASSUME ToolTypeOK, Apart, ToolStep, UNCHANGED detectorVars
    PROVE  Apart'
<1>0. job \in [Reports -> Job] /\ UNCHANGED <<alive, pc, attempt, engine>>
  BY DEF ToolTypeOK, ToolStep, WriteReasons, Invoke, CheckSink, Commit, CommitFails,
         detectorVars
<1>1. OwnDescendants'
  BY <1>0 DEF Apart, OwnDescendants
<1> USE DEF Apart
<1>2. CASE \E s \in alive : reasonsFile' = s /\ UNCHANGED <<sink, job>>
  <2>1. reasonsFile' = attempt
    BY <1>2 DEF OwnDescendants
  <2>2. OwnCalls' /\ OwnSink'
    BY <1>0, <1>2 DEF OwnCalls, OwnSink, Readable
  <2>. QED
    BY <1>0, <1>1, <2>1, <2>2 DEF OwnReasons
<1>3. ASSUME NEW s \in alive, NEW r \in Reports, NEW v \in Verdicts,
             NEW w \in {Nobody, s, reasonsFile}, Invoked(r, s, v, w)
      PROVE  Apart'
  <2>1. s = attempt /\ engine = "running" /\ w \in {Nobody, attempt}
    BY DEF OwnDescendants, OwnReasons
  <2>2. job'[r].rec.session = s /\ job'[r].rec.reasons = w
    BY <1>0, <1>3 DEF Invoked
  <2>3. \A q \in Reports : q # r => job'[q] = job[q]
    BY <1>0, <1>3 DEF Invoked
  <2>4. OwnCalls'
    BY <1>0, <2>1, <2>2, <2>3 DEF OwnCalls
  <2>5. UNCHANGED <<sink, reasonsFile>>
    BY <1>3 DEF Invoked
  <2>. QED
    BY <1>0, <1>1, <2>4, <2>5 DEF OwnReasons, OwnSink, Readable
<1>4. ASSUME NEW r \in Reports, NEW p \in {"already", "writing", "failed"}, Moved(r, p)
      PROVE  Apart'
  <2>1. OwnCalls'
    BY <1>0, <1>4 DEF Moved, OwnCalls, Job
  <2>2. UNCHANGED <<sink, reasonsFile>>
    BY <1>4 DEF Moved
  <2>. QED
    BY <1>0, <1>1, <2>1, <2>2 DEF OwnReasons, OwnSink, Readable
<1>5. ASSUME NEW r \in Reports, Committed(r)
      PROVE  Apart'
  <2>1. OwnCalls'
    BY <1>0, <1>5 DEF Committed, OwnCalls, Job
  <2>2. sink'.session = attempt /\ sink'.reasons \in {Nobody, attempt}
    BY <1>5 DEF Committed, OwnCalls, OwnDescendants
  <2>3. UNCHANGED reasonsFile
    BY <1>5 DEF Committed
  <2>. QED
    BY <1>0, <1>1, <2>1, <2>2, <2>3 DEF OwnReasons, OwnSink
<1>6. CASE \E s \in alive, r \in Reports, v \in Verdicts :
           \E w \in {Nobody, s, reasonsFile} : Invoked(r, s, v, w)
  BY <1>3, <1>6
<1>. QED
  BY <1>2, <1>4, <1>5, <1>6, ToolForms

LEMMA NextKeepsApart ==
    ASSUME TypeInv, RunInv, Orphans = FALSE, DirectWrites = FALSE, Apart, [Next]_vars
    PROVE  Apart'
<1> USE DEF Apart
<1>0. /\ job \in [Reports -> Job]
      /\ engine = "running" => pc \in {"running", "dead"}
  BY DEF TypeInv, TypeOK, ToolTypeOK, RunInv, EngineIsAwaited
<1>1. CASE BeginAttempt
  <2>1. /\ pc = "loop" /\ pc' = "provision" /\ sink' = NoVerdict
        /\ UNCHANGED <<alive, job, engine, reasonsFile>>
    BY <1>1, Zenon DEF BeginAttempt, CleanSink
  <2>2. engine # "running"
    BY <1>0, <2>1
  <2>3. alive = {} /\ \A r \in Reports : job[r].pc \notin {"checking", "writing"}
    BY <2>2, NoEngineNoCalls
  <2>. QED
    BY <2>1, <2>2, <2>3 DEF OwnDescendants, OwnCalls, OwnReasons, OwnSink, Readable
<1>2. CASE Provision
  <2>1. /\ pc = "provision" /\ pc' \in {"start", "read"}
        /\ pc' = "start" => reasonsFile' = Nobody
        /\ UNCHANGED <<sink, job, alive, engine, attempt>>
    BY <1>2 DEF Provision
  <2>2. engine # "running"
    BY <1>0, <2>1
  <2>. QED
    BY <2>1, <2>2 DEF OwnDescendants, OwnCalls, OwnReasons, OwnSink, Readable
<1>3. CASE StartEngine
  <2>1. /\ pc = "start" /\ pc' \in {"running", "suppress"}
        /\ UNCHANGED <<sink, job, attempt, reasonsFile>>
    BY <1>3 DEF StartEngine
  <2>2. engine # "running"
    BY <1>0, <2>1
  <2>3. alive = {} /\ \A r \in Reports : job[r].pc \notin {"checking", "writing"}
    BY <2>2, NoEngineNoCalls
  <2>4. \/ engine' = "running" /\ alive' = alive \cup {attempt}
        \/ UNCHANGED <<engine, alive>>
    BY <1>3, Zenon DEF StartEngine
  <2>. QED
    BY <2>1, <2>2, <2>3, <2>4 DEF OwnDescendants, OwnCalls, OwnReasons, OwnSink, Readable
<1>4. CASE ToolStep /\ UNCHANGED detectorVars
  BY <1>4, ToolKeepsApart DEF TypeInv, TypeOK
<1>5. CASE EngineExits
  <2>1. /\ engine = "running" /\ engine' # "running" /\ Quiet(attempt)
        /\ alive' = alive \ {attempt}
        /\ UNCHANGED <<sink, job, attempt, reasonsFile, pc>>
    BY <1>5, Orphans = FALSE DEF EngineExits
  <2>2. alive' = {}
    BY <2>1 DEF OwnDescendants
  <2>3. \A r \in Reports : job[r].pc \notin {"checking", "writing"}
    BY <2>1 DEF Quiet, RunningIn, OwnCalls, OwnDescendants
  <2>4. pc # "start"
    BY <1>0, <2>1
  <2>. QED
    BY <2>1, <2>2, <2>3, <2>4 DEF OwnDescendants, OwnCalls, OwnReasons, OwnSink, Readable
<1>6. ASSUME NEW s \in Sessions, OrphansExit(s)
      PROVE  Apart'
  <2>1. s = attempt /\ engine = "running"
    BY <1>6 DEF OrphansExit, OwnDescendants
  <2>. QED
    BY <1>6, <2>1 DEF OrphansExit
<1>7. CASE KillGroup
  <2>1. /\ engine' # "running" /\ alive' = alive \ {attempt} /\ pc = "running"
        /\ job' = JobsAfterKill(attempt)
        /\ UNCHANGED <<sink, attempt, reasonsFile, pc>>
    BY <1>7 DEF KillGroup, SignalGroup
  <2>2. alive' = {}
    BY <2>1 DEF OwnDescendants
  <2>3. \A r \in Reports : job'[r].pc \notin {"checking", "writing"}
    BY <1>0, <2>1 DEF JobsAfterKill, RunningIn, OwnCalls, OwnDescendants, Job
  <2>. QED
    BY <2>1, <2>2, <2>3 DEF OwnDescendants, OwnCalls, OwnReasons, OwnSink, Readable
<1>8. CASE Classify \/ Publish
  <2>1. /\ sink' = NoVerdict /\ pc' = "done"
        /\ UNCHANGED <<job, alive, engine, attempt, reasonsFile>>
    BY <1>8 DEF Classify, Publish, CleanSink
  <2>. QED
    BY <2>1 DEF OwnDescendants, OwnCalls, OwnReasons, OwnSink, Readable
<1>9. ASSUME NEW s \in Sessions, DirectWrite(s)
      PROVE  FALSE
  BY <1>9 DEF DirectWrite
<1>10. CASE /\ UNCHANGED <<sink, job, alive, engine, attempt, reasonsFile>>
            /\ pc' = pc \/ pc' # "start"
  BY <1>10 DEF OwnDescendants, OwnCalls, OwnReasons, OwnSink, Readable
<1>11. CASE Exhaust \/ Collect \/ Suppress \/ ReadSink \/ Decide \/ WatcherTick
            \/ Deadline \/ Interrupt \/ Terminate \/ UNCHANGED vars
  BY <1>10, <1>11
  DEF Exhaust, Collect, Suppress, ReadSink, Decide, Ends, WatcherTick, Deadline,
      Interrupt, Terminate, vars, toolVars, detectorVars
<1>. QED
  BY <1>1, <1>2, <1>3, <1>4, <1>5, <1>6, <1>7, <1>8, <1>9, <1>11
  DEF Next, DetectorStep, EngineStep

LEMMA InitApart == ASSUME Init PROVE Apart
BY DEF Init, SharedInit, Apart, OwnDescendants, OwnCalls, OwnReasons, OwnSink, Readable

\* The detector's copy is as fresh as the sink it was taken from.
LEMMA NextKeepsFresh ==
    ASSUME Apart, FreshVerdict, [Next]_vars
    PROVE  FreshVerdict'
<1> USE DEF FreshVerdict, Readable
<1>1. CASE ReadSink
  BY <1>1 DEF ReadSink, Apart, OwnSink
<1>2. CASE Decide
  BY <1>2 DEF Decide, Ends
<1>3. CASE pc' \notin {"decide", "publish"}
  BY <1>3
<1>4. CASE UNCHANGED <<pc, attempt, readback>>
  BY <1>4
<1>. QED
  BY <1>1, <1>2, <1>3, <1>4
  DEF Next, DetectorStep, EngineStep, BeginAttempt, Exhaust, Provision, StartEngine,
      Collect, Suppress, Classify, Publish, EngineExits, OrphansExit, DirectWrite,
      WatcherTick, Deadline, KillGroup, Interrupt, Terminate, vars, detectorVars

(***************************************************************************)
(* What the detector reads was reported, and its reasons authored, in the  *)
(* attempt it reads it for (main.go:694, tool.go:41, README.md:118), while *)
(* an engine leaves no descendants and reports only through the tool.      *)
(***************************************************************************)
THEOREM AttemptsDoNotMix ==
    ASSUME Orphans = FALSE, DirectWrites = FALSE
    PROVE  Spec => []FreshVerdict
<1>1. Init => Apart /\ FreshVerdict
  <2>1. Init => FreshVerdict
    BY DEF Init, FreshVerdict
  <2>. QED
    BY <2>1, InitApart
<1>2. TypeInv /\ RunInv /\ Apart /\ FreshVerdict /\ [Next]_vars => Apart' /\ FreshVerdict'
  BY Orphans = FALSE, DirectWrites = FALSE, NextKeepsApart, NextKeepsFresh
<1>. QED
  BY <1>1, <1>2, RunInvAlways, PTL DEF Spec

-------------------------------------------------------------------------------
(***************************************************************************)
(* No acknowledged verdict is lost.  The way of a verdict from the tool    *)
(* that acknowledged it to the decision, one conjunct per station:         *)
(***************************************************************************)
Deciding == pc \in {"provision", "start", "running", "suppress", "read", "decide"}

\* a call belongs to an attempt that has begun;
CallsHaveBegun ==
    \A r \in Reports : job[r].pc # "idle" => job[r].rec.session <= attempt

\* the sink holds what some call acknowledged, and keeps holding something;
SinkWasAcknowledged ==
    /\ Readable(sink) => \E r \in Reports : job[r].pc = "recorded" /\ job[r].rec = sink
    /\ Deciding /\ AcknowledgedIn(attempt) # {} => Readable(sink)

\* the detector decides on what is in the sink then;
ReadLast == pc = "decide" => readback = sink

\* and an attempt that has not ended has no outcome yet.
OpenHasNoOutcome ==
    /\ \A a \in Sessions : a > attempt => outcome[a] = "none"
    /\ Deciding \/ engine = "running" => attempt \in Sessions /\ outcome[attempt] = "none"

Kept == CallsHaveBegun /\ SinkWasAcknowledged /\ ReadLast /\ OpenHasNoOutcome

\* A step that leaves the acknowledged calls alone.
LEMMA SameAcknowledged ==
    ASSUME \A r \in Reports : /\ job'[r].pc = "recorded" <=> job[r].pc = "recorded"
                              /\ job[r].pc = "recorded" => job'[r].rec = job[r].rec
    PROVE  \A a : AcknowledgedIn(a)' = AcknowledgedIn(a)
<1>1. \A a : AcknowledgedIn(a) = {r \in Reports : job[r].pc = "recorded" /\ job[r].rec.session = a}
  BY DEF AcknowledgedIn
<1>2. \A a : AcknowledgedIn(a)' = {r \in Reports : job'[r].pc = "recorded" /\ job'[r].rec.session = a}
  BY DEF AcknowledgedIn
<1>. QED
  BY <1>1, <1>2

LEMMA ToolKeepsVerdicts ==
    ASSUME TypeInv, RunInv, Apart, Kept, AcknowledgedIsRecorded,
           ToolStep, UNCHANGED detectorVars
    PROVE  Kept' /\ AcknowledgedIsRecorded'
<1>0. /\ job \in [Reports -> Job]
      /\ UNCHANGED <<pc, attempt, engine, outcome, readback>>
  BY DEF TypeInv, TypeOK, ToolTypeOK, detectorVars
<1>1. OpenHasNoOutcome' /\ (Deciding' <=> Deciding)
  BY <1>0 DEF Kept, OpenHasNoOutcome, Deciding
<1>a. ASSUME NEW r \in Reports, job[r].pc \in {"checking", "writing"}
      PROVE  job[r].rec.session = attempt /\ engine = "running"
  BY <1>a DEF Apart, OwnCalls, OwnDescendants
<1>b. attempt \in Nat
  BY AttemptsAssumption DEF TypeInv, TypeOK, DetectorTypeOK
<1>2. ASSUME UNCHANGED sink,
             \A r \in Reports : /\ job'[r].pc = "recorded" <=> job[r].pc = "recorded"
                                /\ job[r].pc = "recorded" => job'[r].rec = job[r].rec
      PROVE  SinkWasAcknowledged' /\ ReadLast' /\ AcknowledgedIsRecorded'
  <2>1. \A a : AcknowledgedIn(a)' = AcknowledgedIn(a)
    BY <1>2, SameAcknowledged
  <2>2. SinkWasAcknowledged'
    <3>1. AcknowledgedIn(attempt)' = AcknowledgedIn(attempt)
      BY <1>0, <2>1 DEF AcknowledgedIn
    <3>2. (Readable(sink) => \E r \in Reports : job[r].pc = "recorded" /\ job[r].rec = sink)'
      BY <1>2 DEF Kept, SinkWasAcknowledged, Readable
    <3>3. Readable(sink)' <=> Readable(sink)
      BY <1>2 DEF Readable
    <3>. QED
      BY <1>1, <3>1, <3>2, <3>3 DEF Kept, SinkWasAcknowledged
  <2>3. ReadLast'
    BY <1>0, <1>2 DEF Kept, ReadLast
  <2>4. ASSUME NEW a \in Sessions, outcome'[a] # "none", AcknowledgedIn(a)' # {},
               \A r \in AcknowledgedIn(a)' : job'[r].rec.verdict \in Eligible
        PROVE  outcome'[a] = "recorded"
    <3>1. AcknowledgedIn(a) # {} /\ \A r \in AcknowledgedIn(a) : job[r].rec.verdict \in Eligible
      BY <1>2, <2>1, <2>4 DEF AcknowledgedIn
    <3>. QED
      BY <1>0, <2>4, <3>1 DEF AcknowledgedIsRecorded
  <2>5. AcknowledgedIsRecorded'
    BY <2>4 DEF AcknowledgedIsRecorded
  <2>. QED
    BY <2>2, <2>3, <2>5
<1>3. CASE \E s \in alive : reasonsFile' = s /\ UNCHANGED <<sink, job>>
  <2>1. CallsHaveBegun'
    BY <1>0, <1>3 DEF Kept, CallsHaveBegun
  <2>. QED
    BY <1>1, <1>2, <1>3, <2>1 DEF Kept
<1>4. ASSUME NEW s \in alive, NEW r \in Reports, NEW v \in Verdicts,
             NEW w \in {Nobody, s, reasonsFile}, Invoked(r, s, v, w)
      PROVE  Kept' /\ AcknowledgedIsRecorded'
  <2>1. /\ job[r].pc = "idle" /\ job'[r].pc \in {"checking", "rejected"}
        /\ job'[r].rec.session = s
        /\ \A q \in Reports : q # r => job'[q] = job[q]
    BY <1>0, <1>4 DEF Invoked
  <2>2. s = attempt
    BY DEF Apart, OwnDescendants
  <2>3. CallsHaveBegun'
    BY <1>0, <1>b, <2>1, <2>2 DEF Kept, CallsHaveBegun
  <2>4. UNCHANGED sink
    BY <1>4 DEF Invoked
  <2>5. SinkWasAcknowledged' /\ ReadLast' /\ AcknowledgedIsRecorded'
    BY <1>2, <2>1, <2>4
  <2>. QED
    BY <1>1, <2>3, <2>5 DEF Kept
<1>5. ASSUME NEW r \in Reports, NEW p \in {"already", "writing", "failed"}, Moved(r, p)
      PROVE  Kept' /\ AcknowledgedIsRecorded'
  <2>1. /\ job[r].pc \in {"checking", "writing"} /\ job'[r].pc = p
        /\ job'[r].rec = job[r].rec
        /\ \A q \in Reports : q # r => job'[q] = job[q]
        /\ UNCHANGED sink
    BY <1>0, <1>5 DEF Moved, Job
  <2>2. CallsHaveBegun'
    BY <1>0, <2>1 DEF Kept, CallsHaveBegun
  <2>3. SinkWasAcknowledged' /\ ReadLast' /\ AcknowledgedIsRecorded'
    BY <1>2, <2>1
  <2>. QED
    BY <1>1, <2>2, <2>3 DEF Kept
<1>6. ASSUME NEW r \in Reports, Committed(r)
      PROVE  Kept' /\ AcknowledgedIsRecorded'
  <2>1. /\ job[r].pc = "writing" /\ job'[r].pc = "recorded"
        /\ job'[r].rec = job[r].rec
        /\ \A q \in Reports : q # r => job'[q] = job[q]
        /\ sink' = job[r].rec
    BY <1>0, <1>6 DEF Committed, Job
  <2>2. job[r].rec.session = attempt /\ engine = "running"
    BY <1>a, <2>1
  <2>3. CallsHaveBegun'
    BY <1>0, <2>1 DEF Kept, CallsHaveBegun
  <2>4. Readable(sink')
    BY <1>0, <2>1, NoVerdictAssumption DEF Job, Readable
  <2>5. SinkWasAcknowledged'
    BY <2>1, <2>4 DEF SinkWasAcknowledged, Readable
  <2>6. ReadLast'
    BY <1>0, <2>2 DEF RunInv, EngineIsAwaited, ReadLast
  <2>7. \A a : a # attempt => AcknowledgedIn(a)' = AcknowledgedIn(a)
    <3>1. \A a : AcknowledgedIn(a) = {q \in Reports : job[q].pc = "recorded" /\ job[q].rec.session = a}
      BY DEF AcknowledgedIn
    <3>2. \A a : AcknowledgedIn(a)' = {q \in Reports : job'[q].pc = "recorded" /\ job'[q].rec.session = a}
      BY DEF AcknowledgedIn
    <3>. QED
      BY <2>1, <2>2, <3>1, <3>2
  <2>8. ASSUME NEW a \in Sessions, outcome'[a] # "none", AcknowledgedIn(a)' # {},
               \A q \in AcknowledgedIn(a)' : job'[q].rec.verdict \in Eligible
        PROVE  outcome'[a] = "recorded"
    <3>1. a # attempt
      BY <1>0, <2>2, <2>8 DEF Kept, OpenHasNoOutcome
    <3>2. AcknowledgedIn(a)' = AcknowledgedIn(a)
      BY <2>7, <3>1
    <3>3. \A q \in AcknowledgedIn(a) : job'[q].rec = job[q].rec
      BY <2>1 DEF AcknowledgedIn
    <3>. QED
      BY <1>0, <2>8, <3>2, <3>3 DEF AcknowledgedIsRecorded
  <2>9. AcknowledgedIsRecorded'
    BY <2>8 DEF AcknowledgedIsRecorded
  <2>. QED
    BY <1>1, <2>3, <2>5, <2>6, <2>9 DEF Kept
<1>7. CASE \E s \in alive, r \in Reports, v \in Verdicts :
           \E w \in {Nobody, s, reasonsFile} : Invoked(r, s, v, w)
  BY <1>4, <1>7
<1>. QED
  BY <1>3, <1>5, <1>6, <1>7, ToolForms

\* A step of the detector that moves on within an attempt, or ends the run.
LEMMA QuietStepKeepsVerdicts ==
    ASSUME Kept, AcknowledgedIsRecorded,
           UNCHANGED <<sink, attempt, outcome, readback>>,
           \A r \in Reports : /\ job'[r].pc = "recorded" <=> job[r].pc = "recorded"
                              /\ job'[r].pc = "idle" <=> job[r].pc = "idle"
                              /\ job'[r].rec = job[r].rec,
           Deciding' => Deciding,
           engine' = "running" => engine = "running" \/ Deciding,
           pc' = "decide" => pc = "decide"
    PROVE  Kept' /\ AcknowledgedIsRecorded'
<1>1. \A a : AcknowledgedIn(a)' = AcknowledgedIn(a)
  BY SameAcknowledged
<1>2. AcknowledgedIn(attempt)' = AcknowledgedIn(attempt)
  BY <1>1 DEF AcknowledgedIn
<1>3. CallsHaveBegun'
  BY DEF Kept, CallsHaveBegun
<1>4. SinkWasAcknowledged'
  <2>1. (Readable(sink) => \E r \in Reports : job[r].pc = "recorded" /\ job[r].rec = sink)'
    BY DEF Kept, SinkWasAcknowledged, Readable
  <2>2. Readable(sink)' <=> Readable(sink)
    BY DEF Readable
  <2>. QED
    BY <1>2, <2>1, <2>2 DEF Kept, SinkWasAcknowledged
<1>5. ReadLast' /\ OpenHasNoOutcome'
  <2>1. ReadLast'
    BY DEF Kept, ReadLast
  <2>2. (\A a \in Sessions : a > attempt => outcome[a] = "none")'
    BY DEF Kept, OpenHasNoOutcome
  <2>3. Deciding' \/ engine' = "running" => attempt' \in Sessions /\ outcome'[attempt'] = "none"
    BY DEF Kept, OpenHasNoOutcome
  <2>. QED
    BY <2>1, <2>2, <2>3 DEF OpenHasNoOutcome
<1>6. ASSUME NEW a \in Sessions, outcome'[a] # "none", AcknowledgedIn(a)' # {},
             \A r \in AcknowledgedIn(a)' : job'[r].rec.verdict \in Eligible
      PROVE  outcome'[a] = "recorded"
  <2>1. AcknowledgedIn(a) # {} /\ \A r \in AcknowledgedIn(a) : job[r].rec.verdict \in Eligible
    BY <1>1, <1>6 DEF AcknowledgedIn
  <2>. QED
    BY <1>6, <2>1 DEF AcknowledgedIsRecorded
<1>. QED
  BY <1>3, <1>4, <1>5, <1>6 DEF Kept, AcknowledgedIsRecorded

\* The decision: what the attempt acknowledged last is what it is decided on.
LEMMA DecideKeepsVerdicts ==
    ASSUME TypeInv, RunInv, Apart, Kept, AcknowledgedIsRecorded, Decide
    PROVE  Kept' /\ AcknowledgedIsRecorded'
<1>0. /\ pc = "decide" /\ attempt \in Sessions /\ attempt \in Nat
      /\ outcome \in [Sessions -> Outcomes]
      /\ engine # "running"
  BY AttemptsAssumption
  DEF Decide, TypeInv, TypeOK, DetectorTypeOK, InAttempt, RunInv, EngineIsAwaited, Sessions
<1>1. /\ UNCHANGED <<sink, job, attempt, readback, engine>>
      /\ pc' \in {"publish", "classify", "loop"}
      /\ Accepts => outcome' = [outcome EXCEPT ![attempt] = "recorded"]
      /\ \A a \in Sessions : a # attempt => outcome'[a] = outcome[a]
  BY <1>0 DEF Decide, Ends, toolVars
<1>2. ~Deciding'
  BY <1>1 DEF Deciding
<1>3. CallsHaveBegun' /\ ReadLast'
  BY <1>1 DEF Kept, CallsHaveBegun, ReadLast
<1>4. SinkWasAcknowledged'
  BY <1>1, <1>2 DEF Kept, SinkWasAcknowledged, Readable
<1>5. OpenHasNoOutcome'
  <2>1. \A a \in Sessions : a > attempt => outcome'[a] = "none"
    BY <1>0, <1>1 DEF Kept, OpenHasNoOutcome, Sessions
  <2>. QED
    BY <1>0, <1>1, <1>2, <2>1 DEF OpenHasNoOutcome
<1>6. \A a : AcknowledgedIn(a)' = AcknowledgedIn(a)
  BY <1>1, SameAcknowledged
<1>7. ASSUME AcknowledgedIn(attempt) # {},
             \A r \in AcknowledgedIn(attempt) : job[r].rec.verdict \in Eligible
      PROVE  outcome'[attempt] = "recorded"
  <2>1. Readable(sink) /\ readback = sink
    BY <1>0, <1>7 DEF Kept, SinkWasAcknowledged, ReadLast, Deciding
  <2>2. PICK r \in Reports : job[r].pc = "recorded" /\ job[r].rec = sink
    BY <2>1 DEF Kept, SinkWasAcknowledged
  <2>3. r \in AcknowledgedIn(attempt)
    BY <2>1, <2>2 DEF AcknowledgedIn, Apart, OwnSink
  <2>4. Accepts
    BY <1>7, <2>1, <2>2, <2>3 DEF Accepts
  <2>. QED
    BY <1>0, <1>1, <2>4
<1>8. ASSUME NEW a \in Sessions, outcome'[a] # "none", AcknowledgedIn(a)' # {},
             \A r \in AcknowledgedIn(a)' : job'[r].rec.verdict \in Eligible
      PROVE  outcome'[a] = "recorded"
  <2>1. AcknowledgedIn(a) # {} /\ \A r \in AcknowledgedIn(a) : job[r].rec.verdict \in Eligible
    BY <1>1, <1>6, <1>8
  <2>. QED
    BY <1>1, <1>7, <1>8, <2>1 DEF AcknowledgedIsRecorded
<1>. QED
  BY <1>3, <1>4, <1>5, <1>8 DEF Kept, AcknowledgedIsRecorded

\* The next attempt: none of its verdicts can have been acknowledged yet.
LEMMA BeginKeepsVerdicts ==
    ASSUME TypeInv, RunInv, Kept, AcknowledgedIsRecorded, BeginAttempt
    PROVE  Kept' /\ AcknowledgedIsRecorded'
<1>0. attempt \in 0 .. Attempts /\ Attempts \in Nat /\ job \in [Reports -> Job]
  BY AttemptsAssumption DEF TypeInv, TypeOK, DetectorTypeOK, ToolTypeOK
<1>1. /\ pc' = "provision" /\ attempt' = attempt + 1 /\ attempt < Attempts
      /\ sink' = NoVerdict
      /\ UNCHANGED <<job, outcome, engine, readback>>
  BY DEF BeginAttempt, MoreAttempts, CleanSink
<1>2. attempt' \in Sessions /\ \A a \in Sessions : a > attempt' => a > attempt
  BY <1>0, <1>1 DEF Sessions
<1>3. ASSUME NEW r \in Reports, job[r].pc # "idle"
      PROVE  job[r].rec.session <= attempt /\ job[r].rec.session \in Nat
  BY <1>0, <1>3 DEF Kept, CallsHaveBegun, Job, Record, Sessions
<1>4. CallsHaveBegun' /\ ReadLast'
  BY <1>0, <1>1, <1>3 DEF CallsHaveBegun, ReadLast
<1>5. AcknowledgedIn(attempt)' = {}
  <2>1. ASSUME NEW r \in Reports, job'[r].pc = "recorded", job'[r].rec.session = attempt'
        PROVE  FALSE
    BY <1>0, <1>1, <1>3, <2>1
  <2>. QED
    BY <2>1 DEF AcknowledgedIn
<1>6. SinkWasAcknowledged'
  BY <1>1, <1>5 DEF SinkWasAcknowledged, Readable
<1>7. OpenHasNoOutcome'
  BY <1>0, <1>1, <1>2 DEF Kept, OpenHasNoOutcome
<1>8. AcknowledgedIsRecorded'
  <2>1. \A a : AcknowledgedIn(a)' = AcknowledgedIn(a)
    BY <1>1, SameAcknowledged
  <2>2. ASSUME NEW a \in Sessions, outcome'[a] # "none", AcknowledgedIn(a)' # {},
               \A r \in AcknowledgedIn(a)' : job'[r].rec.verdict \in Eligible
        PROVE  outcome'[a] = "recorded"
    <3>1. AcknowledgedIn(a) # {} /\ \A r \in AcknowledgedIn(a) : job[r].rec.verdict \in Eligible
      BY <1>1, <2>1, <2>2
    <3>. QED
      BY <1>1, <2>2, <3>1 DEF AcknowledgedIsRecorded
  <2>. QED
    BY <2>2 DEF AcknowledgedIsRecorded
<1>. QED
  BY <1>4, <1>6, <1>7, <1>8 DEF Kept

LEMMA NextKeepsVerdicts ==
    ASSUME TypeInv, RunInv, Apart, Kept, AcknowledgedIsRecorded, DirectWrites = FALSE,
           [Next]_vars
    PROVE  Kept' /\ AcknowledgedIsRecorded'
<1>0. /\ job \in [Reports -> Job]
      /\ engine = "running" => pc \in {"running", "dead"}
  BY DEF TypeInv, TypeOK, ToolTypeOK, RunInv, EngineIsAwaited
<1>1. CASE BeginAttempt
  BY <1>1, BeginKeepsVerdicts
<1>2. CASE Decide
  BY <1>2, DecideKeepsVerdicts
<1>3. CASE ToolStep /\ UNCHANGED detectorVars
  BY <1>3, ToolKeepsVerdicts
<1>4. CASE KillGroup
  <2>1. \A r \in Reports : /\ job'[r].pc = "recorded" <=> job[r].pc = "recorded"
                           /\ job'[r].pc = "idle" <=> job[r].pc = "idle"
                           /\ job'[r].rec = job[r].rec
    BY <1>0, <1>4 DEF KillGroup, SignalGroup, JobsAfterKill, RunningIn, Job
  <2>2. UNCHANGED <<sink, attempt, outcome, readback, pc>> /\ engine' # "running"
    BY <1>4 DEF KillGroup
  <2>. QED
    BY <2>1, <2>2, QuietStepKeepsVerdicts DEF Deciding
<1>5. CASE ReadSink
  <2>1. /\ pc = "read" /\ pc' = "decide" /\ readback' = sink
        /\ UNCHANGED <<sink, job, attempt, outcome, engine>>
    BY <1>5 DEF ReadSink, toolVars
  <2>2. \A a : AcknowledgedIn(a)' = AcknowledgedIn(a)
    BY <2>1, SameAcknowledged
  <2>3. AcknowledgedIn(attempt)' = AcknowledgedIn(attempt)
    BY <2>1, <2>2
  <2>4. CallsHaveBegun' /\ ReadLast' /\ OpenHasNoOutcome'
    BY <2>1 DEF Kept, CallsHaveBegun, ReadLast, OpenHasNoOutcome, Deciding
  <2>5. SinkWasAcknowledged'
    BY <2>1, <2>3 DEF Kept, SinkWasAcknowledged, Deciding, Readable
  <2>6. AcknowledgedIsRecorded'
    BY <2>1, <2>2 DEF AcknowledgedIsRecorded
  <2>. QED
    BY <2>4, <2>5, <2>6 DEF Kept
<1>6. CASE Classify \/ Publish
  <2>1. /\ pc' = "done" /\ sink' = NoVerdict /\ engine # "running"
        /\ UNCHANGED <<job, attempt, outcome, engine, readback>>
    BY <1>0, <1>6 DEF Classify, Publish, CleanSink
  <2>2. CallsHaveBegun' /\ ReadLast' /\ OpenHasNoOutcome' /\ SinkWasAcknowledged'
    BY <2>1 DEF Kept, CallsHaveBegun, ReadLast, OpenHasNoOutcome, Deciding,
                SinkWasAcknowledged, Readable
  <2>3. \A a : AcknowledgedIn(a)' = AcknowledgedIn(a)
    BY <2>1, SameAcknowledged
  <2>4. AcknowledgedIsRecorded'
    BY <2>1, <2>3 DEF AcknowledgedIsRecorded
  <2>. QED
    BY <2>2, <2>4 DEF Kept
<1>7. ASSUME NEW s \in Sessions, DirectWrite(s)
      PROVE  FALSE
  BY <1>7 DEF DirectWrite
<1>8. CASE /\ UNCHANGED <<job, sink, attempt, outcome, readback>>
           /\ Deciding' => Deciding
           /\ engine' = "running" => engine = "running" \/ Deciding
           /\ pc' = "decide" => pc = "decide"
  BY <1>8, QuietStepKeepsVerdicts
<1>9. CASE Provision \/ StartEngine \/ Collect \/ Suppress
  BY <1>8, <1>9 DEF Provision, StartEngine, Collect, Suppress, Deciding, toolVars
<1>10. CASE Exhaust \/ EngineExits \/ WatcherTick \/ Deadline \/ Interrupt \/ Terminate
            \/ UNCHANGED vars
  BY <1>8, <1>10
  DEF Exhaust, EngineExits, WatcherTick, Deadline, Interrupt, Terminate, Deciding,
      vars, toolVars, detectorVars
<1>11. ASSUME NEW s \in Sessions, OrphansExit(s)
       PROVE  Kept' /\ AcknowledgedIsRecorded'
  BY <1>8, <1>11 DEF OrphansExit, detectorVars, Deciding
<1>. QED
  BY <1>1, <1>2, <1>3, <1>4, <1>5, <1>6, <1>7, <1>9, <1>10, <1>11
  DEF Next, DetectorStep, EngineStep

LEMMA InitKept == ASSUME Init PROVE Kept /\ AcknowledgedIsRecorded
BY DEF Init, SharedInit, Kept, CallsHaveBegun, SinkWasAcknowledged, ReadLast,
       OpenHasNoOutcome, AcknowledgedIsRecorded, Readable, Deciding

(***************************************************************************)
(* Whatever kills the engine after a call of the tool acknowledged its     *)
(* verdict, an attempt whose acknowledged verdicts are all eligible ends   *)
(* recorded (engine.go:643, main.go:721), while an engine leaves no        *)
(* descendants and reports only through the tool.                          *)
(***************************************************************************)
THEOREM NoAcknowledgedVerdictIsLost ==
    ASSUME Orphans = FALSE, DirectWrites = FALSE
    PROVE  Spec => []AcknowledgedIsRecorded
<1>1. Init => Apart /\ Kept /\ AcknowledgedIsRecorded
  BY InitApart, InitKept
<1>2. TypeInv /\ RunInv /\ Apart /\ Kept /\ AcknowledgedIsRecorded /\ [Next]_vars
        => Apart' /\ Kept' /\ AcknowledgedIsRecorded'
  BY Orphans = FALSE, DirectWrites = FALSE, NextKeepsApart, NextKeepsVerdicts
<1>. QED
  BY <1>1, <1>2, RunInvAlways, PTL DEF Spec
================================================================================
