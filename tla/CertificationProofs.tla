------------------------- MODULE CertificationProofs -------------------------
(***************************************************************************)
(* The files of the runs and conclude implement Certification, for any     *)
(* number of runs, verdicts and inputs.                                    *)
(***************************************************************************)
EXTENDS ConcludeProofs

\* A run decides once, and only a run that has decided records
\* (main.go:511-539).
DecisionInv ==
    /\ \A r \in 1 .. Runs : r > run => decided[r] = NoVerdict
    /\ stage = "working" => decided[run] = NoVerdict
    /\ stage = "status" /\ status = "result_recorded" => decided[run] \in Verdicts

\* A job output is not there yet, or says what the outcome is
\* (conclude.go:293-299, 755-768).
SuccessText == IF Certifies THEN "true" ELSE "false"

SaidInv ==
    /\ jobOutput["conclusion"] \in {"unset", outcome}
    /\ jobEnv["conclusion"] \in {"unset", outcome}
    /\ jobOutput["success"] \in {"unset", SuccessText}
    /\ outcome = "none" => Said = {"unset"}

LEMMA InitSaid == Init => DecisionInv /\ SaidInv
<1> SUFFICES ASSUME Init PROVE DecisionInv /\ SaidInv
  OBVIOUS
<1>1. stage = "idle" /\ \A r \in 1 .. Runs : decided[r] = NoVerdict
  BY DEF Init, WriterInit
<1>2. /\ jobOutput["conclusion"] = "unset" /\ jobEnv["conclusion"] = "unset"
      /\ jobOutput["success"] = "unset"
  BY DEF Init, Keys
<1> QED
  BY <1>1, <1>2 DEF DecisionInv, SaidInv, Said

LEMMA RunsDecide == TypeInv /\ DecisionInv /\ WriterNext => DecisionInv'
<1> SUFFICES ASSUME TypeInv, DecisionInv, WriterNext PROVE DecisionInv'
  OBVIOUS
<1>t. /\ run \in 0 .. Runs /\ Runs \in Nat
      /\ decided \in [1 .. Runs -> Verdicts \cup {NoVerdict}]
      /\ stage # "idle" => run \in 1 .. Runs
  BY FilesAssumption DEF TypeInv, TypeOK, WriterTypeOK, InRun
<1>1. CASE StartRun
  <2>1. /\ run' = run + 1 /\ run' \in 1 .. Runs /\ decided' = decided
        /\ stage' \in {"working", "status"}
        /\ stage' = "status" => status' = "config_error"
    BY <1>t, <1>1 DEF StartRun
  <2>2. decided'[run'] = NoVerdict
    BY <1>t, <2>1 DEF DecisionInv
  <2> QED
    BY <1>t, <2>1, <2>2 DEF DecisionInv
<1>2. CASE DecideVerdict
  <2>1. stage = "working" /\ stage' = "full" /\ run' = run
    BY <1>2 DEF DecideVerdict
  <2>2. PICK v \in Verdicts : decided' = [decided EXCEPT ![run] = v]
    BY <1>2 DEF DecideVerdict
  <2>3. \A r \in 1 .. Runs : r > run => decided'[r] = decided[r]
    BY <1>t, <2>1, <2>2
  <2> QED
    BY <1>t, <2>1, <2>3 DEF DecisionInv
<1>3. CASE ForwardLine \/ QuoteLine
  BY <1>3 DEF ForwardLine, QuoteLine, DecisionInv
<1>4. CASE FailRun
  <2>1. UNCHANGED <<run, decided>> /\ stage' = "status" /\ status' # "result_recorded"
    BY <1>4, FilesAssumption DEF FailRun, FailureReasons
  <2> QED
    BY <2>1 DEF DecisionInv
<1>5. CASE WriteFull \/ OpenOutput \/ FillOutput
  <2>1. /\ UNCHANGED <<run, decided>> /\ stage \in {"full", "open", "fill"}
        /\ stage' # "working"
    BY <1>5 DEF WriteFull, OpenOutput, FillOutput
  <2>2. decided[run] \in Verdicts
    BY <2>1 DEF TypeInv, Decided
  <2> QED
    BY <2>1, <2>2 DEF DecisionInv
<1>6. CASE EmitStatus \/ KillRun
  BY <1>6 DEF EmitStatus, KillRun, DecisionInv
<1> QED
  BY <1>1, <1>2, <1>3, <1>4, <1>5, <1>6 DEF WriterNext

\* What one append does, by its place in the sequence.
LEMMA Appends ==
    ASSUME Inv, SaidInv, Emit
    PROVE  /\ UNCHANGED outcome
           /\ outcome # "none"
           /\ jobOutput'["conclusion"] \in {jobOutput["conclusion"], outcome}
           /\ jobEnv'["conclusion"] \in {jobEnv["conclusion"], outcome}
           /\ jobOutput'["success"] \in {jobOutput["success"], SuccessText}
<1>1. /\ UNCHANGED outcome
      /\ phase = "emit"
      /\ written + 1 \in 1 .. 5
  BY DEF Emit, Inv, TypeInv, TypeOK
<1>2. outcome # "none"
  BY <1>1 DEF Inv, TypeInv, Concluded, Outcomes
<1>3. jobOutput \in [Keys -> Values \cup {"unset"}] /\ jobEnv \in [Keys -> Values \cup {"unset"}]
  BY DEF Inv, TypeInv, TypeOK
<1>4. CASE UNCHANGED <<jobOutput, jobEnv>>
  BY <1>1, <1>2, <1>4
<1>5. CASE AppendLine(Writes[written + 1])
  <2>1. PICK n \in 1 .. 5 : n = written + 1
    BY <1>1
  <2> DEFINE w == Writes[n]
  <2>2. /\ w.key \in Keys
        /\ w.key = "conclusion" => w.value = outcome
        /\ w.key = "success" => w.value = SuccessText
    BY <1>1, WritesAt DEF Inv, SuccessText
  <2>3. AppendLine(w)
    BY <1>5, <2>1
  <2> HIDE DEF w
  <2>4. CASE jobOutput' = [jobOutput EXCEPT ![w.key] = w.value] /\ UNCHANGED jobEnv
    BY <1>1, <1>2, <1>3, <2>2, <2>4 DEF Keys
  <2>5. CASE jobEnv' = [jobEnv EXCEPT ![w.key] = w.value] /\ UNCHANGED jobOutput
    BY <1>1, <1>2, <1>3, <2>2, <2>5 DEF Keys
  <2> QED
    BY <2>3, <2>4, <2>5 DEF AppendLine
<1> QED
  BY <1>4, <1>5 DEF Emit

LEMMA NextSaid ==
    Inv /\ DecisionInv /\ SaidInv /\ [Next]_vars => (DecisionInv /\ SaidInv)'
<1> SUFFICES ASSUME Inv, DecisionInv, SaidInv, [Next]_vars
             PROVE  (DecisionInv /\ SaidInv)'
  OBVIOUS
<1>1. CASE RunStep
  <2>1. DecisionInv'
    BY <1>1, RunsDecide DEF RunStep, Inv
  <2>2. SaidInv'
    BY <1>1 DEF RunStep, concluderVars, SaidInv, Said, SuccessText, Certifies
  <2> QED
    BY <2>1, <2>2
<1>2. CASE ~RunStep
  <2>1. DecisionInv'
    BY <1>2 DEF Next, Begin, Skip, ReadMissing, ReadMalformed, ReadVerdict, Evaluate,
        Emit, Exit, KillConclude, vars, writerVars, DecisionInv
  <2>2. CASE Emit
    <3>1. SuccessText' = SuccessText
      BY <2>2, Appends DEF SuccessText, Certifies
    <3> QED
      BY <2>1, <2>2, <3>1, Appends DEF SaidInv
  <2>3. CASE Skip \/ ReadMissing \/ ReadMalformed \/ Evaluate
    <3>1. outcome = "none" /\ UNCHANGED <<jobOutput, jobEnv>> /\ outcome' # "none"
      BY <2>3 DEF Skip, ReadMissing, ReadMalformed, Evaluate, FailWith, Failed, Inv,
          ConcludeInv, PhaseInv
    <3> QED
      BY <2>1, <3>1 DEF SaidInv, Said
  <2>4. CASE UNCHANGED <<outcome, jobOutput, jobEnv>>
    BY <2>1, <2>4 DEF SaidInv, Said, SuccessText, Certifies
  <2> QED
    BY <1>2, <2>2, <2>3, <2>4
    DEF Next, Begin, ReadVerdict, Exit, KillConclude, vars, concluderVars
<1> QED
  BY <1>1, <1>2

-------------------------------------------------------------------------------
\* A step of a run is Decide, Record, or changes nothing a job can see.
LEMMA RunStepPromised ==
    ASSUME Inv, DecisionInv, RunStep
    PROVE  Promise!Next \/ UNCHANGED Promise!vars
<1>1. /\ UNCHANGED <<outcome, phase, jobOutput, jobEnv>> /\ outcome = "none"
  BY DEF RunStep, concluderVars, Inv, ConcludeInv, PhaseInv
<1>2. ToldJobs' = ToldJobs
  BY <1>1 DEF ToldJobs, Said
<1>t. /\ run \in 0 .. Runs /\ Runs \in Nat
      /\ decided \in [1 .. Runs -> Verdicts \cup {NoVerdict}]
      /\ ended \in [1 .. Runs -> StatusReasons \cup {"none", "killed", "cut"}]
      /\ stage # "idle" => run \in 1 .. Runs /\ ended[run] = "none"
  BY FilesAssumption
  DEF Inv, TypeInv, TypeOK, WriterTypeOK, InRun, FilesInv, HistoryInv
<1>3. stage # "idle" => Promise!IsLast(run)
  BY <1>t DEF DecisionInv, Promise!IsLast
<1>4. CASE DecideVerdict
  <2>1. stage = "working" /\ run \in 1 .. Runs
    BY <1>4, <1>t DEF DecideVerdict
  <2>2. RecordedRuns' = RecordedRuns
    BY <1>4 DEF DecideVerdict, RecordedRuns
  <2>3. Promise!Decide(run)
    BY <1>1, <1>2, <1>3, <1>4, <2>1, <2>2 DEF DecideVerdict, DecisionInv, Promise!Decide
  <2> QED
    BY <2>1, <2>3 DEF Promise!Next
<1>5. CASE EmitStatus \/ KillRun
  <2>1. stage # "idle" /\ run \in 1 .. Runs /\ UNCHANGED decided
    BY <1>5, <1>t DEF EmitStatus, KillRun
  <2>2. \A r \in 1 .. Runs : r # run => ended'[r] = ended[r]
    BY <1>5, <1>t DEF EmitStatus, KillRun
  <2>3. CASE ended'[run] = "result_recorded"
    <3>1. RecordedRuns' = RecordedRuns \cup {run}
      BY <2>1, <2>2, <2>3 DEF RecordedRuns
    <3>2. stage = "status" /\ status = "result_recorded"
      BY <1>5, <1>t, <2>1, <2>3 DEF EmitStatus, KillRun
    <3>3. decided[run] # NoVerdict
      BY <3>2, FilesAssumption DEF DecisionInv
    <3>4. Promise!Record(run)
      BY <1>1, <1>2, <1>3, <2>1, <3>1, <3>3 DEF Promise!Record
    <3> QED
      BY <2>1, <3>4 DEF Promise!Next
  <2>4. CASE ended'[run] # "result_recorded"
    <3>1. RecordedRuns' = RecordedRuns
      BY <1>t, <2>1, <2>2, <2>4 DEF RecordedRuns
    <3> QED
      BY <1>1, <1>2, <2>1, <3>1 DEF Promise!vars
  <2> QED
    BY <2>3, <2>4
<1>6. CASE \/ StartRun \/ ForwardLine \/ QuoteLine \/ FailRun
           \/ WriteFull \/ OpenOutput \/ FillOutput
  <2>1. UNCHANGED <<decided, ended>>
    BY <1>6 DEF StartRun, ForwardLine, QuoteLine, FailRun, WriteFull, OpenOutput, FillOutput
  <2> QED
    BY <1>1, <1>2, <2>1 DEF RecordedRuns, Promise!vars
<1> QED
  BY <1>4, <1>5, <1>6 DEF RunStep, WriterNext

\* An outcome is concluded once, a success on the verdict of --output, which
\* stands.
LEMMA OutcomePromised ==
    ASSUME Inv, SaidInv, Skip \/ ReadMissing \/ ReadMalformed \/ Evaluate
    PROVE  Promise!Next
<1>1. /\ UNCHANGED <<decided, ended, jobOutput, jobEnv>> /\ outcome = "none"
      /\ phase \in {"begin", "resolve"} /\ phase' = "emit"
      /\ outcome' \in {"skipped", "success", "warning", "failure"}
  BY DEF Skip, ReadMissing, ReadMalformed, Evaluate, FailWith, Failed, Inv, ConcludeInv,
      PhaseInv, writerVars
<1>2. ToldJobs' = ToldJobs /\ RecordedRuns' = RecordedRuns
  BY <1>1 DEF ToldJobs, Said, RecordedRuns
<1>3. ASSUME outcome' = "success"
      PROVE  \E r \in 1 .. Runs : Promise!Stands(r)
  <2>1. Evaluate /\ verdict.verdict \notin Threats /\ phase = "resolve"
    BY <1>3 DEF Skip, ReadMissing, ReadMalformed, Evaluate, FailWith, Failed, Authoritative
  <2>2. verdict = output /\ Readable(output)
    BY <2>1 DEF Inv, ConcludeInv, PhaseInv, VerdictInv
  <2>3. /\ output.run \in 1 .. Runs
        /\ output.verdict \in Verdicts
        /\ output.verdict = decided[output.run]
        /\ \A r \in 1 .. run : r > output.run => ended[r] # "result_recorded"
    BY <2>2 DEF Inv, TypeInv, TypeOK, WriterTypeOK, FilesInv, OutputInv, Readable, ResultFile
  <2>4. \A r \in 1 .. Runs : r > run => ended[r] = "none"
    BY DEF Inv, FilesInv, HistoryInv
  <2>5. \A s \in RecordedRuns : s <= output.run
    BY <2>3, <2>4, FilesAssumption
    DEF RecordedRuns, Inv, TypeInv, TypeOK, WriterTypeOK
  <2> QED
    BY <2>1, <2>2, <2>3, <2>5 DEF Promise!Stands
<1>4. Promise!Conclude(outcome')
  BY <1>1, <1>2, <1>3 DEF Promise!Conclude
<1> QED
  BY <1>1, <1>4 DEF Promise!Next

\* An append tells what the outcome is, or nothing new.
LEMMA EmitPromised ==
    ASSUME Inv, SaidInv, Emit
    PROVE  Promise!Next \/ UNCHANGED Promise!vars
<1>1. UNCHANGED <<decided, ended, outcome, phase>> /\ outcome \in Outcomes
  BY DEF Emit, Inv, TypeInv, Concluded
<1>2. RecordedRuns' = RecordedRuns
  BY <1>1 DEF RecordedRuns
<1>3. CASE outcome \in {"skipped", "success"}
  <2>1. SuccessText = "true"
    BY <1>3 DEF SuccessText, Certifies
  <2>2. ToldJobs \in {{}, {"cleared"}} /\ ToldJobs' \in {ToldJobs, {"cleared"}}
    BY <1>3, <2>1, Appends DEF ToldJobs, Said, SaidInv
  <2>3. CASE ToldJobs' = ToldJobs
    BY <1>1, <1>2, <2>3 DEF Promise!vars
  <2>4. CASE ToldJobs' = ToldJobs \cup {"cleared"}
    BY <1>1, <1>2, <1>3, <2>4 DEF Promise!Next, Promise!Tell
  <2> QED
    BY <2>2, <2>3, <2>4
<1>4. CASE outcome \in {"warning", "failure"}
  <2>1. SuccessText = "false"
    BY <1>4 DEF SuccessText, Certifies
  <2>2. ToldJobs \in {{}, {"refused"}} /\ ToldJobs' \in {ToldJobs, {"refused"}}
    BY <1>4, <2>1, Appends DEF ToldJobs, Said, SaidInv
  <2>3. CASE ToldJobs' = ToldJobs
    BY <1>1, <1>2, <2>3 DEF Promise!vars
  <2>4. CASE ToldJobs' = ToldJobs \cup {"refused"}
    BY <1>1, <1>2, <1>4, <2>4 DEF Promise!Next, Promise!Tell
  <2> QED
    BY <2>2, <2>3, <2>4
<1> QED
  BY <1>1, <1>3, <1>4 DEF Outcomes

\* The end of conclude, and the steps no later job can see.
LEMMA ExitPromised ==
    ASSUME Inv, SaidInv, Begin \/ ReadVerdict \/ Exit \/ KillConclude \/ UNCHANGED vars
    PROVE  Promise!Next \/ UNCHANGED Promise!vars
<1>1. UNCHANGED <<decided, ended, outcome, jobOutput, jobEnv>>
  BY DEF Begin, ReadVerdict, Exit, KillConclude, vars, writerVars, concluderVars
<1>2. ToldJobs' = ToldJobs /\ RecordedRuns' = RecordedRuns
  BY <1>1 DEF ToldJobs, Said, RecordedRuns
<1>3. CASE phase' = phase \/ {phase, phase'} \cap {"proceed", "fail"} = {}
  BY <1>1, <1>2, <1>3 DEF Promise!vars
<1>4. CASE Begin /\ phase' = "fail"
  BY <1>1, <1>2, <1>4 DEF Begin, Inv, ConcludeInv, PhaseInv, Promise!Next, Promise!Fail
<1>5. CASE Exit
  <2>1. /\ phase = "emit" /\ outcome \in Outcomes
        /\ phase' = IF outcome = "failure" THEN "fail" ELSE "proceed"
    BY <1>5 DEF Exit, Inv, TypeInv, Concluded
  <2> QED
    BY <1>1, <1>2, <2>1 DEF Outcomes, Promise!Next, Promise!Fail, Promise!Proceed
<1> QED
  BY <1>3, <1>4, <1>5 DEF Begin, ReadVerdict, KillConclude, vars, concluderVars

\* A job whose verdict passes through files that may be stale or torn, and whose
\* outputs may stop short, keeps the promise of Certification
\* (conclude.go:225-300, main.go:770-840).
THEOREM JobImplementsCertification == Spec => ImplementsCertification
<1>1. Init => Promise!Init
  <2> SUFFICES ASSUME Init PROVE Promise!Init
    OBVIOUS
  <2>1. /\ decided = [r \in 1 .. Runs |-> NoVerdict]
        /\ \A r \in 1 .. Runs : ended[r] = "none"
        /\ outcome = "none" /\ phase = "before"
    BY DEF Init, WriterInit
  <2>2. Said = {"unset"}
    BY DEF Init, Keys, Said
  <2>3. RecordedRuns = {} /\ ToldJobs = {}
    BY <2>1, <2>2 DEF RecordedRuns, ToldJobs
  <2> QED
    BY <2>1, <2>3 DEF Promise!Init
<1>2. Inv /\ DecisionInv /\ SaidInv /\ [Next]_vars => [Promise!Next]_(Promise!vars)
  BY RunStepPromised, OutcomePromised, EmitPromised, ExitPromised, Zenon DEF Next
<1>3. Spec => [](DecisionInv /\ SaidInv)
  BY InitSaid, NextSaid, Invariance, PTL DEF Spec
<1> QED
  BY <1>1, <1>2, <1>3, Invariance, PTL DEF Spec, ImplementsCertification, Promise!Spec
===============================================================================
