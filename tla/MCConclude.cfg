SPECIFICATION Spec
CONSTANTS
  safe = safe
  leak = leak
  NoVerdict = NoVerdict
  Missing = Missing
  Broken = Broken
  Verdicts <- MCVerdicts
  Threats <- MCThreats
  Failures <- MCFailures
  Forged <- MCForged
  Inputs <- MCInputs
  Runs = 2
  LogBound = 1
  OutputGiven = TRUE
  FullGiven = TRUE
  Kills = TRUE
CHECK_DEADLOCK FALSE
INVARIANTS
  UploadCarriesNoReasons
  CertifiesOnlyTheLatestCleanVerdict
  RecordedVerdictDecides
  ReasonsFitVerdict
  RecordedLeavesAFile
  FailureIsTheRunsOwn
  TypeOK
PROPERTIES
  ConcludeLeavesResults
  ImplementsCertification
