SPECIFICATION Spec
CONSTANTS
  safe = safe
  leak = leak
  NoVerdict = NoVerdict
  Missing = Missing
  Broken = Broken
  Verdicts <- MCVerdicts
  Threats <- MCThreats
  Failures <- MCFailures
  Forged <- MCForged
  Inputs <- MCInputs
  Runs = 2
  LogBound = 0
  OutputGiven = TRUE
  FullGiven = TRUE
  Kills = FALSE
CHECK_DEADLOCK FALSE
INVARIANTS
  NoStaleReasonsReported
