SPECIFICATION ToolSpec
CONSTANTS
  safe = safe
  leak = leak
  patch = patch
  r1 = r1
  r2 = r2
  r3 = r3
  NoVerdict = NoVerdict
  Verdicts <- MCVerdicts
  Threats <- MCThreats
  Eligible <- MCEligible
  Reports <- MCReports
  Attempts = 2
  EnvDropped = FALSE
SYMMETRY ReportSymmetry
INVARIANTS
  AcknowledgedIsReadable
  SinkWasValidated
PROPERTIES
  SettledVerdictStays
CHECK_DEADLOCK FALSE
