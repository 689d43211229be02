SPECIFICATION Spec
CONSTANTS
  safe = safe
  leak = leak
  patch = patch
  r1 = r1
  r2 = r2
  NoVerdict = NoVerdict
  Verdicts <- MCVerdicts
  Threats <- MCThreats
  Eligible <- MCEligible
  Reports <- MCReports
  Attempts = 2
  DirectWrites = FALSE
  EnvDropped = TRUE
  TimeoutEnabled = TRUE
  Orphans = FALSE
  SigTerm = FALSE
SYMMETRY ReportSymmetry
CHECK_DEADLOCK FALSE
INVARIANTS
  FreshVerdict
  AcknowledgedIsRecorded
  NoEngineLeftBehind
