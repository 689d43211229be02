SPECIFICATION Spec
CONSTANTS
  safe = safe
  leak = leak
  patch = patch
  r1 = r1
  r2 = r2
  NoVerdict = NoVerdict
  Verdicts <- MCVerdicts
  Threats <- MCThreats
  Eligible <- MCEligible
  Reports = {r1}
  Attempts = 2
  DirectWrites = TRUE
  EnvDropped = TRUE
  TimeoutEnabled = TRUE
  Orphans = FALSE
  SigTerm = TRUE
CHECK_DEADLOCK FALSE
INVARIANTS
  TypeOK
  RecordedIsGenuine
PROPERTIES
  ImplementsVerdictRun
  NoEngineAfterInterrupt
