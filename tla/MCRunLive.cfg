SPECIFICATION FairSpec
CONSTANTS
  safe = safe
  leak = leak
  patch = patch
  r1 = r1
  r2 = r2
  NoVerdict = NoVerdict
  Verdicts <- MCVerdicts
  Threats <- MCThreats
  Eligible <- MCEligible
  Reports = {r1}
  Attempts = 2
  DirectWrites = FALSE
  EnvDropped = TRUE
  TimeoutEnabled = TRUE
  Orphans = TRUE
  SigTerm = FALSE
CHECK_DEADLOCK FALSE
INVARIANTS
  LateRetryOnlyAfterIneligible
PROPERTIES
  RunTerminates
  VerdictStopsEngine
  InterruptEndsRun
