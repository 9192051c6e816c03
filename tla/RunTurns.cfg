SPECIFICATION FairSpec
CONSTANTS
  a1 = a1  Agents = {a1}
  TakeTurns = TRUE  TornReads = FALSE  SlowCapture = FALSE
  MaxAttaches = 2  MaxCalls = 2  MaxBreaks = 1
INVARIANT TypeOK
PROPERTIES IsRunRecord EnvCarried LiveKept DeathsAreNoticed
CHECK_DEADLOCK FALSE
