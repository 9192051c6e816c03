SPECIFICATION Spec
CONSTANTS
  a1 = a1  Agents = {a1}
  TakeTurns = FALSE  TornReads = FALSE  SlowCapture = FALSE
  MaxAttaches = 1  MaxCalls = 1  MaxBreaks = 0
INVARIANT ReportedStands
CHECK_DEADLOCK FALSE
