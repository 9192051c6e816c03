SPECIFICATION Spec
CONSTANTS
  alice = alice  bob = bob  Names = {alice, bob}
  e1 = e1  e2 = e2  Editors = {e1, e2}
  t1 = t1  Threads = {t1}  Roles = {"viewer", "admin"}
SYMMETRY Alike
CONSTANTS
  Torn = Torn  Blank <- NoUsers
  MaxDrawn = 3  MaxChanges = 4  MaxFails = 1  MaxBreaks = 1  MaxDeaths = 1
INVARIANTS TypeOK AdminRemains
PROPERTIES OnForGood EndedForGood SurvivesRestart
CHECK_DEADLOCK FALSE
