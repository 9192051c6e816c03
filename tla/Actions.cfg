SPECIFICATION FairSpec
CONSTANTS
  sweep = sweep  Names = {sweep}  Declared <- MCDeclared
  e1 = e1  Editors = {e1}
  c1 = c1  Calls = {c1}  a1 = a1  Notes = {a1}
  Torn = Torn  Blank = {}
  MaxVersions = 2  MaxChanges = 3  MaxDeaths = 1
INVARIANTS Audited OutcomeStands
 
CHECK_DEADLOCK FALSE
