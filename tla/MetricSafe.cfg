SPECIFICATION Spec
CONSTANTS
  f1 = f1  f2 = f2
  Flushers = {f1, f2}
  Chunk = 2  MaxSpool = 3  MaxCrashes = 1  MaxStrays = 1  MaxRestores = 1
SYMMETRY Interchangeable
INVARIANTS TypeOK NeverInterleaves AckedIsStored
