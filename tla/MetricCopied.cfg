SPECIFICATION FairSpec
CONSTANTS
  f1 = f1  f2 = f2
  Flushers = {f1, f2}
  Chunk = 2  MaxSpool = 3  MaxCrashes = 1  MaxStrays = 0  MaxRestores = 0
PROPERTIES IsCopiedFile Converges
