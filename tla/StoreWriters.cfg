SPECIFICATION Spec
CONSTANTS
  n1 = n1  n2 = n2  part = part  tree = tree  status = status  notes = notes
  p1 = p1  p2 = p2
  Nodes = {n1, n2}  Scalars = {status}  Lists = {notes}
  Edges = {part}  Trees = {tree}  Ends <- MCEnds
  Procs = {p1, p2}  Owned <- Disjoint
  Ingesters = {}  Rebuilders = {}  Batches <- NoBatch
  MaxEvents = 5  MaxCrashes = 0  MaxTears = 0  MaxRebuilds = 0
INVARIANTS  CurrentWhenIdle
PROPERTY ListsKept
CHECK_DEADLOCK FALSE
