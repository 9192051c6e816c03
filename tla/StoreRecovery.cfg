SPECIFICATION Spec
CONSTANTS
  n1 = n1  n2 = n2  part = part  tree = tree  status = status  notes = notes
  p1 = p1  p2 = p2
  Nodes = {n1, n2}  Scalars = {status}  Lists = {notes}
  Edges = {part}  Trees = {tree}  Ends <- MCEnds
  Procs = {p1}  Owned <- Server
  Ingesters = {p1}  Rebuilders = {p1}  Batches <- Growing
  MaxEvents = 0  MaxCrashes = 2  MaxTears = 2  MaxRebuilds = 2
INVARIANTS TypeOK JournalFirst  FollowsSpool
PROPERTY RebuildRestores
CHECK_DEADLOCK FALSE
