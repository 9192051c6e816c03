SPECIFICATION Spec
CONSTANTS
  thread = thread  cli = cli  Clients = {thread, cli}  Followed = {}
  MaxRuns = 2  MaxEvents = 3  MaxLines = 0  MaxArtifacts = 1  EventBatch = 2  MaxBreaks = 1
SYMMETRY SymmetricClients
INVARIANTS TypeOK AckedIsThere RefsComplete
PROPERTY IsCopiedFile
