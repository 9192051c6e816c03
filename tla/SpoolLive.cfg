SPECIFICATION FairSpec
CONSTANTS
  thread = thread  cli = cli  Clients = {thread}  Followed = {1}
  MaxRuns = 1  MaxEvents = 3  MaxLines = 1  MaxArtifacts = 2  EventBatch = 3  MaxBreaks = 1
PROPERTIES Arrives 
