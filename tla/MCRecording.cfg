SPECIFICATION MCSpec
CONSTANTS
  MaxSeq = 3
  MaxDepth = 1
  CheckpointRecords = 2
  Scripts = {"s"}
  Calls = {"emit", "fault", "halt", "end"}
  Edges = {}
INVARIANTS
  FaultsContained
  DocumentTold
  NetReplayed
  NetFollowed
  ResponsesEndOnce
PROPERTIES
  KeepsLog
