CONSTANTS
  p1 = p1
  p2 = p2
  x1 = x1
  x2 = x2
  Docs = {doc}
  ParseTasks <- MCParseTasks
  ExtractTasks <- MCExtractTasks
  MaxDeliver = 2
  MaxEvents = 1
  MaxRestarts = 1
  MaxFaults = 1
SPECIFICATION Spec
INVARIANTS TypeOK ArtifactChain WedgeNeedsFault
PROPERTY IndexedIsFinal
SYMMETRY MCSymmetry
CHECK_DEADLOCK FALSE
