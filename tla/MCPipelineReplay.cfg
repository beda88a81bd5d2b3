CONSTANTS
  p1 = p1
  p2 = p2
  x1 = x1
  x2 = x2
  Docs = {doc}
  ParseTasks = {p1}
  ExtractTasks = {x1}
  MaxDeliver = 2
  MaxEvents = 2
  MaxRestarts = 1
  MaxFaults = 1
SPECIFICATION Spec
INVARIANT ReplayReachesUnfinished
CHECK_DEADLOCK FALSE
