CONSTANTS
  p1 = p1
  p2 = p2
  x1 = x1
  x2 = x2
  Docs = {doc}
  ParseTasks = {p1}
  ExtractTasks = {x1}
  MaxDeliver = 2
  MaxEvents = 1
  MaxRestarts = 1
  MaxFaults = 2
SPECIFICATION Spec
PROPERTY DocumentsComeToRest
CHECK_DEADLOCK FALSE
