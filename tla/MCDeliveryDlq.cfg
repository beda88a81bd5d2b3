CONSTANTS
  good = good
  bad = bad
  None = None
  Messages <- MCMessages
  Malformed <- MCMalformed
  MaxDeliver = 2
  MaxStops = 2
  MaxLost = 1
SPECIFICATION Spec
INVARIANT ExhaustedIsDeadLettered
CHECK_DEADLOCK FALSE
