CONSTANTS
  good = good
  bad = bad
  None = None
  Messages <- MCMessages
  Malformed <- MCMalformed
  MaxDeliver = 2
  MaxStops = 2
  MaxLost = 1
SPECIFICATION Spec
INVARIANTS TypeOK SettledIsAccounted AttemptsBounded
CHECK_DEADLOCK FALSE
