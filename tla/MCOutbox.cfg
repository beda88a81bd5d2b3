CONSTANTS
  register = register
  commit = commit
  Relays = {r1, r2}
  Events <- MCEvents
  Transactions <- MCTransactions
  Emits <- MCEmits
  Batch = 2
  MaxRollbacks = 1
  MaxExpiries = 1
SPECIFICATION Spec
INVARIANTS TypeOK MarkedIsStored OneCopyPerWindow
PROPERTIES BacklogDrains ImplementsEventLog
CHECK_DEADLOCK FALSE
