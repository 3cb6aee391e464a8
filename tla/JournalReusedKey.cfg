\* A client sends a key again after compaction removed its operation.
CONSTANTS
  ClientOps = {o1}
  ClientKeys = {k1}
  MaxRetries = 1
  Requests <- messages
  SessionReports <- hostReports
  Turns <- turns
  Generations <- generations
  CanSteer = TRUE
  MaxEvents = 2
  EventBudget = 9
  ReusesOldKeys = TRUE
  RetriesInPlace = FALSE
  Null = null
  Undefined = undefined
  t1 = t1
  t2 = t2
  g1 = g1
  g2 = g2
SPECIFICATION Spec
SYMMETRY symmetry
INVARIANT ReceiptHasEffect
CHECK_DEADLOCK FALSE
