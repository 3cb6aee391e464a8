\* Launches, kills, interrupts, answers and sends retried in place.
CONSTANTS
  ClientOps = {o1, o2}
  ClientKeys = {k1, k2}
  MaxRetries = 0
  Requests <- controls
  SessionReports <- successorReports
  Turns <- turns
  Generations <- generations
  CanSteer = TRUE
  MaxEvents = 2
  EventBudget = 7
  ReusesOldKeys = FALSE
  RetriesInPlace = TRUE
  Null = null
  Undefined = undefined
  t1 = t1
  t2 = t2
  g1 = g1
  g2 = g2
SPECIFICATION Spec
SYMMETRY symmetry
INVARIANT ReceiptHasEffect
INVARIANT OutcomeIsFinal
INVARIANT PlaceholderHasLaunch
CHECK_DEADLOCK FALSE
