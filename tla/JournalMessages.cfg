\* Sends and steers with keyed retries; the log keeps two events.
CONSTANTS
  ClientOps = {o1, o2}
  ClientKeys = {k1, k2}
  MaxRetries = 1
  Requests <- messages
  SessionReports <- hostReports
  Turns <- turns
  Generations <- generations
  CanSteer = TRUE
  MaxEvents = 2
  EventBudget = 8
  ReusesOldKeys = FALSE
  RetriesInPlace = FALSE
  Null = null
  Undefined = undefined
  t1 = t1
  t2 = t2
  g1 = g1
  g2 = g2
SPECIFICATION Spec
SYMMETRY symmetry
INVARIANT TypeOK
INVARIANT OneLiveAttempt
INVARIANT ReplacementOutlivesParent
INVARIANT FenceAgrees
PROPERTY FenceIsKept
CHECK_DEADLOCK FALSE
