\* A publication of the host state fails once.
CONSTANTS
  MessageCount = 2
  Policies <- allPolicies
  Unreadable = {}
  MaxFaults = 1
  SyncFails = TRUE
  Null = null
  Undefined = undefined
SPECIFICATION Spec
INVARIANT IdleHostHasNoBacklog
CHECK_DEADLOCK FALSE
