\* Fair behaviours in which publications succeed, one message unreadable by
\* Claude: every message is settled and none is left behind at an idle host.
CONSTANTS
  MessageCount = 2
  Policies <- allPolicies
  Unreadable = {2}
  MaxFaults = 2
  SyncFails = FALSE
  Null = null
  Undefined = undefined
SPECIFICATION FairSpec
PROPERTY EventuallySettled
INVARIANT IdleHostHasNoBacklog
CHECK_DEADLOCK FALSE
