\* Two messages of any policy; any two failures, publications included.
CONSTANTS
  MessageCount = 2
  Policies <- allPolicies
  Unreadable = {}
  MaxFaults = 2
  SyncFails = TRUE
  Null = null
  Undefined = undefined
SPECIFICATION Spec
INVARIANT TypeOK
INVARIANT InterruptsFencedTurn
INVARIANT OneUncertainDelivery
PROPERTY DeliversAsPromised
CHECK_DEADLOCK FALSE
