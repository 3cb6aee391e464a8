\* Two messages of any policy, the first with an image; any three failures.
CONSTANTS
  MessageCount = 2
  Policies = {"queue", "steer-if-active", "interrupt-active"}
  Illustrated = {1}
  MaxFaults = 3
  Null = null
  Undefined = undefined
SPECIFICATION FairSpec
INVARIANT TypeOK
INVARIANT TurnIsTracked
PROPERTY DeliversAsPromised
PROPERTY EventuallySettled
CHECK_DEADLOCK FALSE
