\* Three deployments; any three failures.
CONSTANTS
  DeploymentCount = 3
  MaxFaults = 3
  Null = null
SPECIFICATION FairSpec
INVARIANT TypeOK
INVARIANT ServingIsKept
INVARIANT RollbackSlotKept
PROPERTY SuccessCleansUp
PROPERTY StatusTellsServing
PROPERTY EveryDeploymentEnds
CHECK_DEADLOCK FALSE
