CONSTANTS
  MessageCount = 1
  MaxOps = 2
  Runs = {1, 2}
  MaxFaults = 1
  MaxRequests = 2

SPECIFICATION FairSpec

INVARIANTS
  TypeOK
  HistoryKeepsDeliveries
  CurrentIsHosted
  SuccessorsAreOwned

PROPERTIES
  MigrationEnds
  AcceptedIsSettled

CHECK_DEADLOCK FALSE
