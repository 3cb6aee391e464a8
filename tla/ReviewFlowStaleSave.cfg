\* One round, no failures; a close and the creation of another flow.
CONSTANTS
  Limits = {1}
  Manual = {FALSE}
  MaxRounds = 1
  MaxReviewers = 2
  MaxFaults = 0
  MaxRequests = 2
SPECIFICATION Spec
PROPERTY ClosedStaysClosed
CHECK_DEADLOCK FALSE
