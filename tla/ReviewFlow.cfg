\* Two rounds, two reviewers; one request or creation and two failures.
CONSTANTS
  Limits = {2}
  Manual = {FALSE}
  MaxRounds = 2
  MaxReviewers = 2
  MaxFaults = 2
  MaxRequests = 1
SPECIFICATION FairSpec
INVARIANT TypeOK
INVARIANT OneReviewer
INVARIANT ClosedStopsReviewer
PROPERTY RelaysAgainOnlyIfAsked
PROPERTY OnlyRevertReopens
PROPERTY RoundsEnd
CHECK_DEADLOCK FALSE
