SPECIFICATION FairSpec
CONSTANTS
  MaxFailures <- Retrying
  MaxFaults = 2
PROPERTIES
  CancelledReturns
  AnsweredReturns
