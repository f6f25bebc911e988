SPECIFICATION Spec
CONSTANTS
  MaxFailures <- Retrying
  MaxFaults = 2
INVARIANTS
  TypeOK
  CompletionTellsTheTruth
  PendingOnlyIfStarted
  SuccessIsHandedOff
  AnswerIsKept
PROPERTIES
  CancelledReturns
