SPECIFICATION Spec
CONSTANTS
  MaxFailures <- Retrying
  MaxFaults = 3
INVARIANTS
  TypeOK
  CompletionFollowsRequest
  NeverSilent
  WaitsUnlessCut
PROPERTIES
  KeepsPromise
