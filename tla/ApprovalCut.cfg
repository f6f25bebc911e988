SPECIFICATION Spec
CONSTANTS
  MaxFailures <- Retrying
  MaxFaults = 3
INVARIANTS
  WaitsForAnswer
