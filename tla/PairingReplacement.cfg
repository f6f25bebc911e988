SPECIFICATION Spec
CONSTANTS
  Procs = {p1, p2}
  Clients = {c1, c2}
  Psks = {k1, k2}
  Times = {0, 2}
  Interval = 1
  CanLosePower = TRUE
  MaxLate = 1
  None = None
SYMMETRY Symmetry
INVARIANTS
  ActiveOnlyAfterDevice
  ReportedIsDurable
PROPERTIES
  SparesReplacement
  RemovedAfterDevice
CHECK_DEADLOCK FALSE
