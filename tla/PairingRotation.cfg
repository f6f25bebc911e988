SPECIFICATION Spec
CONSTANTS
  Procs = {p1, p2}
  Clients = {c1}
  Psks = {k1, k2, k3}
  Times = {0, 2, 4}
  Interval = 1
  CanLosePower = FALSE
  MaxLate = 2
  None = None
SYMMETRY Symmetry
INVARIANTS
  TypeOK
  Recoverable
PROPERTIES
  KeepsPromise
  RotationSpacing
CHECK_DEADLOCK FALSE
