SPECIFICATION Spec
INVARIANTS
  TypeOK
  BlockedSignalIsHonoured
PROPERTIES
  SignalEndsWait
