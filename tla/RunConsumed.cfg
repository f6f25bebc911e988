SPECIFICATION Spec
INVARIANTS
  SignalPreventsExecution
