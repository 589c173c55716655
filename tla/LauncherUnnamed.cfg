SPECIFICATION Spec
CONSTANTS
  MaxSignals = 3
INVARIANTS
  StopIsNamed
