SPECIFICATION Spec
CONSTANTS
  MaxSignals = 3
PROPERTIES
  NotKilledMidWrite
