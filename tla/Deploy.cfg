SPECIFICATION FairSpec
CONSTANTS
  c1 = c1  c2 = c2  c3 = c3
  Containers = {c1, c2, c3}
  None = None
  Head <- MCHead
  MaxStops = 2
INVARIANTS
  SchemaIsItsVersion
  CreatesOnce
  ServesItsSchema
PROPERTIES
  NobodyWaitsForever
CHECK_DEADLOCK FALSE
