SPECIFICATION Spec
CONSTANTS
  Defects = {"d1", "d2"}
  FileOf <- MCFileOf
  Tiers <- MCTiers
  E2E = "e2e"
  MaxStops = 1
  MaxTouches = 1
PROPERTIES
  LocalEditsSurvive
