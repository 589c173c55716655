SPECIFICATION Spec
CONSTANTS
  r1 = r1  r2 = r2  i1 = i1  i2 = i2 
  upper = upper  lower = lower  blank = blank
  text = text  null = null  s1 = s1  s2 = s2  s3 = s3 
  Requests = {r1, r2}
  TaskIds = {i1, i2}
  Titles = {upper, lower}
  BadTitles = {blank}
  Lower <- MCLower
  Details = {null, text}
  BadDetails = {}
  BadStatuses = {}
  Stamps = {s1, s2, s3}
  Keep = Keep
  NoRow = NoRow
  Malformed = Malformed
  Patches <- MCPatchesSmall
  InitialTable <- MCTableOne
  FreshStamps = TRUE
INVARIANTS
  NoLostUpdate
  TableIsConsistent
  AnswersAreTrue
PROPERTIES
  AtomicUpdates
CHECK_DEADLOCK FALSE
