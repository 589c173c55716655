SPECIFICATION Spec
CONSTANTS
  r1 = r1  r2 = r2  p1 = p1  p2 = p2
  old = old  head = head  next = next  blank = blank
  Requests = {r1, r2}
  Probes = {p1, p2}
  None = None
  PoolSize = 1
  Revisions = {old, head, next, blank}
  Schemas <- MCSchemas
  Expected = {head}
  Known = {old, head}
  Malformed = {blank}
INVARIANTS
  OneProbeAtATime
  NoOrphanProbe
  VerdictIsTrue
SYMMETRY Symmetry
