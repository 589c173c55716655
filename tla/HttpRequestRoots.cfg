SPECIFICATION Spec
CONSTANTS
  MaxAttempts = 2
  Enabled <- MCEnabled
  MaxSpans = 2
  MaxCalls = 0
  MaxCatches = 1
INVARIANTS
  NoDetachedSpans
