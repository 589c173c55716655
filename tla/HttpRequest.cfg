SPECIFICATION Spec
CONSTANTS
  MaxAttempts = 2
  Enabled <- MCEnabled
  MaxSpans = 2
  MaxCalls = 2
  MaxCatches = 1
INVARIANTS
  SummaryMatchesAnswer
  CountsMatchTheTree
  FailuresAreShown
  ProviderFailureIsNotTheCallers
