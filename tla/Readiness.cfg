SPECIFICATION FairSpec
CONSTANTS
  p1 = p1  p2 = p2  p3 = p3
  Polls = {p1, p2, p3}
  None = None
  Ttl = 3
  LlmTimeout = 2
  DbBudget = 1
  Settings <- MCSettings
  MaxCancels = 1
INVARIANTS
  AnswersInTime
PROPERTIES
  CallsAreSpaced
  ReportsLastAnswer
  EveryPollAnswers
