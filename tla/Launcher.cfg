SPECIFICATION Spec
CONSTANTS
  MaxSignals = 3
INVARIANTS
  PoolIsClosed
  OutcomeIsTrue
PROPERTIES
  TermIsSurvivable
