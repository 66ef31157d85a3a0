SPECIFICATION Spec
CONSTANTS
  w1 = w1
  w2 = w2
  None = None
  Workers = {w1, w2}
  Expect = 1
  Budget = 1
  FinalAttempts = 2
  MaxIds = 2
  MaxFaults = 1
INVARIANTS
  ExactAggregation
