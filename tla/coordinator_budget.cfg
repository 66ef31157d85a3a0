SPECIFICATION Spec
CONSTANTS
  w1 = w1
  w2 = w2
  None = None
  Workers = {w1, w2}
  Expect = 2
  Budget = 3
  FinalAttempts = 2
  MaxIds = 2
  MaxFaults = 0
INVARIANTS
  BudgetExact
