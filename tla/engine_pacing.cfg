SPECIFICATION PacedSpec
CONSTANTS
  t1 = t1
  t2 = t2
  t3 = t3
  Threads = {t1, t2, t3}
  MaxRequests = 3
  MaxStarted = 6
  MaxWant = 21
  Rates <- MCRates
  Ramps = {0}
  Period = 2
  MaxTime = 14
  MaxStall = 6
INVARIANTS
  SentWhenDue
