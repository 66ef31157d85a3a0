SPECIFICATION Spec
CONSTANTS
  w1 = w1
  w2 = w2
  p1 = p1
  ev = ev
  Invalid = Invalid
  NoWorker = NoWorker
  Workers = {w1, w2}
  Partitions = {p1}
  Log <- MCLog
  FlushSize = 2
  HasStore = TRUE
  HasCache = FALSE
  MaxFaults = 0
  MaxRebalances = 1
INVARIANTS
  ScaleInCountsOnce
