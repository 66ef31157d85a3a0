SPECIFICATION Spec
CONSTANTS
  e1 = e1
  e2 = e2
  e3 = e3
  c1 = c1
  Events = {e1, e2}
  Creates = {c1}
  MaxBuffered = 1
  MaxFaults = 0
INVARIANTS
  FullMeans503
