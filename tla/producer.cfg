SPECIFICATION FairSpec
CONSTANTS
  e1 = e1
  e2 = e2
  e3 = e3
  c1 = c1
  Events = {e1, e2, e3}
  Creates = {c1}
  MaxBuffered = 2
  MaxFaults = 2
INVARIANTS
  BufferBounded
  EventFollowsItem
  CleanStopDelivers
PROPERTIES
  CountedOnce
  AcceptedIsSettled
