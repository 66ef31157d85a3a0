SPECIFICATION FairPodSpec
CONSTANTS
  Probers = {c1, c2}
  Patient = {c2}
  Deps = {"postgres", "redis"}
  MaxFaults = 2
  Nobody = Nobody
  Requests = {c1, c2}
  Items = {i1, i2}
  Slots = {1, 2}
  None = None
INVARIANTS
  OneRoundPerExpiry
  ReadyMeansAllFound
  SlotsExact
  LookupsAreRight
PROPERTIES
  ProbesAnswered
  PodComesBack
  RequestsEnd
