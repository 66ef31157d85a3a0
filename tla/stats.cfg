SPECIFICATION Spec
CONSTANTS
  None = None
  NumBuckets = 4
  Bounds <- MCBounds
  Growth = 200
  W = 64
  MaxShards = 2
  Requests <- MCRequests
  SLOs <- MCSLOs
  Elapsed = {0, 2}
  MaxUs = 9
  MaxRecords = 2
  MaxTicks <- MCTicks
INVARIANTS
  FinalExact
  MergeExact
  PercentileAccurate
  TicksAreCumulative
  HistogramLag
  VerdictIsRight
