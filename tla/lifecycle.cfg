SPECIFICATION LifeFairSpec
CONSTANTS
  Runs <- MCRuns
  Files <- MCFiles
  Free = "free"
  Pod = "pod"
  MaxBusy = 1
INVARIANTS
  AppliedExactlyOnce
  OneAtATime
  ServesOnlyMigrated
  DrainIsGraceful
PROPERTIES
  EveryRunEnds
  StopsWhenAsked
\* All processes come to an end; what is stuck before violates the liveness
\* properties.
CHECK_DEADLOCK FALSE
