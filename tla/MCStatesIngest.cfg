SPECIFICATION FairSpec
CONSTANTS
  MaxEvent = 5
  InitialStored = 1
  InitialNow = 3
  LiveMax = 1
  BackfillMax = 2
  BatchMax = 2
  ChunkSize = 1
  SliceWindow = 2
  Grace = 1
  Poison = {4}
  DeathModes = {"INIT", "LIVE"}
  FaultCounts <- FaultSets
INVARIANTS TypeOK GapWithinGrace CycleOwnership CursorCoverage LiveHoldsUnsettled
PROPERTIES LiveRowsKept RefinesContract EventuallySettled OverflowCleared
\* An unload that runs into a crashed orchestrator leaves nothing more to run.
CHECK_DEADLOCK FALSE
