SPECIFICATION Spec
CONSTANTS
  MaxEvent = 5
  InitialStored = 1
  InitialNow = 5
  LiveMax = 1
  BackfillMax = 2
  BatchMax = 2
  ChunkSize = 1
  SliceWindow = 1
  Grace = 1
  Poison = {}
  DeathModes = {"BACKFILL"}
  FaultCounts <- OneDeath
INVARIANTS GapWithinGrace
