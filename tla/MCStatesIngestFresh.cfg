SPECIFICATION Spec
CONSTANTS
  MaxEvent = 3
  InitialStored = 0
  InitialNow = 0
  LiveMax = 1
  BackfillMax = 2
  BatchMax = 2
  ChunkSize = 1
  SliceWindow = 2
  Grace = 1
  Poison = {}
  DeathModes = {}
  FaultCounts <- NoFaults
INVARIANTS LiveHoldsUnsettled
