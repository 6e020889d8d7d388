SPECIFICATION Spec
CONSTANTS
  Ids = {a, b}
  NoId = none
  Payloads = {p, q}
  MaxOps = 2
  MaxFaults = 1
  MaxRestarts = 1
  MaxTime = 3
  FreeCloses = 0
INVARIANTS TypeOK SnapshotHeals RecordedFaithfully OrderedNothingLost ReplayNoOp OneOrigin
PROPERTIES LogSpec
\* When the bounds are reached and the queue is empty nothing more happens.
CHECK_DEADLOCK FALSE
