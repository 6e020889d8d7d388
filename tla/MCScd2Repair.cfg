SPECIFICATION Spec
CONSTANTS
  MaxTime = 2
  MaxRows = 3
  MaxDevices = 1
  Created <- Registered
  MaxRuns = 3
  Payloads = {p, q}
  Linked = {p}
  FlagSets <- NoneOrBoth
  MergePasses = 2
INVARIANTS TypeOK RepairedIsClean AnchorLabelsKept NoInventedHistory LossesArchived CurrentLossReported ConstraintHolds
PROPERTIES LaterRunsSettle
\* After MaxRuns runs the operator stops.
CHECK_DEADLOCK FALSE
