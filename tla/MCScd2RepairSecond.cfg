SPECIFICATION Spec
CONSTANTS
  MaxTime = 2
  MaxRows = 2
  MaxDevices = 1
  Created <- Registered
  MaxRuns = 2
  Payloads = {p}
  Linked = {p}
  FlagSets = {{}}
  MergePasses = 2
PROPERTIES SecondRunChangesNothing
\* After MaxRuns runs the operator stops.
CHECK_DEADLOCK FALSE
