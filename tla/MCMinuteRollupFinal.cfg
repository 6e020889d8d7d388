SPECIFICATION Spec
CONSTANTS
  MinuteTicks = 2
  Lookback = 2
  Day = 2
  Bucket = 4
  Holds = {2, 3}
  MaxTime = 5
  MaxRows = 2
  MaxOps = 0
PROPERTY FinalUnlessDirty
\* Without a configured entity nothing is left to do when time ends.
CHECK_DEADLOCK FALSE
