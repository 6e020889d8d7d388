SPECIFICATION Spec
CONSTANTS
  MaxItems = 3
  MaxFaults <- TwoFailures
INVARIANT NothingLost
CHECK_DEADLOCK FALSE
