SPECIFICATION FairSpec
CONSTANTS
  MaxItems = 3
  MaxFaults <- EveryFault
INVARIANTS TypeOK FrontIsInFlight LossBounded
PROPERTIES FirstWriteInOrder EventuallyWritten
\* Without further registry events the pipeline comes to rest with the worker in get().
CHECK_DEADLOCK FALSE
