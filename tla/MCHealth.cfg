SPECIFICATION FairSpec
CONSTANTS
  Workers = {"states"}
  StallThreshold = 3
  PoisonAttempts = 2
  PoisonSeconds = 1
  SustainedSeconds = 1
  StuckAfter = 1
  MaxDeaths = 1
  MaxReloads = 1
  MaxPosted = 0
INVARIANTS TypeOK StallShown
PROPERTIES DropAfterSteadyFailures NeverSilent StuckIsReported ReportIsWithdrawn SensorsCatchUp
