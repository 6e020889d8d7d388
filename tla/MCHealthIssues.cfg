SPECIFICATION Spec
CONSTANTS
  Workers = {"states"}
  StallThreshold = 3
  PoisonAttempts = 2
  PoisonSeconds = 1
  SustainedSeconds = 6
  StuckAfter = 4
  MaxDeaths = 0
  MaxReloads = 1
  MaxPosted = 0
PROPERTY IssuesClear
