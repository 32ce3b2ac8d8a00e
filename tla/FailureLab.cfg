SPECIFICATION Spec
CONSTANTS
  Run = {"r1", "r2"}
  Plans <- MCPlans
  MaxAttempts = 3
  BaseDelay = 1
  MaxDelay = 2
  Lease = 6
  Limit = 10
  Slack = 1
  Horizon = 2
  Retention = 1
  MaxFaults = 1
INVARIANTS
  ReportsMatch
  LiveUnharmed
  OneEffect
  NothingStray
  LeasesOutlast
PROPERTIES
  RunsEnd
CHECK_DEADLOCK FALSE
