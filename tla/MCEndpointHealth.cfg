SPECIFICATION FairSpec
CONSTANTS
  e1 = e1
  e2 = e2
  Endpoint = {e1}
  WorkersPerEndpoint = 2
  MaxConsecutiveFailures = 2
  HealthPollInterval = 3
  BackoffBase = 1
  BackoffMax = 7
  WatchdogInterval = 2
  WatchdogMaxIdle = 4
  PollTimeout = 4
  ThrottleSleep = 1
INVARIANTS TypeOK RevivalsScheduled DeadForBackoff OversleepsBackoff
PROPERTIES ImplementsFailover Recovers
CHECK_DEADLOCK FALSE
