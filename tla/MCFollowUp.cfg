CONSTANTS
  Merges = {1, 2}
  Issue <- OneIssue
  Policies <- ThreePolicies
  MaxFaults = 1
  WaitCauses <- SixCauses
  BACKOFF <- QuarterHours
  MIN_DELAY = 2
  RebuildDelay = 2
  Limit = 3
  MaxTime = 3
  MaxChanges = 4
  MaxCrashes = 1
SPECIFICATION FollowUpSpec
CHECK_DEADLOCK FALSE
INVARIANT ReportedOnce
PROPERTIES
  FailuresReported
  WaitsAreTrue
