SPECIFICATION Spec
CONSTANTS
  owner = owner
  Owners = {owner}
  Schedules <- OneSchedule
  Grants <- EitherGrant
  MaxEpoch = 1
  MaxTime = 2
  MaxCrashes = 1
INVARIANT SkippedMeansMissed
CHECK_DEADLOCK FALSE
