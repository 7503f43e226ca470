SPECIFICATION Spec
CONSTANTS
  owner = owner
  Owners = {owner}
  Schedules <- TwoSchedules
  Grants <- EitherGrant
  MaxEpoch = 1
  MaxTime = 2
  MaxCrashes = 1
PROPERTY RegisteredIsDurable
CHECK_DEADLOCK FALSE
