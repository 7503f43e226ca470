SPECIFICATION FairSpec
CONSTANTS
  i1 = i1
  i2 = i2
  Intents <- TwoIntents
  Run <- TwoRuns
  NonceKey <- OwnNonce
  Scheduled = {i2}
  Expiring = {i1, i2}
  Shared = {}
  BatchSize = 2
  MaxAttempts = 1
  MaxBroadcasts = 2
  Capacity = 2
  MaxCrashes = 1
PROPERTIES EventuallyResolved TerminalIsFinal
CHECK_DEADLOCK FALSE
