SPECIFICATION FairService
CONSTANTS
  i1 = i1
  i2 = i2
  p1 = p1
  p2 = p2
  Intents = {i1, i2}
  Run <- OneRun
  NonceKey <- OwnNonce
  Scheduled = {}
  Expiring = {i1}
  Shared = {}
  BatchSize = 2
  MaxAttempts = 2
  MaxBroadcasts = 2
  Capacity = 2
  MaxCrashes = 2
  Procs = {p1, p2}
  MaxKills = 1
INVARIANTS SInv OwnerHoldsLock StaleMeansKilled
PROPERTIES StopIsClean IsARelayer StopFinishes
CHECK_DEADLOCK FALSE
