SPECIFICATION Spec
CONSTANTS
  i1 = i1
  i2 = i2
  Intents <- TwoIntents
  Run <- OneRun
  NonceKey <- OwnNonce
  Scheduled = {}
  Expiring = {}
  Shared = {i2}
  BatchSize = 2
  MaxAttempts = 2
  MaxBroadcasts = 2
  Capacity = 2
  MaxCrashes = 1
INVARIANTS RelayerInv OutboxFirst NoCompetingTransaction OutcomeIsTrue AttemptsAreTransactions
PROPERTIES KeepsPromise KeepsLedger NoOvertaking
CHECK_DEADLOCK FALSE
