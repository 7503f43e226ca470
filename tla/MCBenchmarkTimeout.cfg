SPECIFICATION BenchSpec
CONSTANTS
  i1 = i1
  i2 = i2
  Intents <- TwoIntents
  BatchSize = 2
  MaxAttempts = 2
  MaxBroadcasts = 1
  MaxClock = 2
  Wait = 0
  Commit = "newer"
  Workload = "burst"
  MaxDrift = 1
  OtherRuns <- Others
  NoRow = NoRow
INVARIANT TimeoutsStayVisible
CHECK_DEADLOCK FALSE
SYMMETRY Symmetry
