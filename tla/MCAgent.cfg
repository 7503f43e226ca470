SPECIFICATION FairSpec
CONSTANTS
  owner = owner
  Owners = {owner}
  Schedules <- SparseSchedule
  Grants <- Renewed
  MaxEpoch = 2
  MaxTime = 2
  MaxCrashes = 1
INVARIANTS AgentInv SignaturesAreUnique SignaturesFitBudget ConfirmedIsExecuted
PROPERTIES TerminalIsFinal PaidInWindow SignedIsResolved
CHECK_DEADLOCK FALSE
