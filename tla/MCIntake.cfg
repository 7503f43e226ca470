SPECIFICATION Spec
CONSTANTS
  i1 = i1
  i2 = i2
  i3 = i3
  i4 = i4
  Intents <- MCIntents
  Reserves <- MCReserves
  Deadline <- MCDeadline
  SignedFor <- MCSignedFor
  Bodies <- MCBodies
  Configs <- MCConfigs
  Placeholder = "placeholder"
  Nodes <- MCNodes
  Capacity = 1
  MaxTime = 1
  MaxStarts = 2
INVARIANTS IntakeInv
CHECK_DEADLOCK FALSE
