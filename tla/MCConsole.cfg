SPECIFICATION Spec
CONSTANTS
  ann = ann
  bob = bob
  first = first
  Accounts <- MCAccounts
  Acts <- MCActs
  MaxChanges = 1
  MaxSwitches = 1
  MaxVisits = 2
  MaxDead = 1
SYMMETRY Symmetry
INVARIANTS PInv ShownBelongsToOwner ConfirmedIsShown ConfirmedConcernsOwner
PROPERTIES NeverShowsOlder
CHECK_DEADLOCK FALSE
