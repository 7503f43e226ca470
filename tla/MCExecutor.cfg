SPECIFICATION Spec
CONSTANTS
  o1 = o1
  a1 = a1
  a2 = a2
  tok = tok
  shop = shop
  Owners = {o1}
  Agents = {a1, a2}
  Tokens = {tok}
  Accounts <- EveryAccount
  Policies <- TightPolicy
  Intents <- PresentedIntents
  Signed <- SignedIntents
  Supply = 4
  Allowances = {0, 4}
  MaxBatch = 3
  MaxEpoch = 2
  MaxTime = 1
INVARIANTS BooksInv NoReplay BooksBalance
PROPERTIES KeepsMandate
