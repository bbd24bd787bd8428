SPECIFICATION FairSpec
CONSTANTS
  Orders = {o1}
  Payers = {c1}
  Sweeps = {s1}
  Renewals = {r1}
  Cancels = {k1}
  Reviews = {}
  Txs = {}
  RenewLimit = 1
  MaxCrashes = 1
  None = None
CHECK_DEADLOCK FALSE
INVARIANTS
  TypeOK
  ProcessingHasOwner
  UsedPromoWasPaid
PROPERTIES
  NoLateClaim
  ImplementsLifecycle
  ClaimResolves
  ExpiryHappens
