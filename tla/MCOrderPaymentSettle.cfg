SPECIFICATION Spec
CONSTANTS
  Orders = {o1, o2}
  Payers = {c1, c2}
  Sweeps = {}
  Renewals = {}
  Cancels = {}
  Reviews = {v1}
  Txs = {t1}
  RenewLimit = 1
  MaxCrashes = 1
  None = None
SYMMETRY Symmetry
CHECK_DEADLOCK FALSE
INVARIANTS
  ClaimExclusive
  DeductOnce
  PaidIsBooked
  OneOrderPerTx
PROPERTIES
  ImplementsLifecycle
