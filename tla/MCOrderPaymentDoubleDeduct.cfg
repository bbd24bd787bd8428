SPECIFICATION Spec
CONSTANTS
  Orders = {o1}
  Payers = {c1, c2}
  Sweeps = {}
  Renewals = {}
  Cancels = {}
  Reviews = {v1}
  Txs = {}
  RenewLimit = 1
  MaxCrashes = 1
  None = None
CHECK_DEADLOCK FALSE
INVARIANTS
  DeductAtMostOnce
