SPECIFICATION Spec
CONSTANTS
  Orders = {o1}
  Payers = {c1}
  Sweeps = {s1}
  Renewals = {}
  Cancels = {}
  Reviews = {}
  Txs = {}
  RenewLimit = 1
  MaxCrashes = 1
  None = None
CHECK_DEADLOCK FALSE
INVARIANTS
  PaidKeepsPromo
