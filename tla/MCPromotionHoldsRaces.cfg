SPECIFICATION Spec
CONSTANTS
  Checkouts = {c1, c2}
  Endings = {e1}
  Promos = {g, s}
  Goods = {g}
  Coded = {g}
  Buyers = {b1, b2}
  Requests = {r1, r2, r3}
  BuyerOf <- MCBuyerOf
  Limit <- OneUse
  Budget <- Nine
  CodeLimit <- OneCode
  BuyerLimit <- MCBuyerLimit
  Amounts = {1}
  MaxCrashes = 0
  g = g
  s = s
  b1 = b1
  b2 = b2
  r1 = r1
  r2 = r2
  r3 = r3
CHECK_DEADLOCK FALSE
SYMMETRY Symmetry
INVARIANTS
  Balanced
  FailedHoldsNothing
PROPERTIES
  ImplementsLedger
