SPECIFICATION MCSpec
CONSTANTS
  Orders = {big, o2, alone}
  Products = {p, g}
  Shares = {s}
  Lines <- MCLines
  Qty <- MCQty
  Limit <- GiftsForOne
  Quoted <- QuoteIsRight
  Calls = {1, 2}
  Workers = {w1}
  MaxCrashes = 1
  None = None
  p = p
  s = s
  g = g
  big = big
  alone = alone
CHECK_DEADLOCK FALSE
INVARIANTS
  TypeOK
  SoldOnce
  Balanced
PROPERTIES
  ImplementsCampaignLedger
  PutRight
