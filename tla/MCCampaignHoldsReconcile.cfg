SPECIFICATION WholeSpec
CONSTANTS
  Orders = {big, o2}
  Products = {p}
  Shares = {}
  Lines <- ProductOnly
  Qty <- MCOne
  Limit <- LastUse
  Quoted <- QuoteIsRight
  Calls = {1, 2}
  Workers = {w1}
  MaxCrashes = 0
  None = None
  p = p
  s = s
  g = g
  big = big
  alone = alone
CHECK_DEADLOCK FALSE
INVARIANT NeverOversold
