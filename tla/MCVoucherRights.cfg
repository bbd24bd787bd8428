SPECIFICATION Spec
CONSTANTS
  first = first
  friend = friend
  again = again
  a1 = a1
  a2 = a2
  f1 = f1
  v = v
  t1 = t1
  t2 = t2
  k1 = k1
  k2 = k2
  Orders = {first, friend, again}
  Account <- MCAccount
  Phone <- MCPhone
  FirstBuys = {first, friend}
  Transfers = {first, again}
  Vouchers <- MCVouchers
  Promos = {v}
  SaveLimit <- SaveTwo
  Tiers = {t1, t2}
  TierLimit <- OneOfEach
  Saves = {k1, k2}
  Saver <- MCSaver
  Wanted <- MCWanted
  Together <- MCTogether
  MaxEndings = 2
  MaxCrashes = 1
  None = None
CHECK_DEADLOCK FALSE
INVARIANTS
  TypeOK
  OneFirstPurchase
  AllOrNothing
  NotNewAgain
  VoucherSpentOnce
  SavesCounted
