\* Commissions: three bills, two of them paid, two returns, the page of the
\* bills, one section that breaks.  Wholesale: two workers, two edits, a
\* death.  Cart: two tabs, one sign-out, two faults.
SPECIFICATION FairBackOfficeSpec
CONSTANTS
  ra = ra
  rb = rb
  rc = rc
  ann = ann
  lock1 = lock1
  lock2 = lock2
  lock3 = lock3
  pay1 = pay1
  pay2 = pay2
  returnA = returnA
  returnB = returnB
  page = page
  Rows = {ra, rb, rc}
  Collab <- MCCollab
  Period <- MCPeriod
  Amount <- MCAmount
  Requests = {lock1, lock2, lock3, pay1, pay2, returnA, returnB, page}
  Asked <- MCAsked
  MaxBreaks = 1
  None = None
  Dead = Dead
  Workers = {w1, w2}
  Editors = {e1, e2}
  Attempts = 2
  MaxChanges = 2
  MaxDeaths = 1
  NoOwner = NoOwner
  Tabs = {t1, t2}
  Handlers = {h1, h2}
  Guest = 1
  MaxEdits = 1
  MaxFaults = 2
  MaxSignOuts = 1
  Nothing = Nothing
CHECK_DEADLOCK FALSE
INVARIANTS
  BackOfficeTypeOK
  MoneyBalances
  PaymentCanFinish
  DebtReservedOnce
  ReturnSettled
  PostedOnce
  SentAsItStands
  NothingDoubled
PROPERTIES
  SendingEnds
  NoLostUpdate
