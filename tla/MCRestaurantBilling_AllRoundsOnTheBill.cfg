SPECIFICATION BillingSpec
CONSTANTS
  b1 = b1
  b2 = b2
  k1 = k1
  Rounds = {w1, w2}
  Bills = {b1, b2}
  Releases = {}
  BillKey <- MCRetried
  NoBillKey = NoBillKey
  NoInvoice = NoInvoice
  MaxOrders = 2
  MayCrashBilling = {}
CHECK_DEADLOCK FALSE
INVARIANT AllRoundsOnTheBill
