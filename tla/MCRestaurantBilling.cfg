SPECIFICATION BillingSpec
CONSTANTS
  b1 = b1
  b2 = b2
  b3 = b3
  k1 = k1
  Rounds = {w1, w2}
  Bills = {b1, b2, b3}
  Releases = {c1}
  BillKey <- MCRetriedBesidePage
  NoBillKey = NoBillKey
  NoInvoice = NoInvoice
  MaxOrders = 2
  MayCrashBilling = {b1}
CHECK_DEADLOCK FALSE
INVARIANTS BilledOrderHasItsInvoice SoldOrderIsClosed
PROPERTY BillsAreFinished
