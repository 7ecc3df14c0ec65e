CONSTANTS
  p1 = p1
  c1 = c1
  r1 = r1
  r2 = r2
  NoCustomer = NoCustomer
  NoLimit = NoLimit
  Products = {p1}
  Customers = {c1}
  Returns = {r1, r2}
  Invoices = {1, 2}
  Money = {0, 1, 2, 4}
  Price <- MCPrice
  MaxQty = 2
  MaxRepeats = 2
  MaxAllocations = 2
  OpeningStock <- MCStock
  StockLevels <- MCLevels
  Adjustments <- MCAdjustments
  MaxAdjusted = 1
  AllowNegative = FALSE
  Credit <- MCCredit
SPECIFICATION Spec
SYMMETRY MCSymmetry
INVARIANTS
  ReturnsAccountedFor
  StockReconciles
  AmountsAgree
  LedgerWithinOutstanding
PROPERTIES
  CancelledIsFinal
CHECK_DEADLOCK FALSE
