CONSTANTS
  p1 = p1
  p2 = p2
  c1 = c1
  r1 = r1
  r2 = r2
  NoCustomer = NoCustomer
  NoLimit = NoLimit
  Products = {p1}
  Customers = {c1}
  Returns = {r1, r2}
  Invoices = {1, 2}
  Money = {0, 1, 2, 3, 4}
  Price <- MCPrice
  MaxQty = 2
  MaxRepeats = 1
  MaxAllocations = 3
  OpeningStock <- MCStock
  StockLevels = {}
  Adjustments <- MCAdjustments
  MaxAdjusted = 1
  AllowNegative = TRUE
  Credit <- MCCredit
SPECIFICATION Spec
SYMMETRY MCSymmetry
INVARIANT MoneyPaidIsNotOwedAgain
