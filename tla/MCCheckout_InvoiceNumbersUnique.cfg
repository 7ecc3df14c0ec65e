SPECIFICATION Spec
CONSTANTS
  r1 = r1
  r2 = r2
  r3 = r3
  k1 = k1
  p1 = p1
  p2 = p2
  Requests = {r1, r2, r3}
  Products = {p1, p2}
  NoKey = NoKey
  Key <- MCKey
  Cart <- MCCart
  OpeningStock <- MCStock
  AllowNegative = FALSE
  MayCrash = {}
CHECK_DEADLOCK FALSE
INVARIANT InvoiceNumbersUnique
