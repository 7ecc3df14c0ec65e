SPECIFICATION Spec
CONSTANTS
  Tables = {t1}
  Orders = {o1, o2}
  Items = {i1, i2}
  Kots = {k1}
  NoTable = NoTable
  NoOrder = NoOrder
  MaxQty = 2
  MaxRepeats = 1
  Features <- AllFeatures
  ForeignKeys = TRUE
SYMMETRY MCSymmetry
INVARIANT SentIsReachable
