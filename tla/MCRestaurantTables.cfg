SPECIFICATION Spec
CONSTANTS
  Tables = {t1, t2}
  Orders = {o1, o2, o3}
  Items = {i1, i2}
  Kots = {k1}
  NoTable = NoTable
  NoOrder = NoOrder
  MaxQty = 2
  MaxRepeats = 1
  Features <- AllFeatures
  ForeignKeys = TRUE
SYMMETRY MCSymmetry
INVARIANTS OneOpenOrderPerTable BoardMatchesOrders KitchenFoodIsOnATab TicketLinesResolve
PROPERTY ClosedOrdersAreFrozen
