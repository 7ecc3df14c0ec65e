SPECIFICATION Spec
CONSTANTS
  Tables = {t1}
  Orders = {o1, o2}
  Items = {i1, i2}
  Kots = {k1, k2}
  NoTable = NoTable
  NoOrder = NoOrder
  MaxQty = 2
  MaxRepeats = 2
  Features <- NoSplitting
  ForeignKeys = TRUE
SYMMETRY MCSymmetry
INVARIANTS KitchenFoodIsOnATab TicketLinesResolve SentMatchesTickets MergedOrdersAreHistory
