\* Two products, no table needed, one held bill, one request at a time.
SPECIFICATION TillSpec
CONSTANTS
    Products = {p1, p2}
    Tables = {t1}
    MaxKeys = 2
    MaxOrders = 0
    MaxHeld = 1
    MaxSales = 2
    MaxInFlight = 1
    MaxCalls = 3
    NoTable = NoTable
INVARIANT HeldBillsAreSold
SYMMETRY Symmetric
CHECK_DEADLOCK FALSE
