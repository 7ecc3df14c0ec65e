\* One product, two tables, one held bill; three requests, two at once.
SPECIFICATION TillSpec
CONSTANTS
    Products = {p1}
    Tables = {t1, t2}
    MaxKeys = 2
    MaxOrders = 1
    MaxHeld = 1
    MaxSales = 1
    MaxInFlight = 2
    MaxCalls = 3
    NoTable = NoTable
INVARIANTS
    OneInvoicePerSale
    HeldBillsOutliveFailures
PROPERTIES
    CarriedLinesReachTheTable
SYMMETRY Symmetric
CHECK_DEADLOCK FALSE
