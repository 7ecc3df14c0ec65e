SPECIFICATION SSpec
CONSTANTS
    Tables = {t1}
    Orders = {o1}
    Items = {i1}
    Kots = {k1}
    NoTable = NoTable
    NoOrder = NoOrder
    MaxQty = 1
    MaxRepeats = 1
    Features <- AllFeatures
    ForeignKeys = TRUE
    MaxCalls = 3
    MaxInFlight = 1
INVARIANT FailedPrintIsShown
CHECK_DEADLOCK FALSE
