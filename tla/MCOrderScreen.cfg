SPECIFICATION SSpec
CONSTANTS
    Tables = {t1, t2}
    Orders = {o1, o2}
    Items = {i1, i2, i3}
    Kots = {k1, k2}
    NoTable = NoTable
    NoOrder = NoOrder
    MaxQty = 2
    MaxRepeats = 1
    Features <- AllFeatures
    ForeignKeys = TRUE
    MaxCalls = 6
    MaxInFlight = 2
INVARIANTS
    CountedPrintsAreOnPaper
    FoodFiredOnce
PROPERTIES
    TabsAreDiscardedKnowingly
SYMMETRY Symmetric
CHECK_DEADLOCK FALSE
