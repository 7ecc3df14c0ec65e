SPECIFICATION Spec
CONSTANTS
    v1 = v1
    v2 = v2
    Vendors = {v1, v2}
    Purchases = {p1, p2}
    Returns = {r1, r2}
    NoVendor = NoVendor
    NoPurchase = NoPurchase
    NoReturn = NoReturn
    Screens = {s1, s2}
    PaidByName = {v2}
    MaxQty = 3
    MaxPayment = 2
    MaxNamings = 2
    MaxCalls = 6
INVARIANTS
    PayablesReconcile
    LedgerAgreesUntilCancelled
    StockReconciles
    ReturnsFitThePurchase
    LedgerWithinBalance
PROPERTIES
    CancelledIsOver
SYMMETRY Symmetric
CHECK_DEADLOCK FALSE
