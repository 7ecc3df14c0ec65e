SPECIFICATION Spec
CONSTANTS
    Orders = {order, mock}
    MockOrders = {mock}
    Skus = {burger, fries}
    Contents <- EachContents
    Requests = {r1, r2}
    Screens = {s1}
    NoRow = NoRow
    NoOrder = NoOrder
    NoScreen = NoScreen
    MaxInvoices = 3
    MaxOrders = 1
INVARIANTS
    BilledOnceUnlessRaced
    UnbilledSaysWhy
PROPERTIES
    BilledStaysBilled
SYMMETRY Symmetric
