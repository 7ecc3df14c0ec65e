SPECIFICATION Spec
CONSTANTS
    Orders = {order, mock}
    MockOrders = {mock}
    Skus = {burger}
    Contents <- EachContents
    Requests = {r1, r2}
    Screens = {s1}
    NoRow = NoRow
    NoOrder = NoOrder
    NoScreen = NoScreen
    MaxInvoices = 3
    MaxOrders = 1
INVARIANTS
    NoLineIsStranded
SYMMETRY Symmetric
