SPECIFICATION SubscriptionSpec
CONSTANTS
    Orders = {o1}
    Plans = {basic, custom}
    DefaultPlan = basic
    Priced = {basic}
    MaxPresses = 1
    MaxOpen = 2
    NoOrder = NoOrder
    NoPlan = NoPlan
PROPERTIES
    PaidIsNotSuspended
