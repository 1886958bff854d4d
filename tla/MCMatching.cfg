CONSTANTS
    Orders = {o1, o2, o3}
    Users = {u1, u2}
    Books = {yes}
    Prices = {1, 2}
    MaxQuantity = 2
    MaxCrashes = 0
    MaxIndexed = 0
SPECIFICATION Spec
SYMMETRY Symmetry
INVARIANTS
    TypeOK
    NoOverfill
    FilledIsTraded
    NoCrossedOrders
    TradesAreLegal
    ToldIsCommitted
    BookAgreesWithDb
PROPERTIES
    PriceTimePriority
    ImplementsExchange
