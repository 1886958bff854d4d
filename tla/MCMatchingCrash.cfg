CONSTANTS
    Orders = {o1, o2}
    Users = {u1, u2}
    Books = {yes, no}
    Prices = {2}
    MaxQuantity = 1
    MaxCrashes = 1
    MaxIndexed = 1
SPECIFICATION FairSpec
INVARIANTS
    BookAgreesWithDb
    PositionsMatchTrades
PROPERTY
    EveryCallAnswered
