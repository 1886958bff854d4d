CONSTANTS
    Orders = {o1, o2, o3}
    Users = {u1, u2}
    Books = {yes}
    Prices = {1}
    MaxQuantity = 1
    MaxCrashes = 1
    MaxIndexed = 0
SPECIFICATION Spec
INVARIANT
    FillsAreEnqueued
