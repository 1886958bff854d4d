SPECIFICATION Spec
CONSTANTS
    Ips = {i1}
    Window <- MCWindow
    Max <- MCMax
    MaxTime = 3
    Requests = {r1, r2, r3, r4}
    Messages <- MCMessages
    m1 = m1
    Markets = {m1}
    NoMarket = none
    EndTime <- MCEndTime
    Tolerance = 1
    MaxFaults = 1
INVARIANTS
    TypeOK
    QuotaIsExact
    AcceptedWhileOpen
SYMMETRY MCSymmetry
