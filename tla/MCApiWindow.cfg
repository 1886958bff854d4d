SPECIFICATION Spec
CONSTANTS
    Ips = {i1}
    Window <- MCWindow
    Max <- MCMax
    MaxTime = 3
    Requests = {r1, r2, r3, r4}
    Messages <- Reads
    m1 = m1
    Markets = {m1}
    NoMarket = none
    EndTime <- MCEndTime
    Tolerance = 1
    MaxFaults = 0
INVARIANT
    SlidingWindow
SYMMETRY MCSymmetry
