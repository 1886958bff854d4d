SPECIFICATION Spec
CONSTANTS
    Rows = {1, 2, 3, 4}
    MaxTime = 3
    Limit = 1
INVARIANTS
    OrderWalkExact
    TradeWalkErrorsNeedInserts
