SPECIFICATION TotalsSpec
CHECK_DEADLOCK FALSE
CONSTANTS
    Request = {r1, r2}
    Amount = {1, 3}
    MaxItem = 2
    None = None
    Editor = {e1, e2}
    Sku = {x, y}
    Cost = {5, 7}
    Worth = {1, 3}
    MaxLine = 3
    Absent = Absent
INVARIANTS
    TypesOK
    TotalWasTrueOnce
PROPERTIES
    LoneOperationSettlesTotal
    LoneEditSettlesTotal
    HiddenBomKeepsCosts
