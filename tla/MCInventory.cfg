SPECIFICATION Spec
CONSTANTS
    o1 = o1
    o2 = o2
    c1 = c1
    c2 = c2
    c3 = c3
    widget = widget
    Orders = {o1, o2}
    SKUs = {widget}
    SKUOf <- MCSKUOf
    QuantityOf <- MCQuantityOf
    Copies = {c1, c2, c3}
    OrderOf <- MCOrderOf
    Shelf <- MCShelf
    FlakyCounts = {2}
    MaxAttempts = 3
    MaxFaults = 2
CHECK_DEADLOCK FALSE
INVARIANTS
    StockAccounted
    VerdictsArePaidFor
    FlakyIsRetriedNotFailed
