SPECIFICATION FairSpec
CONSTANTS
    o1 = o1
    o2 = o2
    w1 = w1
    widget = widget
    Orders = {o1}
    OverLimit = {}
    SKUs = {widget}
    SKUOf <- MCSKUOf
    QuantityOf <- MCQuantityOf
    Shelf <- MCShelf
    Instances = {w1}
    MaxAttempts = 2
    MaxFaults = 1
CHECK_DEADLOCK FALSE
PROPERTY EveryOrderEnds
