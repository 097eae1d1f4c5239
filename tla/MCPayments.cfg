SPECIFICATION Spec
CONSTANTS
    o1 = o1
    o2 = o2
    c1 = c1
    c2 = c2
    c3 = c3
    w1 = w1
    w2 = w2
    Orders = {o1, o2}
    OverLimit = {o2}
    Copies = {c1, c2, c3}
    OrderOf <- MCOrderOf
    Instances = {w1, w2}
    MaxAttempts = 2
    MaxFaults = 2
CHECK_DEADLOCK FALSE
INVARIANTS
    ChargesAreExclusive
    ChargeBound
    ConfirmedMeansDecided
    StopsOnlyWhenOrphaned
PROPERTIES
    ConfirmedIsFinal
