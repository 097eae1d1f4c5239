SPECIFICATION FairSpec
CONSTANTS
    Orders = {o1, o2, o3}
    Requests = {r1, r2, r3}
    RelayBatch = 2
    MaxFaults = 2
CHECK_DEADLOCK FALSE
INVARIANTS
    NothingLostOrInvented
    AnswersAreKept
    RepeatsArePaidFor
PROPERTIES
    EveryCallReturns
    KeepsPromise
