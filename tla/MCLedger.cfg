SPECIFICATION FairSpec
CONSTANTS
    alice = alice
    bob = bob
    t1 = t1
    t2 = t2
    Accounts = {alice, bob}
    Transfers = {t1, t2}
    From <- MCFrom
    To <- MCTo
    Amount <- MCAmount
    Opening <- MCOpening
    MaxAttempts = 2
    MaxFaults = 2
CHECK_DEADLOCK FALSE
INVARIANTS
    MemoryIsTheLog
    OverdraftBound
    UnbalancedIsParked
    DecisionsArePaidFor
PROPERTY EveryCommandSettles
