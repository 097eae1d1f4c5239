SPECIFICATION FairSpec
CONSTANTS
    Length = 4
    Reminders = {"r1", "r2"}
    Delays = {0, 1, 2, 3, 9}
    Rungs = {2, 4, 8}
    Horizon = 12
    MaxRedeliveries = 1
    Messages <- MCMessages
    Strays <- MCStrays
    Served = {"acme"}
    NoTenant = "none"
    MaxUnsettled = 1
    PipelineOrders = {"A1", "D2"}
    Digital = {"D2"}
    Buffer = 2
    MaxDeaths = 2
    GroupInvoices = {"i1", "i2", "i3"}
    Size = 3
    Prefetch = 1
    MaxDrops = 1
    Callers = {"c1", "c2", "c3"}
    Sku <- MCSku
    Concurrency = 2
    MaxRepeats = 2
    Sends = 3
    Attempts = 5
    MaxRestarts = 1
    ShutdownOrders = {1, 2}
    Runs <- MCRuns
    Services = {"old", "new"}
    MaxSent = 2

INVARIANTS
    NothingIsLost
    NothingIsDoneTwice
    EverybodyGetsTheirOwn
    InItsTurn

PROPERTIES
    StandsOnceSaid
    EveryExampleEnds

CHECK_DEADLOCK FALSE
