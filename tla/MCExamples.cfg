SPECIFICATION FairExamplesSpec
CONSTANTS
    Policy = 3
    MaxReturns = 1
    Leftovers = {"p-0"}
    Invoices <- MCInvoices
    Fixed = {"inv-1", "inv-3"}
    MostMoved = 10
    MaxLost = 2
    Producers = {"w1", "w2"}
    Offered <- MCOffered
    Foreign = {"none", "avro fixed", "csv"}
    MaxMessages = 2
    Written = 6
    Half = 3
    RefusedAt = 2
    MaxDropped = 2
    Reports <- MCReports
    Threshold = 10
    KeySize = 4
    MaxMishaps = 2
    Processes = {"p1", "p2"}
    Keys = {1, 2}
    MaxBodies = 3
    MaxAltered = 1
    Sent = {"m1", "m2"}
    Traced = {"m1"}
    Tries = 2
    MaxReturned = 2
    MaxAttempts = 3
    MaxOffered = 2
    MaxReadings = 1
    Holders = {"alice", "bob"}
    Funds = {6}
    Asked <- MCAsked
    Projections = {"s1", "s2"}
    Limit = 8
    MaxFunded = 2
    MaxUnheard = 1

INVARIANTS
    NoMessageIsLost
    RepeatsHaveACause
    ReadAsMeant
    ReportsAgree

PROPERTIES
    EveryProgramEnds

CHECK_DEADLOCK FALSE
