CONSTANTS
    MaxAttempts = 2
    MaxFaults = 1
    ReferralThreshold = 500000
    SumAssured <- MCSum
    AgeOfApplicant <- MCAge
    KnownToRegister <- MCKnown
    Applications = {"atLimit", "over"}
    PolicyIds = {"p1", "p2"}
    Losses = {}
    PolicyOfLoss <- MCPolicyOfLoss
    Documents = {}
SPECIFICATION FairSpec
PROPERTIES KeepsLifecycle EveryApplicationIsDecided
CHECK_DEADLOCK FALSE
