CONSTANTS
    MaxAttempts = 2
    MaxFaults = 1
    ReferralThreshold = 500000
    SumAssured <- MCSum
    AgeOfApplicant <- MCAge
    KnownToRegister <- MCKnown
    Applications = {"atLimit"}
    PolicyIds = {"p1", "p2"}
    Losses = {"loss"}
    PolicyOfLoss <- MCPolicyOfLoss
    Documents = {"scan"}
SPECIFICATION Spec
INVARIANTS
    AuditAgrees
    RepeatsArePaidFor
    NoGuessing
    OneOutcomePerLoss

CHECK_DEADLOCK FALSE
