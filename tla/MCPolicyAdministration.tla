------------------------ MODULE MCPolicyAdministration ------------------------
\* An application at the limit, one above it, and policies that need not exist.
EXTENDS PolicyAdministration

MCSum == [a \in Applications |-> IF a = "atLimit" THEN 500000 ELSE 500001]
MCAge == [a \in Applications |-> IF a = "atLimit" THEN 40 ELSE 20]
MCKnown == [a \in Applications |-> a = "atLimit"]
MCPolicyOfLoss == [i \in Losses |-> "p1"]
=============================================================================
