-------------------------- MODULE Inventory_proof ---------------------------
(***************************************************************************)
(* Proofs about Inventory for every set of orders, SKUs and copies, every  *)
(* shelf and every number of attempts and faults.  The facts about sums    *)
(* that the stock needs are in Sums.                                       *)
(***************************************************************************)
EXTENDS Inventory, Sums

USE DEF consumerVars, stockVars, warehouseVars, counterVars, outVars, historyVars

\* The shelf is stocked with nothing and nobody has a message.
LEMMA InitTypeOK == Init => TypeOK
<1>1. (CHOOSE c \in Copies : TRUE) \in Copies
  BY InventoryAssumption
<1>2. 1 \in 1..MaxAttempts /\ 0 \in 0..MaxFaults
  BY InventoryAssumption
<1>3. 0 \in Nat /\ FALSE \in BOOLEAN /\ {} \subseteq SKUs
  OBVIOUS
<1>4. ASSUME Init PROVE TypeOK
  BY <1>1, <1>2, <1>3, <1>4 DEF Init, TypeOK, Phases, Queue!CopyStates
<1>5. QED BY <1>4

\* What the consumer may do to its queue and to its place in it.
LEMMA QueueTypes ==
    ASSUME TypeOK,
           \/ Queue!Deliver("call") \/ Queue!Settle \/ Queue!Die \/ Queue!Drop
    PROVE  /\ copy' \in [Copies -> Queue!CopyStates]
           /\ attempt' \in [Copies -> 1..MaxAttempts]
           /\ pc' \in Phases /\ msg' \in Copies /\ stale' \in BOOLEAN
<1> USE InventoryAssumption DEF TypeOK, Phases, Queue!CopyStates
<1>1. CASE Queue!Deliver("call")
  BY <1>1 DEF Queue!Deliver, Queue!Take
<1>2. CASE Queue!Settle
  BY <1>2 DEF Queue!Settle, Queue!Accept, Queue!Retry, Queue!Park
<1>3. CASE Queue!Die
  BY <1>3 DEF Queue!Die, Queue!Requeue
<1>4. CASE Queue!Drop
  BY <1>4 DEF Queue!Drop, Queue!Requeue
<1>5. QED BY <1>1, <1>2, <1>3, <1>4

\* No step of the service or failure of it leaves the types.
LEMMA StepTypeOK == TypeOK /\ Step => TypeOK'
<1> SUFFICES ASSUME TypeOK, Step PROVE TypeOK'
  OBVIOUS
<1> USE InventoryAssumption DEF TypeOK
<1>1. ASSUME NEW s \in SKUs, WithStock(s) PROVE TypeOK'
  BY <1>1 DEF WithStock
<1>2. ASSUME NEW n \in FlakyCounts, WithFlakyWarehouse(n) PROVE TypeOK'
  BY <1>2 DEF WithFlakyWarehouse
<1>3. CASE Deliver
  BY <1>3, QueueTypes DEF Deliver
<1>4. CASE WarehouseTimesOut
  BY <1>4 DEF WarehouseTimesOut, CallWarehouse, Goto, Phases
<1>5. CASE TakeStock
  BY <1>5 DEF TakeStock, CallWarehouse, Goto, Phases, SKU, Order, Quantity
<1>6. CASE FindTooLittle
  BY <1>6 DEF FindTooLittle, CallWarehouse, Goto, Phases
<1>7. CASE SendReserved
  BY <1>7 DEF SendReserved, Goto, Phases, Order
<1>8. CASE PutBack
  BY <1>8 DEF PutBack, Goto, Phases, SKU, Order, Quantity
<1>9. CASE SendMissing
  BY <1>9 DEF SendMissing, Goto, Phases, Order
<1>10. CASE Settle
  BY <1>10, QueueTypes DEF Settle
<1>11. CASE SendReservedFailed \/ SendMissingFailed
  BY <1>11 DEF SendReservedFailed, SendMissingFailed, Goto, Phases, Fault
<1>12. CASE SendReservedUnconfirmed
  BY <1>12 DEF SendReservedUnconfirmed, Goto, Phases, Fault, Order
<1>13. CASE SendMissingUnconfirmed
  BY <1>13 DEF SendMissingUnconfirmed, Goto, Phases, Fault, Order
<1>14. CASE Crash
  BY <1>14, QueueTypes DEF Crash, Fault
<1>15. CASE ConnectionDropped
  BY <1>15, QueueTypes DEF ConnectionDropped, Fault
<1>16. QED
  BY <1>1, <1>2, <1>3, <1>4, <1>5, <1>6, <1>7, <1>8, <1>9, <1>10, <1>11, <1>12,
     <1>13, <1>14, <1>15 DEF Step, Work, Failure

\* Nor does an arrival.
LEMMA NextTypeOK == TypeOK /\ [Next]_vars => TypeOK'
<1> SUFFICES ASSUME TypeOK, [Next]_vars PROVE TypeOK'
  OBVIOUS
<1>1. ASSUME NEW c \in Copies, Arrive(c) PROVE TypeOK'
  BY <1>1 DEF Arrive, Queue!Arrive, TypeOK, Queue!CopyStates
<1>2. CASE UNCHANGED vars
  BY <1>2 DEF vars, TypeOK
<1>3. QED BY <1>1, <1>2, StepTypeOK DEF Next

\* Every variable keeps its type: in particular the stock of no SKU is ever
\* negative, whatever was taken, put back, promised or lost in a crash.
THEOREM TypeCorrect == Spec => []TypeOK
  BY InitTypeOK, NextTypeOK, PTL DEF Spec
-----------------------------------------------------------------------------
\* Copies of an order that wait, and the order in a handler with no verdict yet.
Waiting(o) == {c \in Copies : OrderOf[c] = o /\ copy[c] = "ready"}

Undecided(o) ==
    IF pc \in {"call", "reserve", "putBack", "reject", "retry"} /\ Order = o THEN 1 ELSE 0

\* What may still become a verdict about o, and what already has.
Chances(o) == Cardinality(Waiting(o)) + Undecided(o) + reservedOut[o] + missingOut[o]

\* The copies of the order that wait change by the one that is moved.
LEMMA WaitingMoves ==
    ASSUME TypeOK, NEW o \in Orders, IsFiniteSet(Waiting(o)), NEW c \in Copies,
           \A d \in Copies \ {c} : copy'[d] = copy[d]
    PROVE  /\ IsFiniteSet(Waiting(o)')
           /\ Cardinality(Waiting(o)) \in Nat /\ Cardinality(Waiting(o)') \in Nat
           /\ OrderOf[c] # o => Cardinality(Waiting(o)') = Cardinality(Waiting(o))
           /\ copy[c] = "ready" /\ copy'[c] # "ready" /\ OrderOf[c] = o =>
                Cardinality(Waiting(o)') = Cardinality(Waiting(o)) - 1
           /\ copy'[c] # "ready" => Cardinality(Waiting(o)') <= Cardinality(Waiting(o))
           /\ Cardinality(Waiting(o)') <= Cardinality(Waiting(o)) + 1
<1> DEFINE W == Waiting(o)
           Z == Waiting(o)'
<1>1. Z \ {c} = W \ {c}
  BY DEF Waiting
<1>2. /\ OrderOf[c] # o => c \notin W /\ c \notin Z
      /\ copy'[c] # "ready" => c \notin Z
      /\ copy[c] = "ready" /\ OrderOf[c] = o => c \in W
  BY DEF Waiting
<1>3. IsFiniteSet(W)
  OBVIOUS
<1> HIDE DEF W, Z
<1>4. /\ IsFiniteSet(Z) /\ Cardinality(W) \in Nat /\ Cardinality(Z) \in Nat
      /\ Cardinality(Z) = Cardinality(W) + (IF c \in Z THEN 1 ELSE 0)
                                         - (IF c \in W THEN 1 ELSE 0)
  BY <1>1, <1>3, CardinalityMoves
<1>5. QED
  BY <1>2, <1>4 DEF W, Z

\* No step makes a chance from nothing: a delivery moves one from the queue to the
\* handler, a publish turns one into a verdict, and a retry or a redelivery puts it
\* back on the queue, a fault giving at most one more.
LEMMA StepPaysForChances ==
    ASSUME TypeOK, Step, NEW o \in Orders, IsFiniteSet(Waiting(o))
    PROVE  /\ IsFiniteSet(Waiting(o)')
           /\ Chances(o)' - faults' <= Chances(o) - faults
<1> USE InventoryAssumption DEF TypeOK
<1> DEFINE Goal == /\ IsFiniteSet(Waiting(o)')
                   /\ Chances(o)' - faults' <= Chances(o) - faults
<1> SUFFICES Goal OBVIOUS
<1>a. Cardinality(Waiting(o)) \in Nat
  BY FS_CardinalityType
<1>b. UNCHANGED copy => IsFiniteSet(Waiting(o)')
                        /\ Cardinality(Waiting(o)') = Cardinality(Waiting(o))
  BY DEF Waiting
<1>1. CASE \/ \E s \in SKUs : WithStock(s)
           \/ \E n \in FlakyCounts : WithFlakyWarehouse(n)
  BY <1>1, <1>a, <1>b DEF WithStock, WithFlakyWarehouse, Chances, Undecided, Order
<1>2. CASE Deliver
  <2>1. PICK c \in Copies :
          /\ copy[c] = "ready" /\ copy' = [copy EXCEPT ![c] = "held"]
          /\ msg' = c /\ pc' = "call" /\ pc = "idle"
          /\ UNCHANGED <<reservedOut, missingOut, faults>>
    BY <1>2 DEF Deliver, Queue!Deliver, Queue!Take
  <2>2. /\ IsFiniteSet(Waiting(o)')
        /\ Cardinality(Waiting(o)') \in Nat
        /\ OrderOf[c] # o => Cardinality(Waiting(o)') = Cardinality(Waiting(o))
        /\ OrderOf[c] = o => Cardinality(Waiting(o)') = Cardinality(Waiting(o)) - 1
    BY <2>1, WaitingMoves
  <2>3. Undecided(o) = 0 /\ Undecided(o)' = IF OrderOf[c] = o THEN 1 ELSE 0
    BY <2>1 DEF Undecided, Order
  <2>4. QED BY <1>a, <2>1, <2>2, <2>3 DEF Chances
<1>3. CASE \/ WarehouseTimesOut \/ TakeStock \/ FindTooLittle
           \/ SendReserved \/ PutBack \/ SendMissing
  BY <1>3, <1>a, <1>b DEF WarehouseTimesOut, TakeStock, FindTooLittle, CallWarehouse,
     SendReserved, PutBack, SendMissing, Goto, Chances, Undecided, Order
<1>4. CASE \/ SendReservedFailed \/ SendReservedUnconfirmed
           \/ SendMissingFailed \/ SendMissingUnconfirmed
  BY <1>4, <1>a, <1>b DEF SendReservedFailed, SendReservedUnconfirmed,
     SendMissingFailed, SendMissingUnconfirmed, Fault, Goto, Chances, Undecided, Order
<1>5. CASE Settle
  <2>0. Undecided(o)' = 0 /\ UNCHANGED <<reservedOut, missingOut, faults>>
    BY <1>5 DEF Settle, Queue!Settle, Undecided
  <2>1. CASE stale
    BY <1>5, <2>0, <2>1, <1>a, <1>b DEF Settle, Queue!Settle, Chances, Undecided
  <2>2. CASE ~stale /\ pc # "retry"
    <3>1. /\ copy'[msg] # "ready"
          /\ \A d \in Copies \ {msg} : copy'[d] = copy[d]
      BY <1>5, <2>2 DEF Settle, Queue!Settle, Queue!Accept, Queue!Park
    <3>2. /\ IsFiniteSet(Waiting(o)') /\ Cardinality(Waiting(o)') \in Nat
          /\ Cardinality(Waiting(o)') <= Cardinality(Waiting(o))
      BY <3>1, WaitingMoves
    <3>3. QED BY <2>0, <3>2, <1>a DEF Chances, Undecided
  <2>3. CASE ~stale /\ pc = "retry"
    <3>1. \A d \in Copies \ {msg} : copy'[d] = copy[d]
      BY <1>5, <2>3 DEF Settle, Queue!Settle, Queue!Retry
    <3>2. /\ IsFiniteSet(Waiting(o)') /\ Cardinality(Waiting(o)') \in Nat
          /\ OrderOf[msg] # o => Cardinality(Waiting(o)') = Cardinality(Waiting(o))
          /\ Cardinality(Waiting(o)') <= Cardinality(Waiting(o)) + 1
      BY <3>1, WaitingMoves
    <3>3. Undecided(o) = IF OrderOf[msg] = o THEN 1 ELSE 0
      BY <2>3 DEF Undecided, Order
    <3>4. QED BY <2>0, <3>2, <3>3, <1>a DEF Chances
  <2>4. QED BY <2>1, <2>2, <2>3
<1>6. CASE Crash \/ ConnectionDropped
  <2>1. /\ \A d \in Copies \ {msg} : copy'[d] = copy[d]
        /\ faults' = faults + 1 /\ UNCHANGED <<reservedOut, missingOut>>
    BY <1>6 DEF Crash, ConnectionDropped, Queue!Die, Queue!Drop, Queue!Requeue, Fault
  <2>2. Undecided(o)' <= Undecided(o) /\ Undecided(o) \in Nat /\ Undecided(o)' \in Nat
    BY <1>6 DEF Crash, ConnectionDropped, Queue!Die, Queue!Drop, Undecided, Order
  <2>3. /\ IsFiniteSet(Waiting(o)') /\ Cardinality(Waiting(o)') \in Nat
        /\ Cardinality(Waiting(o)') <= Cardinality(Waiting(o)) + 1
    BY <2>1, WaitingMoves
  <2>4. QED BY <2>1, <2>2, <2>3, <1>a DEF Chances
<1>7. QED
  BY <1>1, <1>2, <1>3, <1>4, <1>5, <1>6 DEF Step, Work, Failure

\* A copy that arrives is one chance more for its order, and for no other.
LEMMA ArrivalIsAChance ==
    ASSUME TypeOK, NEW o \in Orders, IsFiniteSet(Waiting(o)),
           NEW c \in Copies, Queue!Arrive(c), UNCHANGED <<pc, msg, reservedOut, missingOut>>
    PROVE  /\ IsFiniteSet(Waiting(o)')
           /\ Chances(o)' = Chances(o) + (IF OrderOf[c] = o THEN 1 ELSE 0)
<1>1. /\ \A d \in Copies \ {c} : copy'[d] = copy[d]
      /\ copy[c] = "absent" /\ copy'[c] = "ready"
  BY DEF Queue!Arrive, TypeOK
<1> DEFINE W == Waiting(o)
           Z == Waiting(o)'
<1>2. Z \ {c} = W \ {c} /\ c \notin W /\ (c \in Z <=> OrderOf[c] = o) /\ IsFiniteSet(W)
  BY <1>1 DEF Waiting
<1> HIDE DEF W, Z
<1>3. /\ IsFiniteSet(Z) /\ Cardinality(W) \in Nat
      /\ Cardinality(Z) = Cardinality(W) + (IF OrderOf[c] = o THEN 1 ELSE 0)
  BY <1>2, CardinalityMoves
<1>4. Undecided(o)' = Undecided(o) /\ Undecided(o) \in Nat
  BY DEF Undecided, Order
<1>5. QED BY <1>3, <1>4 DEF Chances, TypeOK, W, Z

\* Nobody else makes a chance.
LEMMA NoChance ==
    ASSUME NEW o \in Orders, UNCHANGED <<copy, pc, msg, reservedOut, missingOut>>
    PROVE  Waiting(o)' = Waiting(o) /\ Chances(o)' = Chances(o)
  BY DEF Chances, Waiting, Undecided, Order

\* Chances are counted, and the verdicts on an order are among them.
LEMMA ChancesType ==
    ASSUME TypeOK, NEW o \in Orders, IsFiniteSet(Waiting(o))
    PROVE  /\ Chances(o) \in Nat /\ reservedOut[o] \in Nat /\ missingOut[o] \in Nat
           /\ reservedOut[o] + missingOut[o] <= Chances(o)
<1>1. Cardinality(Waiting(o)) \in Nat
  BY FS_CardinalityType
<1>2. QED BY <1>1 DEF Chances, Undecided, TypeOK

\* The same after a step.
LEMMA NextChancesType ==
    ASSUME TypeOK', NEW o \in Orders, IsFiniteSet(Waiting(o)')
    PROVE  Chances(o)' \in Nat
<1>1. Cardinality(Waiting(o)') \in Nat
  BY FS_CardinalityType
<1>2. QED BY <1>1 DEF Chances, Undecided, TypeOK

\* Before anything arrived there is no chance.
LEMMA InitChances ==
    ASSUME Init, NEW o \in Orders
    PROVE  IsFiniteSet(Waiting(o)) /\ Chances(o) = 0
<1>1. Waiting(o) = {}
  BY DEF Init, Waiting
<1>2. QED BY <1>1, FS_EmptySet DEF Init, Chances, Undecided

\* A step publishes at most one verdict, on the order of the message in hand.
LEMMA StepGivesOneVerdict ==
    ASSUME TypeOK, Step
    PROVE  \/ UNCHANGED <<reservedOut, missingOut>>
           \/ /\ pc = "reserve" /\ UNCHANGED missingOut
              /\ reservedOut' = [reservedOut EXCEPT ![Order] = @ + 1]
           \/ /\ pc = "reject" /\ UNCHANGED reservedOut
              /\ missingOut' = [missingOut EXCEPT ![Order] = @ + 1]
  BY DEF Step, Work, Failure, WithStock, WithFlakyWarehouse, Deliver, WarehouseTimesOut,
     TakeStock, FindTooLittle, SendReserved, PutBack, SendMissing, Settle,
     SendReservedFailed, SendReservedUnconfirmed, SendMissingFailed,
     SendMissingUnconfirmed, Crash, ConnectionDropped

\* The copies that arrived, and the faults, pay for every chance and every verdict.
VerdictInv ==
    /\ pc # "idle" => copy[msg] # "absent"
    /\ \A o \in Orders :
          /\ IsFiniteSet(Arrived(o))
          /\ Chances(o) <= Cardinality(Arrived(o)) + faults

\* A message in hand has arrived, and what has arrived stays so.
LEMMA StepKeepsArrived ==
    ASSUME TypeOK, Step, pc # "idle" => copy[msg] # "absent"
    PROVE  /\ pc' # "idle" => copy'[msg'] # "absent"
           /\ \A c \in Copies : copy[c] = "absent" <=> copy'[c] = "absent"
<1> USE DEF TypeOK
<1>1. CASE Deliver
  BY <1>1 DEF Deliver, Queue!Deliver, Queue!Take
<1>2. CASE Settle
  BY <1>2 DEF Settle, Queue!Settle, Queue!Accept, Queue!Retry, Queue!Park
<1>3. CASE Crash
  BY <1>3 DEF Crash, Queue!Die, Queue!Requeue
<1>4. CASE ConnectionDropped
  BY <1>4 DEF ConnectionDropped, Queue!Drop, Queue!Requeue
<1>5. CASE \/ \E s \in SKUs : WithStock(s)
           \/ \E n \in FlakyCounts : WithFlakyWarehouse(n)
           \/ WarehouseTimesOut \/ TakeStock \/ FindTooLittle
           \/ SendReserved \/ PutBack \/ SendMissing
           \/ SendReservedFailed \/ SendReservedUnconfirmed
           \/ SendMissingFailed \/ SendMissingUnconfirmed
  BY <1>5 DEF WithStock, WithFlakyWarehouse, WarehouseTimesOut, TakeStock, FindTooLittle,
     CallWarehouse, SendReserved, PutBack, SendMissing, SendReservedFailed,
     SendReservedUnconfirmed, SendMissingFailed, SendMissingUnconfirmed, Goto
<1>6. QED BY <1>1, <1>2, <1>3, <1>4, <1>5 DEF Step, Work, Failure

\* Nothing arrived and nothing was decided at the start.
LEMMA InitVerdictInv == Init => VerdictInv
<1> SUFFICES ASSUME Init, NEW o \in Orders
             PROVE  /\ IsFiniteSet(Arrived(o))
                    /\ Chances(o) <= Cardinality(Arrived(o)) + faults
  BY DEF VerdictInv, Init
<1>1. Arrived(o) = {} /\ Waiting(o) = {}
  BY DEF Init, Arrived, Waiting
<1>2. QED
  BY <1>1, FS_EmptySet DEF Init, Chances, Undecided

\* An arrival is one copy more, and one chance; nobody else brings copies, and no
\* step takes one away.
LEMMA NextVerdictInv == TypeOK /\ VerdictInv /\ [Next]_vars => VerdictInv'
<1> SUFFICES ASSUME TypeOK, VerdictInv, [Next]_vars PROVE VerdictInv'
  OBVIOUS
<1>1. pc' # "idle" => copy'[msg'] # "absent"
  <2>1. CASE Step
    BY <2>1, StepKeepsArrived DEF VerdictInv
  <2>2. CASE UNCHANGED vars
    BY <2>2 DEF vars, VerdictInv
  <2>3. ASSUME NEW c \in Copies, Arrive(c) PROVE pc' # "idle" => copy'[msg'] # "absent"
    BY <2>3 DEF Arrive, Queue!Arrive, TypeOK, VerdictInv
  <2>4. QED BY <2>1, <2>2, <2>3 DEF Next
<1>2. SUFFICES ASSUME NEW o \in Orders
               PROVE  /\ IsFiniteSet(Arrived(o)')
                      /\ Chances(o)' <= Cardinality(Arrived(o)') + faults'
  BY <1>1 DEF VerdictInv
<1>3. IsFiniteSet(Arrived(o)) /\ Chances(o) <= Cardinality(Arrived(o)) + faults
  BY DEF VerdictInv
<1>4. IsFiniteSet(Waiting(o))
  <2>1. Waiting(o) \subseteq Arrived(o) BY DEF Waiting, Arrived
  <2>2. QED BY <1>3, <2>1, FS_Subset
<1>5. Cardinality(Waiting(o)) \in Nat /\ Cardinality(Arrived(o)) \in Nat
  BY <1>3, <1>4, FS_CardinalityType
<1>6. ASSUME NEW c \in Copies, Arrive(c)
      PROVE  /\ IsFiniteSet(Arrived(o)')
             /\ Chances(o)' <= Cardinality(Arrived(o)') + faults'
  <2>1. /\ copy[c] = "absent" /\ copy'[c] = "ready"
        /\ \A d \in Copies \ {c} : copy'[d] = copy[d]
        /\ UNCHANGED <<pc, msg, reservedOut, missingOut, faults>>
    BY <1>6 DEF Arrive, Queue!Arrive, TypeOK
  <2>2. /\ IsFiniteSet(Waiting(o)') /\ Cardinality(Waiting(o)') \in Nat
        /\ Cardinality(Waiting(o)') <=
             Cardinality(Waiting(o)) + (IF OrderOf[c] = o THEN 1 ELSE 0)
    BY <2>1, <1>4, WaitingMoves, <1>5
  <2>3. /\ Arrived(o)' \ {c} = Arrived(o) \ {c} /\ c \notin Arrived(o)
        /\ c \in Arrived(o)' <=> OrderOf[c] = o
    BY <2>1 DEF Arrived
  <2>4. /\ IsFiniteSet(Arrived(o)')
        /\ Cardinality(Arrived(o)') =
             Cardinality(Arrived(o)) + (IF OrderOf[c] = o THEN 1 ELSE 0)
    BY <1>3, <1>5, <2>3, CardinalityMoves
  <2>5. Undecided(o)' = Undecided(o) /\ Undecided(o) \in Nat
    BY <2>1 DEF Undecided, Order
  <2>6. QED BY <1>3, <1>5, <2>1, <2>2, <2>4, <2>5 DEF Chances, TypeOK
<1>7. CASE Step
  <2>1. Arrived(o)' = Arrived(o)
    BY <1>7, StepKeepsArrived DEF Arrived, VerdictInv
  <2>2. Chances(o)' - faults' <= Chances(o) - faults
    BY <1>4, <1>7, StepPaysForChances
  <2>3. TypeOK' /\ IsFiniteSet(Waiting(o)')
    BY <1>4, <1>7, StepTypeOK, StepPaysForChances
  <2>4. Chances(o) \in Int /\ Chances(o)' \in Int
    <3>1. Cardinality(Waiting(o)') \in Nat BY <2>3, FS_CardinalityType
    <3>2. QED BY <1>5, <2>3, <3>1 DEF Chances, Undecided, TypeOK
  <2>5. QED BY <1>3, <1>5, <2>1, <2>2, <2>3, <2>4 DEF TypeOK
<1>8. CASE UNCHANGED vars
  BY <1>3, <1>8 DEF vars, Arrived, Chances, Waiting, Undecided, Order
<1>9. QED BY <1>6, <1>7, <1>8 DEF Next

\* However often a payment is told to inventory, each verdict about it is paid for
\* by a copy that arrived or by a fault.
THEOREM VerdictsPaidFor == Spec => []VerdictsArePaidFor
<1>1. TypeOK /\ VerdictInv => VerdictsArePaidFor
  <2> SUFFICES ASSUME TypeOK, VerdictInv, NEW o \in Orders
               PROVE  reservedOut[o] + missingOut[o] <= Cardinality(Arrived(o)) + faults
    BY DEF VerdictsArePaidFor
  <2>1. Waiting(o) \subseteq Arrived(o) BY DEF Waiting, Arrived
  <2>2. IsFiniteSet(Waiting(o)) /\ IsFiniteSet(Arrived(o))
    BY <2>1, FS_Subset DEF VerdictInv
  <2>3. Cardinality(Waiting(o)) \in Nat /\ Cardinality(Arrived(o)) \in Nat
    BY <2>2, FS_CardinalityType
  <2>4. Chances(o) <= Cardinality(Arrived(o)) + faults
    BY DEF VerdictInv
  <2>5. QED BY <2>3, <2>4 DEF Chances, Undecided, TypeOK
<1>2. QED
  BY <1>1, TypeCorrect, InitVerdictInv, NextVerdictInv, PTL DEF Spec
-----------------------------------------------------------------------------
\* While nothing failed every attempt but the first of a copy was asked for by the
\* warehouse, which fails no more calls than it was told to.
FlakyInv ==
    faults = 0 =>
        /\ ~stale /\ pc # "putBack"
        /\ \A c \in Copies :
              LET retries == attempt[c] - 1 + (IF pc = "retry" /\ msg = c THEN 1 ELSE 0)
              IN  retries <= warehouseCalls /\ retries <= failuresToSimulate
        /\ \A c \in Copies : copy[c] = "dead" => failuresToSimulate >= MaxAttempts

\* Nobody has called the warehouse at the start.
LEMMA InitFlakyInv == Init => FlakyInv
  BY InventoryAssumption DEF Init, FlakyInv

\* A call that fails uses up one of the failures, and the order it delays has as
\* many attempts as there were failures.
LEMMA NextFlakyInv == TypeOK /\ FlakyInv /\ [Next]_vars => FlakyInv'
<1> SUFFICES ASSUME TypeOK, FlakyInv, [Next]_vars, faults' = 0 PROVE FlakyInv'
  BY DEF FlakyInv
<1> USE InventoryAssumption DEF TypeOK, FlakyInv
<1>1. faults = 0 /\ ~Fault
  <2>1. ~Fault BY DEF Fault
  <2>2. CASE Step
    BY <2>1, <2>2 DEF Step, Work, Failure, WithStock, WithFlakyWarehouse, Deliver,
       WarehouseTimesOut, TakeStock, FindTooLittle, SendReserved, PutBack, SendMissing,
       Settle, SendReservedFailed, SendReservedUnconfirmed, SendMissingFailed,
       SendMissingUnconfirmed, Crash, ConnectionDropped
  <2>3. QED BY <2>1, <2>2 DEF Next, Arrive, vars
<1>2. ASSUME NEW c \in Copies, Arrive(c) PROVE FlakyInv'
  BY <1>1, <1>2 DEF Arrive, Queue!Arrive
<1>3. ASSUME NEW s \in SKUs, WithStock(s) PROVE FlakyInv'
  BY <1>1, <1>3 DEF WithStock
<1>4. ASSUME NEW n \in FlakyCounts, WithFlakyWarehouse(n) PROVE FlakyInv'
  <2>1. n \in Nat /\ failuresToSimulate = 0 /\ failuresToSimulate' = n
    BY <1>4 DEF WithFlakyWarehouse
  <2>2. UNCHANGED <<copy, attempt, pc, msg, stale, warehouseCalls>>
    BY <1>4 DEF WithFlakyWarehouse
  <2>3. \A c \in Copies : copy[c] # "dead"
    BY <1>1, <2>1
  <2>4. \A c \in Copies :
          attempt[c] - 1 + (IF pc = "retry" /\ msg = c THEN 1 ELSE 0) <= 0
    BY <1>1, <2>1
  <2>5. \A c \in Copies :
          attempt[c] - 1 + (IF pc = "retry" /\ msg = c THEN 1 ELSE 0) <= n
    BY <2>1, <2>4
  <2>6. QED BY <1>1, <2>1, <2>2, <2>3, <2>5
<1>5. CASE Deliver
  BY <1>1, <1>5 DEF Deliver, Queue!Deliver, Queue!Take
<1>6. CASE WarehouseTimesOut
  BY <1>1, <1>6 DEF WarehouseTimesOut, CallWarehouse, WarehouseAnswers, Goto
<1>7. CASE TakeStock \/ FindTooLittle
  BY <1>1, <1>7 DEF TakeStock, FindTooLittle, CallWarehouse, Goto
<1>8. CASE SendReserved \/ SendMissing
  BY <1>1, <1>8 DEF SendReserved, SendMissing, Goto
<1>9. CASE PutBack
  BY <1>1, <1>9 DEF PutBack
<1>10. CASE Settle
  <2>1. CASE pc = "retry"
    <3>1. CASE attempt[msg] < MaxAttempts
      BY <1>1, <1>10, <2>1, <3>1 DEF Settle, Queue!Settle, Queue!Retry
    <3>2. CASE ~(attempt[msg] < MaxAttempts)
      BY <1>1, <1>10, <2>1, <3>2 DEF Settle, Queue!Settle, Queue!Retry
    <3>3. QED BY <3>1, <3>2
  <2>2. CASE pc # "retry"
    BY <1>1, <1>10, <2>2 DEF Settle, Queue!Settle, Queue!Accept, Queue!Park
  <2>3. QED BY <2>1, <2>2
<1>11. CASE Failure
  BY <1>1, <1>11 DEF Failure, SendReservedFailed, SendReservedUnconfirmed,
     SendMissingFailed, SendMissingUnconfirmed, Crash, ConnectionDropped
<1>12. CASE UNCHANGED vars
  BY <1>1, <1>12 DEF vars
<1>13. QED
  BY <1>2, <1>3, <1>4, <1>5, <1>6, <1>7, <1>8, <1>9, <1>10, <1>11, <1>12
     DEF Next, Step, Work

\* A warehouse that comes back before the attempts run out costs no order, for
\* every number of attempts, of failed calls and of orders that share them.
THEOREM FlakyCostsNothing == Spec => []FlakyIsRetriedNotFailed
<1>1. TypeOK /\ FlakyInv => FlakyIsRetriedNotFailed
  BY InventoryAssumption DEF TypeOK, FlakyInv, FlakyIsRetriedNotFailed
<1>2. QED
  BY <1>1, TypeCorrect, InitFlakyInv, NextFlakyInv, PTL DEF Spec
-----------------------------------------------------------------------------
\* moved counts o once more than times does, and the other orders as often.
OnceMore(o, times, moved) ==
    \A p \in Orders :
        /\ times[p] \in Int
        /\ moved[p] = IF p = o THEN times[p] + 1 ELSE times[p]

\* A sum of wanted units moves with the one order that is counted once more.
LEMMA UnitsMoved ==
    ASSUME NEW s \in SKUs, NEW o \in Orders, NEW times, NEW moved, OnceMore(o, times, moved)
    PROVE  Units(s, moved) = Units(s, times) + (IF SKUOf[o] = s THEN QuantityOf[o] ELSE 0)
<1> DEFINE S == {p \in Orders : SKUOf[p] = s}
           f == [p \in Orders |-> times[p] * QuantityOf[p]]
           g == [p \in Orders |-> moved[p] * QuantityOf[p]]
<1>1. IsFiniteSet(S)
  BY InventoryAssumption, FS_Subset
<1>2. \A p \in Orders : times[p] \in Int /\ moved[p] \in Int /\ QuantityOf[p] \in Int
  BY InventoryAssumption DEF OnceMore
<1>3. \A p \in S : f[p] \in Int /\ g[p] \in Int
  BY <1>2
<1>4. \A p \in S \ {o} : f[p] = g[p]
  BY DEF OnceMore
<1>5. g[o] - f[o] = QuantityOf[o]
  <2>1. g[o] = (times[o] + 1) * QuantityOf[o] /\ f[o] = times[o] * QuantityOf[o]
    BY DEF OnceMore
  <2> HIDE DEF f, g
  <2>2. QED BY <1>2, <2>1
<1>6. o \in S <=> SKUOf[o] = s
  OBVIOUS
<1>7. Units(s, times) = SumFunctionOnSet(f, S) /\ Units(s, moved) = SumFunctionOnSet(g, S)
  BY DEF Units
<1> HIDE DEF S, f, g
<1>8. SumFunctionOnSet(f, S) \in Int
  BY <1>1, <1>3, SumType
<1>9. SumFunctionOnSet(g, S) = SumFunctionOnSet(f, S) + (IF o \in S THEN g[o] - f[o] ELSE 0)
  BY <1>1, <1>3, <1>4, SumMoved
<1>10. QED
  BY <1>5, <1>6, <1>7, <1>8, <1>9

\* Units are integers.
LEMMA UnitsType ==
    ASSUME NEW s \in SKUs, NEW times, \A p \in Orders : times[p] \in Int
    PROVE  Units(s, times) \in Int
<1> DEFINE S == {p \in Orders : SKUOf[p] = s}
           f == [p \in Orders |-> times[p] * QuantityOf[p]]
<1>1. IsFiniteSet(S)
  BY InventoryAssumption, FS_Subset
<1>2. \A p \in S : f[p] \in Int
  <2>1. \A p \in Orders : times[p] \in Int /\ QuantityOf[p] \in Int
    BY InventoryAssumption
  <2>2. QED BY <2>1
<1>3. Units(s, times) = SumFunctionOnSet(f, S)
  BY DEF Units
<1> HIDE DEF S, f
<1>4. QED BY <1>1, <1>2, <1>3, SumType

\* Orders nobody counted want no units.
LEMMA UnitsOfNothing ==
    ASSUME NEW s \in SKUs, NEW times, \A o \in Orders : times[o] = 0
    PROVE  Units(s, times) = 0
<1> DEFINE S == {p \in Orders : SKUOf[p] = s}
           f == [p \in Orders |-> times[p] * QuantityOf[p]]
<1>1. IsFiniteSet(S)
  BY InventoryAssumption, FS_Subset
<1>2. \A p \in S : f[p] = 0
  BY InventoryAssumption
<1>3. Units(s, times) = SumFunctionOnSet(f, S)
  BY DEF Units
<1> HIDE DEF S, f
<1>4. QED BY <1>1, <1>2, <1>3, SumZero

\* What was reserved since the process was started.
Since == [o \in Orders |-> reservedOut[o] - before[o]]

\* The books of the shelf: they balance, nothing is taken of a SKU that was never
\* stocked, and there is none of it to take.
StockInv ==
    /\ StockAccounted
    /\ \A s \in SKUs : s \notin stocked => stock[s] = 0
    /\ pc \in {"reserve", "putBack"} => SKU \in stocked

\* With nothing on the shelf nothing is missing from it.
LEMMA InitStockInv == Init => StockInv
<1> SUFFICES ASSUME Init, NEW s \in SKUs
             PROVE  stock[s] + InHand(s) + Units(s, Since)
                      = (IF s \in stocked THEN Shelf[s] ELSE 0) + Units(s, lost)
  BY DEF StockInv, StockAccounted, Since, Init
<1>1. Units(s, Since) = 0 /\ Units(s, lost) = 0
  <2>1. \A o \in Orders : Since[o] = 0 /\ lost[o] = 0
    BY DEF Init, Since
  <2>2. QED BY <2>1, UnitsOfNothing
<1>2. QED
  BY <1>1 DEF Init, InHand

\* Every step keeps the balance of each SKU.
LEMMA NextStockInv == TypeOK /\ StockInv /\ [Next]_vars => StockInv'
<1> SUFFICES ASSUME TypeOK, StockInv, [Next]_vars PROVE StockInv'
  OBVIOUS
<1>1. TypeOK'
  BY NextTypeOK
<1>2. SUFFICES /\ \A s \in SKUs :
                     stock'[s] + InHand(s)' + Units(s, Since')
                       = (IF s \in stocked' THEN Shelf[s] ELSE 0) + Units(s, lost')
               /\ \A s \in SKUs : s \notin stocked' => stock'[s] = 0
               /\ pc' \in {"reserve", "putBack"} => SKU' \in stocked'
  BY DEF StockInv, StockAccounted, Since
<1>3. /\ \A s \in SKUs :
            stock[s] + InHand(s) + Units(s, Since)
              = (IF s \in stocked THEN Shelf[s] ELSE 0) + Units(s, lost)
      /\ \A s \in SKUs : s \notin stocked => stock[s] = 0
      /\ pc \in {"reserve", "putBack"} => SKU \in stocked
  BY DEF StockInv, StockAccounted, Since
<1>4. \A s \in SKUs : Units(s, Since) \in Int /\ Units(s, lost) \in Int
  <2>1. \A o \in Orders : Since[o] \in Int /\ lost[o] \in Int BY DEF Since, TypeOK
  <2>2. QED BY <2>1, UnitsType
<1>5. SKU \in SKUs /\ Quantity \in Nat \ {0} /\ Order \in Orders /\ SKUOf[Order] = SKU
      /\ QuantityOf[Order] = Quantity
  BY InventoryAssumption DEF TypeOK, SKU, Order, Quantity
<1> USE InventoryAssumption DEF TypeOK
<1>6. CASE \/ \E c \in Copies : Arrive(c)
           \/ \E n \in FlakyCounts : WithFlakyWarehouse(n)
           \/ WarehouseTimesOut \/ FindTooLittle \/ SendMissing
           \/ SendReservedFailed \/ SendMissingFailed \/ SendMissingUnconfirmed
           \/ ConnectionDropped \/ UNCHANGED vars
  <2>1. UNCHANGED <<stock, stocked, reservedOut, before, lost, msg>>
    BY <1>6 DEF Arrive, WithFlakyWarehouse, WarehouseTimesOut, FindTooLittle,
       SendMissing, SendReservedFailed, SendMissingFailed, SendMissingUnconfirmed,
       ConnectionDropped, Queue!Drop, Goto, vars
  <2>2. pc \in {"reserve", "putBack"} <=> pc' \in {"reserve", "putBack"}
    BY <1>6 DEF Arrive, WithFlakyWarehouse, WarehouseTimesOut, FindTooLittle,
       CallWarehouse, SendMissing, SendReservedFailed, SendMissingFailed,
       SendMissingUnconfirmed, ConnectionDropped, Queue!Drop, Goto, vars
  <2>3. SKU' = SKU /\ Quantity' = Quantity /\ Since' = Since
    BY <2>1 DEF SKU, Order, Quantity, Since
  <2>4. QED BY <1>3, <2>1, <2>2, <2>3 DEF InHand
<1>7. CASE Deliver \/ Settle
  <2>1. UNCHANGED <<stock, stocked, reservedOut, before, lost>>
    BY <1>7 DEF Deliver, Settle
  <2>2. pc \notin {"reserve", "putBack"} /\ pc' \notin {"reserve", "putBack"}
    BY <1>7 DEF Deliver, Settle, Queue!Deliver, Queue!Settle
  <2>3. QED BY <1>3, <2>1, <2>2 DEF InHand, Since
<1>8. ASSUME NEW s \in SKUs, WithStock(s) PROVE
               /\ \A t \in SKUs :
                     stock'[t] + InHand(t)' + Units(t, Since')
                       = (IF t \in stocked' THEN Shelf[t] ELSE 0) + Units(t, lost')
               /\ \A t \in SKUs : t \notin stocked' => stock'[t] = 0
               /\ pc' \in {"reserve", "putBack"} => SKU' \in stocked'
  <2>1. /\ s \notin stocked /\ stocked' = stocked \cup {s}
        /\ stock' = [stock EXCEPT ![s] = Shelf[s]]
        /\ UNCHANGED <<pc, msg, reservedOut, before, lost>>
    BY <1>8 DEF WithStock
  <2>2. InHand(s) = 0 /\ stock[s] = 0
    BY <1>3, <2>1 DEF InHand
  <2>3. Since' = Since /\ SKU' = SKU /\ \A t \in SKUs : InHand(t)' = InHand(t)
    BY <2>1 DEF Since, SKU, Order, Quantity, InHand
  <2>4. QED BY <1>3, <1>4, <2>1, <2>2, <2>3
<1>9. CASE TakeStock
  <2>1. /\ pc = "call" /\ pc' = "reserve" /\ stock[SKU] >= Quantity
        /\ stock' = [stock EXCEPT ![SKU] = @ - Quantity]
        /\ UNCHANGED <<msg, stocked, reservedOut, before, lost>>
    BY <1>9 DEF TakeStock, CallWarehouse, Goto
  <2>2. Since' = Since /\ SKU' = SKU /\ Quantity' = Quantity
    BY <2>1 DEF Since, SKU, Order, Quantity
  <2>3. SKU \in stocked
    BY <1>3, <1>5, <2>1
  <2>4. \A s \in SKUs : InHand(s) = 0 /\ InHand(s)' = IF SKU = s THEN Quantity ELSE 0
    BY <2>1, <2>2 DEF InHand
  <2>5. QED BY <1>3, <1>4, <1>5, <2>1, <2>2, <2>3, <2>4
<1>10. CASE PutBack
  <2>1. /\ pc = "putBack" /\ pc' = "retry"
        /\ stock' = [stock EXCEPT ![SKU] = @ + Quantity]
        /\ UNCHANGED <<msg, stocked, reservedOut, before, lost>>
    BY <1>10 DEF PutBack, Goto
  <2>2. Since' = Since
    BY <2>1 DEF Since
  <2>3. \A s \in SKUs : InHand(s)' = 0 /\ InHand(s) = IF SKU = s THEN Quantity ELSE 0
    BY <2>1 DEF InHand
  <2>4. QED BY <1>3, <1>4, <1>5, <2>1, <2>2, <2>3
<1>11. CASE SendReserved \/ SendReservedUnconfirmed
  <2>1. /\ pc = "reserve" /\ pc' \in {"accept", "putBack"}
        /\ reservedOut' = [reservedOut EXCEPT ![Order] = @ + 1]
        /\ lost' = IF pc' = "accept" THEN lost ELSE [lost EXCEPT ![Order] = @ + 1]
        /\ UNCHANGED <<msg, stock, stocked, before>>
    BY <1>11 DEF SendReserved, SendReservedUnconfirmed, Goto
  <2>2. SKU' = SKU /\ Quantity' = Quantity
    BY <2>1 DEF SKU, Order, Quantity
  <2>3. OnceMore(Order, Since, Since')
    BY <1>5, <2>1 DEF OnceMore, Since
  <2>4. \A s \in SKUs : Units(s, Since') = Units(s, Since) + IF SKU = s THEN Quantity ELSE 0
    BY <1>5, <2>3, UnitsMoved
  <2>5. \A s \in SKUs : InHand(s) = IF SKU = s THEN Quantity ELSE 0
    BY <2>1 DEF InHand
  <2>6. CASE pc' = "accept"
    <3>1. lost' = lost /\ \A s \in SKUs : InHand(s)' = 0
      BY <2>1, <2>6 DEF InHand
    <3>2. QED BY <1>3, <1>4, <1>5, <2>1, <2>4, <2>5, <2>6, <3>1
  <2>7. CASE pc' = "putBack"
    <3>1. lost' = [lost EXCEPT ![Order] = @ + 1]
      BY <2>1, <2>7
    <3>2. \A s \in SKUs : Units(s, lost') = Units(s, lost) + IF SKU = s THEN Quantity ELSE 0
      <4>1. OnceMore(Order, lost, lost')
        BY <1>5, <3>1 DEF OnceMore
      <4>2. QED BY <1>5, <4>1, UnitsMoved
    <3>3. \A s \in SKUs : InHand(s)' = InHand(s)
      BY <2>1, <2>2, <2>7 DEF InHand
    <3>4. UNCHANGED <<stock, stocked>> /\ SKU' \in stocked'
      BY <1>3, <2>1, <2>2
    <3>5. \A s \in SKUs :
            stock'[s] + InHand(s)' + Units(s, Since')
              = (IF s \in stocked' THEN Shelf[s] ELSE 0) + Units(s, lost')
      <4> SUFFICES ASSUME NEW s \in SKUs
                   PROVE  stock'[s] + InHand(s)' + Units(s, Since')
                            = (IF s \in stocked' THEN Shelf[s] ELSE 0) + Units(s, lost')
        OBVIOUS
      <4> DEFINE more == IF SKU = s THEN Quantity ELSE 0
      <4>1. more \in Int /\ InHand(s) = more /\ InHand(s)' = more BY <1>5, <2>5, <3>3
      <4>2. Units(s, Since') = Units(s, Since) + more /\ Units(s, lost') = Units(s, lost) + more
        BY <2>4, <3>2
      <4> HIDE DEF more
      <4>3. QED BY <1>3, <1>4, <3>4, <4>1, <4>2
    <3>6. QED BY <1>3, <2>1, <3>4, <3>5
  <2>8. QED BY <2>1, <2>6, <2>7
<1>12. CASE Crash
  <2>1. /\ pc' = "idle" /\ stocked' = {} /\ stock' = [s \in SKUs |-> 0]
        /\ before' = reservedOut /\ reservedOut' = reservedOut
        /\ lost' = [o \in Orders |-> 0]
    BY <1>12 DEF Crash, Queue!Die
  <2>2. \A o \in Orders : Since'[o] = 0 /\ lost'[o] = 0
    BY <2>1 DEF Since
  <2>3. \A s \in SKUs : Units(s, Since') = 0 /\ Units(s, lost') = 0
    BY <2>2, UnitsOfNothing
  <2>4. QED BY <2>1, <2>3 DEF InHand
<1>13. QED
  BY <1>6, <1>7, <1>8, <1>9, <1>10, <1>11, <1>12 DEF Next, Step, Work, Failure

\* The stock of every SKU is accounted for, whatever the orders want of it and
\* however the process fails: units leave the shelf only for a reservation that was
\* published, and come back whenever one was not.
THEOREM StockBalances == Spec => []StockAccounted
<1>1. StockInv => StockAccounted
  BY DEF StockInv
<1>2. QED
  BY <1>1, TypeCorrect, InitStockInv, NextStockInv, PTL DEF Spec
=============================================================================
