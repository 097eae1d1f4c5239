------------------------------ MODULE Shipping ------------------------------
(***************************************************************************)
(* apps/01-order-fulfilment/shipping: one event in, one event out.         *)
(* dispatch publishes OrderShipped for each reservation and asks for a     *)
(* retry when it cannot.  The tracking number is a function of the order.  *)
(***************************************************************************)
EXTENDS Naturals

CONSTANTS Orders,
          Copies, OrderOf,      \* copies of StockReserved, and their orders
          MaxAttempts,          \* attempts the library's own policy allows
          MaxFaults             \* bound: crashes, dropped connections, failed calls

VARIABLES
    copy, attempt, pc, msg, stale,      \* the consumer of the shipping queue
    shippedOut,         \* OrderShipped the broker has been given, per order
    count,              \* the service's counter
    faults              \* faults so far

consumerVars == <<copy, attempt, pc, msg, stale>>
vars == <<consumerVars, shippedOut, count, faults>>

Queue == INSTANCE Delivery

Phases == {"idle", "dispatch", "accept", "retry"}

Order == OrderOf[msg]

Fault == faults < MaxFaults /\ faults' = faults + 1

\* A step of the handler that leaves the queue alone.
Goto(phase) == pc' = phase /\ UNCHANGED <<copy, attempt, msg, stale>>

Published == shippedOut' = [shippedOut EXCEPT ![Order] = @ + 1]

Init ==
    /\ copy = [c \in Copies |-> "absent"]
    /\ attempt = [c \in Copies |-> 1]
    /\ pc = "idle"
    /\ msg = (CHOOSE c \in Copies : TRUE)
    /\ stale = FALSE
    /\ shippedOut = [o \in Orders |-> 0]
    /\ count = 0
    /\ faults = 0

Arrive(c) == Queue!Arrive(c) /\ UNCHANGED <<pc, msg, stale, shippedOut, count, faults>>

Deliver == Queue!Deliver("dispatch") /\ UNCHANGED <<shippedOut, count, faults>>

\* Mutant: the retry is asked for whatever Send returned.
SendRetried ==
    pc = "dispatch" /\ Published /\ count' = count + 1 /\ Goto("retry") /\ UNCHANGED faults

Send ==
    pc = "dispatch" /\ Published /\ count' = count + 1 /\ Goto("accept") /\ UNCHANGED faults

SendFailed ==
    pc = "dispatch" /\ Fault /\ Goto("retry") /\ UNCHANGED <<shippedOut, count>>

SendUnconfirmed ==
    pc = "dispatch" /\ Fault /\ Published /\ Goto("retry") /\ UNCHANGED count

Settle == Queue!Settle /\ UNCHANGED <<shippedOut, count, faults>>

Crash == Queue!Die /\ Fault /\ count' = 0 /\ UNCHANGED shippedOut

ConnectionDropped == Queue!Drop /\ Fault /\ UNCHANGED <<shippedOut, count>>

Work == Deliver \/ Send \/ Settle

Failure == SendFailed \/ SendUnconfirmed \/ Crash \/ ConnectionDropped

Step == Work \/ Failure

Next == (\E c \in Copies : Arrive(c)) \/ Step

Spec == Init /\ [][Next]_vars
=============================================================================
