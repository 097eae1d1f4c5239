----------------------------- MODULE Inventory ------------------------------
(***************************************************************************)
(* apps/01-order-fulfilment/inventory: stock for the orders paid for.      *)
(*                                                                         *)
(* reserve calls a warehouse that may not answer, takes the stock under a  *)
(* lock, and publishes StockReserved or StockUnavailable outside it.  The  *)
(* stock is in memory: it starts empty, WithStock fills it once the        *)
(* consumer is already running, and a crash loses it.                      *)
(*                                                                         *)
(* An unknown SKU is one with no stock: every order wants something.       *)
(***************************************************************************)
EXTENDS FiniteSetsExt, Integers

CONSTANTS Orders, SKUs,
          SKUOf, QuantityOf,    \* what each order wants, and how many
          Copies, OrderOf,      \* copies of PaymentCaptured, and their orders
          Shelf,                \* what WithStock puts on the shelf, per SKU
          FlakyCounts,          \* what WithFlakyWarehouse may be asked for
          MaxAttempts,          \* ExponentialRetry's attempts in all
          MaxFaults             \* bound: crashes, dropped connections, failed calls

ASSUME InventoryAssumption ==
    /\ IsFiniteSet(Orders)
    /\ SKUOf \in [Orders -> SKUs]
    /\ QuantityOf \in [Orders -> Nat \ {0}]
    /\ Copies # {} /\ OrderOf \in [Copies -> Orders]
    /\ Shelf \in [SKUs -> Nat]
    /\ FlakyCounts \subseteq Nat
    /\ MaxAttempts \in Nat \ {0}
    /\ MaxFaults \in Nat

VARIABLES
    copy, attempt, pc, msg, stale,      \* the consumer of the inventory queue
    stock,              \* units of each SKU
    stocked,            \* SKUs that WithStock has been called for
    warehouseCalls, failuresToSimulate,
    reserved, rejected, \* the service's counters
    reservedOut, missingOut,    \* verdicts the broker has been given, per order
    before,             \* history: reservedOut when the process was started
    lost,               \* history: unconfirmed StockReserved since then, per order
    faults              \* faults so far

consumerVars  == <<copy, attempt, pc, msg, stale>>
stockVars     == <<stock, stocked>>
warehouseVars == <<warehouseCalls, failuresToSimulate>>
counterVars   == <<reserved, rejected>>
outVars       == <<reservedOut, missingOut>>
historyVars   == <<before, lost>>
vars == <<consumerVars, stockVars, warehouseVars, counterVars, outVars,
          historyVars, faults>>

Queue == INSTANCE Delivery

Phases == {"idle", "call", "reserve", "putBack", "reject", "accept", "retry"}

Order    == OrderOf[msg]
SKU      == SKUOf[Order]
Quantity == QuantityOf[Order]

Fault == faults < MaxFaults /\ faults' = faults + 1

\* A step of the handler that leaves the queue alone.
Goto(phase) == pc' = phase /\ UNCHANGED <<copy, attempt, msg, stale>>

Init ==
    /\ copy = [c \in Copies |-> "absent"]
    /\ attempt = [c \in Copies |-> 1]
    /\ pc = "idle"
    /\ msg = (CHOOSE c \in Copies : TRUE)
    /\ stale = FALSE
    /\ stock = [s \in SKUs |-> 0]
    /\ stocked = {}
    /\ warehouseCalls = 0 /\ failuresToSimulate = 0
    /\ reserved = 0 /\ rejected = 0
    /\ reservedOut = [o \in Orders |-> 0]
    /\ missingOut = [o \in Orders |-> 0]
    /\ before = [o \in Orders |-> 0]
    /\ lost = [o \in Orders |-> 0]
    /\ faults = 0
-----------------------------------------------------------------------------
Arrive(c) ==
    /\ Queue!Arrive(c)
    /\ UNCHANGED <<pc, msg, stale, stockVars, warehouseVars, counterVars, outVars,
                   historyVars, faults>>

\* main stocks the shelf when Start has returned: the consumer is running by then.
WithStock(s) ==
    /\ s \notin stocked
    /\ stock' = [stock EXCEPT ![s] = Shelf[s]]
    /\ stocked' = stocked \cup {s}
    /\ UNCHANGED <<consumerVars, warehouseVars, counterVars, outVars, historyVars, faults>>

\* Asked for once in a run: the scenarios ask at most once.
WithFlakyWarehouse(count) ==
    /\ failuresToSimulate = 0
    /\ failuresToSimulate' = count
    /\ UNCHANGED <<consumerVars, stockVars, warehouseCalls, counterVars, outVars,
                   historyVars, faults>>

Deliver ==
    /\ Queue!Deliver("call")
    /\ UNCHANGED <<stockVars, warehouseVars, counterVars, outVars, historyVars, faults>>

WarehouseAnswers == warehouseCalls + 1 > failuresToSimulate

CallWarehouse ==
    /\ pc = "call"
    /\ warehouseCalls' = warehouseCalls + 1
    /\ UNCHANGED failuresToSimulate

WarehouseTimesOut ==
    /\ CallWarehouse
    /\ ~WarehouseAnswers
    /\ Goto("retry")
    /\ UNCHANGED <<stockVars, counterVars, outVars, historyVars, faults>>

\* Mutant: the stock is not looked at.
TakeStockUnchecked ==
    /\ CallWarehouse
    /\ WarehouseAnswers
    /\ stock' = [stock EXCEPT ![SKU] = @ - Quantity]
    /\ Goto("reserve")
    /\ UNCHANGED <<stocked, counterVars, outVars, historyVars, faults>>

\* The check and the decrement are under one lock.
TakeStock ==
    /\ CallWarehouse
    /\ WarehouseAnswers
    /\ stock[SKU] >= Quantity
    /\ stock' = [stock EXCEPT ![SKU] = @ - Quantity]
    /\ Goto("reserve")
    /\ UNCHANGED <<stocked, counterVars, outVars, historyVars, faults>>

FindTooLittle ==
    /\ CallWarehouse
    /\ WarehouseAnswers
    /\ stock[SKU] < Quantity
    /\ Goto("reject")
    /\ UNCHANGED <<stockVars, counterVars, outVars, historyVars, faults>>

SendReserved ==
    /\ pc = "reserve"
    /\ reservedOut' = [reservedOut EXCEPT ![Order] = @ + 1]
    /\ reserved' = reserved + 1
    /\ Goto("accept")
    /\ UNCHANGED <<stockVars, warehouseVars, rejected, missingOut, historyVars, faults>>

\* Mutant: the failed publish keeps the stock.
SendReservedFailedKept ==
    /\ pc = "reserve"
    /\ Fault
    /\ Goto("retry")
    /\ UNCHANGED <<stockVars, warehouseVars, counterVars, outVars, historyVars>>

SendReservedFailed ==
    /\ pc = "reserve"
    /\ Fault
    /\ Goto("putBack")
    /\ UNCHANGED <<stockVars, warehouseVars, counterVars, outVars, historyVars>>

\* The broker has StockReserved, and reserve is told it failed.
SendReservedUnconfirmed ==
    /\ pc = "reserve"
    /\ Fault
    /\ reservedOut' = [reservedOut EXCEPT ![Order] = @ + 1]
    /\ lost' = [lost EXCEPT ![Order] = @ + 1]
    /\ Goto("putBack")
    /\ UNCHANGED <<stockVars, warehouseVars, counterVars, missingOut, before>>

PutBack ==
    /\ pc = "putBack"
    /\ stock' = [stock EXCEPT ![SKU] = @ + Quantity]
    /\ Goto("retry")
    /\ UNCHANGED <<stocked, warehouseVars, counterVars, outVars, historyVars, faults>>

\* Mutant: too little stock is a failure, retried like any other.
SendMissingRetried ==
    /\ pc = "reject"
    /\ missingOut' = [missingOut EXCEPT ![Order] = @ + 1]
    /\ rejected' = rejected + 1
    /\ Goto("retry")
    /\ UNCHANGED <<stockVars, warehouseVars, reserved, reservedOut, historyVars, faults>>

SendMissing ==
    /\ pc = "reject"
    /\ missingOut' = [missingOut EXCEPT ![Order] = @ + 1]
    /\ rejected' = rejected + 1
    /\ Goto("accept")
    /\ UNCHANGED <<stockVars, warehouseVars, reserved, reservedOut, historyVars, faults>>

SendMissingFailed ==
    /\ pc = "reject"
    /\ Fault
    /\ Goto("retry")
    /\ UNCHANGED <<stockVars, warehouseVars, counterVars, outVars, historyVars>>

SendMissingUnconfirmed ==
    /\ pc = "reject"
    /\ Fault
    /\ missingOut' = [missingOut EXCEPT ![Order] = @ + 1]
    /\ Goto("retry")
    /\ UNCHANGED <<stockVars, warehouseVars, counterVars, reservedOut, historyVars>>

Settle ==
    /\ Queue!Settle
    /\ UNCHANGED <<stockVars, warehouseVars, counterVars, outVars, historyVars, faults>>

\* The process dies, with the stock, the calls and the counters it had in memory.
Crash ==
    /\ Queue!Die
    /\ Fault
    /\ stock' = [s \in SKUs |-> 0]
    /\ stocked' = {}
    /\ warehouseCalls' = 0 /\ failuresToSimulate' = 0
    /\ reserved' = 0 /\ rejected' = 0
    /\ before' = reservedOut
    /\ lost' = [o \in Orders |-> 0]
    /\ UNCHANGED outVars

ConnectionDropped ==
    /\ Queue!Drop
    /\ Fault
    /\ UNCHANGED <<stockVars, warehouseVars, counterVars, outVars, historyVars>>
-----------------------------------------------------------------------------
\* What the consumer does by itself.
Work ==
    \/ Deliver
    \/ WarehouseTimesOut \/ TakeStock \/ FindTooLittle
    \/ SendReserved \/ PutBack \/ SendMissing
    \/ Settle

Failure ==
    \/ SendReservedFailed \/ SendReservedUnconfirmed
    \/ SendMissingFailed \/ SendMissingUnconfirmed
    \/ Crash \/ ConnectionDropped

Step ==
    \/ \E s \in SKUs : WithStock(s)
    \/ \E n \in FlakyCounts : WithFlakyWarehouse(n)
    \/ Work
    \/ Failure

Next == (\E c \in Copies : Arrive(c)) \/ Step

Spec == Init /\ [][Next]_vars

-----------------------------------------------------------------------------
TypeOK ==
    /\ copy \in [Copies -> Queue!CopyStates]
    /\ attempt \in [Copies -> 1..MaxAttempts]
    /\ pc \in Phases
    /\ msg \in Copies
    /\ stale \in BOOLEAN
    /\ stock \in [SKUs -> Nat]
    /\ stocked \subseteq SKUs
    /\ warehouseCalls \in Nat /\ failuresToSimulate \in Nat
    /\ reserved \in Nat /\ rejected \in Nat
    /\ reservedOut \in [Orders -> Nat] /\ missingOut \in [Orders -> Nat]
    /\ before \in [Orders -> Nat] /\ lost \in [Orders -> Nat]
    /\ faults \in 0..MaxFaults

\* Units of s wanted by orders, each counted as many times as times says.
Units(s, times) ==
    SumFunctionOnSet([o \in Orders |-> times[o] * QuantityOf[o]],
                     {o \in Orders : SKUOf[o] = s})

InHand(s) ==
    IF pc \in {"reserve", "putBack"} /\ SKU = s THEN Quantity ELSE 0

\* Stock is neither lost nor conjured: what is on the shelf, in hand and promised
\* downstream since the start is what was put there, and a reservation that was
\* published behind a failed send is the only way to promise more than that.
StockAccounted ==
    \A s \in SKUs :
        stock[s] + InHand(s) + Units(s, [o \in Orders |-> reservedOut[o] - before[o]])
            = (IF s \in stocked THEN Shelf[s] ELSE 0) + Units(s, lost)

Arrived(o) == {c \in Copies : OrderOf[c] = o /\ copy[c] # "absent"}

\* A message gets one verdict.  More come only of more copies, or of faults: "not
\* enough" is an outcome, said once, and a retry never repeats what was published.
VerdictsArePaidFor ==
    \A o \in Orders :
        reservedOut[o] + missingOut[o] <= Cardinality(Arrived(o)) + faults

\* A warehouse that fails fewer times than there are attempts costs no order: all
\* are retried and none is dead-lettered.
FlakyIsRetriedNotFailed ==
    faults = 0 /\ failuresToSimulate < MaxAttempts =>
        \A c \in Copies : copy[c] # "dead"

\* "Every other service in this system can handle a message twice and produce the
\* same outcome": an order holds stock once, or is refused, and never both.
HandledTwiceIsTheSame ==
    \A o \in Orders :
        reservedOut[o] <= 1 /\ ~(reservedOut[o] > 0 /\ missingOut[o] > 0)
=============================================================================
