-------------------------- MODULE OrderFulfilment ---------------------------
(***************************************************************************)
(* apps/01-order-fulfilment: the five services on one broker.              *)
(*                                                                         *)
(* The gateway is its promise (Announcement, which Outbox implements); the *)
(* other services are their own modules.  A service that publishes and the *)
(* queues the topology routes the event to take the step together: nothing *)
(* is published that is not on every queue bound to its key.  Otherwise    *)
(* the services interleave.  They share nothing but the broker, and one    *)
(* budget of faults.                                                       *)
(*                                                                         *)
(* contracts gives the events, their routing keys and the topology every   *)
(* service applies when it starts.  A key is the tuple of its words; "#"   *)
(* at the end of a pattern stands for any words.                           *)
(***************************************************************************)
EXTENDS SequencesExt, Naturals

CONSTANTS Orders, OverLimit, SKUs, SKUOf, QuantityOf, Shelf, Instances,
          MaxAttempts, MaxFaults

ASSUME OrderFulfilmentAssumption ==
    /\ IsFiniteSet(Orders) /\ Orders # {}
    /\ OverLimit \subseteq Orders
    /\ SKUOf \in [Orders -> SKUs]
    /\ QuantityOf \in [Orders -> Nat \ {0}]
    /\ Shelf \in [SKUs -> Nat]
    /\ MaxAttempts \in Nat \ {0}
    /\ MaxFaults \in Nat

VARIABLES
    placed, announced,                                  \* gateway
    payCopy, payAttempt, payPc, payMsg, payStale, store, charged, captures,
    declines, duplicatesRefused, payLost, expired, orphaned,    \* payments
    invCopy, invAttempt, invPc, invMsg, invStale, stock, stocked,
    warehouseCalls, failuresToSimulate, reserved, rejected, reservedOut,
    missingOut, before, invLost,                                 \* inventory
    shipCopy, shipAttempt, shipPc, shipMsg, shipStale, shippedOut, count, \* shipping
    inbox, handled, timeline, forgotten,                        \* notifications
    faults

gatewayVars   == <<placed, announced>>
payQueue      == <<payCopy, payAttempt>>
payVars       == <<payPc, payMsg, payStale, store, charged, captures, declines,
                   duplicatesRefused, payLost, expired, orphaned>>
invQueue      == <<invCopy, invAttempt>>
invVars       == <<invPc, invMsg, invStale, stock, stocked, warehouseCalls,
                   failuresToSimulate, reserved, rejected, reservedOut, missingOut,
                   before, invLost>>
shipQueue     == <<shipCopy, shipAttempt>>
shipVars      == <<shipPc, shipMsg, shipStale, shippedOut, count>>
timelineVars  == <<inbox, handled, timeline, forgotten>>
queueVars     == <<payQueue, invQueue, shipQueue, timelineVars>>
vars == <<gatewayVars, payVars, invVars, shipVars, queueVars, faults>>

\* The routing key each message type is published with.
KeyOf ==
    [OrderPlaced      |-> <<"fulfilment", "order", "placed">>,
     PaymentCaptured  |-> <<"fulfilment", "payment", "captured">>,
     PaymentDeclined  |-> <<"fulfilment", "payment", "declined">>,
     StockReserved    |-> <<"fulfilment", "stock", "reserved">>,
     StockUnavailable |-> <<"fulfilment", "stock", "unavailable">>,
     OrderShipped     |-> <<"fulfilment", "order", "shipped">>]

Types == DOMAIN KeyOf

Queues == {"payments", "inventory", "shipping", "notifications"}

\* Mutant: inventory is bound to every event about payments.
TopologyWide ==
    [payments      |-> <<"fulfilment", "order", "placed">>,
     inventory     |-> <<"fulfilment", "payment", "#">>,
     shipping      |-> <<"fulfilment", "stock", "reserved">>,
     notifications |-> <<"fulfilment", "#">>]

\* Mutant: shipping is bound to the wrong verdict about stock.
TopologyCrossed ==
    [payments      |-> <<"fulfilment", "order", "placed">>,
     inventory     |-> <<"fulfilment", "payment", "captured">>,
     shipping      |-> <<"fulfilment", "stock", "unavailable">>,
     notifications |-> <<"fulfilment", "#">>]

\* The pattern each queue is bound to the one topic exchange with.
Topology ==
    [payments      |-> <<"fulfilment", "order", "placed">>,
     inventory     |-> <<"fulfilment", "payment", "captured">>,
     shipping      |-> <<"fulfilment", "stock", "reserved">>,
     notifications |-> <<"fulfilment", "#">>]

Matches(pattern, key) ==
    IF Last(pattern) = "#" THEN IsPrefix(Front(pattern), key) ELSE pattern = key

\* The queues that get a copy of a message of each type.
RoutedTo == [t \in Types |-> {q \in Queues : Matches(Topology[q], KeyOf[t])}]
-----------------------------------------------------------------------------
\* The copies of an event: <<o, k>> is the k-th time it is published about order o.
Copies  == Orders \X (1 .. 2 + MaxFaults)
OrderOf == [c \in Copies |-> c[1]]

Gateway   == INSTANCE Announcement
Payments  == INSTANCE Payments WITH
                 copy <- payCopy, attempt <- payAttempt, pc <- payPc, msg <- payMsg,
                 stale <- payStale, lost <- payLost
Inventory == INSTANCE Inventory WITH
                 copy <- invCopy, attempt <- invAttempt, pc <- invPc, msg <- invMsg,
                 stale <- invStale, lost <- invLost, FlakyCounts <- {}
Shipping  == INSTANCE Shipping WITH
                 copy <- shipCopy, attempt <- shipAttempt, pc <- shipPc,
                 msg <- shipMsg, stale <- shipStale
Notifications == INSTANCE Notifications

Init ==
    /\ Gateway!Init
    /\ Payments!Init
    /\ Inventory!Init
    /\ Shipping!Init
    /\ Notifications!Init
-----------------------------------------------------------------------------
\* Every queue the topology binds to the event's key gets its k-th copy.
Publish(type, o, k) ==
    /\ IF "payments" \in RoutedTo[type]
         THEN Payments!Queue!Arrive(<<o, k>>) ELSE UNCHANGED payQueue
    /\ IF "inventory" \in RoutedTo[type]
         THEN Inventory!Queue!Arrive(<<o, k>>) ELSE UNCHANGED invQueue
    /\ IF "shipping" \in RoutedTo[type]
         THEN Shipping!Queue!Arrive(<<o, k>>) ELSE UNCHANGED shipQueue
    /\ IF "notifications" \in RoutedTo[type]
         THEN Notifications!Arrive(o, type) ELSE UNCHANGED timelineVars

Decision(o) == IF o \in OverLimit THEN "PaymentDeclined" ELSE "PaymentCaptured"

Place(o) ==
    /\ Gateway!Place(o)
    /\ UNCHANGED <<payVars, invVars, shipVars, queueVars, faults>>

\* The relay announces an order again only after a fault (Outbox!RepeatsArePaidFor).
Announce(o) ==
    /\ Gateway!Announce(o)
    /\ IF announced[o] = 0 THEN UNCHANGED faults ELSE Payments!Fault
    /\ Publish("OrderPlaced", o, announced'[o])
    /\ UNCHANGED <<payVars, invVars, shipVars>>

PaymentsStep ==
    /\ Payments!Step
    /\ \/ charged' = charged /\ UNCHANGED <<invQueue, shipQueue, timelineVars>>
       \/ \E o \in Orders :
            charged'[o] # charged[o] /\ Publish(Decision(o), o, charged'[o])
    /\ UNCHANGED <<gatewayVars, invVars, shipVars>>

InventoryStep ==
    /\ Inventory!Step
    /\ \/ /\ reservedOut' = reservedOut /\ missingOut' = missingOut
          /\ UNCHANGED <<payQueue, shipQueue, timelineVars>>
       \/ \E o \in Orders :
            \/ /\ reservedOut'[o] # reservedOut[o]
               /\ Publish("StockReserved", o, reservedOut'[o])
            \/ /\ missingOut'[o] # missingOut[o]
               /\ Publish("StockUnavailable", o, missingOut'[o])
    /\ UNCHANGED <<gatewayVars, payVars, shipVars>>

ShippingStep ==
    /\ Shipping!Step
    /\ \/ shippedOut' = shippedOut /\ UNCHANGED <<payQueue, invQueue, timelineVars>>
       \/ \E o \in Orders :
            shippedOut'[o] # shippedOut[o] /\ Publish("OrderShipped", o, shippedOut'[o])
    /\ UNCHANGED <<gatewayVars, payVars, invVars>>

NotificationsStep ==
    /\ Notifications!Step
    /\ UNCHANGED <<gatewayVars, payVars, invVars, shipVars, payQueue, invQueue, shipQueue>>

Next ==
    \/ \E o \in Orders : Place(o) \/ Announce(o)
    \/ PaymentsStep
    \/ InventoryStep
    \/ ShippingStep
    \/ NotificationsStep

Spec == Init /\ [][Next]_vars

\* The gateway keeps its promise and every consumer keeps consuming.
FairSpec ==
    /\ Spec
    /\ \A o \in Orders : WF_vars(announced[o] = 0 /\ Announce(o))
    /\ \A w \in Instances : WF_vars(PaymentsStep /\ Payments!Work(w))
    /\ WF_vars(InventoryStep /\ Inventory!Work)
    /\ WF_vars(ShippingStep /\ Shipping!Work)
    /\ WF_vars(NotificationsStep /\ Notifications!Work)
-----------------------------------------------------------------------------
TypeOK ==
    /\ placed \subseteq Orders /\ announced \in [Orders -> Nat]
    /\ Payments!TypeOK
    /\ Inventory!TypeOK
    /\ timeline \in [Orders -> Seq(Types)]

Published(o) ==
    {type \in Types :
        CASE type = "OrderPlaced"      -> announced[o] > 0
          [] type = "PaymentCaptured"  -> charged[o] > 0 /\ o \notin OverLimit
          [] type = "PaymentDeclined"  -> charged[o] > 0 /\ o \in OverLimit
          [] type = "StockReserved"    -> reservedOut[o] > 0
          [] type = "StockUnavailable" -> missingOut[o] > 0
          [] type = "OrderShipped"     -> shippedOut[o] > 0}

\* Each event's cause, and by its total alone an order is captured or declined.
Causes ==
    [OrderPlaced      |-> {},
     PaymentCaptured  |-> {"OrderPlaced"},
     PaymentDeclined  |-> {"OrderPlaced"},
     StockReserved    |-> {"PaymentCaptured"},
     StockUnavailable |-> {"PaymentCaptured"},
     OrderShipped     |-> {"StockReserved"}]

Lifecycle == INSTANCE Lifecycle WITH
    Subjects <- Orders,
    Needs <- Causes,
    Excludes <- [t \in Types |-> {}],
    Open <- [t \in Types |-> CASE t = "PaymentCaptured" -> Orders \ OverLimit
                               [] t = "PaymentDeclined" -> OverLimit
                               [] OTHER -> Orders],
    passed <- [o \in Orders |-> Published(o)]

\* No service acts on an order before the service whose decision it waits for, and
\* nothing downstream ever runs for an order that was declined.
FollowsLifecycle == Lifecycle!Spec

\* The customer's timeline is assembled from five services that never spoke to
\* each other, and yet no event in it comes before the one that caused it, unless
\* notifications died and forgot how the story began.
TimelineIsCausal ==
    ~forgotten =>
        \A o \in Orders : \A i \in DOMAIN timeline[o] :
            Causes[timeline[o][i]] \subseteq {timeline[o][j] : j \in 1 .. i - 1}

\* One order in at the gateway, and every service downstream acts once: each time
\* one acts again is the work of a fault of its own, and faults do not multiply.
RepeatsArePaidFor ==
    \A o \in Orders :
        /\ charged[o] <= 1 + faults
        /\ reservedOut[o] + missingOut[o] <= 1 + faults
        /\ shippedOut[o] <= 1 + faults

Stuck(o) ==
    \/ o \in orphaned
    \/ \E c \in Copies : OrderOf[c] = o /\ "dead" \in {payCopy[c], invCopy[c], shipCopy[c]}

\* Every order placed comes to an end the customer can be told of: declined, not in
\* stock or shipped.  The exceptions are a message that was dead-lettered and a
\* claim that payments left behind.
EveryOrderEnds ==
    \A o \in Orders : o \in placed ~>
        \/ Published(o) \cap {"PaymentDeclined", "StockUnavailable", "OrderShipped"} # {}
        \/ Stuck(o)
=============================================================================
