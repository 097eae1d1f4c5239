----------------------- MODULE OrderFulfilment_proof ------------------------
(***************************************************************************)
(* Proofs about OrderFulfilment for every set of orders, every stock and   *)
(* every number of copies, attempts and faults: the types of the five      *)
(* services beside each other, the refinement of Lifecycle, the bound on   *)
(* repeats and the causality of the customer's timeline.                   *)
(*                                                                         *)
(* Payments and Inventory are seen through their proof modules too: what   *)
(* those prove of one step of a service is what a step of the system       *)
(* needs. CauseInv ties what is on a queue to what was published, PaidInv  *)
(* what may still happen to an order to the faults so far, and TimelineInv *)
(* the customer's queue to the timeline.                                   *)
(***************************************************************************)
EXTENDS OrderFulfilment, Sums, SequenceTheorems

PaymentsProof  == INSTANCE Payments_proof WITH
                      copy <- payCopy, attempt <- payAttempt, pc <- payPc, msg <- payMsg,
                      stale <- payStale, lost <- payLost
InventoryProof == INSTANCE Inventory_proof WITH
                      copy <- invCopy, attempt <- invAttempt, pc <- invPc, msg <- invMsg,
                      stale <- invStale, lost <- invLost, FlakyCounts <- {}

\* There is a copy of some event, and each is of an order.
LEMMA CopiesNonEmpty == Copies # {} /\ OrderOf \in [Copies -> Orders]
<1>1. PICK o \in Orders : TRUE BY OrderFulfilmentAssumption
<1>2. <<o, 1>> \in Copies BY OrderFulfilmentAssumption DEF Copies
<1>3. QED BY <1>2, OrderFulfilmentAssumption DEF OrderOf, Copies

\* PaymentsAssumption, of this system.
LEMMA PaymentsParameters ==
    /\ OverLimit \subseteq Orders
    /\ OrderOf \in [Copies -> Orders]
    /\ Copies # {}
    /\ MaxAttempts \in Nat \ {0}
    /\ MaxFaults \in Nat
  BY CopiesNonEmpty, OrderFulfilmentAssumption

\* InventoryAssumption, of this system.
LEMMA InventoryParameters ==
    /\ InventoryProof!IsFiniteSet(Orders)
    /\ SKUOf \in [Orders -> SKUs]
    /\ QuantityOf \in [Orders -> Nat \ {0}]
    /\ Copies # {} /\ OrderOf \in [Copies -> Orders]
    /\ Shelf \in [SKUs -> Nat]
    /\ {} \subseteq Nat
    /\ MaxAttempts \in Nat \ {0}
    /\ MaxFaults \in Nat
  BY CopiesNonEmpty, OrderFulfilmentAssumption DEF IsFiniteSet, InventoryProof!IsFiniteSet

\* The services seen through their proof modules are the ones the system runs: the
\* types of payments,
LEMMA SamePaymentsType == PaymentsProof!TypeOK <=> Payments!TypeOK
  BY DEF PaymentsProof!TypeOK, Payments!TypeOK, PaymentsProof!Phases, Payments!Phases,
    PaymentsProof!Queue!CopyStates, Payments!Queue!CopyStates

\* those of inventory,
LEMMA SameInventoryType == InventoryProof!TypeOK <=> Inventory!TypeOK
  BY DEF InventoryProof!TypeOK, Inventory!TypeOK, InventoryProof!Phases, Inventory!Phases,
    InventoryProof!Queue!CopyStates, Inventory!Queue!CopyStates

\* the steps of payments,
LEMMA SamePayments == Payments!Step => PaymentsProof!Step
  BY DEF PaymentsProof!Step, PaymentsProof!Work, PaymentsProof!Failure,
     PaymentsProof!Deliver, PaymentsProof!ClaimWon, PaymentsProof!ClaimLost,
     PaymentsProof!Send, PaymentsProof!Release, PaymentsProof!Confirm,
     PaymentsProof!Settle, PaymentsProof!ClaimFailed, PaymentsProof!ClaimUnconfirmed,
     PaymentsProof!SendFailed, PaymentsProof!SendUnconfirmed,
     PaymentsProof!ReleaseFailed, PaymentsProof!ConfirmFailed, PaymentsProof!Crash,
     PaymentsProof!ConnectionDropped, PaymentsProof!ClaimTimeout,
     PaymentsProof!Queue!Take, PaymentsProof!Queue!Accept, PaymentsProof!Queue!Retry,
     PaymentsProof!Queue!Requeue, PaymentsProof!Goto, PaymentsProof!OrderIn,
     PaymentsProof!Fault, PaymentsProof!Charging, PaymentsProof!queueVars,
     PaymentsProof!workerVars, PaymentsProof!counterVars, PaymentsProof!historyVars,
     Payments!Step, Payments!Work, Payments!Failure, Payments!Deliver,
     Payments!ClaimWon, Payments!ClaimLost, Payments!Send, Payments!Release,
     Payments!Confirm, Payments!Settle, Payments!ClaimFailed,
     Payments!ClaimUnconfirmed, Payments!SendFailed, Payments!SendUnconfirmed,
     Payments!ReleaseFailed, Payments!ConfirmFailed, Payments!Crash,
     Payments!ConnectionDropped, Payments!ClaimTimeout, Payments!Queue!Take,
     Payments!Queue!Accept, Payments!Queue!Retry, Payments!Queue!Requeue,
     Payments!Goto, Payments!OrderIn, Payments!Fault, Payments!Charging,
     Payments!queueVars, Payments!workerVars, Payments!counterVars,
     Payments!historyVars

\* and those of inventory.
LEMMA SameInventory == Inventory!Step => InventoryProof!Step
  BY DEF InventoryProof!Step, InventoryProof!Work, InventoryProof!Failure,
     InventoryProof!WithStock, InventoryProof!WithFlakyWarehouse,
     InventoryProof!Deliver, InventoryProof!WarehouseAnswers,
     InventoryProof!CallWarehouse, InventoryProof!WarehouseTimesOut,
     InventoryProof!TakeStock, InventoryProof!FindTooLittle,
     InventoryProof!SendReserved, InventoryProof!SendReservedFailed,
     InventoryProof!SendReservedUnconfirmed, InventoryProof!PutBack,
     InventoryProof!SendMissing, InventoryProof!SendMissingFailed,
     InventoryProof!SendMissingUnconfirmed, InventoryProof!Settle,
     InventoryProof!Crash, InventoryProof!ConnectionDropped,
     InventoryProof!Queue!Deliver, InventoryProof!Queue!Settle,
     InventoryProof!Queue!Die, InventoryProof!Queue!Drop, InventoryProof!Queue!Take,
     InventoryProof!Queue!Accept, InventoryProof!Queue!Retry,
     InventoryProof!Queue!Park, InventoryProof!Queue!Requeue, InventoryProof!Goto,
     InventoryProof!Order, InventoryProof!SKU, InventoryProof!Quantity,
     InventoryProof!Fault, InventoryProof!consumerVars, InventoryProof!stockVars,
     InventoryProof!warehouseVars, InventoryProof!counterVars, InventoryProof!outVars,
     InventoryProof!historyVars, Inventory!WithStock, Inventory!WithFlakyWarehouse,
     Inventory!Deliver, Inventory!WarehouseAnswers, Inventory!CallWarehouse,
     Inventory!WarehouseTimesOut, Inventory!TakeStock, Inventory!FindTooLittle,
     Inventory!SendReserved, Inventory!SendReservedFailed,
     Inventory!SendReservedUnconfirmed, Inventory!PutBack, Inventory!SendMissing,
     Inventory!SendMissingFailed, Inventory!SendMissingUnconfirmed, Inventory!Settle,
     Inventory!Crash, Inventory!ConnectionDropped, Inventory!Queue!Deliver,
     Inventory!Queue!Settle, Inventory!Queue!Die, Inventory!Queue!Drop,
     Inventory!Queue!Take, Inventory!Queue!Accept, Inventory!Queue!Retry,
     Inventory!Queue!Park, Inventory!Queue!Requeue, Inventory!Goto, Inventory!Order,
     Inventory!SKU, Inventory!Quantity, Inventory!Fault, Inventory!consumerVars,
     Inventory!stockVars, Inventory!warehouseVars, Inventory!counterVars,
     Inventory!outVars, Inventory!historyVars, Inventory!Step, Inventory!Work,
     Inventory!Failure

\* The six events of the system.
LEMMA TypesAre ==
    Types = {"OrderPlaced", "PaymentCaptured", "PaymentDeclined", "StockReserved",
             "StockUnavailable", "OrderShipped"}
  BY DEF Types, KeyOf

\* Each event reaches the queue of the one service that waits for it, and the
\* customer's.
LEMMA Routes ==
    ASSUME NEW t \in Types
    PROVE  /\ "payments" \in RoutedTo[t] <=> t = "OrderPlaced"
           /\ "inventory" \in RoutedTo[t] <=> t = "PaymentCaptured"
           /\ "shipping" \in RoutedTo[t] <=> t = "StockReserved"
           /\ "notifications" \in RoutedTo[t]
<1>1. RoutedTo[t] = {q \in Queues : Matches(Topology[q], KeyOf[t])}
  BY DEF RoutedTo
<1>2. \A a, b, c, k : c # "#" => (Matches(<<a, b, c>>, k) <=> <<a, b, c>> = k)
  BY DEF Matches, Last
<1>3. ASSUME NEW b, NEW c PROVE Matches(<<"fulfilment", "#">>, <<"fulfilment", b, c>>)
  <2> DEFINE p == <<"fulfilment", "#">>
             k == <<"fulfilment", b, c>>
  <2>1. SubSeq(p, 1, 1) = <<"fulfilment">>
    <3>1. /\ SubSeq(p, 1, 1) \in Seq({"fulfilment"}) /\ Len(SubSeq(p, 1, 1)) = 1
          /\ SubSeq(p, 1, 1)[1] = "fulfilment"
      <4>1. \A i \in 1..1 : p[i] \in {"fulfilment"} OBVIOUS
      <4> HIDE DEF p
      <4>2. Len(SubSeq(p, 1, 1)) = 1 BY <4>1, SubSeqProperties
      <4>3. SubSeq(p, 1, 1) \in Seq({"fulfilment"}) BY <4>1, SubSeqProperties
      <4>4. QED BY <4>2, <4>3
    <3> DEFINE u == SubSeq(p, 1, 1)
               v == <<"fulfilment">>
    <3>2. v \in Seq({"fulfilment"}) /\ Len(v) = 1 /\ v[1] = "fulfilment"
      OBVIOUS
    <3>3. u \in Seq({"fulfilment"}) /\ Len(u) = Len(v) /\ \A i \in 1 .. Len(u) : u[i] = v[i]
      BY <3>1, <3>2
    <3> HIDE DEF p, u, v
    <3>4. u = v
      BY <3>2, <3>3, SeqEqual
    <3>5. QED BY <3>4 DEF u, v
  <2>2. Last(p) = "#" /\ Front(p) = <<"fulfilment">>
    <3>1. Len(p) = 2 OBVIOUS
    <3>2. Front(p) = SubSeq(p, 1, 1) BY <3>1 DEF Front
    <3>3. QED BY <2>1, <3>2 DEF Last
  <2>3. IsPrefix(<<"fulfilment">>, k)
    BY DEF IsPrefix
  <2>4. QED BY <2>2, <2>3 DEF Matches
<1>5. "payments" \in RoutedTo[t] <=> t = "OrderPlaced"
  <2>1. "payments" \in RoutedTo[t] <=> <<"fulfilment", "order", "placed">> = KeyOf[t]
    BY <1>1, <1>2 DEF Topology, Queues
  <2>2. QED BY <2>1, TypesAre DEF KeyOf
<1>6. "inventory" \in RoutedTo[t] <=> t = "PaymentCaptured"
  <2>1. "inventory" \in RoutedTo[t] <=> <<"fulfilment", "payment", "captured">> = KeyOf[t]
    BY <1>1, <1>2 DEF Topology, Queues
  <2>2. QED BY <2>1, TypesAre DEF KeyOf
<1>7. "shipping" \in RoutedTo[t] <=> t = "StockReserved"
  <2>1. "shipping" \in RoutedTo[t] <=> <<"fulfilment", "stock", "reserved">> = KeyOf[t]
    BY <1>1, <1>2 DEF Topology, Queues
  <2>2. QED BY <2>1, TypesAre DEF KeyOf
<1>8. "notifications" \in RoutedTo[t]
  <2>1. KeyOf[t] = <<"fulfilment", KeyOf[t][2], KeyOf[t][3]>>
    BY TypesAre DEF KeyOf
  <2>2. Matches(<<"fulfilment", "#">>, KeyOf[t])
    BY <1>3, <2>1
  <2>3. QED BY <1>1, <2>2 DEF Topology, Queues
<1>9. QED BY <1>5, <1>6, <1>7, <1>8

\* What publishing an event does to the queues.
LEMMA PublishEffect ==
    ASSUME NEW t \in Types, NEW o, NEW k, Publish(t, o, k)
    PROVE  /\ IF t = "OrderPlaced"
                THEN payCopy[<<o, k>>] = "absent" /\ payCopy' = [payCopy EXCEPT ![<<o, k>>] = "ready"]
                ELSE UNCHANGED payCopy
           /\ IF t = "PaymentCaptured"
                THEN invCopy[<<o, k>>] = "absent" /\ invCopy' = [invCopy EXCEPT ![<<o, k>>] = "ready"]
                ELSE UNCHANGED invCopy
           /\ IF t = "StockReserved"
                THEN shipCopy[<<o, k>>] = "absent" /\ shipCopy' = [shipCopy EXCEPT ![<<o, k>>] = "ready"]
                ELSE UNCHANGED shipCopy
           /\ inbox' = Append(inbox, <<o, t>>)
           /\ UNCHANGED <<payAttempt, invAttempt, shipAttempt, handled, timeline, forgotten>>
  BY Routes DEF Publish, Payments!Queue!Arrive, Inventory!Queue!Arrive,
     Shipping!Queue!Arrive, Notifications!Arrive, payQueue, invQueue, shipQueue
-----------------------------------------------------------------------------
\* The types of what TypeOK leaves to the other services.
TypeInv ==
    /\ TypeOK
    /\ shipCopy \in [Copies -> Shipping!Queue!CopyStates]
    /\ shipPc \in Shipping!Phases /\ shipMsg \in Copies
    /\ shippedOut \in [Orders -> Nat]
    /\ inbox \in Seq(Orders \X Types) /\ handled \in BOOLEAN
    /\ handled => inbox # <<>>

\* Nothing has happened when the five services start.
LEMMA InitTypeInv == Init => TypeInv
<1> SUFFICES ASSUME Init PROVE TypeInv
  OBVIOUS
<1>1. Payments!TypeOK
  <2>1. Payments!Init => PaymentsProof!Init
    BY DEF Payments!Init, PaymentsProof!Init
  <2>2. QED BY <2>1, PaymentsParameters, PaymentsProof!InitTypeOK, SamePaymentsType DEF Init
<1>2. Inventory!TypeOK
  <2>1. Inventory!Init => InventoryProof!Init
    BY DEF Inventory!Init, InventoryProof!Init
  <2>2. InventoryProof!Init => InventoryProof!TypeOK
    BY InventoryParameters, InventoryProof!InitTypeOK
  <2>3. QED BY <2>1, <2>2, SameInventoryType DEF Init
<1>3. placed \subseteq Orders /\ announced \in [Orders -> Nat]
  BY DEF Init, Gateway!Init
<1>4. /\ inbox = <<>> /\ handled = FALSE /\ timeline = [o \in Orders |-> <<>>]
  BY DEF Init, Notifications!Init
<1>5. /\ shipCopy \in [Copies -> Shipping!Queue!CopyStates]
      /\ shipPc \in Shipping!Phases /\ shipMsg \in Copies
      /\ shippedOut \in [Orders -> Nat]
  BY CopiesNonEmpty DEF Init, Shipping!Init, Shipping!Queue!CopyStates, Shipping!Phases
<1>6. timeline \in [Orders -> Seq(Types)] /\ inbox \in Seq(Orders \X Types)
  <2>1. \A S : <<>> \in Seq(S) BY EmptySeq
  <2>2. QED BY <1>4, <2>1
<1>7. QED BY <1>1, <1>2, <1>3, <1>4, <1>5, <1>6 DEF TypeInv, TypeOK

\* Publishing keeps the types of the queues and of the timeline.
LEMMA PublishTypes ==
    ASSUME TypeInv, NEW t \in Types, NEW o \in Orders, NEW k, Publish(t, o, k)
    PROVE  /\ payCopy' \in [Copies -> Payments!Queue!CopyStates] /\ UNCHANGED payAttempt
           /\ invCopy' \in [Copies -> Inventory!Queue!CopyStates] /\ UNCHANGED invAttempt
           /\ shipCopy' \in [Copies -> Shipping!Queue!CopyStates]
           /\ inbox' \in Seq(Orders \X Types) /\ inbox' # <<>>
           /\ UNCHANGED <<handled, timeline>>
<1>1. /\ inbox' = Append(inbox, <<o, t>>) /\ <<o, t>> \in Orders \X Types
      /\ inbox \in Seq(Orders \X Types)
  BY PublishEffect DEF TypeInv
<1>2. inbox' \in Seq(Orders \X Types) /\ inbox' # <<>>
  BY <1>1, AppendProperties
<1>3. payCopy \in [Copies -> Payments!Queue!CopyStates]
      /\ invCopy \in [Copies -> Inventory!Queue!CopyStates]
      /\ shipCopy \in [Copies -> Shipping!Queue!CopyStates]
  BY DEF TypeInv, TypeOK, Payments!TypeOK, Inventory!TypeOK
<1>4. QED
  BY <1>2, <1>3, PublishEffect DEF Payments!Queue!CopyStates, Inventory!Queue!CopyStates,
     Shipping!Queue!CopyStates
-----------------------------------------------------------------------------
\* What each step does to what the others see of it.

LEMMA AnnounceDoes ==
    ASSUME TypeInv, NEW o \in Orders, Announce(o)
    PROVE  /\ announced' = [announced EXCEPT ![o] = @ + 1]
           /\ faults' = IF announced[o] = 0 THEN faults ELSE faults + 1
           /\ announced[o] # 0 => faults < MaxFaults
           /\ Publish("OrderPlaced", o, announced[o] + 1)
           /\ UNCHANGED <<payVars, invVars, shipVars>>
           /\ o \in placed /\ UNCHANGED placed
  BY DEF Announce, Gateway!Announce, Payments!Fault, TypeInv, TypeOK

LEMMA PaymentsStepDoes ==
    ASSUME TypeInv, PaymentsStep
    PROVE  /\ PaymentsProof!TypeOK /\ PaymentsProof!Step
           /\ UNCHANGED <<gatewayVars, invVars, shipVars, shipQueue>>
           /\ \/ UNCHANGED <<charged, invQueue, timelineVars>>
              \/ \E w \in Instances : \E o \in Orders :
                    /\ payPc[w] # "idle" /\ OrderOf[payMsg[w]] = o
                    /\ charged' = [charged EXCEPT ![o] = @ + 1]
                    /\ Publish(Decision(o), o, charged[o] + 1)
<1>1. PaymentsProof!TypeOK /\ PaymentsProof!Step
  BY SamePaymentsType, SamePayments DEF TypeInv, TypeOK, PaymentsStep
<1>2. \/ charged' = charged
      \/ \E w \in Instances :
            /\ payPc[w] = "send"
            /\ charged' = [charged EXCEPT ![OrderOf[payMsg[w]]] = @ + 1]
  BY <1>1, PaymentsParameters, PaymentsProof!StepChargesOne DEF PaymentsProof!OrderIn
<1>3. charged \in [Orders -> Nat] /\ payMsg \in [Instances -> Copies]
  BY DEF TypeInv, TypeOK, Payments!TypeOK
<1>4. \A o \in Orders : \A k : Publish(Decision(o), o, k) => UNCHANGED shipQueue
  <2>1. \A o \in Orders : Decision(o) \in Types /\ Decision(o) # "StockReserved"
    BY TypesAre DEF Decision
  <2>2. QED BY <2>1, PublishEffect DEF shipQueue
<1>5. UNCHANGED <<gatewayVars, invVars, shipVars, shipQueue>>
  BY <1>4 DEF PaymentsStep, shipQueue
<1>6. CASE charged' = charged
  BY <1>1, <1>5, <1>6 DEF PaymentsStep
<1>7. ASSUME NEW w \in Instances, payPc[w] = "send",
             charged' = [charged EXCEPT ![OrderOf[payMsg[w]]] = @ + 1]
      PROVE  \E o \in Orders :
                    /\ OrderOf[payMsg[w]] = o
                    /\ charged' = [charged EXCEPT ![o] = @ + 1]
                    /\ Publish(Decision(o), o, charged[o] + 1)
  <2> DEFINE o == OrderOf[payMsg[w]]
  <2>1. o \in Orders BY <1>3, CopiesNonEmpty
  <2>2. charged'[o] = charged[o] + 1 /\ \A p \in Orders \ {o} : charged'[p] = charged[p]
    BY <1>3, <1>7, <2>1
  <2>3. charged' # charged
    BY <1>3, <2>1, <2>2
  <2>4. PICK p \in Orders : charged'[p] # charged[p] /\ Publish(Decision(p), p, charged'[p])
    BY <2>3 DEF PaymentsStep
  <2>5. p = o BY <2>2, <2>4
  <2>6. QED BY <1>7, <2>1, <2>2, <2>4, <2>5
<1>8. QED BY <1>1, <1>2, <1>5, <1>6, <1>7

LEMMA InventoryStepDoes ==
    ASSUME TypeInv, InventoryStep
    PROVE  /\ InventoryProof!TypeOK /\ InventoryProof!Step
           /\ UNCHANGED <<gatewayVars, payVars, shipVars, payQueue>>
           /\ \/ UNCHANGED <<reservedOut, missingOut, shipQueue, timelineVars>>
              \/ \E o \in Orders :
                    /\ invPc # "idle" /\ OrderOf[invMsg] = o
                    /\ \/ /\ reservedOut' = [reservedOut EXCEPT ![o] = @ + 1]
                          /\ UNCHANGED missingOut
                          /\ Publish("StockReserved", o, reservedOut[o] + 1)
                       \/ /\ missingOut' = [missingOut EXCEPT ![o] = @ + 1]
                          /\ UNCHANGED reservedOut
                          /\ Publish("StockUnavailable", o, missingOut[o] + 1)
<1>1. InventoryProof!TypeOK /\ InventoryProof!Step
  BY SameInventoryType, SameInventory DEF TypeInv, TypeOK, InventoryStep
<1> DEFINE o == OrderOf[invMsg]
<1>2. \/ UNCHANGED <<reservedOut, missingOut>>
      \/ /\ invPc = "reserve" /\ UNCHANGED missingOut
         /\ reservedOut' = [reservedOut EXCEPT ![o] = @ + 1]
      \/ /\ invPc = "reject" /\ UNCHANGED reservedOut
         /\ missingOut' = [missingOut EXCEPT ![o] = @ + 1]
  BY <1>1, InventoryParameters, InventoryProof!StepGivesOneVerdict DEF InventoryProof!Order
<1>3. /\ reservedOut \in [Orders -> Nat] /\ missingOut \in [Orders -> Nat]
      /\ invMsg \in Copies /\ o \in Orders
  BY CopiesNonEmpty DEF TypeInv, TypeOK, Inventory!TypeOK
<1>4. \A p \in Orders : \A k : Publish("StockReserved", p, k) \/ Publish("StockUnavailable", p, k)
                              => UNCHANGED payQueue
  <2>1. "StockReserved" \in Types /\ "StockUnavailable" \in Types
    BY TypesAre
  <2>2. QED BY <2>1, PublishEffect DEF payQueue
<1>5. UNCHANGED <<gatewayVars, payVars, shipVars, payQueue>>
  BY <1>4 DEF InventoryStep, payQueue
<1>6. CASE UNCHANGED <<reservedOut, missingOut>>
  BY <1>1, <1>5, <1>6 DEF InventoryStep
<1>7. CASE /\ invPc = "reserve" /\ UNCHANGED missingOut
           /\ reservedOut' = [reservedOut EXCEPT ![o] = @ + 1]
  <2>1. reservedOut'[o] = reservedOut[o] + 1 /\ reservedOut' # reservedOut
        /\ \A p \in Orders \ {o} : reservedOut'[p] = reservedOut[p]
    BY <1>3, <1>7
  <2>2. PICK p \in Orders : reservedOut'[p] # reservedOut[p]
                            /\ Publish("StockReserved", p, reservedOut'[p])
    BY <1>7, <2>1 DEF InventoryStep
  <2>3. p = o BY <2>1, <2>2
  <2>4. QED BY <1>1, <1>3, <1>5, <1>7, <2>1, <2>2, <2>3
<1>8. CASE /\ invPc = "reject" /\ UNCHANGED reservedOut
           /\ missingOut' = [missingOut EXCEPT ![o] = @ + 1]
  <2>1. missingOut'[o] = missingOut[o] + 1 /\ missingOut' # missingOut
        /\ \A p \in Orders \ {o} : missingOut'[p] = missingOut[p]
    BY <1>3, <1>8
  <2>2. PICK p \in Orders : missingOut'[p] # missingOut[p]
                            /\ Publish("StockUnavailable", p, missingOut'[p])
    BY <1>8, <2>1 DEF InventoryStep
  <2>3. p = o BY <2>1, <2>2
  <2>4. QED BY <1>1, <1>3, <1>5, <1>8, <2>1, <2>2, <2>3
<1>9. QED BY <1>2, <1>6, <1>7, <1>8

LEMMA ShippingStepDoes ==
    ASSUME TypeInv, ShippingStep
    PROVE  /\ Shipping!Step
           /\ UNCHANGED <<gatewayVars, payVars, invVars, payQueue, invQueue>>
           /\ \/ UNCHANGED <<shippedOut, timelineVars>>
              \/ \E o \in Orders :
                    /\ shipPc = "dispatch" /\ OrderOf[shipMsg] = o
                    /\ shippedOut' = [shippedOut EXCEPT ![o] = @ + 1]
                    /\ Publish("OrderShipped", o, shippedOut[o] + 1)
<1> DEFINE o == OrderOf[shipMsg]
<1>1. \/ UNCHANGED shippedOut
      \/ shipPc = "dispatch" /\ shippedOut' = [shippedOut EXCEPT ![o] = @ + 1]
  BY DEF ShippingStep, Shipping!Step, Shipping!Work, Shipping!Failure, Shipping!Deliver,
     Shipping!Send, Shipping!Settle, Shipping!SendFailed, Shipping!SendUnconfirmed,
     Shipping!Crash, Shipping!ConnectionDropped, Shipping!Published, Shipping!Order
<1>2. shippedOut \in [Orders -> Nat] /\ o \in Orders
  BY CopiesNonEmpty DEF TypeInv
<1>3. \A p \in Orders : \A k : Publish("OrderShipped", p, k) => UNCHANGED <<payQueue, invQueue>>
  <2>1. "OrderShipped" \in Types BY TypesAre
  <2>2. QED BY <2>1, PublishEffect DEF payQueue, invQueue
<1>4. UNCHANGED <<gatewayVars, payVars, invVars, payQueue, invQueue>>
  BY <1>3 DEF ShippingStep, payQueue, invQueue
<1>5. CASE UNCHANGED shippedOut
  BY <1>4, <1>5 DEF ShippingStep
<1>6. CASE shipPc = "dispatch" /\ shippedOut' = [shippedOut EXCEPT ![o] = @ + 1]
  <2>1. shippedOut'[o] = shippedOut[o] + 1 /\ shippedOut' # shippedOut
        /\ \A p \in Orders \ {o} : shippedOut'[p] = shippedOut[p]
    BY <1>2, <1>6
  <2>2. PICK p \in Orders : shippedOut'[p] # shippedOut[p]
                            /\ Publish("OrderShipped", p, shippedOut'[p])
    BY <2>1 DEF ShippingStep
  <2>3. p = o BY <2>1, <2>2
  <2>4. QED BY <1>2, <1>4, <1>6, <2>1, <2>2, <2>3 DEF ShippingStep
<1>7. QED BY <1>1, <1>5, <1>6

\* The budget of faults.
LEMMA FaultsTypes ==
    ASSUME TypeInv
    PROVE  /\ faults \in 0 .. MaxFaults
           /\ faults < MaxFaults => faults + 1 \in 0 .. MaxFaults
<1>1. faults \in 0 .. MaxFaults
  BY DEF TypeInv, TypeOK, Payments!TypeOK
<1>2. MaxFaults \in Nat
  BY OrderFulfilmentAssumption
<1>3. QED BY <1>1, <1>2

\* The queue of shipping and its dispatch keep their types.
LEMMA ShippingTypes ==
    ASSUME TypeInv, Shipping!Step
    PROVE  /\ shipCopy' \in [Copies -> Shipping!Queue!CopyStates]
           /\ shipPc' \in Shipping!Phases /\ shipMsg' \in Copies
           /\ shippedOut' \in [Orders -> Nat]
           /\ faults' \in 0 .. MaxFaults
<1> USE DEF Shipping!Phases, Shipping!Queue!CopyStates
<1>0. /\ shipCopy \in [Copies -> Shipping!Queue!CopyStates]
      /\ shipPc \in Shipping!Phases /\ shipMsg \in Copies
      /\ shippedOut \in [Orders -> Nat]
  BY DEF TypeInv
<1>1. /\ faults \in 0 .. MaxFaults
      /\ faults < MaxFaults => faults + 1 \in 0 .. MaxFaults
  BY FaultsTypes
<1>2. CASE Shipping!Deliver
  BY <1>0, <1>1, <1>2 DEF Shipping!Deliver, Shipping!Queue!Deliver, Shipping!Queue!Take
<1>3. CASE Shipping!Send \/ Shipping!SendFailed \/ Shipping!SendUnconfirmed
  BY <1>0, <1>1, <1>3 DEF Shipping!Send, Shipping!SendFailed, Shipping!SendUnconfirmed,
     Shipping!Published, Shipping!Order, Shipping!Goto, Shipping!Fault
<1>4. CASE Shipping!Settle
  BY <1>0, <1>1, <1>4 DEF Shipping!Settle, Shipping!Queue!Settle, Shipping!Queue!Accept,
     Shipping!Queue!Retry, Shipping!Queue!Park
<1>5. CASE Shipping!Crash \/ Shipping!ConnectionDropped
  BY <1>0, <1>1, <1>5 DEF Shipping!Crash, Shipping!ConnectionDropped, Shipping!Queue!Die,
     Shipping!Queue!Drop, Shipping!Queue!Requeue, Shipping!Fault
<1>6. QED BY <1>2, <1>3, <1>4, <1>5 DEF Shipping!Step, Shipping!Work, Shipping!Failure

\* The customer's timeline and the queue behind it keep theirs.
LEMMA NotificationsTypes ==
    ASSUME TypeInv, Notifications!Step
    PROVE  /\ inbox' \in Seq(Orders \X Types) /\ handled' \in BOOLEAN
           /\ handled' => inbox' # <<>>
           /\ timeline' \in [Orders -> Seq(Types)]
           /\ faults' \in 0 .. MaxFaults
<1>0. /\ inbox \in Seq(Orders \X Types) /\ handled \in BOOLEAN
      /\ handled => inbox # <<>>
      /\ timeline \in [Orders -> Seq(Types)]
  BY DEF TypeInv, TypeOK
<1>1. /\ faults \in 0 .. MaxFaults
      /\ faults < MaxFaults => faults + 1 \in 0 .. MaxFaults
  BY FaultsTypes
<1>2. CASE Notifications!Handle
  <2> DEFINE order == Head(inbox)[1]
             type == Head(inbox)[2]
  <2>1. order \in Orders /\ type \in Types
    <3>1. inbox # <<>> BY <1>2 DEF Notifications!Handle
    <3>2. Head(inbox) \in Orders \X Types BY <1>0, <3>1, HeadTailProperties
    <3>3. QED BY <3>2
  <2>2. /\ timeline' = [timeline EXCEPT ![order] = Append(@, type)]
        /\ handled' = TRUE /\ inbox # <<>> /\ UNCHANGED <<inbox, faults>>
    BY <1>2 DEF Notifications!Handle
  <2> HIDE DEF order, type
  <2>3. Append(timeline[order], type) \in Seq(Types)
    BY <1>0, <2>1, AppendProperties
  <2>4. QED BY <1>0, <1>1, <2>1, <2>2, <2>3
<1>3. CASE Notifications!Accept
  <2>1. inbox' = Tail(inbox) /\ handled' = FALSE /\ UNCHANGED <<timeline, faults>> /\ handled
    BY <1>3 DEF Notifications!Accept
  <2>2. inbox # <<>> BY <1>0, <2>1
  <2>3. Tail(inbox) \in Seq(Orders \X Types) BY <1>0, <2>2, HeadTailProperties
  <2>4. QED BY <1>0, <1>1, <2>1, <2>3
<1>4. CASE Notifications!ConnectionDropped
  BY <1>0, <1>1, <1>4 DEF Notifications!ConnectionDropped, Notifications!Fault
<1>5. CASE Notifications!Crash
  <2>1. \A S : <<>> \in Seq(S) BY EmptySeq
  <2>2. QED BY <1>0, <1>1, <1>5, <2>1 DEF Notifications!Crash, Notifications!Fault
<1>6. QED
  BY <1>2, <1>3, <1>4, <1>5 DEF Notifications!Step, Notifications!Work, Notifications!Failure

\* Every step of a service, and every event it publishes, keeps the types of all.
LEMMA NextTypeInv == TypeInv /\ [Next]_vars => TypeInv'
<1> SUFFICES ASSUME TypeInv, [Next]_vars PROVE TypeInv'
  OBVIOUS
<1>0. /\ placed \subseteq Orders /\ announced \in [Orders -> Nat]
      /\ faults \in 0 .. MaxFaults
  BY DEF TypeInv, TypeOK, Payments!TypeOK
<1>1. ASSUME NEW o \in Orders, Place(o) PROVE TypeInv'
  <2>1. placed' \subseteq Orders /\ UNCHANGED announced
    BY <1>0, <1>1 DEF Place, Gateway!Place
  <2>2. UNCHANGED <<payVars, invVars, shipVars, queueVars, faults>>
    BY <1>1 DEF Place
  <2>3. QED
    BY <1>0, <2>1, <2>2 DEF TypeInv, TypeOK, Payments!TypeOK, Inventory!TypeOK, payVars,
       invVars, shipVars, queueVars, payQueue, invQueue, shipQueue, timelineVars
<1>2. ASSUME NEW o \in Orders, Announce(o) PROVE TypeInv'
  <2>1. "OrderPlaced" \in Types BY TypesAre
  <2>2. /\ payCopy' \in [Copies -> Payments!Queue!CopyStates] /\ UNCHANGED payAttempt
        /\ invCopy' \in [Copies -> Inventory!Queue!CopyStates] /\ UNCHANGED invAttempt
        /\ shipCopy' \in [Copies -> Shipping!Queue!CopyStates]
        /\ inbox' \in Seq(Orders \X Types) /\ inbox' # <<>>
        /\ UNCHANGED <<handled, timeline>>
    BY <1>2, <2>1, AnnounceDoes, PublishTypes
  <2>3. faults' \in 0 .. MaxFaults
    BY <1>0, <1>2, AnnounceDoes, OrderFulfilmentAssumption
  <2>4. placed' \subseteq Orders /\ announced' \in [Orders -> Nat]
    BY <1>0, <1>2, AnnounceDoes
  <2>5. UNCHANGED <<payVars, invVars, shipVars>>
    BY <1>2, AnnounceDoes
  <2>6. QED
    BY <2>2, <2>3, <2>4, <2>5 DEF TypeInv, TypeOK, Payments!TypeOK, Inventory!TypeOK,
       payVars, invVars, shipVars
<1>3. CASE PaymentsStep
  <2>1. PaymentsProof!TypeOK'
    BY <1>3, PaymentsStepDoes, PaymentsParameters, PaymentsProof!NextTypeOK
       DEF PaymentsProof!Next
  <2>2. Payments!TypeOK'
    BY <2>1 DEF PaymentsProof!TypeOK, Payments!TypeOK, PaymentsProof!Phases,
       Payments!Phases, PaymentsProof!Queue!CopyStates, Payments!Queue!CopyStates
  <2>3. faults' \in 0 .. MaxFaults
    BY <2>2 DEF Payments!TypeOK
  <2>4. \A o \in Orders : Decision(o) \in Types
    BY TypesAre DEF Decision
  <2>5. /\ invCopy' \in [Copies -> Inventory!Queue!CopyStates] /\ UNCHANGED invAttempt
        /\ inbox' \in Seq(Orders \X Types) /\ UNCHANGED <<handled, timeline>>
        /\ handled' => inbox' # <<>>
    <3>1. CASE UNCHANGED <<charged, invQueue, timelineVars>>
      BY <3>1 DEF invQueue, timelineVars, TypeInv, TypeOK, Inventory!TypeOK
    <3>2. ASSUME NEW o \in Orders, Publish(Decision(o), o, charged[o] + 1)
          PROVE  /\ invCopy' \in [Copies -> Inventory!Queue!CopyStates]
                 /\ UNCHANGED invAttempt
                 /\ inbox' \in Seq(Orders \X Types) /\ UNCHANGED <<handled, timeline>>
                 /\ handled' => inbox' # <<>>
      BY <2>4, <3>2, PublishTypes
    <3>3. QED BY <1>3, <3>1, <3>2, PaymentsStepDoes
  <2>6. UNCHANGED <<gatewayVars, invVars, shipVars, shipQueue>>
    BY <1>3, PaymentsStepDoes
  <2>7. QED
    BY <2>2, <2>3, <2>5, <2>6 DEF TypeInv, TypeOK, Inventory!TypeOK, gatewayVars, invVars,
       shipVars, shipQueue
<1>4. CASE InventoryStep
  <2>1. InventoryProof!TypeOK'
    BY <1>4, InventoryStepDoes, InventoryParameters, InventoryProof!StepTypeOK
  <2>2. Inventory!TypeOK'
    BY <2>1 DEF InventoryProof!TypeOK, Inventory!TypeOK, InventoryProof!Phases,
       Inventory!Phases, InventoryProof!Queue!CopyStates, Inventory!Queue!CopyStates
  <2>3. faults' \in 0 .. MaxFaults
    BY <2>2 DEF Inventory!TypeOK
  <2>4. "StockReserved" \in Types /\ "StockUnavailable" \in Types
    BY TypesAre
  <2>5. /\ shipCopy' \in [Copies -> Shipping!Queue!CopyStates]
        /\ inbox' \in Seq(Orders \X Types) /\ UNCHANGED <<handled, timeline>>
        /\ handled' => inbox' # <<>>
    <3>1. CASE UNCHANGED <<reservedOut, missingOut, shipQueue, timelineVars>>
      BY <3>1 DEF shipQueue, timelineVars, TypeInv, TypeOK
    <3>2. ASSUME NEW o \in Orders, NEW k,
                 Publish("StockReserved", o, k) \/ Publish("StockUnavailable", o, k)
          PROVE  /\ shipCopy' \in [Copies -> Shipping!Queue!CopyStates]
                 /\ inbox' \in Seq(Orders \X Types) /\ UNCHANGED <<handled, timeline>>
                 /\ handled' => inbox' # <<>>
      BY <2>4, <3>2, PublishTypes
    <3>3. QED BY <1>4, <3>1, <3>2, InventoryStepDoes
  <2>6. UNCHANGED <<gatewayVars, payVars, shipVars, payQueue>>
    BY <1>4, InventoryStepDoes
  <2>7. QED
    BY <2>2, <2>3, <2>5, <2>6 DEF TypeInv, TypeOK, Payments!TypeOK, gatewayVars, payVars,
       shipVars, payQueue
<1>5. CASE ShippingStep
  <2>1. /\ shipCopy' \in [Copies -> Shipping!Queue!CopyStates]
        /\ shipPc' \in Shipping!Phases /\ shipMsg' \in Copies
        /\ shippedOut' \in [Orders -> Nat]
        /\ faults' \in 0 .. MaxFaults
    BY <1>5, ShippingStepDoes, ShippingTypes
  <2>2. "OrderShipped" \in Types BY TypesAre
  <2>3. /\ inbox' \in Seq(Orders \X Types) /\ UNCHANGED <<handled, timeline>>
        /\ handled' => inbox' # <<>>
    <3>1. CASE UNCHANGED <<shippedOut, timelineVars>>
      BY <3>1 DEF timelineVars, TypeInv, TypeOK
    <3>2. ASSUME NEW o \in Orders, NEW k, Publish("OrderShipped", o, k)
          PROVE  /\ inbox' \in Seq(Orders \X Types) /\ UNCHANGED <<handled, timeline>>
                 /\ handled' => inbox' # <<>>
      BY <2>2, <3>2, PublishTypes
    <3>3. QED BY <1>5, <3>1, <3>2, ShippingStepDoes
  <2>4. UNCHANGED <<gatewayVars, payVars, invVars, payQueue, invQueue>>
    BY <1>5, ShippingStepDoes
  <2>5. QED
    BY <2>1, <2>3, <2>4 DEF TypeInv, TypeOK, Payments!TypeOK, Inventory!TypeOK,
       gatewayVars, payVars, invVars, payQueue, invQueue
<1>6. CASE NotificationsStep
  <2>1. /\ inbox' \in Seq(Orders \X Types) /\ handled' \in BOOLEAN
        /\ handled' => inbox' # <<>>
        /\ timeline' \in [Orders -> Seq(Types)]
        /\ faults' \in 0 .. MaxFaults
    BY <1>6, NotificationsTypes DEF NotificationsStep
  <2>2. UNCHANGED <<gatewayVars, payVars, invVars, shipVars, payQueue, invQueue, shipQueue>>
    BY <1>6 DEF NotificationsStep
  <2>3. QED
    BY <2>1, <2>2 DEF TypeInv, TypeOK, Payments!TypeOK, Inventory!TypeOK, gatewayVars,
       payVars, invVars, shipVars, payQueue, invQueue, shipQueue
<1>7. CASE UNCHANGED vars
  BY <1>7 DEF vars, queueVars, timelineVars, TypeInv, TypeOK, Payments!TypeOK,
     Inventory!TypeOK, gatewayVars, payVars, invVars, shipVars, payQueue, invQueue, shipQueue
<1>8. QED BY <1>1, <1>2, <1>3, <1>4, <1>5, <1>6, <1>7 DEF Next

\* The types of the whole system are an invariant.
LEMMA TypeInvHolds == Spec => []TypeInv
  BY InitTypeInv, NextTypeInv, PTL DEF Spec

\* Every service keeps its types beside the others, and the timeline shows only
\* events the system has.
THEOREM TypeCorrect == Spec => []TypeOK
<1>1. TypeInv => TypeOK BY DEF TypeInv
<1>2. QED BY <1>1, TypeInvHolds, PTL
-----------------------------------------------------------------------------
\* A copy of an event is on a queue only once the event was published, and whatever
\* is in hand was on the queue.
CauseInv ==
    /\ \A c \in Copies :
          /\ payCopy[c] # "absent" => announced[OrderOf[c]] > 0
          /\ invCopy[c] # "absent" => charged[OrderOf[c]] > 0 /\ OrderOf[c] \notin OverLimit
          /\ shipCopy[c] # "absent" => reservedOut[OrderOf[c]] > 0
    /\ \A w \in Instances : payPc[w] # "idle" => payCopy[payMsg[w]] # "absent"
    /\ invPc # "idle" => invCopy[invMsg] # "absent"
    /\ shipPc # "idle" => shipCopy[shipMsg] # "absent"

\* No queue holds anything at the start.
LEMMA InitCauseInv == Init => CauseInv
  BY DEF Init, Payments!Init, Inventory!Init, Shipping!Init, CauseInv

\* The copies an event brings are its own, and nothing that arrived goes away.
LEMMA PublishArrives ==
    ASSUME TypeInv, NEW t \in Types, NEW o \in Orders, NEW k, Publish(t, o, k),
           NEW c \in Copies
    PROVE  /\ payCopy'[c] = "absent" => payCopy[c] = "absent"
           /\ invCopy'[c] = "absent" => invCopy[c] = "absent"
           /\ shipCopy'[c] = "absent" => shipCopy[c] = "absent"
           /\ payCopy[c] = "absent" /\ payCopy'[c] # "absent" => t = "OrderPlaced" /\ OrderOf[c] = o
           /\ invCopy[c] = "absent" /\ invCopy'[c] # "absent" => t = "PaymentCaptured" /\ OrderOf[c] = o
           /\ shipCopy[c] = "absent" /\ shipCopy'[c] # "absent" => t = "StockReserved" /\ OrderOf[c] = o
<1>1. /\ payCopy \in [Copies -> Payments!Queue!CopyStates]
      /\ invCopy \in [Copies -> Inventory!Queue!CopyStates]
      /\ shipCopy \in [Copies -> Shipping!Queue!CopyStates]
  BY DEF TypeInv, TypeOK, Payments!TypeOK, Inventory!TypeOK
<1>2. c = <<o, k>> => OrderOf[c] = o
  BY DEF OrderOf
<1>3. /\ t = "OrderPlaced" => payCopy' = [payCopy EXCEPT ![<<o, k>>] = "ready"]
      /\ t # "OrderPlaced" => payCopy' = payCopy
      /\ t = "PaymentCaptured" => invCopy' = [invCopy EXCEPT ![<<o, k>>] = "ready"]
      /\ t # "PaymentCaptured" => invCopy' = invCopy
      /\ t = "StockReserved" => shipCopy' = [shipCopy EXCEPT ![<<o, k>>] = "ready"]
      /\ t # "StockReserved" => shipCopy' = shipCopy
  BY PublishEffect
<1>4. QED BY <1>1, <1>2, <1>3

\* Shipping keeps what arrived, and has in hand only that.
LEMMA ShippingKeepsArrived ==
    ASSUME TypeInv, Shipping!Step, shipPc # "idle" => shipCopy[shipMsg] # "absent"
    PROVE  /\ shipPc' # "idle" => shipCopy'[shipMsg'] # "absent"
           /\ \A c \in Copies : shipCopy[c] = "absent" <=> shipCopy'[c] = "absent"
<1>0. shipCopy \in [Copies -> Shipping!Queue!CopyStates] /\ shipMsg \in Copies
  BY DEF TypeInv
<1>1. CASE Shipping!Deliver
  BY <1>0, <1>1 DEF Shipping!Deliver, Shipping!Queue!Deliver, Shipping!Queue!Take
<1>2. CASE Shipping!Send \/ Shipping!SendFailed \/ Shipping!SendUnconfirmed
  BY <1>2 DEF Shipping!Send, Shipping!SendFailed, Shipping!SendUnconfirmed, Shipping!Goto
<1>3. CASE Shipping!Settle
  BY <1>0, <1>3 DEF Shipping!Settle, Shipping!Queue!Settle, Shipping!Queue!Accept,
     Shipping!Queue!Retry, Shipping!Queue!Park
<1>4. CASE Shipping!Crash \/ Shipping!ConnectionDropped
  BY <1>0, <1>4 DEF Shipping!Crash, Shipping!ConnectionDropped, Shipping!Queue!Die,
     Shipping!Queue!Drop, Shipping!Queue!Requeue
<1>5. QED BY <1>1, <1>2, <1>3, <1>4 DEF Shipping!Step, Shipping!Work, Shipping!Failure

\* A step publishes an event before it is on any queue, and a service takes in hand
\* only what is on its own.
LEMMA NextCauseInv == TypeInv /\ CauseInv /\ [Next]_vars => CauseInv'
<1> SUFFICES ASSUME TypeInv, CauseInv, [Next]_vars PROVE CauseInv'
  OBVIOUS
<1>0. /\ announced \in [Orders -> Nat] /\ charged \in [Orders -> Nat]
      /\ reservedOut \in [Orders -> Nat] /\ \A c \in Copies : OrderOf[c] \in Orders
      /\ payMsg \in [Instances -> Copies] /\ invMsg \in Copies /\ shipMsg \in Copies
  BY CopiesNonEmpty DEF TypeInv, TypeOK, Payments!TypeOK, Inventory!TypeOK
<1>1. ASSUME NEW o \in Orders, Announce(o) PROVE CauseInv'
  <2>1. "OrderPlaced" \in Types BY TypesAre
  <2>2. /\ Publish("OrderPlaced", o, announced[o] + 1)
        /\ announced' = [announced EXCEPT ![o] = @ + 1]
        /\ UNCHANGED <<payVars, invVars, shipVars>>
    BY <1>1, AnnounceDoes
  <2>3. \A c \in Copies : announced[OrderOf[c]] > 0 => announced'[OrderOf[c]] > 0
    BY <1>0, <2>2
  <2>4. announced'[o] > 0
    BY <1>0, <2>2
  <2>5. QED
    BY <1>0, <2>1, <2>2, <2>3, <2>4, PublishArrives DEF CauseInv, payVars, invVars, shipVars
<1>2. CASE PaymentsStep
  <2>1. /\ \A w \in Instances : payPc'[w] # "idle" => payCopy'[payMsg'[w]] # "absent"
        /\ \A c \in Copies : payCopy[c] = "absent" <=> payCopy'[c] = "absent"
    BY <1>2, PaymentsStepDoes, PaymentsParameters, PaymentsProof!StepKeepsArrived DEF CauseInv
  <2>2. UNCHANGED <<announced, invPc, invMsg, reservedOut, shipCopy, shipPc, shipMsg>>
    BY <1>2, PaymentsStepDoes DEF gatewayVars, invVars, shipVars, shipQueue
  <2>3. CASE UNCHANGED <<charged, invQueue, timelineVars>>
    BY <2>1, <2>2, <2>3 DEF CauseInv, invQueue
  <2>4. ASSUME NEW o \in Orders, charged' = [charged EXCEPT ![o] = @ + 1],
               Publish(Decision(o), o, charged[o] + 1)
        PROVE  CauseInv'
    <3>1. /\ Decision(o) \in Types
          /\ Decision(o) = "PaymentCaptured" => o \notin OverLimit
      BY TypesAre DEF Decision
    <3>2. \A c \in Copies : charged[OrderOf[c]] > 0 => charged'[OrderOf[c]] > 0
      BY <1>0, <2>4
    <3>3. charged'[o] > 0
      BY <1>0, <2>4
    <3>4. QED
      BY <1>0, <2>1, <2>2, <2>4, <3>1, <3>2, <3>3, PublishArrives DEF CauseInv
  <2>5. QED BY <1>2, <2>3, <2>4, PaymentsStepDoes
<1>3. CASE InventoryStep
  <2>1. /\ invPc' # "idle" => invCopy'[invMsg'] # "absent"
        /\ \A c \in Copies : invCopy[c] = "absent" <=> invCopy'[c] = "absent"
    BY <1>3, InventoryStepDoes, InventoryParameters, InventoryProof!StepKeepsArrived
       DEF CauseInv
  <2>2. UNCHANGED <<announced, payCopy, payPc, payMsg, charged, shipPc, shipMsg>>
    BY <1>3, InventoryStepDoes DEF gatewayVars, payVars, shipVars, payQueue
  <2>3. CASE UNCHANGED <<reservedOut, missingOut, shipQueue, timelineVars>>
    BY <2>1, <2>2, <2>3 DEF CauseInv, shipQueue
  <2>4. ASSUME NEW o \in Orders, reservedOut' = [reservedOut EXCEPT ![o] = @ + 1],
               Publish("StockReserved", o, reservedOut[o] + 1)
        PROVE  CauseInv'
    <3>1. "StockReserved" \in Types BY TypesAre
    <3>2. \A c \in Copies : reservedOut[OrderOf[c]] > 0 => reservedOut'[OrderOf[c]] > 0
      BY <1>0, <2>4
    <3>3. reservedOut'[o] > 0
      BY <1>0, <2>4
    <3>4. QED
      BY <1>0, <2>1, <2>2, <2>4, <3>1, <3>2, <3>3, PublishArrives DEF CauseInv
  <2>5. ASSUME NEW o \in Orders, UNCHANGED reservedOut,
               Publish("StockUnavailable", o, missingOut[o] + 1)
        PROVE  CauseInv'
    <3>1. "StockUnavailable" \in Types BY TypesAre
    <3>2. QED
      BY <1>0, <2>1, <2>2, <2>5, <3>1, PublishArrives DEF CauseInv
  <2>6. QED BY <1>3, <2>3, <2>4, <2>5, InventoryStepDoes
<1>4. CASE ShippingStep
  <2>1. /\ shipPc' # "idle" => shipCopy'[shipMsg'] # "absent"
        /\ \A c \in Copies : shipCopy[c] = "absent" <=> shipCopy'[c] = "absent"
    BY <1>4, ShippingStepDoes, ShippingKeepsArrived DEF CauseInv
  <2>2. UNCHANGED <<announced, payCopy, payPc, payMsg, charged, invCopy, invPc, invMsg,
                    reservedOut>>
    BY <1>4, ShippingStepDoes DEF gatewayVars, payVars, invVars, payQueue, invQueue
  <2>3. QED BY <2>1, <2>2 DEF CauseInv
<1>5. CASE NotificationsStep \/ (\E o \in Orders : Place(o)) \/ UNCHANGED vars
  <2>1. /\ UNCHANGED <<payVars, invVars, shipVars, payQueue, invQueue, shipQueue>>
        /\ UNCHANGED announced
    BY <1>5 DEF NotificationsStep, Place, Gateway!Place, vars, queueVars, gatewayVars
  <2>2. QED
    BY <2>1 DEF CauseInv, payVars, invVars, shipVars, payQueue, invQueue, shipQueue
<1>6. QED BY <1>1, <1>2, <1>3, <1>4, <1>5 DEF Next

\* What is on a queue was published, in every reachable state.
LEMMA CauseInvHolds == Spec => []CauseInv
  BY TypeInvHolds, InitCauseInv, NextCauseInv, PTL DEF Spec

-----------------------------------------------------------------------------
\* Published, one type at a time.
LEMMA PublishedIs ==
    ASSUME NEW o
    PROVE  /\ "OrderPlaced" \in Published(o) <=> announced[o] > 0
           /\ "PaymentCaptured" \in Published(o) <=> charged[o] > 0 /\ o \notin OverLimit
           /\ "PaymentDeclined" \in Published(o) <=> charged[o] > 0 /\ o \in OverLimit
           /\ "StockReserved" \in Published(o) <=> reservedOut[o] > 0
           /\ "StockUnavailable" \in Published(o) <=> missingOut[o] > 0
           /\ "OrderShipped" \in Published(o) <=> shippedOut[o] > 0
           /\ Published(o) \subseteq Types
  BY TypesAre DEF Published

\* The same after a step.
LEMMA PublishedNext ==
    ASSUME NEW o
    PROVE  /\ "OrderPlaced" \in Published(o)' <=> announced'[o] > 0
           /\ "PaymentCaptured" \in Published(o)' <=> charged'[o] > 0 /\ o \notin OverLimit
           /\ "PaymentDeclined" \in Published(o)' <=> charged'[o] > 0 /\ o \in OverLimit
           /\ "StockReserved" \in Published(o)' <=> reservedOut'[o] > 0
           /\ "StockUnavailable" \in Published(o)' <=> missingOut'[o] > 0
           /\ "OrderShipped" \in Published(o)' <=> shippedOut'[o] > 0
           /\ Published(o)' \subseteq Types
  BY TypesAre DEF Published

\* Who passes a milestone: only an order within the limit is captured, and only one
\* above it declined.
Open ==
    [t \in Types |-> CASE t = "PaymentCaptured" -> Orders \ OverLimit
                       [] t = "PaymentDeclined" -> OverLimit
                       [] OTHER -> Orders]

\* The event of type t about o is published, and nothing else is.
Publishes(t, o) ==
    /\ Published(o)' = Published(o) \cup {t}
    /\ \A p \in Orders \ {o} : Published(p)' = Published(p)

\* It is enough to look at each order and each type of event.
LEMMA PublishesOne ==
    ASSUME NEW t \in Types, NEW o \in Orders,
           \A p \in Orders : \A u \in Types :
              u \in Published(p)' <=> u \in Published(p) \/ (p = o /\ u = t)
    PROVE  Publishes(t, o)
<1>1. \A p : Published(p) \subseteq Types /\ Published(p)' \subseteq Types
  BY DEF Published
<1>2. Published(o)' = Published(o) \cup {t}
  BY <1>1
<1>3. ASSUME NEW p \in Orders \ {o} PROVE Published(p)' = Published(p)
  BY <1>1
<1>4. QED BY <1>2, <1>3 DEF Publishes

\* A step publishes one event, after its cause, and notifications gets it last in
\* its queue; or it publishes nothing, and only notifications sees its queue move.
Publication(t, o) ==
    /\ Publishes(t, o)
    /\ Causes[t] \subseteq Published(o) /\ o \in Open[t]
    /\ inbox' = Append(inbox, <<o, t>>) /\ UNCHANGED <<handled, timeline, forgotten>>

Quiet ==
    /\ \A o \in Orders : Published(o)' = Published(o)
    /\ Notifications!Step \/ UNCHANGED timelineVars

\* Every step of the system is one or the other.
LEMMA NextPublishes ==
    ASSUME TypeInv, CauseInv, [Next]_vars
    PROVE  (\E t \in Types : \E o \in Orders : Publication(t, o)) \/ Quiet
<1> DEFINE Somebody == \E t \in Types : \E o \in Orders : Publication(t, o)
<1>0. /\ announced \in [Orders -> Nat] /\ charged \in [Orders -> Nat]
      /\ reservedOut \in [Orders -> Nat] /\ missingOut \in [Orders -> Nat]
      /\ shippedOut \in [Orders -> Nat]
      /\ payMsg \in [Instances -> Copies] /\ invMsg \in Copies /\ shipMsg \in Copies
  BY DEF TypeInv, TypeOK, Payments!TypeOK, Inventory!TypeOK
<1>a. UNCHANGED <<announced, charged, reservedOut, missingOut, shippedOut>>
        => \A o \in Orders : Published(o)' = Published(o)
  BY DEF Published
<1>1. ASSUME NEW o \in Orders, Announce(o) PROVE Somebody
  <2>1. /\ announced' = [announced EXCEPT ![o] = @ + 1]
        /\ UNCHANGED <<charged, reservedOut, missingOut, shippedOut>>
        /\ Publish("OrderPlaced", o, announced[o] + 1)
    BY <1>1, AnnounceDoes DEF payVars, invVars, shipVars
  <2>2. Publishes("OrderPlaced", o)
    <3>1. announced'[o] > 0 /\ \A p \in Orders \ {o} : announced'[p] = announced[p]
      BY <1>0, <2>1
    <3>2. QED
      <4>1. ASSUME NEW p \in Orders, NEW u \in Types
            PROVE  u \in Published(p)' <=> u \in Published(p) \/ (p = o /\ u = "OrderPlaced")
        BY <2>1, <3>1, <1>0, TypesAre, PublishedIs, PublishedNext
      <4>2. "OrderPlaced" \in Types BY TypesAre
      <4>3. QED BY <4>1, <4>2, PublishesOne
  <2>3. Publication("OrderPlaced", o)
    BY <2>1, <2>2, TypesAre, PublishEffect DEF Publication, Causes, Open
  <2>4. QED BY <2>3, TypesAre
<1>2. CASE PaymentsStep
  <2>1. UNCHANGED <<announced, reservedOut, missingOut, shippedOut>>
    BY <1>2, PaymentsStepDoes DEF gatewayVars, invVars, shipVars
  <2>2. ASSUME NEW w \in Instances, NEW o \in Orders,
               payPc[w] # "idle", OrderOf[payMsg[w]] = o,
               charged' = [charged EXCEPT ![o] = @ + 1],
               Publish(Decision(o), o, charged[o] + 1)
        PROVE  Somebody
    <3>1. charged'[o] > 0 /\ \A p \in Orders \ {o} : charged'[p] = charged[p]
      BY <1>0, <2>2
    <3>2. Publishes(Decision(o), o)
      <4>1. ASSUME NEW p \in Orders, NEW u \in Types
            PROVE  u \in Published(p)' <=> u \in Published(p) \/ (p = o /\ u = Decision(o))
        BY <2>1, <3>1, <1>0, TypesAre, PublishedIs, PublishedNext DEF Decision
      <4>2. Decision(o) \in Types BY TypesAre DEF Decision
      <4>3. QED BY <4>1, <4>2, PublishesOne
    <3>3. announced[o] > 0
      BY <1>0, <2>2 DEF CauseInv
    <3>4. Decision(o) \in Types /\ Causes[Decision(o)] = {"OrderPlaced"} /\ o \in Open[Decision(o)]
      BY TypesAre DEF Causes, Decision, Open
    <3>5. Publication(Decision(o), o)
      <4>1. inbox' = Append(inbox, <<o, Decision(o)>>) /\ UNCHANGED <<handled, timeline, forgotten>>
        BY <2>2, <3>4, PublishEffect
      <4>2. Causes[Decision(o)] \subseteq Published(o)
        BY <3>3, <3>4, PublishedIs
      <4>3. QED BY <3>2, <3>4, <4>1, <4>2 DEF Publication
    <3>6. QED BY <3>4, <3>5
  <2>3. QED BY <1>2, <1>a, <2>1, <2>2, PaymentsStepDoes DEF Quiet
<1>3. CASE InventoryStep
  <2>1. UNCHANGED <<announced, charged, shippedOut>>
    BY <1>3, InventoryStepDoes DEF gatewayVars, payVars, shipVars
  <2>2. ASSUME NEW o \in Orders, invPc # "idle", OrderOf[invMsg] = o
        PROVE  "PaymentCaptured" \in Published(o)
    BY <1>0, <2>2, PublishedIs DEF CauseInv
  <2>3. /\ \A t \in {"StockReserved", "StockUnavailable"} :
              t \in Types /\ Causes[t] = {"PaymentCaptured"} /\ Open[t] = Orders
    BY TypesAre DEF Causes, Open
  <2>4. ASSUME NEW o \in Orders, invPc # "idle", OrderOf[invMsg] = o,
               reservedOut' = [reservedOut EXCEPT ![o] = @ + 1], UNCHANGED missingOut,
               Publish("StockReserved", o, reservedOut[o] + 1)
        PROVE  Somebody
    <3>1. reservedOut'[o] > 0 /\ \A p \in Orders \ {o} : reservedOut'[p] = reservedOut[p]
      BY <1>0, <2>4
    <3>2. Publishes("StockReserved", o)
      <4>1. ASSUME NEW p \in Orders, NEW u \in Types
            PROVE  u \in Published(p)' <=> u \in Published(p) \/ (p = o /\ u = "StockReserved")
        BY <2>1, <2>4, <3>1, <1>0, TypesAre, PublishedIs, PublishedNext
      <4>2. "StockReserved" \in Types BY TypesAre
      <4>3. QED BY <4>1, <4>2, PublishesOne
    <3>3. Publication("StockReserved", o)
      BY <2>2, <2>3, <2>4, <3>2, PublishEffect DEF Publication
    <3>4. QED BY <2>3, <3>3
  <2>5. ASSUME NEW o \in Orders, invPc # "idle", OrderOf[invMsg] = o,
               missingOut' = [missingOut EXCEPT ![o] = @ + 1], UNCHANGED reservedOut,
               Publish("StockUnavailable", o, missingOut[o] + 1)
        PROVE  Somebody
    <3>1. missingOut'[o] > 0 /\ \A p \in Orders \ {o} : missingOut'[p] = missingOut[p]
      BY <1>0, <2>5
    <3>2. Publishes("StockUnavailable", o)
      <4>1. ASSUME NEW p \in Orders, NEW u \in Types
            PROVE  u \in Published(p)' <=> u \in Published(p) \/ (p = o /\ u = "StockUnavailable")
        BY <2>1, <2>5, <3>1, <1>0, TypesAre, PublishedIs, PublishedNext
      <4>2. "StockUnavailable" \in Types BY TypesAre
      <4>3. QED BY <4>1, <4>2, PublishesOne
    <3>3. Publication("StockUnavailable", o)
      BY <2>2, <2>3, <2>5, <3>2, PublishEffect DEF Publication
    <3>4. QED BY <2>3, <3>3
  <2>6. QED BY <1>3, <1>a, <2>1, <2>4, <2>5, InventoryStepDoes DEF Quiet
<1>4. CASE ShippingStep
  <2>1. UNCHANGED <<announced, charged, reservedOut, missingOut>>
    BY <1>4, ShippingStepDoes DEF gatewayVars, payVars, invVars
  <2>2. ASSUME NEW o \in Orders, shipPc = "dispatch", OrderOf[shipMsg] = o,
               shippedOut' = [shippedOut EXCEPT ![o] = @ + 1],
               Publish("OrderShipped", o, shippedOut[o] + 1)
        PROVE  Somebody
    <3>1. shippedOut'[o] > 0 /\ \A p \in Orders \ {o} : shippedOut'[p] = shippedOut[p]
      BY <1>0, <2>2
    <3>2. Publishes("OrderShipped", o)
      <4>1. ASSUME NEW p \in Orders, NEW u \in Types
            PROVE  u \in Published(p)' <=> u \in Published(p) \/ (p = o /\ u = "OrderShipped")
        BY <2>1, <3>1, <1>0, TypesAre, PublishedIs, PublishedNext
      <4>2. "OrderShipped" \in Types BY TypesAre
      <4>3. QED BY <4>1, <4>2, PublishesOne
    <3>3. reservedOut[o] > 0
      BY <1>0, <2>2 DEF CauseInv
    <3>4. Publication("OrderShipped", o)
      BY <2>2, <3>2, <3>3, TypesAre, PublishedIs, PublishEffect DEF Publication, Causes, Open
    <3>5. QED BY <3>4, TypesAre
  <2>3. QED BY <1>4, <1>a, <2>1, <2>2, ShippingStepDoes DEF Quiet
<1>5. CASE NotificationsStep \/ (\E o \in Orders : Place(o)) \/ UNCHANGED vars
  <2>1. UNCHANGED <<announced, charged, reservedOut, missingOut, shippedOut>>
    BY <1>5 DEF NotificationsStep, Place, Gateway!Place, vars, gatewayVars, payVars,
       invVars, shipVars
  <2>2. Notifications!Step \/ UNCHANGED timelineVars
    BY <1>5 DEF NotificationsStep, Place, vars, queueVars
  <2>3. QED BY <1>a, <2>1, <2>2 DEF Quiet
<1>6. QED BY <1>1, <1>2, <1>3, <1>4, <1>5 DEF Next

\* An event whose cause was published is a step of the life of its order.
LEMMA PassesOne ==
    ASSUME NEW t \in Types, NEW o \in Orders, Publishes(t, o),
           Causes[t] \subseteq Published(o), o \in Open[t]
    PROVE  Lifecycle!Next
<1> DEFINE passed == [p \in Orders |-> Published(p)]
<1>1. passed' = [passed EXCEPT ![o] = @ \cup {t}]
  BY DEF Publishes
<1>2. t \in DOMAIN Causes
  BY TypesAre DEF Causes
<1>3. Causes[t] \subseteq passed[o] /\ {} \cap passed[o] = {}
  OBVIOUS
<1> HIDE DEF passed
<1>4. Lifecycle!Pass(o, t)
  BY <1>1, <1>3 DEF Lifecycle!Pass, Open, passed
<1>5. QED BY <1>2, <1>4 DEF Lifecycle!Next

\* The five services together let an order live as Lifecycle says: no service acts
\* on it before the one whose decision it waits for, and a declined order goes
\* nowhere.
THEOREM LifecycleFollowed == Spec => FollowsLifecycle
<1>1. Init => Lifecycle!Init
  <2>1. ASSUME Init PROVE \A o \in Orders : Published(o) = {}
    <3>1. /\ announced = [o \in Orders |-> 0] /\ charged = [o \in Orders |-> 0]
          /\ reservedOut = [o \in Orders |-> 0] /\ missingOut = [o \in Orders |-> 0]
          /\ shippedOut = [o \in Orders |-> 0]
      BY <2>1 DEF Init, Gateway!Init, Payments!Init, Inventory!Init, Shipping!Init
    <3>2. QED BY <3>1, TypesAre, PublishedIs
  <2>2. QED BY <2>1 DEF Lifecycle!Init
<1>2. TypeInv /\ CauseInv /\ [Next]_vars
        => [Lifecycle!Next]_([o \in Orders |-> Published(o)])
  <2> SUFFICES ASSUME TypeInv, CauseInv, [Next]_vars
               PROVE  Lifecycle!Next \/ UNCHANGED [o \in Orders |-> Published(o)]
    OBVIOUS
  <2>1. ASSUME NEW t \in Types, NEW o \in Orders, Publication(t, o) PROVE Lifecycle!Next
    BY <2>1, PassesOne DEF Publication
  <2>2. Quiet => UNCHANGED [o \in Orders |-> Published(o)]
    BY DEF Quiet
  <2>3. QED BY <2>1, <2>2, NextPublishes
<1>3. QED
  BY <1>1, <1>2, TypeInvHolds, CauseInvHolds, PTL DEF Spec, FollowsLifecycle, Lifecycle!Spec

-----------------------------------------------------------------------------
\* The first announcement of an order is still to come.
ToAnnounce(o) == IF announced[o] = 0 THEN 1 ELSE 0

\* Reservations of an order that wait for shipping, or that it has in hand.
ShipWaiting(o) == {c \in Copies : OrderOf[c] = o /\ shipCopy[c] = "ready"}

\* The one it has in hand.
ShipBusy(o) == IF shipPc \in {"dispatch", "retry"} /\ OrderOf[shipMsg] = o THEN 1 ELSE 0

\* Chances of shipping the order, with the shipments that already happened.
ShipChances(o) == Cardinality(ShipWaiting(o)) + ShipBusy(o) + shippedOut[o]

\* Chances of the services before it, as their own proofs count them.
PayChances(o) == PaymentsProof!Chances(o)
InvChances(o) == InventoryProof!Chances(o)

\* What waits for an order in the three queues can be counted.
FiniteChances(o) ==
    /\ PaymentsProof!FiniteChances(o)
    /\ InventoryProof!IsFiniteSet(InventoryProof!Waiting(o))
    /\ IsFiniteSet(ShipWaiting(o))

\* What may still act on an order in a service or before it, and what it already
\* did there, was paid for by the order itself and by the faults.
Weighs(o) ==
    /\ ToAnnounce(o) + PayChances(o) <= 1 + faults
    /\ ToAnnounce(o) + (PayChances(o) - charged[o]) + InvChances(o) <= 1 + faults
    /\ ToAnnounce(o) + (PayChances(o) - charged[o])
         + (InvChances(o) - (reservedOut[o] + missingOut[o]))
         + ShipChances(o) <= 1 + faults

\* No order has more chances in a service than faults, and it itself, paid for.
PaidInv == \A o \in Orders : FiniteChances(o) /\ Weighs(o)

\* At the start each order has one chance: to be announced.
LEMMA InitPaidInv == Init => PaidInv
<1> SUFFICES ASSUME Init, NEW o \in Orders PROVE FiniteChances(o) /\ Weighs(o)
  BY DEF PaidInv
<1>1. PaymentsProof!FiniteChances(o) /\ PayChances(o) = 0
  <2>1. PaymentsProof!Init
    BY DEF Init, Payments!Init, PaymentsProof!Init
  <2>2. QED BY <2>1, PaymentsParameters, PaymentsProof!InitChances DEF PayChances
<1>2. InventoryProof!IsFiniteSet(InventoryProof!Waiting(o)) /\ InvChances(o) = 0
  <2>1. InventoryProof!Init
    BY DEF Init, Inventory!Init, InventoryProof!Init
  <2>2. QED BY <2>1, InventoryParameters, InventoryProof!InitChances DEF InvChances
<1>3. IsFiniteSet(ShipWaiting(o)) /\ ShipChances(o) = 0
  <2>1. ShipWaiting(o) = {} /\ ShipBusy(o) = 0 /\ shippedOut[o] = 0
    BY DEF Init, Shipping!Init, ShipWaiting, ShipBusy
  <2>2. IsFiniteSet({}) /\ Cardinality({}) = 0
    BY FS_EmptySet
  <2>3. QED BY <2>1, <2>2 DEF ShipChances
<1>4. /\ charged[o] = 0 /\ reservedOut[o] = 0 /\ missingOut[o] = 0 /\ faults = 0
      /\ ToAnnounce(o) = 1
  BY DEF Init, Payments!Init, Inventory!Init, Gateway!Init, ToAnnounce
<1>5. QED BY <1>1, <1>2, <1>3, <1>4 DEF FiniteChances, Weighs

\* The reservations of an order that wait change by the one that is moved.
LEMMA ShipWaitingMoves ==
    ASSUME NEW o \in Orders, IsFiniteSet(ShipWaiting(o)), NEW c \in Copies,
           \A d \in Copies \ {c} : shipCopy'[d] = shipCopy[d]
    PROVE  /\ IsFiniteSet(ShipWaiting(o)') /\ Cardinality(ShipWaiting(o)) \in Nat
           /\ Cardinality(ShipWaiting(o)') \in Nat
           /\ Cardinality(ShipWaiting(o)') =
                Cardinality(ShipWaiting(o)) + (IF c \in ShipWaiting(o)' THEN 1 ELSE 0)
                                            - (IF c \in ShipWaiting(o) THEN 1 ELSE 0)
<1> DEFINE B == ShipWaiting(o)
           C == ShipWaiting(o)'
<1>1. C \ {c} = B \ {c} /\ IsFiniteSet(B)
  BY DEF ShipWaiting
<1> HIDE DEF B, C
<1>2. /\ IsFiniteSet(C) /\ Cardinality(B) \in Nat /\ Cardinality(C) \in Nat
      /\ Cardinality(C) = Cardinality(B) + (IF c \in C THEN 1 ELSE 0)
                                         - (IF c \in B THEN 1 ELSE 0)
  BY <1>1, CardinalityMoves
<1>3. QED BY <1>2 DEF B, C

\* Shipping makes no chance from nothing either.
LEMMA ShippingPaysForChances ==
    ASSUME TypeInv, Shipping!Step, NEW o \in Orders, IsFiniteSet(ShipWaiting(o))
    PROVE  /\ IsFiniteSet(ShipWaiting(o)')
           /\ ShipChances(o)' \in Nat
           /\ ShipChances(o)' - faults' <= ShipChances(o) - faults
<1> DEFINE W == Cardinality(ShipWaiting(o))
           Z == Cardinality(ShipWaiting(o)')
           Goal == /\ IsFiniteSet(ShipWaiting(o)') /\ Z \in Nat
                   /\ Z + ShipBusy(o)' + shippedOut'[o] - faults'
                        <= W + ShipBusy(o) + shippedOut[o] - faults
<1>0. /\ shipCopy \in [Copies -> Shipping!Queue!CopyStates] /\ shipMsg \in Copies
      /\ shippedOut \in [Orders -> Nat] /\ shippedOut[o] \in Nat
      /\ W \in Nat /\ ShipBusy(o) \in {0, 1} /\ ShipBusy(o)' \in {0, 1} /\ faults \in Nat
  <2>1. W \in Nat BY FS_CardinalityType
  <2>2. faults \in Nat BY FaultsTypes
  <2>3. ShipBusy(o) \in {0, 1} /\ ShipBusy(o)' \in {0, 1} BY DEF ShipBusy
  <2>4. QED BY <2>1, <2>2, <2>3 DEF TypeInv
<1>1. CASE Shipping!Deliver
  <2>1. PICK c \in Copies :
          /\ shipCopy[c] = "ready" /\ shipCopy' = [shipCopy EXCEPT ![c] = "held"]
          /\ shipMsg' = c /\ shipPc' = "dispatch" /\ shipPc = "idle"
          /\ UNCHANGED <<shippedOut, faults>>
    BY <1>1 DEF Shipping!Deliver, Shipping!Queue!Deliver, Shipping!Queue!Take
  <2>2. /\ c \notin ShipWaiting(o)'
        /\ c \in ShipWaiting(o) <=> OrderOf[c] = o
    BY <1>0, <2>1 DEF ShipWaiting
  <2>3. IsFiniteSet(ShipWaiting(o)') /\ Z \in Nat
        /\ Z = W - (IF OrderOf[c] = o THEN 1 ELSE 0)
    BY <1>0, <2>1, <2>2, ShipWaitingMoves
  <2>4. ShipBusy(o) = 0 /\ ShipBusy(o)' = IF OrderOf[c] = o THEN 1 ELSE 0
    BY <2>1 DEF ShipBusy
  <2>5. Goal BY <1>0, <2>1, <2>3, <2>4
  <2>6. QED BY <1>0, <2>1, <2>5 DEF ShipChances
<1>2. CASE Shipping!Send \/ Shipping!SendFailed \/ Shipping!SendUnconfirmed
  <2>1. /\ UNCHANGED <<shipCopy, shipMsg>> /\ shipPc = "dispatch"
        /\ \/ /\ shipPc' = "accept" /\ faults' = faults
              /\ shippedOut' = [shippedOut EXCEPT ![OrderOf[shipMsg]] = @ + 1]
           \/ /\ shipPc' = "retry" /\ faults' = faults + 1
              /\ \/ UNCHANGED shippedOut
                 \/ shippedOut' = [shippedOut EXCEPT ![OrderOf[shipMsg]] = @ + 1]
    BY <1>2 DEF Shipping!Send, Shipping!SendFailed, Shipping!SendUnconfirmed,
       Shipping!Published, Shipping!Order, Shipping!Goto, Shipping!Fault
  <2>2. ShipWaiting(o)' = ShipWaiting(o)
    BY <2>1 DEF ShipWaiting
  <2>3. shippedOut'[o] \in Nat /\ faults' \in Nat /\ Goal
    BY <1>0, <2>1, <2>2 DEF ShipBusy
  <2>4. QED BY <1>0, <2>3 DEF ShipChances
<1>3. CASE Shipping!Settle
  <2>1. /\ shipPc' = "idle" /\ UNCHANGED <<shipMsg, shippedOut, faults>>
        /\ \A d \in Copies \ {shipMsg} : shipCopy'[d] = shipCopy[d]
        /\ shipCopy'[shipMsg] = "ready" => shipPc = "retry" \/ shipCopy' = shipCopy
    BY <1>0, <1>3 DEF Shipping!Settle, Shipping!Queue!Settle, Shipping!Queue!Accept,
       Shipping!Queue!Retry, Shipping!Queue!Park
  <2>2. ShipBusy(o)' = 0
    BY <2>1 DEF ShipBusy
  <2>3. /\ IsFiniteSet(ShipWaiting(o)') /\ Z \in Nat
        /\ Z = W + (IF shipMsg \in ShipWaiting(o)' THEN 1 ELSE 0)
                 - (IF shipMsg \in ShipWaiting(o) THEN 1 ELSE 0)
    BY <1>0, <2>1, ShipWaitingMoves
  <2>4. shipMsg \in ShipWaiting(o)' => shipMsg \in ShipWaiting(o) \/ ShipBusy(o) = 1
    BY <1>0, <2>1 DEF ShipWaiting, ShipBusy
  <2>5. Goal BY <1>0, <2>1, <2>2, <2>3, <2>4
  <2>6. QED BY <1>0, <2>1, <2>5 DEF ShipChances
<1>4. CASE Shipping!Crash \/ Shipping!ConnectionDropped
  <2>1. /\ shipPc' \in {"idle", shipPc} /\ UNCHANGED <<shipMsg, shippedOut>>
        /\ faults' = faults + 1
        /\ \A d \in Copies \ {shipMsg} : shipCopy'[d] = shipCopy[d]
    BY <1>0, <1>4 DEF Shipping!Crash, Shipping!ConnectionDropped, Shipping!Queue!Die,
       Shipping!Queue!Drop, Shipping!Queue!Requeue, Shipping!Fault
  <2>2. ShipBusy(o)' <= ShipBusy(o)
    BY <2>1 DEF ShipBusy
  <2>3. IsFiniteSet(ShipWaiting(o)') /\ Z \in Nat /\ Z <= W + 1
    BY <1>0, <2>1, ShipWaitingMoves
  <2>4. Goal BY <1>0, <2>1, <2>2, <2>3
  <2>5. QED BY <1>0, <2>1, <2>4 DEF ShipChances
<1>5. QED BY <1>1, <1>2, <1>3, <1>4 DEF Shipping!Step, Shipping!Work, Shipping!Failure

\* What an event brings to a queue is at most one chance more, for its own order.
LEMMA PayArrival ==
    ASSUME TypeInv, NEW o \in Orders, NEW k, Publish("OrderPlaced", o, k),
           UNCHANGED <<payPc, payMsg, charged>>,
           NEW p \in Orders, PaymentsProof!FiniteChances(p)
    PROVE  /\ PaymentsProof!FiniteChances(p)'
           /\ \/ PayChances(p)' = PayChances(p)
              \/ p = o /\ PayChances(p)' = PayChances(p) + 1
<1>0. PaymentsProof!TypeOK /\ payCopy \in [Copies -> Payments!Queue!CopyStates]
  BY SamePaymentsType DEF TypeInv, TypeOK, Payments!TypeOK
<1>1. /\ payCopy[<<o, k>>] = "absent" /\ payCopy' = [payCopy EXCEPT ![<<o, k>>] = "ready"]
      /\ UNCHANGED payAttempt
  BY TypesAre, PublishEffect
<1>2. CASE <<o, k>> \in Copies
  <2>1. PaymentsProof!Queue!Arrive(<<o, k>>)
    BY <1>1 DEF PaymentsProof!Queue!Arrive
  <2>2. OrderOf[<<o, k>>] = o
    BY <1>2 DEF OrderOf
  <2>3. /\ PaymentsProof!FiniteChances(p)'
        /\ PayChances(p)' = PayChances(p) + (IF OrderOf[<<o, k>>] = p THEN 1 ELSE 0)
    BY <1>0, <1>2, <2>1, PaymentsParameters, PaymentsProof!ArrivalIsAChance DEF PayChances
  <2>4. PayChances(p) \in Nat
    BY <1>0, PaymentsParameters, PaymentsProof!ChancesType DEF PayChances
  <2>5. QED BY <2>2, <2>3, <2>4
<1>3. CASE <<o, k>> \notin Copies
  <2>1. payCopy' = payCopy
    BY <1>0, <1>1, <1>3
  <2>2. QED
    BY <2>1, PaymentsParameters, PaymentsProof!NoChance DEF PayChances
<1>4. QED BY <1>2, <1>3

\* The same of a captured payment in the queue of inventory,
LEMMA InvArrival ==
    ASSUME TypeInv, NEW o \in Orders, NEW k, Publish("PaymentCaptured", o, k),
           UNCHANGED <<invPc, invMsg, reservedOut, missingOut>>,
           NEW p \in Orders, InventoryProof!IsFiniteSet(InventoryProof!Waiting(p))
    PROVE  /\ InventoryProof!IsFiniteSet(InventoryProof!Waiting(p)')
           /\ \/ InvChances(p)' = InvChances(p)
              \/ p = o /\ InvChances(p)' = InvChances(p) + 1
<1>0. InventoryProof!TypeOK /\ invCopy \in [Copies -> Inventory!Queue!CopyStates]
  BY SameInventoryType DEF TypeInv, TypeOK, Inventory!TypeOK
<1>1. /\ invCopy[<<o, k>>] = "absent" /\ invCopy' = [invCopy EXCEPT ![<<o, k>>] = "ready"]
      /\ UNCHANGED invAttempt
  BY TypesAre, PublishEffect
<1>2. CASE <<o, k>> \in Copies
  <2>1. InventoryProof!Queue!Arrive(<<o, k>>)
    BY <1>1 DEF InventoryProof!Queue!Arrive
  <2>2. OrderOf[<<o, k>>] = o
    BY <1>2 DEF OrderOf
  <2>3. /\ InventoryProof!IsFiniteSet(InventoryProof!Waiting(p)')
        /\ InvChances(p)' = InvChances(p) + (IF OrderOf[<<o, k>>] = p THEN 1 ELSE 0)
    BY <1>0, <1>2, <2>1, InventoryParameters, InventoryProof!ArrivalIsAChance DEF InvChances
  <2>4. InvChances(p) \in Nat
    BY <1>0, InventoryParameters, InventoryProof!ChancesType DEF InvChances
  <2>5. QED BY <2>2, <2>3, <2>4
<1>3. CASE <<o, k>> \notin Copies
  <2>1. invCopy' = invCopy
    BY <1>0, <1>1, <1>3
  <2>2. QED
    BY <2>1, InventoryParameters, InventoryProof!NoChance DEF InvChances
<1>4. QED BY <1>2, <1>3

\* and of a reservation in the queue of shipping.
LEMMA ShipArrival ==
    ASSUME TypeInv, NEW o \in Orders, NEW k, Publish("StockReserved", o, k),
           UNCHANGED <<shipPc, shipMsg, shippedOut>>,
           NEW p \in Orders, IsFiniteSet(ShipWaiting(p))
    PROVE  /\ IsFiniteSet(ShipWaiting(p)')
           /\ \/ ShipChances(p)' = ShipChances(p)
              \/ p = o /\ ShipChances(p)' = ShipChances(p) + 1
<1>0. shipCopy \in [Copies -> Shipping!Queue!CopyStates] /\ shippedOut[p] \in Nat
  BY DEF TypeInv
<1>1. shipCopy[<<o, k>>] = "absent" /\ shipCopy' = [shipCopy EXCEPT ![<<o, k>>] = "ready"]
  BY TypesAre, PublishEffect
<1>b. ShipBusy(p)' = ShipBusy(p) /\ ShipBusy(p) \in {0, 1}
  BY DEF ShipBusy
<1>2. CASE <<o, k>> \in Copies
  <2>1. /\ <<o, k>> \notin ShipWaiting(p)
        /\ <<o, k>> \in ShipWaiting(p)' <=> p = o
    BY <1>0, <1>1, <1>2 DEF ShipWaiting, OrderOf
  <2>2. \A d \in Copies \ {<<o, k>>} : shipCopy'[d] = shipCopy[d]
    BY <1>0, <1>1
  <2>3. /\ IsFiniteSet(ShipWaiting(p)') /\ Cardinality(ShipWaiting(p)) \in Nat
        /\ Cardinality(ShipWaiting(p)') =
             Cardinality(ShipWaiting(p)) + (IF p = o THEN 1 ELSE 0)
    BY <1>2, <2>1, <2>2, ShipWaitingMoves
  <2>4. QED BY <1>0, <1>b, <2>3 DEF ShipChances
<1>3. CASE <<o, k>> \notin Copies
  <2>1. shipCopy' = shipCopy
    BY <1>0, <1>1, <1>3
  <2>2. ShipWaiting(p)' = ShipWaiting(p)
    BY <2>1 DEF ShipWaiting
  <2>3. QED BY <1>b, <2>2 DEF ShipChances
<1>4. QED BY <1>2, <1>3

\* The chances of each service are numbers, and what it did is among them.
LEMMA ChancesTypes ==
    ASSUME TypeInv, NEW o \in Orders, FiniteChances(o)
    PROVE  /\ PayChances(o) \in Nat /\ charged[o] \in Nat /\ charged[o] <= PayChances(o)
           /\ InvChances(o) \in Nat /\ reservedOut[o] \in Nat /\ missingOut[o] \in Nat
           /\ reservedOut[o] + missingOut[o] <= InvChances(o)
           /\ ShipChances(o) \in Nat /\ shippedOut[o] \in Nat
           /\ shippedOut[o] <= ShipChances(o)
           /\ ToAnnounce(o) \in {0, 1} /\ faults \in Nat
<1>1. PaymentsProof!TypeOK /\ InventoryProof!TypeOK
  BY SamePaymentsType, SameInventoryType DEF TypeInv, TypeOK
<1>2. PayChances(o) \in Nat /\ charged[o] \in Nat /\ charged[o] <= PayChances(o)
  BY <1>1, PaymentsParameters, PaymentsProof!ChancesType DEF FiniteChances, PayChances
<1>3. /\ InvChances(o) \in Nat /\ reservedOut[o] \in Nat /\ missingOut[o] \in Nat
      /\ reservedOut[o] + missingOut[o] <= InvChances(o)
  BY <1>1, InventoryParameters, InventoryProof!ChancesType DEF FiniteChances, InvChances
<1>4. ShipChances(o) \in Nat /\ shippedOut[o] \in Nat /\ shippedOut[o] <= ShipChances(o)
  <2>1. Cardinality(ShipWaiting(o)) \in Nat
    BY FS_CardinalityType DEF FiniteChances
  <2>2. shippedOut[o] \in Nat BY DEF TypeInv
  <2>3. ShipBusy(o) \in Nat BY DEF ShipBusy
  <2>4. QED BY <2>1, <2>2, <2>3 DEF ShipChances
<1>5. ToAnnounce(o) \in {0, 1} BY DEF ToAnnounce
<1>6. faults \in Nat BY FaultsTypes
<1>7. QED BY <1>2, <1>3, <1>4, <1>5, <1>6

\* A publish moves a chance from one service to the next, and only a fault makes
\* one.
LEMMA NextPaidInv == TypeInv /\ PaidInv /\ [Next]_vars => PaidInv'
<1> SUFFICES ASSUME TypeInv, PaidInv, [Next]_vars, NEW o \in Orders
             PROVE  FiniteChances(o)' /\ Weighs(o)'
  BY DEF PaidInv
<1>0. /\ PayChances(o) \in Nat /\ charged[o] \in Nat /\ charged[o] <= PayChances(o)
      /\ InvChances(o) \in Nat /\ reservedOut[o] \in Nat /\ missingOut[o] \in Nat
      /\ reservedOut[o] + missingOut[o] <= InvChances(o)
      /\ ShipChances(o) \in Nat /\ shippedOut[o] \in Nat
      /\ shippedOut[o] <= ShipChances(o)
      /\ ToAnnounce(o) \in {0, 1} /\ faults \in Nat
  BY ChancesTypes DEF PaidInv
<1>a. Weighs(o) /\ FiniteChances(o) BY DEF PaidInv
<1>b. TypeInv' BY NextTypeInv
<1>c. /\ announced \in [Orders -> Nat] /\ charged \in [Orders -> Nat]
      /\ reservedOut \in [Orders -> Nat] /\ missingOut \in [Orders -> Nat]
      /\ shippedOut \in [Orders -> Nat]
  BY DEF TypeInv, TypeOK, Payments!TypeOK, Inventory!TypeOK
<1>d. PaymentsProof!TypeOK /\ InventoryProof!TypeOK
  BY SamePaymentsType, SameInventoryType DEF TypeInv, TypeOK
<1>pay. ASSUME UNCHANGED <<payCopy, payPc, payMsg, charged>>
        PROVE  /\ PaymentsProof!FiniteChances(o)' /\ PayChances(o)' = PayChances(o)
               /\ charged'[o] = charged[o]
  BY <1>a, <1>pay, PaymentsParameters, PaymentsProof!NoChance DEF PayChances, FiniteChances
<1>inv. ASSUME UNCHANGED <<invCopy, invPc, invMsg, reservedOut, missingOut>>
        PROVE  /\ InventoryProof!IsFiniteSet(InventoryProof!Waiting(o)')
               /\ InvChances(o)' = InvChances(o)
               /\ reservedOut'[o] = reservedOut[o] /\ missingOut'[o] = missingOut[o]
  BY <1>a, <1>inv, InventoryParameters, InventoryProof!NoChance DEF InvChances, FiniteChances
<1>ship. ASSUME UNCHANGED <<shipCopy, shipPc, shipMsg, shippedOut>>
         PROVE  IsFiniteSet(ShipWaiting(o)') /\ ShipChances(o)' = ShipChances(o)
  BY <1>a, <1>ship DEF ShipChances, ShipWaiting, ShipBusy, FiniteChances
<1>1. ASSUME NEW p \in Orders, Announce(p) PROVE FiniteChances(o)' /\ Weighs(o)'
  <2>1. /\ announced' = [announced EXCEPT ![p] = @ + 1]
        /\ faults' = IF announced[p] = 0 THEN faults ELSE faults + 1
        /\ Publish("OrderPlaced", p, announced[p] + 1)
        /\ UNCHANGED <<payVars, invVars, shipVars>>
    BY <1>1, AnnounceDoes
  <2>2. UNCHANGED <<invCopy, shipCopy>>
    BY <2>1, TypesAre, PublishEffect
  <2>3. /\ PaymentsProof!FiniteChances(o)' /\ charged'[o] = charged[o]
        /\ PayChances(o)' = PayChances(o) \/ (o = p /\ PayChances(o)' = PayChances(o) + 1)
    BY <1>a, <2>1, PayArrival DEF payVars, FiniteChances
  <2>4. /\ InventoryProof!IsFiniteSet(InventoryProof!Waiting(o)')
        /\ InvChances(o)' = InvChances(o)
        /\ reservedOut'[o] = reservedOut[o] /\ missingOut'[o] = missingOut[o]
    BY <1>inv, <2>1, <2>2 DEF invVars
  <2>5. IsFiniteSet(ShipWaiting(o)') /\ ShipChances(o)' = ShipChances(o)
    BY <1>ship, <2>1, <2>2 DEF shipVars
  <2>6. ToAnnounce(o)' \in {0, 1} /\ (o # p => ToAnnounce(o)' = ToAnnounce(o))
        /\ (o = p => ToAnnounce(o)' = 0 /\ faults' = faults + 1 - ToAnnounce(o))
    BY <1>c, <1>0, <2>1 DEF ToAnnounce
  <2>7. faults' \in {faults, faults + 1}
    BY <2>1
  <2>8. QED
    BY <1>0, <1>a, <2>3, <2>4, <2>5, <2>6, <2>7 DEF FiniteChances, Weighs
<1>2. CASE PaymentsStep
  <2>1. /\ PaymentsProof!FiniteChances(o)'
        /\ PayChances(o)' - faults' <= PayChances(o) - faults
    BY <1>2, <1>a, PaymentsStepDoes, PaymentsParameters, PaymentsProof!StepPaysForChances
       DEF PayChances, FiniteChances
  <2>2. UNCHANGED <<announced, invPc, invMsg, reservedOut, missingOut,
                    shipCopy, shipPc, shipMsg, shippedOut>>
    BY <1>2, PaymentsStepDoes DEF gatewayVars, invVars, shipVars, shipQueue
  <2>3. IsFiniteSet(ShipWaiting(o)') /\ ShipChances(o)' = ShipChances(o)
    BY <1>ship, <2>2
  <2>4. ToAnnounce(o)' = ToAnnounce(o) /\ reservedOut'[o] = reservedOut[o]
        /\ missingOut'[o] = missingOut[o]
    BY <2>2 DEF ToAnnounce
  <2>5. /\ InventoryProof!IsFiniteSet(InventoryProof!Waiting(o)')
        /\ \/ charged'[o] = charged[o] /\ InvChances(o)' = InvChances(o)
           \/ /\ charged'[o] = charged[o] + 1
              /\ InvChances(o)' \in {InvChances(o), InvChances(o) + 1}
    <3>1. CASE UNCHANGED <<charged, invQueue, timelineVars>>
      BY <1>inv, <2>2, <3>1 DEF invQueue
    <3>2. ASSUME NEW p \in Orders, charged' = [charged EXCEPT ![p] = @ + 1],
                 Publish(Decision(p), p, charged[p] + 1)
          PROVE  /\ InventoryProof!IsFiniteSet(InventoryProof!Waiting(o)')
                 /\ \/ charged'[o] = charged[o] /\ InvChances(o)' = InvChances(o)
                    \/ /\ charged'[o] = charged[o] + 1
                       /\ InvChances(o)' \in {InvChances(o), InvChances(o) + 1}
      <4>1. charged'[o] = charged[o] + (IF o = p THEN 1 ELSE 0)
        BY <1>c, <3>2
      <4>2. CASE Decision(p) = "PaymentCaptured"
        BY <1>a, <1>0, <2>2, <3>2, <4>1, <4>2, InvArrival DEF FiniteChances
      <4>3. CASE Decision(p) = "PaymentDeclined"
        <5>1. UNCHANGED invCopy BY <3>2, <4>3, TypesAre, PublishEffect
        <5>2. QED BY <1>0, <1>inv, <2>2, <4>1, <5>1
      <4>4. QED BY <4>2, <4>3 DEF Decision
    <3>3. QED BY <1>2, <3>1, <3>2, PaymentsStepDoes
  <2>6. PayChances(o)' \in Nat
    <3>1. PaymentsProof!TypeOK'
      BY <1>2, PaymentsStepDoes, PaymentsParameters, PaymentsProof!NextTypeOK
         DEF PaymentsProof!Next
    <3>2. QED
      BY <2>1, <3>1, PaymentsParameters, PaymentsProof!NextChancesType DEF PayChances
  <2>7. faults' \in Nat
    BY <1>b DEF TypeInv, TypeOK, Payments!TypeOK
  <2>8. QED
    BY <1>0, <1>a, <2>1, <2>3, <2>4, <2>5, <2>6, <2>7 DEF FiniteChances, Weighs
<1>3. CASE InventoryStep
  <2>1. /\ InventoryProof!IsFiniteSet(InventoryProof!Waiting(o)')
        /\ InvChances(o)' - faults' <= InvChances(o) - faults
    BY <1>3, <1>a, InventoryStepDoes, InventoryParameters, InventoryProof!StepPaysForChances
       DEF InvChances, FiniteChances
  <2>2. UNCHANGED <<announced, payCopy, payPc, payMsg, charged,
                    shipPc, shipMsg, shippedOut>>
    BY <1>3, InventoryStepDoes DEF gatewayVars, payVars, shipVars, payQueue
  <2>3. /\ PaymentsProof!FiniteChances(o)' /\ PayChances(o)' = PayChances(o)
        /\ charged'[o] = charged[o]
    BY <1>pay, <2>2
  <2>4. ToAnnounce(o)' = ToAnnounce(o)
    BY <2>2 DEF ToAnnounce
  <2>5. /\ IsFiniteSet(ShipWaiting(o)')
        /\ \/ /\ reservedOut'[o] + missingOut'[o] = reservedOut[o] + missingOut[o]
              /\ ShipChances(o)' = ShipChances(o)
           \/ /\ reservedOut'[o] + missingOut'[o] = reservedOut[o] + missingOut[o] + 1
              /\ ShipChances(o)' \in {ShipChances(o), ShipChances(o) + 1}
    <3>1. CASE UNCHANGED <<reservedOut, missingOut, shipQueue, timelineVars>>
      BY <1>ship, <2>2, <3>1 DEF shipQueue
    <3>2. ASSUME NEW p \in Orders, reservedOut' = [reservedOut EXCEPT ![p] = @ + 1],
                 UNCHANGED missingOut, Publish("StockReserved", p, reservedOut[p] + 1)
          PROVE  /\ IsFiniteSet(ShipWaiting(o)')
                 /\ \/ /\ reservedOut'[o] + missingOut'[o] = reservedOut[o] + missingOut[o]
                       /\ ShipChances(o)' = ShipChances(o)
                    \/ /\ reservedOut'[o] + missingOut'[o] = reservedOut[o] + missingOut[o] + 1
                       /\ ShipChances(o)' \in {ShipChances(o), ShipChances(o) + 1}
      <4>1. reservedOut'[o] = reservedOut[o] + (IF o = p THEN 1 ELSE 0)
        BY <1>c, <3>2
      <4>2. /\ IsFiniteSet(ShipWaiting(o)')
            /\ \/ ShipChances(o)' = ShipChances(o)
               \/ o = p /\ ShipChances(o)' = ShipChances(o) + 1
        BY <1>a, <2>2, <3>2, ShipArrival DEF FiniteChances
      <4>3. QED BY <1>0, <3>2, <4>1, <4>2
    <3>3. ASSUME NEW p \in Orders, missingOut' = [missingOut EXCEPT ![p] = @ + 1],
                 UNCHANGED reservedOut, Publish("StockUnavailable", p, missingOut[p] + 1)
          PROVE  /\ IsFiniteSet(ShipWaiting(o)')
                 /\ \/ /\ reservedOut'[o] + missingOut'[o] = reservedOut[o] + missingOut[o]
                       /\ ShipChances(o)' = ShipChances(o)
                    \/ /\ reservedOut'[o] + missingOut'[o] = reservedOut[o] + missingOut[o] + 1
                       /\ ShipChances(o)' \in {ShipChances(o), ShipChances(o) + 1}
      <4>1. missingOut'[o] = missingOut[o] + (IF o = p THEN 1 ELSE 0)
        BY <1>c, <3>3
      <4>2. UNCHANGED shipCopy
        BY <3>3, TypesAre, PublishEffect
      <4>3. IsFiniteSet(ShipWaiting(o)') /\ ShipChances(o)' = ShipChances(o)
        BY <1>ship, <2>2, <4>2
      <4>4. QED BY <1>0, <3>3, <4>1, <4>3
    <3>4. QED BY <1>3, <3>1, <3>2, <3>3, InventoryStepDoes
  <2>6. InvChances(o)' \in Nat
    <3>1. InventoryProof!TypeOK'
      BY <1>3, InventoryStepDoes, InventoryParameters, InventoryProof!StepTypeOK
    <3>2. QED
      BY <2>1, <3>1, InventoryParameters, InventoryProof!NextChancesType DEF InvChances
  <2>7. faults' \in Nat /\ reservedOut'[o] \in Nat /\ missingOut'[o] \in Nat
    BY <1>b DEF TypeInv, TypeOK, Inventory!TypeOK
  <2>8. faults <= faults'
    BY <1>0, <1>3 DEF InventoryStep, Inventory!Step, Inventory!Work, Inventory!Failure,
       Inventory!WithStock, Inventory!WithFlakyWarehouse, Inventory!Deliver,
       Inventory!WarehouseTimesOut, Inventory!TakeStock, Inventory!FindTooLittle,
       Inventory!SendReserved, Inventory!PutBack, Inventory!SendMissing, Inventory!Settle,
       Inventory!SendReservedFailed, Inventory!SendReservedUnconfirmed,
       Inventory!SendMissingFailed, Inventory!SendMissingUnconfirmed, Inventory!Crash,
       Inventory!ConnectionDropped, Inventory!Fault
  <2>9. QED
    BY <1>0, <1>a, <2>1, <2>3, <2>4, <2>5, <2>6, <2>7, <2>8 DEF FiniteChances, Weighs
<1>4. CASE ShippingStep
  <2>1. /\ IsFiniteSet(ShipWaiting(o)') /\ ShipChances(o)' \in Nat
        /\ ShipChances(o)' - faults' <= ShipChances(o) - faults
    BY <1>4, <1>a, ShippingStepDoes, ShippingPaysForChances DEF FiniteChances
  <2>2. UNCHANGED <<announced, payCopy, payPc, payMsg, charged, invCopy, invPc, invMsg,
                    reservedOut, missingOut>>
    BY <1>4, ShippingStepDoes DEF gatewayVars, payVars, invVars, payQueue, invQueue
  <2>3. ToAnnounce(o)' = ToAnnounce(o)
    BY <2>2 DEF ToAnnounce
  <2>4. /\ PaymentsProof!FiniteChances(o)' /\ PayChances(o)' = PayChances(o)
        /\ charged'[o] = charged[o]
    BY <1>pay, <2>2
  <2>5. /\ InventoryProof!IsFiniteSet(InventoryProof!Waiting(o)')
        /\ InvChances(o)' = InvChances(o)
        /\ reservedOut'[o] = reservedOut[o] /\ missingOut'[o] = missingOut[o]
    BY <1>inv, <2>2
  <2>6. faults' \in Nat /\ faults <= faults'
    BY <1>0, <1>4 DEF ShippingStep, Shipping!Step, Shipping!Work, Shipping!Failure,
       Shipping!Deliver, Shipping!Send, Shipping!Settle, Shipping!SendFailed,
       Shipping!SendUnconfirmed, Shipping!Crash, Shipping!ConnectionDropped, Shipping!Fault
  <2>7. QED
    BY <1>0, <1>a, <2>1, <2>3, <2>4, <2>5, <2>6 DEF FiniteChances, Weighs
<1>5. CASE NotificationsStep \/ (\E p \in Orders : Place(p)) \/ UNCHANGED vars
  <2>1. /\ UNCHANGED <<payVars, invVars, shipVars, payQueue, invQueue, shipQueue>>
        /\ UNCHANGED announced
    BY <1>5 DEF NotificationsStep, Place, Gateway!Place, vars, queueVars, gatewayVars
  <2>2. faults' \in {faults, faults + 1}
    BY <1>5 DEF NotificationsStep, Place, vars, Notifications!Step, Notifications!Work,
       Notifications!Failure, Notifications!Handle, Notifications!Accept,
       Notifications!ConnectionDropped, Notifications!Crash, Notifications!Fault
  <2>3. ToAnnounce(o)' = ToAnnounce(o)
    BY <2>1 DEF ToAnnounce
  <2>4. /\ PaymentsProof!FiniteChances(o)' /\ PayChances(o)' = PayChances(o)
        /\ charged'[o] = charged[o]
    BY <1>pay, <2>1 DEF payVars, payQueue
  <2>5. /\ InventoryProof!IsFiniteSet(InventoryProof!Waiting(o)')
        /\ InvChances(o)' = InvChances(o)
        /\ reservedOut'[o] = reservedOut[o] /\ missingOut'[o] = missingOut[o]
    BY <1>inv, <2>1 DEF invVars, invQueue
  <2>6. IsFiniteSet(ShipWaiting(o)') /\ ShipChances(o)' = ShipChances(o)
    BY <1>ship, <2>1 DEF shipVars, shipQueue
  <2>7. QED
    BY <1>0, <1>a, <2>2, <2>3, <2>4, <2>5, <2>6 DEF FiniteChances, Weighs
<1>6. QED BY <1>1, <1>2, <1>3, <1>4, <1>5 DEF Next

\* However many services repeat themselves, downstream of a repeat only a fault of
\* its own repeats anything more.
THEOREM RepeatsPaidFor == Spec => []RepeatsArePaidFor
<1>1. TypeInv /\ PaidInv => RepeatsArePaidFor
  <2> SUFFICES ASSUME TypeInv, PaidInv, NEW o \in Orders
               PROVE  /\ charged[o] <= 1 + faults
                      /\ reservedOut[o] + missingOut[o] <= 1 + faults
                      /\ shippedOut[o] <= 1 + faults
    BY DEF RepeatsArePaidFor
  <2>1. Weighs(o) /\ FiniteChances(o) BY DEF PaidInv
  <2>2. QED BY <2>1, ChancesTypes DEF Weighs
<1>2. QED
  BY <1>1, TypeInvHolds, InitPaidInv, NextPaidInv, PTL DEF Spec

-----------------------------------------------------------------------------
\* An event is in the timeline, in the queue, or among the first n of the queue.
Told(o, t) == \E i \in 1 .. Len(timeline[o]) : timeline[o][i] = t

\* It is somewhere in the queue,
Queued(o, t) == \E i \in 1 .. Len(inbox) : inbox[i] = <<o, t>>

\* or in front of what is behind place n.
Ahead(o, t, n) == \E i \in 1 .. n : inbox[i] = <<o, t>>

\* No event of an order's timeline comes before its cause.
Causal(o) ==
    \A i \in 1 .. Len(timeline[o]) : \A t \in Causes[timeline[o][i]] :
        \E j \in 1 .. i - 1 : timeline[o][j] = t

\* What was published about an order is in its timeline or on its way there, and
\* ahead of each message is whatever caused it and is not in the timeline yet.
PublishedIsComing ==
    \A o \in Orders : \A t \in Published(o) : Told(o, t) \/ Queued(o, t)

CausesComeFirst ==
    \A i \in 1 .. Len(inbox) : \A o \in Orders : \A u \in Types :
        inbox[i] = <<o, u>> => \A t \in Causes[u] : Told(o, t) \/ Ahead(o, t, i - 1)

HeadIsTold ==
    handled => \A o \in Orders : \A u \in Types : inbox[1] = <<o, u>> => Told(o, u)

TimelineInv ==
    ~forgotten =>
        /\ PublishedIsComing
        /\ CausesComeFirst
        /\ HeadIsTold
        /\ \A o \in Orders : Causal(o)

\* The customer has heard of nothing yet.
LEMMA InitTimelineInv == Init => TimelineInv
<1> SUFFICES ASSUME Init PROVE TimelineInv
  OBVIOUS
<1>1. /\ announced = [o \in Orders |-> 0] /\ charged = [o \in Orders |-> 0]
      /\ reservedOut = [o \in Orders |-> 0] /\ missingOut = [o \in Orders |-> 0]
      /\ shippedOut = [o \in Orders |-> 0]
      /\ inbox = <<>> /\ handled = FALSE /\ timeline = [o \in Orders |-> <<>>]
  BY DEF Init, Gateway!Init, Payments!Init, Inventory!Init, Shipping!Init,
     Notifications!Init
<1>2. \A o \in Orders : Published(o) = {}
  BY <1>1, TypesAre, PublishedIs
<1>3. PublishedIsComing
  BY <1>2 DEF PublishedIsComing
<1>4. CausesComeFirst /\ HeadIsTold /\ \A o \in Orders : Causal(o)
  BY <1>1 DEF CausesComeFirst, HeadIsTold, Causal
<1>5. QED BY <1>1, <1>3, <1>4 DEF TimelineInv

\* An event is queued behind its cause.
LEMMA PublicationKeepsTimeline ==
    ASSUME TypeInv, TimelineInv, ~forgotten,
           NEW t \in Types, NEW o \in Orders, Publication(t, o)
    PROVE  TimelineInv'
<1>1. inbox \in Seq(Orders \X Types) /\ Len(inbox) \in Nat
  BY LenProperties DEF TypeInv
<1>n. PICK n \in Nat : n = Len(inbox)
  BY <1>1
<1>2. /\ Len(inbox') = n + 1 /\ inbox'[n + 1] = <<o, t>>
      /\ \A j \in 1 .. n : inbox'[j] = inbox[j]
  BY <1>1, <1>n, AppendProperties DEF Publication
<1>3. \A p, u : Told(p, u)' <=> Told(p, u)
  BY DEF Told, Publication
<1>4. ASSUME NEW p, NEW u, NEW m \in 0 .. n, Ahead(p, u, m)
      PROVE  Ahead(p, u, m)' /\ Queued(p, u)'
  <2>1. PICK j \in 1 .. m : inbox[j] = <<p, u>>
    BY <1>4 DEF Ahead
  <2>2. j \in 1 .. n /\ j \in 1 .. n + 1
    OBVIOUS
  <2>3. inbox'[j] = <<p, u>>
    BY <1>2, <2>1, <2>2
  <2>4. QED BY <1>2, <2>1, <2>2, <2>3 DEF Ahead, Queued
<1>5. PublishedIsComing'
  <2> SUFFICES ASSUME NEW p \in Orders, NEW u \in Published(p)'
               PROVE  Told(p, u)' \/ Queued(p, u)'
    BY DEF PublishedIsComing
  <2>1. CASE u \in Published(p)
    <3>1. Told(p, u) \/ Ahead(p, u, n)
      BY <1>n, <2>1 DEF TimelineInv, PublishedIsComing, Ahead, Queued
    <3>2. n \in 0 .. n OBVIOUS
    <3>3. QED BY <1>3, <1>4, <3>1, <3>2
  <2>2. CASE p = o /\ u = t
    <3>1. n + 1 \in 1 .. n + 1 OBVIOUS
    <3>2. QED BY <1>2, <2>2, <3>1 DEF Queued
  <2>3. QED BY <2>1, <2>2 DEF Publication, Publishes
<1>6. CausesComeFirst'
  <2> SUFFICES ASSUME NEW i \in 1 .. n + 1, NEW p \in Orders, NEW v \in Types,
                      inbox'[i] = <<p, v>>, NEW u \in Causes[v]
               PROVE  Told(p, u)' \/ Ahead(p, u, i - 1)'
    BY <1>2 DEF CausesComeFirst
  <2>1. CASE i \in 1 .. n
    <3>1. inbox[i] = <<p, v>> /\ i - 1 \in 0 .. n BY <1>2, <2>1
    <3>2. Told(p, u) \/ Ahead(p, u, i - 1)
      BY <1>n, <2>1, <3>1 DEF TimelineInv, CausesComeFirst
    <3>3. QED BY <1>3, <1>4, <3>1, <3>2
  <2>2. CASE i = n + 1
    <3>1. p = o /\ v = t /\ i - 1 = n /\ n \in 0 .. n
      BY <1>2, <2>2
    <3>2. Told(p, u) \/ Ahead(p, u, n)
      BY <1>n, <3>1 DEF TimelineInv, PublishedIsComing, Publication, Ahead, Queued
    <3>3. QED BY <1>3, <1>4, <3>1, <3>2
  <2>3. QED BY <2>1, <2>2
<1>7. HeadIsTold'
  <2> SUFFICES ASSUME handled, NEW p \in Orders, NEW u \in Types, inbox'[1] = <<p, u>>
               PROVE  Told(p, u)'
    BY DEF HeadIsTold, Publication
  <2>1. n # 0 BY <1>1, <1>n, EmptySeq DEF TypeInv
  <2>2. inbox[1] = <<p, u>> BY <1>2, <2>1
  <2>3. QED BY <1>3, <2>2 DEF TimelineInv, HeadIsTold
<1>8. \A p \in Orders : Causal(p)'
  BY DEF TimelineInv, Publication, Causal
<1>9. QED BY <1>5, <1>6, <1>7, <1>8 DEF TimelineInv

\* The head of the queue is appended, whose causes are all told by then.
LEMMA HandleKeepsTimeline ==
    ASSUME TypeInv, TimelineInv, ~forgotten, Notifications!Handle,
           \A o \in Orders : Published(o)' = Published(o)
    PROVE  TimelineInv'
<1>1. /\ inbox \in Seq(Orders \X Types) /\ inbox # <<>> /\ inbox' = inbox
      /\ timeline' = [timeline EXCEPT ![Head(inbox)[1]] = Append(@, Head(inbox)[2])]
      /\ timeline \in [Orders -> Seq(Types)] /\ handled'
  BY DEF TypeInv, TypeOK, Notifications!Handle
<1>2. /\ Len(inbox) \in Nat \ {0} /\ Head(inbox) = inbox[1]
      /\ inbox[1] \in Orders \X Types
  <2>1. Len(inbox) \in Nat \ {0} BY <1>1, EmptySeq, LenProperties
  <2>2. inbox[1] \in Orders \X Types BY <1>1, <2>1, ElementOfSeq
  <2>3. Head(inbox) = inbox[1] BY <1>1, HeadTailProperties
  <2>4. QED BY <2>1, <2>2, <2>3
<1>p. PICK p \in Orders, u \in Types : inbox[1] = <<p, u>>
  BY <1>2
<1>m. PICK m \in Nat : m = Len(timeline[p])
  BY <1>1, LenProperties
<1>3. /\ timeline'[p] = Append(timeline[p], u)
      /\ \A q \in Orders \ {p} : timeline'[q] = timeline[q]
  BY <1>1, <1>2, <1>p
<1>4. /\ Len(timeline'[p]) = m + 1 /\ timeline'[p][m + 1] = u
      /\ \A j \in 1 .. m : timeline'[p][j] = timeline[p][j]
  <2>1. timeline[p] \in Seq(Types) BY <1>1
  <2>2. QED BY <1>m, <1>3, <2>1, AppendProperties
<1>5. ASSUME NEW q \in Orders, NEW x, Told(q, x) PROVE Told(q, x)'
  <2>1. CASE q = p
    <3>1. PICK j \in 1 .. m : timeline[p][j] = x BY <1>5, <1>m, <2>1 DEF Told
    <3>2. j \in 1 .. m + 1 OBVIOUS
    <3>3. QED BY <1>4, <2>1, <3>1, <3>2 DEF Told
  <2>2. CASE q # p
    BY <1>3, <1>5, <2>2 DEF Told
  <2>3. QED BY <2>1, <2>2
<1>6. \A q, x, k : (Ahead(q, x, k)' <=> Ahead(q, x, k)) /\ (Queued(q, x)' <=> Queued(q, x))
  BY <1>1 DEF Ahead, Queued
<1>7. PublishedIsComing'
  BY <1>5, <1>6 DEF TimelineInv, PublishedIsComing
<1>8. CausesComeFirst'
  BY <1>1, <1>5, <1>6 DEF TimelineInv, CausesComeFirst
<1>9. HeadIsTold'
  <2>1. m + 1 \in 1 .. m + 1 OBVIOUS
  <2>2. Told(p, u)' BY <1>4, <2>1 DEF Told
  <2>3. QED BY <1>1, <1>p, <2>2 DEF HeadIsTold
<1>10. ASSUME NEW q \in Orders PROVE Causal(q)'
  <2>1. Causal(q) BY DEF TimelineInv
  <2>2. CASE q # p
    BY <1>3, <2>1, <2>2 DEF Causal
  <2>3. CASE q = p
    <3> SUFFICES ASSUME NEW i \in 1 .. m + 1, NEW x \in Causes[timeline'[p][i]]
                 PROVE  \E j \in 1 .. i - 1 : timeline'[p][j] = x
      BY <1>4, <2>3 DEF Causal
    <3>1. CASE i \in 1 .. m
      <4>1. PICK j \in 1 .. i - 1 : timeline[p][j] = x
        BY <1>4, <1>m, <2>1, <2>3, <3>1 DEF Causal
      <4>2. j \in 1 .. m BY <3>1
      <4>3. QED BY <1>4, <4>1, <4>2
    <3>2. CASE i = m + 1
      <4>1. x \in Causes[u] /\ i - 1 = m BY <1>4, <3>2
      <4>2. Told(p, x) \/ Ahead(p, x, 0)
        <5>1. 1 \in 1 .. Len(inbox) /\ 1 - 1 = 0 BY <1>2
        <5>2. QED BY <1>p, <4>1, <5>1 DEF TimelineInv, CausesComeFirst
      <4>3. ~Ahead(p, x, 0) BY DEF Ahead
      <4>4. PICK j \in 1 .. m : timeline[p][j] = x
        BY <1>m, <4>2, <4>3 DEF Told
      <4>5. QED BY <1>4, <4>1, <4>4
    <3>3. QED BY <3>1, <3>2
  <2>4. QED BY <2>2, <2>3
<1>11. QED BY <1>7, <1>8, <1>9, <1>10 DEF TimelineInv

\* A head that leaves the queue is in the timeline.
LEMMA AcceptKeepsTimeline ==
    ASSUME TypeInv, TimelineInv, ~forgotten, Notifications!Accept,
           \A o \in Orders : Published(o)' = Published(o)
    PROVE  TimelineInv'
<1>1. /\ inbox \in Seq(Orders \X Types) /\ inbox # <<>> /\ inbox' = Tail(inbox)
      /\ UNCHANGED timeline /\ handled /\ ~handled'
  BY DEF TypeInv, Notifications!Accept
<1>n. PICK n \in Nat \ {0} : n = Len(inbox)
  BY <1>1, EmptySeq, LenProperties
<1>3. /\ Len(inbox') = n - 1
      /\ \A j \in 1 .. n - 1 : inbox'[j] = inbox[j + 1]
  BY <1>1, <1>n, HeadTailProperties
<1>4. \A q, x : Told(q, x)' <=> Told(q, x)
  BY <1>1 DEF Told
<1>5. ASSUME NEW q \in Orders, NEW x \in Types, NEW k \in 1 .. n, Ahead(q, x, k)
      PROVE  \/ Told(q, x)
             \/ Ahead(q, x, k - 1)' /\ Queued(q, x)'
  <2>1. PICK j \in 1 .. k : inbox[j] = <<q, x>> BY <1>5 DEF Ahead
  <2>2. CASE j = 1
    BY <1>1, <2>1, <2>2 DEF TimelineInv, HeadIsTold
  <2>3. CASE j # 1
    <3>1. j - 1 \in 1 .. k - 1 /\ j - 1 \in 1 .. n - 1 /\ (j - 1) + 1 = j
      BY <2>3
    <3>2. inbox'[j - 1] = <<q, x>> BY <1>3, <2>1, <3>1
    <3>3. QED BY <1>3, <3>1, <3>2 DEF Ahead, Queued
  <2>4. QED BY <2>2, <2>3
<1>6. PublishedIsComing'
  <2> SUFFICES ASSUME NEW q \in Orders, NEW x \in Published(q)'
               PROVE  Told(q, x)' \/ Queued(q, x)'
    BY DEF PublishedIsComing
  <2>1. Told(q, x) \/ Ahead(q, x, n)
    BY <1>n DEF TimelineInv, PublishedIsComing, Ahead, Queued
  <2>2. n \in 1 .. n /\ x \in Types BY PublishedIs
  <2>3. QED BY <1>4, <1>5, <2>1, <2>2
<1>7. CausesComeFirst'
  <2> SUFFICES ASSUME NEW i \in 1 .. n - 1, NEW q \in Orders, NEW v \in Types,
                      inbox'[i] = <<q, v>>, NEW x \in Causes[v]
               PROVE  Told(q, x)' \/ Ahead(q, x, i - 1)'
    BY <1>3 DEF CausesComeFirst
  <2>1. /\ i \in 1 .. n /\ i + 1 \in 1 .. n /\ (i + 1) - 1 = i
        /\ inbox[i + 1] = <<q, v>> /\ x \in Types
    BY <1>3, TypesAre DEF Causes
  <2>2. Told(q, x) \/ Ahead(q, x, i)
    BY <1>n, <2>1 DEF TimelineInv, CausesComeFirst
  <2>3. QED BY <1>4, <1>5, <2>1, <2>2
<1>8. \A q \in Orders : Causal(q)'
  <2>1. UNCHANGED timeline BY <1>1
  <2>2. \A q : Causal(q)' <=> Causal(q) BY <2>1 DEF Causal
  <2>3. QED BY <2>2 DEF TimelineInv
<1>9. QED BY <1>1, <1>6, <1>7, <1>8 DEF TimelineInv, HeadIsTold

\* Whatever is published goes behind its cause, and the handler tells the head of
\* the queue first.
LEMMA NextTimelineInv == TypeInv /\ CauseInv /\ TimelineInv /\ [Next]_vars => TimelineInv'
<1> SUFFICES ASSUME TypeInv, CauseInv, TimelineInv, [Next]_vars, ~forgotten'
             PROVE  TimelineInv'
  BY DEF TimelineInv
<1>1. ASSUME NEW t \in Types, NEW o \in Orders, Publication(t, o) PROVE TimelineInv'
  <2>1. ~forgotten BY <1>1 DEF Publication
  <2>2. QED BY <1>1, <2>1, PublicationKeepsTimeline
<1>2. CASE Quiet /\ Notifications!Handle
  <2>1. ~forgotten BY <1>2 DEF Notifications!Handle
  <2>2. QED BY <1>2, <2>1, HandleKeepsTimeline DEF Quiet
<1>3. CASE Quiet /\ Notifications!Accept
  <2>1. ~forgotten BY <1>3 DEF Notifications!Accept
  <2>2. QED BY <1>3, <2>1, AcceptKeepsTimeline DEF Quiet
<1>4. CASE Quiet /\ (Notifications!ConnectionDropped \/ UNCHANGED timelineVars)
  <2>1. /\ UNCHANGED <<inbox, timeline, forgotten>> /\ (handled' => handled)
    BY <1>4 DEF Notifications!ConnectionDropped, timelineVars
  <2>2. /\ \A q, x : Told(q, x)' <=> Told(q, x)
        /\ \A q, x, k : Ahead(q, x, k)' <=> Ahead(q, x, k)
        /\ \A q, x : Queued(q, x)' <=> Queued(q, x)
        /\ \A q : Causal(q)' <=> Causal(q)
    BY <2>1 DEF Told, Ahead, Queued, Causal
  <2>3. PublishedIsComing' /\ CausesComeFirst' /\ HeadIsTold'
    BY <1>4, <2>1, <2>2 DEF TimelineInv, PublishedIsComing, CausesComeFirst, HeadIsTold, Quiet
  <2>4. QED BY <2>1, <2>2, <2>3 DEF TimelineInv
<1>5. CASE Notifications!Crash
  BY <1>5 DEF Notifications!Crash
<1>6. QED
  BY <1>1, <1>2, <1>3, <1>4, <1>5, NextPublishes DEF Quiet, Notifications!Step,
     Notifications!Work, Notifications!Failure

\* The timeline of an order tells of no event before the event that caused it, in
\* whatever order the services were given their messages, until notifications dies.
THEOREM CausalTimelines == Spec => []TimelineIsCausal
<1>1. TypeInv /\ TimelineInv => TimelineIsCausal
  <2> SUFFICES ASSUME TypeInv, TimelineInv, ~forgotten, NEW o \in Orders,
                      NEW i \in DOMAIN timeline[o]
               PROVE  Causes[timeline[o][i]] \subseteq {timeline[o][j] : j \in 1 .. i - 1}
    BY DEF TimelineIsCausal
  <2>1. timeline[o] \in Seq(Types) BY DEF TypeInv, TypeOK
  <2>2. i \in 1 .. Len(timeline[o]) BY <2>1, LenProperties
  <2>3. Causal(o) BY DEF TimelineInv
  <2>4. QED BY <2>2, <2>3 DEF Causal
<1>2. QED
  BY <1>1, TypeInvHolds, CauseInvHolds, InitTimelineInv, NextTimelineInv, PTL DEF Spec
=============================================================================
