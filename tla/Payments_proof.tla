--------------------------- MODULE Payments_proof ---------------------------
(***************************************************************************)
(* Proofs about Payments for every set of orders, copies and instances and *)
(* every number of attempts and faults. ChargeInv is the inductive         *)
(* invariant of the charges: it ties each instance's place in charge to    *)
(* the row of its order and to how often that order was charged. HeldInv   *)
(* and StopInv are those of an order's fate: who has a delivery in hand,   *)
(* and who will still be heard of.                                         *)
(***************************************************************************)
EXTENDS Payments, Sums

USE DEF queueVars, workerVars, counterVars, historyVars

LEMMA InitTypeOK == Init => TypeOK
  BY PaymentsAssumption DEF Init, TypeOK, Phases, Queue!CopyStates

LEMMA NextTypeOK == TypeOK /\ [Next]_vars => TypeOK'
<1> SUFFICES ASSUME TypeOK, [Next]_vars PROVE TypeOK'
  OBVIOUS
<1> USE PaymentsAssumption DEF TypeOK, Phases, Queue!CopyStates, Goto, Fault, OrderIn
<1>1. ASSUME NEW c \in Copies, Arrive(c) PROVE TypeOK'
  BY <1>1 DEF Arrive, Queue!Arrive
<1>2. ASSUME NEW w \in Instances, Deliver(w) PROVE TypeOK'
  BY <1>2 DEF Deliver, Queue!Take
<1>3. ASSUME NEW w \in Instances, ClaimWon(w) PROVE TypeOK'
  BY <1>3 DEF ClaimWon
<1>4. ASSUME NEW w \in Instances, ClaimLost(w) PROVE TypeOK'
  BY <1>4 DEF ClaimLost
<1>5. ASSUME NEW w \in Instances, ClaimFailed(w) PROVE TypeOK'
  BY <1>5 DEF ClaimFailed
<1>6. ASSUME NEW w \in Instances, Send(w) PROVE TypeOK'
  BY <1>6 DEF Send
<1>7. ASSUME NEW w \in Instances, SendFailed(w) PROVE TypeOK'
  BY <1>7 DEF SendFailed
<1>8. ASSUME NEW w \in Instances, SendUnconfirmed(w) PROVE TypeOK'
  BY <1>8 DEF SendUnconfirmed
<1>9. ASSUME NEW w \in Instances, Release(w) PROVE TypeOK'
  BY <1>9 DEF Release
<1>10. ASSUME NEW w \in Instances, ReleaseFailed(w) PROVE TypeOK'
  BY <1>10 DEF ReleaseFailed
<1>11. ASSUME NEW w \in Instances, Confirm(w) PROVE TypeOK'
  BY <1>11 DEF Confirm
<1>12. ASSUME NEW w \in Instances, ConfirmFailed(w) PROVE TypeOK'
  BY <1>12 DEF ConfirmFailed
<1>13. ASSUME NEW w \in Instances, Settle(w) PROVE TypeOK'
  <2>1. CASE stale[w]
    BY <1>13, <2>1 DEF Settle
  <2>2. CASE ~stale[w] /\ pc[w] = "accept"
    BY <1>13, <2>2 DEF Settle, Queue!Accept
  <2>3. CASE ~stale[w] /\ pc[w] = "retry"
    BY <1>13, <2>3 DEF Settle, Queue!Retry
  <2>4. QED BY <1>13, <2>1, <2>2, <2>3 DEF Settle
<1>14. ASSUME NEW w \in Instances, Crash(w) PROVE TypeOK'
  BY <1>14 DEF Crash, Queue!Requeue
<1>15. ASSUME NEW w \in Instances, ConnectionDropped(w) PROVE TypeOK'
  BY <1>15 DEF ConnectionDropped, Queue!Requeue
<1>16. ASSUME NEW o \in Orders, ClaimTimeout(o) PROVE TypeOK'
  BY <1>16 DEF ClaimTimeout
<1>17. ASSUME NEW w \in Instances, ClaimUnconfirmed(w) PROVE TypeOK'
  BY <1>17 DEF ClaimUnconfirmed
<1>18. CASE UNCHANGED vars
  BY <1>18 DEF vars
<1>19. QED
  BY <1>1, <1>2, <1>3, <1>4, <1>5, <1>6, <1>7, <1>8, <1>9, <1>10, <1>11,
     <1>12, <1>13, <1>14, <1>15, <1>16, <1>17, <1>18 DEF Next, Step, Work, Failure

\* Every variable keeps its type in every run of every fleet: in particular no
\* message is handled for more attempts than the retry policy allows.
THEOREM TypeCorrect == Spec => []TypeOK
  BY InitTypeOK, NextTypeOK, PTL DEF Spec
-----------------------------------------------------------------------------
\* What a claim is worth: while an instance is past it the row says claimed,
\* one instance at most is, and an order whose row is free, or whose claimer has
\* not published yet, has only been charged behind a lost confirm or a timeout.
ChargeInv ==
    /\ \A w \in Instances, o \in Orders : Charging(w, o) => store[o] = "claimed"
    /\ ChargesAreExclusive
    /\ \A o \in Orders : store[o] = "free" => charged[o] <= lost[o] + expired[o]
    /\ \A w \in Instances : pc[w] \in {"send", "release"} =>
           charged[OrderIn(w)] <= lost[OrderIn(w)] + expired[OrderIn(w)]
    /\ \A w \in Instances : pc[w] = "confirm" => charged[OrderIn(w)] > 0
    /\ ChargeBound
    /\ ConfirmedMeansDecided

LEMMA InitChargeInv == Init => ChargeInv
  BY DEF Init, ChargeInv, Charging, ChargesAreExclusive, ChargeBound,
         ConfirmedMeansDecided

LEMMA NextChargeInv == TypeOK /\ ChargeInv /\ [Next]_vars => ChargeInv'
<1> SUFFICES ASSUME TypeOK, ChargeInv, [Next]_vars PROVE ChargeInv'
  OBVIOUS
<1> USE PaymentsAssumption DEF TypeOK, Phases, Queue!CopyStates, Goto, Fault, OrderIn,
      ChargeInv, Charging, ChargesAreExclusive, ChargeBound, ConfirmedMeansDecided
<1>1. ASSUME NEW c \in Copies, Arrive(c) PROVE ChargeInv'
  BY <1>1 DEF Arrive
<1>2. ASSUME NEW w \in Instances, Deliver(w) PROVE ChargeInv'
  <2>1. pc'[w] = "claim" /\ UNCHANGED <<store, charged, lost, expired>>
    BY <1>2 DEF Deliver
  <2>2. \A v \in Instances : v # w => pc'[v] = pc[v] /\ msg'[v] = msg[v]
    BY <1>2 DEF Deliver
  <2>3. \A v \in Instances, o \in Orders : Charging(v, o)' => Charging(v, o)
    BY <2>1, <2>2
  <2>4. \A v \in Instances : pc'[v] \in {"send", "release", "confirm"} =>
          pc'[v] = pc[v] /\ OrderIn(v)' = OrderIn(v)
    BY <2>1, <2>2
  <2>5. (\A v \in Instances, o \in Orders : Charging(v, o) => store[o] = "claimed")'
    BY <2>1, <2>3
  <2>6. ChargesAreExclusive'
    BY <2>3
  <2>7. QED BY <2>1, <2>4, <2>5, <2>6
<1>3. ASSUME NEW w \in Instances, ClaimWon(w) PROVE ChargeInv'
  BY <1>3 DEF ClaimWon
<1>4. ASSUME NEW w \in Instances, ClaimLost(w) PROVE ChargeInv'
  BY <1>4 DEF ClaimLost
<1>5. ASSUME NEW w \in Instances, ClaimFailed(w) PROVE ChargeInv'
  BY <1>5 DEF ClaimFailed
<1>6. ASSUME NEW w \in Instances, Send(w) PROVE ChargeInv'
  BY <1>6 DEF Send
<1>7. ASSUME NEW w \in Instances, SendFailed(w) PROVE ChargeInv'
  BY <1>7 DEF SendFailed
<1>8. ASSUME NEW w \in Instances, SendUnconfirmed(w) PROVE ChargeInv'
  BY <1>8 DEF SendUnconfirmed
<1>9. ASSUME NEW w \in Instances, Release(w) PROVE ChargeInv'
  BY <1>9 DEF Release
<1>10. ASSUME NEW w \in Instances, ReleaseFailed(w) PROVE ChargeInv'
  BY <1>10 DEF ReleaseFailed
<1>11. ASSUME NEW w \in Instances, Confirm(w) PROVE ChargeInv'
  BY <1>11 DEF Confirm
<1>12. ASSUME NEW w \in Instances, ConfirmFailed(w) PROVE ChargeInv'
  BY <1>12 DEF ConfirmFailed
<1>13. ASSUME NEW w \in Instances, Settle(w) PROVE ChargeInv'
  BY <1>13 DEF Settle
<1>14. ASSUME NEW w \in Instances, Crash(w) PROVE ChargeInv'
  BY <1>14 DEF Crash
<1>15. ASSUME NEW w \in Instances, ConnectionDropped(w) PROVE ChargeInv'
  BY <1>15 DEF ConnectionDropped
<1>16. ASSUME NEW o \in Orders, ClaimTimeout(o) PROVE ChargeInv'
  BY <1>16 DEF ClaimTimeout
<1>17. ASSUME NEW w \in Instances, ClaimUnconfirmed(w) PROVE ChargeInv'
  BY <1>17 DEF ClaimUnconfirmed
<1>18. CASE UNCHANGED vars
  BY <1>18 DEF vars
<1>19. QED
  BY <1>1, <1>2, <1>3, <1>4, <1>5, <1>6, <1>7, <1>8, <1>9, <1>10, <1>11,
     <1>12, <1>13, <1>14, <1>15, <1>16, <1>17, <1>18 DEF Next, Step, Work, Failure

LEMMA ChargeInvHolds == Spec => []ChargeInv
  BY TypeCorrect, InitChargeInv, NextChargeInv, PTL DEF Spec

\* No two instances of a fleet of any size are ever charging the same order.
THEOREM ExclusiveCharges == Spec => []ChargesAreExclusive
<1>1. ChargeInv => ChargesAreExclusive BY DEF ChargeInv
<1>2. QED BY <1>1, ChargeInvHolds, PTL

\* However often an order is delivered, each charge past the first is paid for
\* by a lost confirm or an expired claim.
THEOREM BoundedCharges == Spec => []ChargeBound
<1>1. ChargeInv => ChargeBound BY DEF ChargeInv
<1>2. QED BY <1>1, ChargeInvHolds, PTL

\* An order on record as charged has been captured or declined.
THEOREM ConfirmedDecided == Spec => []ConfirmedMeansDecided
<1>1. ChargeInv => ConfirmedMeansDecided BY DEF ChargeInv
<1>2. QED BY <1>1, ChargeInvHolds, PTL

LEMMA StepKeepsConfirmed ==
    TypeOK /\ ChargeInv /\ [Next]_vars =>
        \A o \in Orders : store[o] = "confirmed" =>
            store'[o] = "confirmed" /\ charged'[o] = charged[o]
<1> SUFFICES ASSUME TypeOK, ChargeInv, [Next]_vars,
                    NEW o \in Orders, store[o] = "confirmed"
             PROVE  store'[o] = "confirmed" /\ charged'[o] = charged[o]
  OBVIOUS
<1>1. ASSUME NEW w \in Instances PROVE ~Charging(w, o)
  BY DEF ChargeInv
<1>2. CASE \E w \in Instances : Work(w)
  BY <1>1, <1>2 DEF TypeOK, Charging, OrderIn, Work, Deliver, ClaimWon, ClaimLost,
     Send, Release, Confirm, Settle
<1>3. CASE \E w \in Instances : Failure(w)
  BY <1>1, <1>3 DEF TypeOK, Charging, OrderIn, Failure, ClaimFailed, ClaimUnconfirmed,
     SendFailed, SendUnconfirmed, ReleaseFailed, ConfirmFailed, Crash, ConnectionDropped
<1>4. CASE \E p \in Orders : ClaimTimeout(p)
  BY <1>4 DEF TypeOK, ClaimTimeout
<1>5. CASE (\E c \in Copies : Arrive(c)) \/ UNCHANGED vars
  BY <1>5 DEF Arrive, vars
<1>6. QED BY <1>2, <1>3, <1>4, <1>5 DEF Next, Step

\* A confirmed claim is final: no step of any instance, late or retried, frees
\* the order or charges it again.
THEOREM ConfirmedForGood == Spec => ConfirmedIsFinal
<1>1. TypeOK /\ ChargeInv /\ [Next]_vars =>
        [\A o \in Orders : store[o] = "confirmed" =>
            store'[o] = "confirmed" /\ charged'[o] = charged[o]]_vars
  BY StepKeepsConfirmed
<1>2. QED BY <1>1, TypeCorrect, ChargeInvHolds, PTL DEF Spec, ConfirmedIsFinal
-----------------------------------------------------------------------------
\* Busy with a delivery that is still its own.
Holds(w) == pc[w] # "idle" /\ ~stale[w]

\* A delivery in hand is held by the broker, for one instance.
HeldInv ==
    /\ \A w \in Instances : Holds(w) => copy[msg[w]] = "held"
    /\ \A v, w \in Instances : Holds(v) /\ Holds(w) /\ msg[v] = msg[w] => v = w

\* Something about o is still to be seen: a copy that waits or was dead-lettered,
\* or an instance that has not come to a verdict on one.
Hope(o) ==
    \/ \E c \in Copies : OrderOf[c] = o /\ copy[c] \in {"ready", "dead"}
    \/ \E w \in Instances :
          pc[w] \in {"claim", "send", "release", "retry"} /\ OrderIn(w) = o

\* While nobody was told of an order and its claim was not left behind, the claim
\* has an owner who has yet to publish, and there is hope for the order.
StopInv ==
    \A o \in Orders : charged[o] = 0 /\ o \notin orphaned =>
        /\ store[o] = "claimed" =>
              \E w \in Instances : pc[w] \in {"send", "release"} /\ OrderIn(w) = o
        /\ (\E c \in Copies : OrderOf[c] = o /\ copy[c] # "absent") => Hope(o)
LEMMA InitHeldInv == Init => HeldInv
  BY DEF Init, HeldInv, Holds

\* A step of the handler that leaves the queue and its delivery alone.
LEMMA HandlerKeepsHeld ==
    ASSUME TypeOK, HeldInv, NEW w \in Instances, pc[w] # "idle",
           NEW phase, Goto(w, phase), UNCHANGED <<queueVars, msg, stale>>
    PROVE  HeldInv'
  BY DEF TypeOK, HeldInv, Holds, Goto

LEMMA NextHeldInv == TypeOK /\ HeldInv /\ [Next]_vars => HeldInv'
<1> SUFFICES ASSUME TypeOK, HeldInv, [Next]_vars PROVE HeldInv'
  OBVIOUS
<1>1. ASSUME NEW c \in Copies, Arrive(c) PROVE HeldInv'
  BY <1>1 DEF Arrive, Queue!Arrive, TypeOK, HeldInv, Holds
<1>2. ASSUME NEW w \in Instances, Deliver(w) PROVE HeldInv'
  BY <1>2 DEF Deliver, Queue!Take, Goto, TypeOK, HeldInv, Holds
<1>3. ASSUME NEW w \in Instances,
             ClaimWon(w) \/ ClaimLost(w) \/ ClaimFailed(w) \/ ClaimUnconfirmed(w)
      PROVE  HeldInv'
  BY <1>3, HandlerKeepsHeld DEF ClaimWon, ClaimLost, ClaimFailed, ClaimUnconfirmed
<1>4. ASSUME NEW w \in Instances,
             \/ Send(w) \/ SendFailed(w) \/ SendUnconfirmed(w)
             \/ Release(w) \/ ReleaseFailed(w) \/ Confirm(w) \/ ConfirmFailed(w)
      PROVE  HeldInv'
  BY <1>4, HandlerKeepsHeld DEF Send, SendFailed, SendUnconfirmed, Release,
     ReleaseFailed, Confirm, ConfirmFailed
<1>5. ASSUME NEW w \in Instances, Settle(w) PROVE HeldInv'
  <2>1. CASE stale[w]
    BY <1>5, <2>1 DEF Settle, Goto, TypeOK, HeldInv, Holds
  <2>2. CASE ~stale[w]
    BY <1>5, <2>2 DEF Settle, Queue!Accept, Queue!Retry, Goto, TypeOK, HeldInv, Holds
  <2>3. QED BY <2>1, <2>2
<1>6. ASSUME NEW w \in Instances, Crash(w) PROVE HeldInv'
  <2>1. CASE stale[w]
    BY <1>6, <2>1 DEF Crash, Goto, TypeOK, HeldInv, Holds
  <2>2. CASE ~stale[w]
    BY <1>6, <2>2 DEF Crash, Queue!Requeue, Goto, TypeOK, HeldInv, Holds
  <2>3. QED BY <2>1, <2>2
<1>7. ASSUME NEW w \in Instances, ConnectionDropped(w) PROVE HeldInv'
  BY <1>7 DEF ConnectionDropped, Queue!Requeue, TypeOK, HeldInv, Holds
<1>8. ASSUME NEW o \in Orders, ClaimTimeout(o) PROVE HeldInv'
  BY <1>8 DEF ClaimTimeout, HeldInv, Holds
<1>9. CASE UNCHANGED vars
  BY <1>9 DEF vars, HeldInv, Holds
<1>10. QED
  BY <1>1, <1>2, <1>3, <1>4, <1>5, <1>6, <1>7, <1>8, <1>9 DEF Next, Step, Work, Failure

LEMMA InitStopInv == Init => StopInv
  BY DEF Init, StopInv

LEMMA NextStopInv ==
    TypeOK /\ ChargeInv /\ HeldInv /\ StopInv /\ [Next]_vars => StopInv'
<1> SUFFICES ASSUME TypeOK, ChargeInv, HeldInv, StopInv, [Next]_vars PROVE StopInv'
  OBVIOUS
<1> USE PaymentsAssumption DEF TypeOK, Phases, Queue!CopyStates, Goto, Fault, OrderIn,
      StopInv, Hope
<1>1. ASSUME NEW c \in Copies, Arrive(c) PROVE StopInv'
  BY <1>1 DEF Arrive, Queue!Arrive
<1>2. ASSUME NEW w \in Instances, Deliver(w) PROVE StopInv'
  BY <1>2 DEF Deliver, Queue!Take
<1>3. ASSUME NEW w \in Instances, ClaimWon(w) PROVE StopInv'
  BY <1>3 DEF ClaimWon
<1>4. ASSUME NEW w \in Instances, ClaimLost(w) PROVE StopInv'
  BY <1>4 DEF ClaimLost, ChargeInv, ConfirmedMeansDecided
<1>5. ASSUME NEW w \in Instances, ClaimFailed(w) PROVE StopInv'
  BY <1>5 DEF ClaimFailed
<1>6. ASSUME NEW w \in Instances, Send(w) PROVE StopInv'
  BY <1>6 DEF Send
<1>7. ASSUME NEW w \in Instances, SendFailed(w) PROVE StopInv'
  BY <1>7 DEF SendFailed
<1>8. ASSUME NEW w \in Instances, SendUnconfirmed(w) PROVE StopInv'
  BY <1>8 DEF SendUnconfirmed
<1>9. ASSUME NEW w \in Instances, Release(w) PROVE StopInv'
  BY <1>9 DEF Release
<1>10. ASSUME NEW w \in Instances, ReleaseFailed(w) PROVE StopInv'
  BY <1>10 DEF ReleaseFailed
<1>11. ASSUME NEW w \in Instances, Confirm(w) PROVE StopInv'
  BY <1>11 DEF Confirm, ChargeInv
<1>12. ASSUME NEW w \in Instances, ConfirmFailed(w) PROVE StopInv'
  BY <1>12 DEF ConfirmFailed, ChargeInv
<1>13. ASSUME NEW w \in Instances, Settle(w) PROVE StopInv'
  <2>1. CASE stale[w]
    BY <1>13, <2>1 DEF Settle
  <2>2. CASE ~stale[w] /\ pc[w] = "accept"
    BY <1>13, <2>2 DEF Settle, Queue!Accept, HeldInv, Holds
  <2>3. CASE ~stale[w] /\ pc[w] = "retry"
    BY <1>13, <2>3 DEF Settle, Queue!Retry
  <2>4. QED BY <1>13, <2>1, <2>2, <2>3 DEF Settle
<1>14. ASSUME NEW w \in Instances, Crash(w) PROVE StopInv'
  <2>1. CASE stale[w]
    BY <1>14, <2>1 DEF Crash
  <2>2. CASE ~stale[w]
    BY <1>14, <2>2 DEF Crash, Queue!Requeue
  <2>3. QED BY <2>1, <2>2
<1>15. ASSUME NEW w \in Instances, ConnectionDropped(w) PROVE StopInv'
  BY <1>15 DEF ConnectionDropped, Queue!Requeue
<1>16. ASSUME NEW o \in Orders, ClaimTimeout(o) PROVE StopInv'
  BY <1>16 DEF ClaimTimeout
<1>17. ASSUME NEW w \in Instances, ClaimUnconfirmed(w) PROVE StopInv'
  BY <1>17 DEF ClaimUnconfirmed
<1>18. CASE UNCHANGED vars
  BY <1>18 DEF vars
<1>19. QED
  BY <1>1, <1>2, <1>3, <1>4, <1>5, <1>6, <1>7, <1>8, <1>9, <1>10, <1>11,
     <1>12, <1>13, <1>14, <1>15, <1>16, <1>17, <1>18 DEF Next, Step, Work, Failure

\* In a fleet of any size an order that stops with nobody told was stopped by a
\* claim somebody left behind, and by nothing else that can happen to it.
THEOREM StopsAreOrphans == Spec => []StopsOnlyWhenOrphaned
<1>1. StopInv => StopsOnlyWhenOrphaned
  BY DEF StopInv, Hope, StopsOnlyWhenOrphaned, Stopped, OrderIn
<1>2. QED
  BY <1>1, TypeCorrect, ChargeInvHolds, InitHeldInv, NextHeldInv, InitStopInv,
     NextStopInv, PTL DEF Spec
-----------------------------------------------------------------------------
\* What follows is for the system that payments is a part of: what a step of an
\* instance does to the queue and to what downstream is told.

\* A message in hand has arrived, and what has arrived stays so.
LEMMA StepKeepsArrived ==
    ASSUME TypeOK, Step, \A w \in Instances : pc[w] # "idle" => copy[msg[w]] # "absent"
    PROVE  /\ \A w \in Instances : pc'[w] # "idle" => copy'[msg'[w]] # "absent"
           /\ \A c \in Copies : copy[c] = "absent" <=> copy'[c] = "absent"
<1> USE DEF TypeOK, Goto
<1>1. ASSUME NEW w \in Instances, Deliver(w)
      PROVE  /\ \A v \in Instances : pc'[v] # "idle" => copy'[msg'[v]] # "absent"
             /\ \A c \in Copies : copy[c] = "absent" <=> copy'[c] = "absent"
  BY <1>1 DEF Deliver, Queue!Take
<1>2. ASSUME NEW w \in Instances, Settle(w)
      PROVE  /\ \A v \in Instances : pc'[v] # "idle" => copy'[msg'[v]] # "absent"
             /\ \A c \in Copies : copy[c] = "absent" <=> copy'[c] = "absent"
  BY <1>2 DEF Settle, Queue!Accept, Queue!Retry
<1>3. ASSUME NEW w \in Instances, Crash(w) \/ ConnectionDropped(w)
      PROVE  /\ \A v \in Instances : pc'[v] # "idle" => copy'[msg'[v]] # "absent"
             /\ \A c \in Copies : copy[c] = "absent" <=> copy'[c] = "absent"
  BY <1>3 DEF Crash, ConnectionDropped, Queue!Requeue
<1>4. ASSUME NEW w \in Instances,
             \/ ClaimWon(w) \/ ClaimLost(w) \/ ClaimFailed(w) \/ ClaimUnconfirmed(w)
             \/ Send(w) \/ SendFailed(w) \/ SendUnconfirmed(w)
             \/ Release(w) \/ ReleaseFailed(w) \/ Confirm(w) \/ ConfirmFailed(w)
      PROVE  /\ \A v \in Instances : pc'[v] # "idle" => copy'[msg'[v]] # "absent"
             /\ \A c \in Copies : copy[c] = "absent" <=> copy'[c] = "absent"
  <2>1. pc[w] # "idle" /\ UNCHANGED <<copy, msg>> /\ \E p \in Phases : Goto(w, p)
    BY <1>4 DEF ClaimWon, ClaimLost, ClaimFailed, ClaimUnconfirmed, Send, SendFailed,
       SendUnconfirmed, Release, ReleaseFailed, Confirm, ConfirmFailed, Phases
  <2>2. QED BY <2>1
<1>5. ASSUME NEW o \in Orders, ClaimTimeout(o)
      PROVE  /\ \A v \in Instances : pc'[v] # "idle" => copy'[msg'[v]] # "absent"
             /\ \A c \in Copies : copy[c] = "absent" <=> copy'[c] = "absent"
  BY <1>5 DEF ClaimTimeout
<1>6. QED BY <1>1, <1>2, <1>3, <1>4, <1>5 DEF Step, Work, Failure

\* The outcome of one order at a time is published, by an instance that holds a
\* message about it.
LEMMA StepChargesOne ==
    ASSUME TypeOK, Step
    PROVE  \/ charged' = charged
           \/ \E w \in Instances :
                 pc[w] = "send" /\ charged' = [charged EXCEPT ![OrderIn(w)] = @ + 1]
  BY DEF Step, Work, Failure, Deliver, ClaimWon, ClaimLost, ClaimFailed,
     ClaimUnconfirmed, Send, SendFailed, SendUnconfirmed, Release, ReleaseFailed,
     Confirm, ConfirmFailed, Settle, Crash, ConnectionDropped, ClaimTimeout

\* Copies of an order that wait, and instances with no outcome yet for one of them.
Waiting(o) == {c \in Copies : OrderOf[c] = o /\ copy[c] = "ready"}

BusyWith(o) ==
    {w \in Instances : pc[w] \in {"claim", "send", "release", "retry"} /\ OrderIn(w) = o}

\* What may still become an outcome of o, and what already has.
Chances(o) == Cardinality(Waiting(o)) + Cardinality(BusyWith(o)) + charged[o]

FiniteChances(o) == IsFiniteSet(Waiting(o)) /\ IsFiniteSet(BusyWith(o))

\* The instances busy with an order change by the one that takes the step.
LEMMA BusyMoves ==
    ASSUME TypeOK, NEW o \in Orders, IsFiniteSet(BusyWith(o)), NEW w \in Instances,
           \A v \in Instances \ {w} : pc'[v] = pc[v] /\ msg'[v] = msg[v]
    PROVE  /\ IsFiniteSet(BusyWith(o)') /\ Cardinality(BusyWith(o)) \in Nat
           /\ Cardinality(BusyWith(o)') \in Nat
           /\ Cardinality(BusyWith(o)') =
                Cardinality(BusyWith(o)) + (IF w \in BusyWith(o)' THEN 1 ELSE 0)
                                         - (IF w \in BusyWith(o) THEN 1 ELSE 0)
<1> DEFINE B == BusyWith(o)
           C == BusyWith(o)'
<1>1. C \ {w} = B \ {w} /\ IsFiniteSet(B)
  BY DEF BusyWith, OrderIn
<1> HIDE DEF B, C
<1>2. /\ IsFiniteSet(C) /\ Cardinality(B) \in Nat /\ Cardinality(C) \in Nat
      /\ Cardinality(C) = Cardinality(B) + (IF w \in C THEN 1 ELSE 0)
                                         - (IF w \in B THEN 1 ELSE 0)
  BY <1>1, CardinalityMoves
<1>3. QED BY <1>2 DEF B, C

\* The copies of an order that wait change by the one that is moved.
LEMMA WaitingMoves ==
    ASSUME TypeOK, NEW o \in Orders, IsFiniteSet(Waiting(o)), NEW c \in Copies,
           \A d \in Copies \ {c} : copy'[d] = copy[d]
    PROVE  /\ IsFiniteSet(Waiting(o)') /\ Cardinality(Waiting(o)) \in Nat
           /\ Cardinality(Waiting(o)') \in Nat
           /\ Cardinality(Waiting(o)') =
                Cardinality(Waiting(o)) + (IF c \in Waiting(o)' THEN 1 ELSE 0)
                                        - (IF c \in Waiting(o) THEN 1 ELSE 0)
<1> DEFINE B == Waiting(o)
           C == Waiting(o)'
<1>1. C \ {c} = B \ {c} /\ IsFiniteSet(B)
  BY DEF Waiting
<1> HIDE DEF B, C
<1>2. /\ IsFiniteSet(C) /\ Cardinality(B) \in Nat /\ Cardinality(C) \in Nat
      /\ Cardinality(C) = Cardinality(B) + (IF c \in C THEN 1 ELSE 0)
                                         - (IF c \in B THEN 1 ELSE 0)
  BY <1>1, CardinalityMoves
<1>3. QED BY <1>2 DEF B, C

\* No step makes a chance from nothing: a delivery moves one from the queue to an
\* instance, a publish turns one into an outcome, and a retry or a redelivery puts
\* it back on the queue, a fault giving at most one more.
LEMMA StepPaysForChances ==
    ASSUME TypeOK, Step, NEW o \in Orders, FiniteChances(o)
    PROVE  /\ FiniteChances(o)'
           /\ Chances(o)' - faults' <= Chances(o) - faults
<1> USE DEF TypeOK
<1> DEFINE Goal == /\ FiniteChances(o)'
                   /\ Chances(o)' - faults' <= Chances(o) - faults
<1> SUFFICES Goal OBVIOUS
<1>a. /\ IsFiniteSet(Waiting(o)) /\ IsFiniteSet(BusyWith(o))
      /\ Cardinality(Waiting(o)) \in Nat /\ Cardinality(BusyWith(o)) \in Nat
      /\ charged[o] \in Nat /\ faults \in Nat
  BY PaymentsAssumption, FS_CardinalityType DEF FiniteChances
<1>b. UNCHANGED copy => Waiting(o)' = Waiting(o)
  BY DEF Waiting
<1>1. ASSUME NEW w \in Instances,
             \/ ClaimWon(w) \/ ClaimLost(w) \/ ClaimFailed(w) \/ ClaimUnconfirmed(w)
             \/ SendFailed(w) \/ Release(w) \/ ReleaseFailed(w)
             \/ Confirm(w) \/ ConfirmFailed(w)
      PROVE  Goal
  <2>1. /\ UNCHANGED <<copy, msg, charged>> /\ faults' \in {faults, faults + 1}
        /\ \A v \in Instances \ {w} : pc'[v] = pc[v]
    BY <1>1 DEF ClaimWon, ClaimLost, ClaimFailed, ClaimUnconfirmed, SendFailed, Release,
       ReleaseFailed, Confirm, ConfirmFailed, Goto, Fault
  <2>2. w \in BusyWith(o)' => w \in BusyWith(o)
    BY <1>1, <2>1 DEF ClaimWon, ClaimLost, ClaimFailed, ClaimUnconfirmed, SendFailed,
       Release, ReleaseFailed, Confirm, ConfirmFailed, Goto, BusyWith, OrderIn
  <2>3. /\ IsFiniteSet(BusyWith(o)') /\ Cardinality(BusyWith(o)') \in Nat
        /\ Cardinality(BusyWith(o)') <= Cardinality(BusyWith(o))
    BY <1>a, <2>1, <2>2, BusyMoves
  <2>4. QED BY <1>a, <1>b, <2>1, <2>3 DEF Chances, FiniteChances
<1>2. ASSUME NEW w \in Instances, Send(w) \/ SendUnconfirmed(w)
      PROVE  Goal
  <2>1. /\ UNCHANGED <<copy, msg>>
        /\ \A v \in Instances \ {w} : pc'[v] = pc[v]
        /\ charged' = [charged EXCEPT ![OrderIn(w)] = @ + 1]
        /\ \/ pc'[w] = "confirm" /\ faults' = faults
           \/ pc'[w] = "release" /\ faults' = faults + 1
    BY <1>2 DEF Send, SendUnconfirmed, Goto, Fault
  <2>2. w \in BusyWith(o) <=> OrderIn(w) = o
    BY <1>2 DEF Send, SendUnconfirmed, BusyWith
  <2>3. w \in BusyWith(o)' <=> OrderIn(w) = o /\ pc'[w] = "release"
    BY <2>1 DEF BusyWith, OrderIn
  <2>4. /\ IsFiniteSet(BusyWith(o)') /\ Cardinality(BusyWith(o)') \in Nat
        /\ Cardinality(BusyWith(o)') =
             Cardinality(BusyWith(o)) + (IF w \in BusyWith(o)' THEN 1 ELSE 0)
                                      - (IF w \in BusyWith(o) THEN 1 ELSE 0)
    BY <1>a, <2>1, BusyMoves
  <2>5. charged'[o] = charged[o] + (IF OrderIn(w) = o THEN 1 ELSE 0)
    BY <1>a, <2>1
  <2>6. QED BY <1>a, <1>b, <2>1, <2>2, <2>3, <2>4, <2>5 DEF Chances, FiniteChances
<1>3. ASSUME NEW w \in Instances, Deliver(w)
      PROVE  Goal
  <2>1. PICK c \in Copies :
          /\ copy[c] = "ready" /\ copy' = [copy EXCEPT ![c] = "held"]
          /\ msg' = [msg EXCEPT ![w] = c] /\ pc[w] = "idle"
          /\ pc' = [pc EXCEPT ![w] = "claim"]
          /\ UNCHANGED <<charged, faults>>
    BY <1>3 DEF Deliver, Queue!Take, Goto
  <2>2. /\ c \notin Waiting(o)' /\ w \notin BusyWith(o)
        /\ c \in Waiting(o) <=> OrderOf[c] = o
        /\ w \in BusyWith(o)' <=> OrderOf[c] = o
    BY <2>1 DEF Waiting, BusyWith, OrderIn
  <2>3. /\ IsFiniteSet(Waiting(o)') /\ Cardinality(Waiting(o)') \in Nat
        /\ Cardinality(Waiting(o)') =
             Cardinality(Waiting(o)) - (IF OrderOf[c] = o THEN 1 ELSE 0)
    BY <1>a, <2>1, <2>2, WaitingMoves
  <2>4. /\ IsFiniteSet(BusyWith(o)') /\ Cardinality(BusyWith(o)') \in Nat
        /\ Cardinality(BusyWith(o)') =
             Cardinality(BusyWith(o)) + (IF OrderOf[c] = o THEN 1 ELSE 0)
    BY <1>a, <2>1, <2>2, BusyMoves
  <2>5. QED BY <1>a, <2>1, <2>3, <2>4 DEF Chances, FiniteChances
<1>4. ASSUME NEW w \in Instances, Settle(w)
      PROVE  Goal
  <2>1. /\ pc'[w] = "idle" /\ \A v \in Instances \ {w} : pc'[v] = pc[v]
        /\ UNCHANGED <<msg, charged, faults>>
    BY <1>4 DEF Settle, Goto
  <2>2. /\ IsFiniteSet(BusyWith(o)') /\ Cardinality(BusyWith(o)') \in Nat
        /\ Cardinality(BusyWith(o)') =
             Cardinality(BusyWith(o)) - (IF w \in BusyWith(o) THEN 1 ELSE 0)
    <3>1. w \notin BusyWith(o)' BY <2>1 DEF BusyWith
    <3>2. QED BY <1>a, <2>1, <3>1, BusyMoves
  <2>3. /\ IsFiniteSet(Waiting(o)') /\ Cardinality(Waiting(o)') \in Nat
        /\ Cardinality(Waiting(o)') <=
             Cardinality(Waiting(o)) + (IF w \in BusyWith(o) THEN 1 ELSE 0)
    <3>1. CASE stale[w]
      BY <1>4, <1>a, <1>b, <3>1 DEF Settle
    <3>2. CASE ~stale[w]
      <4>1. \A d \in Copies \ {msg[w]} : copy'[d] = copy[d]
        BY <1>4, <3>2 DEF Settle, Queue!Accept, Queue!Retry
      <4>2. msg[w] \in Waiting(o)' => w \in BusyWith(o)
        BY <1>4, <3>2 DEF Settle, Queue!Accept, Queue!Retry, Waiting, BusyWith, OrderIn
      <4>3. QED BY <1>a, <4>1, <4>2, WaitingMoves
    <3>3. QED BY <3>1, <3>2
  <2>4. QED BY <1>a, <2>1, <2>2, <2>3 DEF Chances, FiniteChances
<1>5. ASSUME NEW w \in Instances, Crash(w) \/ ConnectionDropped(w)
      PROVE  Goal
  <2>1. /\ \A d \in Copies \ {msg[w]} : copy'[d] = copy[d]
        /\ \A v \in Instances \ {w} : pc'[v] = pc[v]
        /\ pc'[w] \in {"idle", pc[w]}
        /\ faults' = faults + 1 /\ UNCHANGED <<msg, charged>>
    BY <1>5 DEF Crash, ConnectionDropped, Queue!Requeue, Fault, Goto
  <2>2. /\ IsFiniteSet(BusyWith(o)') /\ Cardinality(BusyWith(o)') \in Nat
        /\ Cardinality(BusyWith(o)') <= Cardinality(BusyWith(o))
    <3>1. w \in BusyWith(o)' => w \in BusyWith(o) BY <2>1 DEF BusyWith, OrderIn
    <3>2. QED BY <1>a, <2>1, <3>1, BusyMoves
  <2>3. /\ IsFiniteSet(Waiting(o)') /\ Cardinality(Waiting(o)') \in Nat
        /\ Cardinality(Waiting(o)') <= Cardinality(Waiting(o)) + 1
    BY <1>a, <2>1, WaitingMoves
  <2>4. QED BY <1>a, <2>1, <2>2, <2>3 DEF Chances, FiniteChances
<1>6. ASSUME NEW p \in Orders, ClaimTimeout(p)
      PROVE  Goal
  <2>1. UNCHANGED <<copy, pc, msg, charged, faults>>
    BY <1>6 DEF ClaimTimeout
  <2>2. BusyWith(o)' = BusyWith(o)
    BY <2>1 DEF BusyWith, OrderIn
  <2>3. QED BY <1>a, <1>b, <2>1, <2>2 DEF Chances, FiniteChances
<1>7. QED BY <1>1, <1>2, <1>3, <1>4, <1>5, <1>6 DEF Step, Work, Failure

\* A copy that arrives is one chance more for its order, and for no other.
LEMMA ArrivalIsAChance ==
    ASSUME TypeOK, NEW o \in Orders, FiniteChances(o),
           NEW c \in Copies, Queue!Arrive(c), UNCHANGED <<pc, msg, charged>>
    PROVE  /\ FiniteChances(o)'
           /\ Chances(o)' = Chances(o) + (IF OrderOf[c] = o THEN 1 ELSE 0)
<1>1. /\ \A d \in Copies \ {c} : copy'[d] = copy[d]
      /\ copy[c] = "absent" /\ copy'[c] = "ready"
  BY DEF Queue!Arrive, TypeOK
<1>2. /\ c \notin Waiting(o)
      /\ c \in Waiting(o)' <=> OrderOf[c] = o
  BY <1>1 DEF Waiting
<1>3. IsFiniteSet(Waiting(o)) /\ IsFiniteSet(BusyWith(o))
  BY DEF FiniteChances
<1>4. /\ IsFiniteSet(Waiting(o)') /\ Cardinality(Waiting(o)) \in Nat
      /\ Cardinality(Waiting(o)') =
           Cardinality(Waiting(o)) + (IF OrderOf[c] = o THEN 1 ELSE 0)
  BY <1>1, <1>2, <1>3, WaitingMoves
<1>5. BusyWith(o)' = BusyWith(o)
  BY DEF BusyWith, OrderIn
<1>6. Cardinality(BusyWith(o)) \in Nat /\ charged[o] \in Nat
  BY <1>3, FS_CardinalityType DEF TypeOK
<1>7. QED BY <1>3, <1>4, <1>5, <1>6 DEF Chances, FiniteChances

\* Nobody else makes a chance.
LEMMA NoChance ==
    ASSUME NEW o \in Orders, UNCHANGED <<copy, pc, msg, charged>>
    PROVE  (FiniteChances(o)' <=> FiniteChances(o)) /\ Chances(o)' = Chances(o)
  BY DEF FiniteChances, Chances, Waiting, BusyWith, OrderIn

\* Chances are counted, and the outcomes of an order are among them.
LEMMA ChancesType ==
    ASSUME TypeOK, NEW o \in Orders, FiniteChances(o)
    PROVE  Chances(o) \in Nat /\ charged[o] \in Nat /\ charged[o] <= Chances(o)
<1>1. /\ Cardinality(Waiting(o)) \in Nat /\ Cardinality(BusyWith(o)) \in Nat
      /\ charged[o] \in Nat
  BY FS_CardinalityType DEF FiniteChances, TypeOK
<1>2. QED BY <1>1 DEF Chances

\* The same after a step.
LEMMA NextChancesType ==
    ASSUME TypeOK', NEW o \in Orders, FiniteChances(o)'
    PROVE  Chances(o)' \in Nat
<1>1. /\ Cardinality(Waiting(o)') \in Nat /\ Cardinality(BusyWith(o)') \in Nat
      /\ charged'[o] \in Nat
  BY FS_CardinalityType DEF FiniteChances, TypeOK
<1>2. QED BY <1>1 DEF Chances

\* Before anything arrived there is no chance.
LEMMA InitChances ==
    ASSUME Init, NEW o \in Orders
    PROVE  FiniteChances(o) /\ Chances(o) = 0
<1>1. Waiting(o) = {} /\ BusyWith(o) = {} /\ charged[o] = 0
  BY DEF Init, Waiting, BusyWith
<1>2. IsFiniteSet({}) /\ Cardinality({}) = 0
  BY FS_EmptySet
<1>3. QED BY <1>1, <1>2 DEF FiniteChances, Chances
=============================================================================
