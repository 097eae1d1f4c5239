------------------------------ MODULE Payments ------------------------------
(***************************************************************************)
(* apps/01-order-fulfilment/payments: the service that takes the money.    *)
(*                                                                         *)
(* Several instances read one queue of OrderPlaced and share one SQL       *)
(* idempotency store.  charge claims the order, publishes PaymentCaptured  *)
(* or PaymentDeclined, confirms the claim and accepts the message; when    *)
(* the publish fails it releases the claim and asks for a retry.  Each     *)
(* call that can fail, or that a crash can separate from the next, is a    *)
(* step of its own.                                                        *)
(*                                                                         *)
(* The claim timeout (two minutes) is a step that frees an unconfirmed     *)
(* claim.  It waits for the charge in progress, the assumption start       *)
(* states when it sets the timeout: it outlasts the slowest charge.        *)
(***************************************************************************)
EXTENDS Naturals

CONSTANTS Orders,       \* orders the gateway may announce
          OverLimit,    \* those whose total is above AutomaticLimit
          Copies,       \* copies of OrderPlaced that may reach the queue
          OrderOf,      \* the order each copy announces
          Instances,    \* running instances of the service
          MaxAttempts,  \* ExponentialRetry's attempts in all
          MaxFaults     \* bound: crashes, dropped connections, failed calls

ASSUME PaymentsAssumption ==
    /\ OverLimit \subseteq Orders
    /\ OrderOf \in [Copies -> Orders]
    /\ Copies # {}
    /\ MaxAttempts \in Nat \ {0}
    /\ MaxFaults \in Nat

VARIABLES
    copy, attempt,      \* the payments queue (Delivery)
    pc,                 \* where each instance is in charge
    msg,                \* the copy each instance is handling, or was last
    stale,              \* the instance's delivery went back to the broker
    store,              \* the row of each order in payments_handled
    charged,            \* outcomes the broker has been given, per order
    captures, declines, duplicatesRefused,   \* the counters of each instance
    lost,               \* history: publishes that arrived and reported an error
    expired,            \* history: unconfirmed claims that timed out
    orphaned,           \* history: claims or retries left with nobody behind them
    faults              \* faults so far

queueVars   == <<copy, attempt>>
workerVars  == <<pc, msg, stale>>
counterVars == <<captures, declines, duplicatesRefused>>
historyVars == <<lost, expired, orphaned>>
vars == <<queueVars, workerVars, store, charged, counterVars, historyVars, faults>>

Queue == INSTANCE Delivery

Phases == {"idle", "claim", "send", "release", "confirm", "accept", "retry"}

OrderIn(w) == OrderOf[msg[w]]

\* Instance w owns the claim on o and has not given it back or confirmed it.
Charging(w, o) == pc[w] \in {"send", "release", "confirm"} /\ OrderIn(w) = o

Fault == faults < MaxFaults /\ faults' = faults + 1

Goto(w, phase) == pc' = [pc EXCEPT ![w] = phase]

Init ==
    /\ copy = [c \in Copies |-> "absent"]
    /\ attempt = [c \in Copies |-> 1]
    /\ pc = [w \in Instances |-> "idle"]
    /\ msg = [w \in Instances |-> CHOOSE c \in Copies : TRUE]
    /\ stale = [w \in Instances |-> FALSE]
    /\ store = [o \in Orders |-> "free"]
    /\ charged = [o \in Orders |-> 0]
    /\ captures = [w \in Instances |-> 0]
    /\ declines = [w \in Instances |-> 0]
    /\ duplicatesRefused = [w \in Instances |-> 0]
    /\ lost = [o \in Orders |-> 0]
    /\ expired = [o \in Orders |-> 0]
    /\ orphaned = {}
    /\ faults = 0
-----------------------------------------------------------------------------
\* The relay puts a copy on the queue: the first, or one it publishes again.
Arrive(c) ==
    /\ Queue!Arrive(c)
    /\ UNCHANGED <<workerVars, store, charged, counterVars, historyVars, faults>>

Deliver(w) ==
    /\ pc[w] = "idle"
    /\ \E c \in Copies :
          /\ Queue!Take(c)
          /\ msg' = [msg EXCEPT ![w] = c]
    /\ Goto(w, "claim")
    /\ stale' = [stale EXCEPT ![w] = FALSE]
    /\ UNCHANGED <<store, charged, counterVars, historyVars, faults>>

\* Mutant: the claim is confirmed as it is taken, before anything is published.
ClaimWonConfirmed(w) ==
    /\ pc[w] = "claim"
    /\ store[OrderIn(w)] = "free"
    /\ store' = [store EXCEPT ![OrderIn(w)] = "confirmed"]
    /\ Goto(w, "send")
    /\ UNCHANGED <<queueVars, msg, stale, charged, counterVars, historyVars, faults>>

ClaimWon(w) ==
    /\ pc[w] = "claim"
    /\ store[OrderIn(w)] = "free"
    /\ store' = [store EXCEPT ![OrderIn(w)] = "claimed"]
    /\ Goto(w, "send")
    /\ UNCHANGED <<queueVars, msg, stale, charged, counterVars, historyVars, faults>>

\* A claim somebody holds and an order somebody confirmed look the same here.
ClaimLost(w) ==
    /\ pc[w] = "claim"
    /\ store[OrderIn(w)] # "free"
    /\ duplicatesRefused' = [duplicatesRefused EXCEPT ![w] = @ + 1]
    /\ Goto(w, "accept")
    /\ UNCHANGED <<queueVars, msg, stale, store, charged, captures, declines,
                   historyVars, faults>>

ClaimFailed(w) ==
    /\ pc[w] = "claim"
    /\ Fault
    /\ Goto(w, "retry")
    /\ UNCHANGED <<queueVars, msg, stale, store, charged, counterVars, historyVars>>

\* The row is written and the caller sees an error: its own retry will lose to it.
ClaimUnconfirmed(w) ==
    /\ pc[w] = "claim"
    /\ store[OrderIn(w)] = "free"
    /\ Fault
    /\ store' = [store EXCEPT ![OrderIn(w)] = "claimed"]
    /\ orphaned' = orphaned \cup {OrderIn(w)}
    /\ Goto(w, "retry")
    /\ UNCHANGED <<queueVars, msg, stale, charged, counterVars, lost, expired>>

\* The outcome is published, and only then counted.
Send(w) ==
    /\ pc[w] = "send"
    /\ charged' = [charged EXCEPT ![OrderIn(w)] = @ + 1]
    /\ IF OrderIn(w) \in OverLimit
         THEN declines' = [declines EXCEPT ![w] = @ + 1] /\ UNCHANGED captures
         ELSE captures' = [captures EXCEPT ![w] = @ + 1] /\ UNCHANGED declines
    /\ Goto(w, "confirm")
    /\ UNCHANGED <<queueVars, msg, stale, store, duplicatesRefused, historyVars, faults>>

\* Mutant: the failed publish keeps the claim.
SendFailedKeepsClaim(w) ==
    /\ pc[w] = "send"
    /\ Fault
    /\ Goto(w, "retry")
    /\ UNCHANGED <<queueVars, msg, stale, store, charged, counterVars, historyVars>>

\* The publish fails and nothing reached the broker.
SendFailed(w) ==
    /\ pc[w] = "send"
    /\ Fault
    /\ Goto(w, "release")
    /\ UNCHANGED <<queueVars, msg, stale, store, charged, counterVars, historyVars>>

\* The broker has the outcome, and the confirm never came back.
SendUnconfirmed(w) ==
    /\ pc[w] = "send"
    /\ Fault
    /\ charged' = [charged EXCEPT ![OrderIn(w)] = @ + 1]
    /\ lost' = [lost EXCEPT ![OrderIn(w)] = @ + 1]
    /\ Goto(w, "release")
    /\ UNCHANGED <<queueVars, msg, stale, store, counterVars, expired, orphaned>>

Release(w) ==
    /\ pc[w] = "release"
    /\ store' = [store EXCEPT ![OrderIn(w)] = "free"]
    /\ Goto(w, "retry")
    /\ UNCHANGED <<queueVars, msg, stale, charged, counterVars, historyVars, faults>>

ReleaseFailed(w) ==
    /\ pc[w] = "release"
    /\ Fault
    /\ orphaned' = orphaned \cup {OrderIn(w)}
    /\ Goto(w, "retry")
    /\ UNCHANGED <<queueVars, msg, stale, store, charged, counterVars, lost, expired>>

Confirm(w) ==
    /\ pc[w] = "confirm"
    /\ store' = [store EXCEPT ![OrderIn(w)] = "confirmed"]
    /\ Goto(w, "accept")
    /\ UNCHANGED <<queueVars, msg, stale, charged, counterVars, historyVars, faults>>

\* Mutant: a failed confirm gives the claim back and asks for a retry.
ConfirmFailedRetried(w) ==
    /\ pc[w] = "confirm"
    /\ Fault
    /\ Goto(w, "release")
    /\ UNCHANGED <<queueVars, msg, stale, store, charged, counterVars, historyVars>>

\* The error is dropped on purpose: the outcome is out, a retry would repeat it.
ConfirmFailed(w) ==
    /\ pc[w] = "confirm"
    /\ Fault
    /\ Goto(w, "accept")
    /\ UNCHANGED <<queueVars, msg, stale, store, charged, counterVars, historyVars>>

\* The library settles the delivery as the handler said.  On a connection that
\* dropped meanwhile the verdict goes nowhere: the copy is back on the queue.
Settle(w) ==
    /\ pc[w] \in {"accept", "retry"}
    /\ \/ stale[w] /\ UNCHANGED queueVars
       \/ ~stale[w] /\ pc[w] = "accept" /\ Queue!Accept(msg[w])
       \/ ~stale[w] /\ pc[w] = "retry" /\ Queue!Retry(msg[w])
    /\ orphaned' = IF stale[w] /\ pc[w] = "retry"
                     THEN orphaned \cup {OrderIn(w)} ELSE orphaned
    /\ Goto(w, "idle")
    /\ UNCHANGED <<msg, stale, store, charged, counterVars, lost, expired, faults>>

Crash(w) ==
    /\ pc[w] # "idle"
    /\ Fault
    /\ IF stale[w] THEN UNCHANGED queueVars ELSE Queue!Requeue(msg[w])
    /\ orphaned' = IF pc[w] \in {"send", "release"} \/ stale[w]
                     THEN orphaned \cup {OrderIn(w)} ELSE orphaned
    /\ Goto(w, "idle")
    /\ captures' = [captures EXCEPT ![w] = 0]
    /\ declines' = [declines EXCEPT ![w] = 0]
    /\ duplicatesRefused' = [duplicatesRefused EXCEPT ![w] = 0]
    /\ UNCHANGED <<msg, stale, store, charged, lost, expired>>

\* The broker takes the delivery back while the handler is still running.
ConnectionDropped(w) ==
    /\ pc[w] # "idle" /\ ~stale[w]
    /\ Fault
    /\ Queue!Requeue(msg[w])
    /\ stale' = [stale EXCEPT ![w] = TRUE]
    /\ UNCHANGED <<pc, msg, store, charged, counterVars, historyVars>>

\* Mutant: the timeout is shorter than the slowest charge.
ClaimTimeoutEarly(o) ==
    /\ store[o] = "claimed"
    /\ store' = [store EXCEPT ![o] = "free"]
    /\ expired' = [expired EXCEPT ![o] = @ + 1]
    /\ UNCHANGED <<queueVars, workerVars, charged, counterVars, lost, orphaned, faults>>

\* Mutant: the timeout forgets that a claim was confirmed.
ClaimTimeoutAny(o) ==
    /\ store[o] # "free"
    /\ \A w \in Instances : ~Charging(w, o)
    /\ store' = [store EXCEPT ![o] = "free"]
    /\ expired' = [expired EXCEPT ![o] = @ + 1]
    /\ UNCHANGED <<queueVars, workerVars, charged, counterVars, lost, orphaned, faults>>

\* An unconfirmed claim is anyone's once it has timed out.
ClaimTimeout(o) ==
    /\ store[o] = "claimed"
    /\ \A w \in Instances : ~Charging(w, o)
    /\ store' = [store EXCEPT ![o] = "free"]
    /\ expired' = [expired EXCEPT ![o] = @ + 1]
    /\ UNCHANGED <<queueVars, workerVars, charged, counterVars, lost, orphaned, faults>>
-----------------------------------------------------------------------------
\* What an instance does by itself once it has a message and nothing fails.
Work(w) ==
    \/ Deliver(w)
    \/ ClaimWon(w) \/ ClaimLost(w)
    \/ Send(w)
    \/ Release(w)
    \/ Confirm(w)
    \/ Settle(w)

Failure(w) ==
    \/ ClaimFailed(w) \/ ClaimUnconfirmed(w)
    \/ SendFailed(w) \/ SendUnconfirmed(w)
    \/ ReleaseFailed(w)
    \/ ConfirmFailed(w)
    \/ Crash(w)
    \/ ConnectionDropped(w)

Step ==
    \/ \E w \in Instances : Work(w) \/ Failure(w)
    \/ \E o \in Orders : ClaimTimeout(o)

Next == (\E c \in Copies : Arrive(c)) \/ Step

Spec == Init /\ [][Next]_vars

-----------------------------------------------------------------------------
TypeOK ==
    /\ copy \in [Copies -> Queue!CopyStates]
    /\ attempt \in [Copies -> 1..MaxAttempts]
    /\ pc \in [Instances -> Phases]
    /\ msg \in [Instances -> Copies]
    /\ stale \in [Instances -> BOOLEAN]
    /\ store \in [Orders -> {"free", "claimed", "confirmed"}]
    /\ charged \in [Orders -> Nat]
    /\ captures \in [Instances -> Nat]
    /\ declines \in [Instances -> Nat]
    /\ duplicatesRefused \in [Instances -> Nat]
    /\ lost \in [Orders -> Nat]
    /\ expired \in [Orders -> Nat]
    /\ orphaned \subseteq Orders
    /\ faults \in 0..MaxFaults

\* At most one instance is past the claim of an order, whatever was redelivered,
\* however late, and to whom: the whole safety net of charge.
ChargesAreExclusive ==
    \A o \in Orders, v, w \in Instances :
        Charging(v, o) /\ Charging(w, o) => v = w

\* The customer is charged, or refused, once.  A further time takes a publish
\* whose confirm was lost, or an unconfirmed claim that timed out: no crash, no
\* redelivery and no second copy from the relay does it alone.
ChargeBound ==
    \A o \in Orders : charged[o] <= 1 + lost[o] + expired[o]

\* charge confirms after it publishes, so that an order on record as charged is
\* never one that downstream was not told about.
ConfirmedMeansDecided ==
    \A o \in Orders : store[o] = "confirmed" => charged[o] > 0

\* A confirmed claim is never given up, by a late release, a retry or the
\* timeout, and nothing charges that order again.
ConfirmedIsFinal ==
    [][\A o \in Orders : store[o] = "confirmed" =>
           store'[o] = "confirmed" /\ charged'[o] = charged[o]]_vars

Stopped(o) ==
    LET copies == {c \in Copies : OrderOf[c] = o /\ copy[c] # "absent"}
    IN  /\ \A c \in copies : copy[c] = "acked"
        /\ copies # {}
        /\ charged[o] = 0
        /\ \A w \in Instances : pc[w] = "idle" \/ OrderIn(w) # o

\* An order stops here with nobody told, none of its messages left to handle and
\* none dead-lettered, only after its claim was left behind: by an instance that
\* died holding it, by a claim or a release that reported an error, or by a retry
\* asked for on a delivery the broker had already taken back.
StopsOnlyWhenOrphaned ==
    \A o \in Orders : Stopped(o) => o \in orphaned

\* "Kept, it would make the retry look like a duplicate and the order would stop
\* here with nobody told", and a consumer that died mid-handle "loses here": no
\* order is to be accepted to the last copy and yet neither captured nor declined.
EveryAcceptedOrderDecided ==
    \A o \in Orders : ~Stopped(o)
=============================================================================
