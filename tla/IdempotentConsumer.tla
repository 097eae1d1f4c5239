-------------------------- MODULE IdempotentConsumer --------------------------
(***************************************************************************)
(* intermediate/02-idempotent-consumer: one logical message published      *)
(* several times, a guard that keeps its memory in the process, and a      *)
(* handler around the guard that fails the very first delivery.  That      *)
(* failure is outside the guard, which never hears of it.                  *)
(***************************************************************************)
EXTENDS Naturals

CONSTANTS Sends,        \* copies published, all with one message identifier
          Attempts,     \* of the retry policy
          MaxRestarts   \* bound

VARIABLES copies,       \* copy -> its attempt, 0 once it is settled
          unsent,       \* copies the publisher has still to send
          guard,        \* the store's word on the identifier: free, claimed, done
          inHand,       \* the copy being charged for, 0 when there is none
          deliveries, charged, \* counters of this process
          everCharged,  \* charges made by all processes
          dropped,      \* copies dead-lettered
          restarts

vars == <<copies, unsent, guard, inHand, deliveries, charged, everCharged, dropped, restarts>>

Init ==
    /\ copies = [i \in 1..Sends |-> 0] /\ unsent = Sends
    /\ guard = "free" /\ inHand = 0
    /\ deliveries = 0 /\ charged = 0 /\ everCharged = 0
    /\ dropped = 0 /\ restarts = 0

SendCopy ==
    /\ unsent > 0
    /\ unsent' = unsent - 1
    /\ copies' = [copies EXCEPT ![unsent] = 1]
    /\ UNCHANGED <<guard, inHand, deliveries, charged, everCharged, dropped, restarts>>

\* The first delivery of this process fails on purpose.
Fails(i) == deliveries = 0

\* Mutant: the guard is not asked.
AskNobody == TRUE

AskGuard == guard = "free"

Counting(i) ==
    /\ copies[i] > 0 /\ inHand = 0
    /\ deliveries' = deliveries + 1
    /\ IF Fails(i)
         THEN /\ IF copies[i] < Attempts
                   THEN copies' = [copies EXCEPT ![i] = @ + 1] /\ UNCHANGED dropped
                   ELSE copies' = [copies EXCEPT ![i] = 0] /\ dropped' = dropped + 1
              /\ UNCHANGED <<guard, inHand>>
         ELSE /\ IF AskGuard
                   THEN guard' = "claimed" /\ inHand' = i /\ UNCHANGED copies
                   ELSE copies' = [copies EXCEPT ![i] = 0] /\ UNCHANGED <<guard, inHand>>
              /\ UNCHANGED dropped
    /\ UNCHANGED <<unsent, charged, everCharged, restarts>>

\* The handler behind the guard, its claim confirmed, and the copy settled.
ChargeOnce ==
    /\ inHand # 0
    /\ charged' = charged + 1 /\ everCharged' = everCharged + 1
    /\ guard' = "done"
    /\ copies' = [copies EXCEPT ![inHand] = 0]
    /\ inHand' = 0
    /\ UNCHANGED <<unsent, deliveries, dropped, restarts>>

\* The store's memory is this process's, and so are the counters.  A charge made
\* and not settled is made again.
RestartCharges(made) ==
    /\ restarts < MaxRestarts /\ restarts' = restarts + 1
    /\ made => inHand # 0
    /\ everCharged' = IF made THEN everCharged + 1 ELSE everCharged
    /\ guard' = "free" /\ inHand' = 0
    /\ deliveries' = 0 /\ charged' = 0
    /\ UNCHANGED <<copies, unsent, dropped>>

Next == SendCopy \/ (\E i \in 1..Sends : Counting(i)) \/ ChargeOnce
        \/ \E made \in BOOLEAN : RestartCharges(made)

Spec == Init /\ [][Next]_vars
-----------------------------------------------------------------------------
\* However often the message arrives, this process charges for it once; another
\* charge is another process, whose memory started empty.
ChargedOnce == charged <= 1 /\ everCharged <= 1 + restarts

\* A failure on purpose never uses up the attempts of a copy, so the charge is
\* made: when nothing is left to deliver, somebody has paid.
SomebodyPays ==
    unsent = 0 /\ (\A i \in 1..Sends : copies[i] = 0) => everCharged >= 1 /\ dropped = 0
=============================================================================
