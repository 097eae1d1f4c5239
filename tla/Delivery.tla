------------------------------ MODULE Delivery ------------------------------
(***************************************************************************)
(* One durable queue as the services of this repository see it through     *)
(* acemq.Consume and the Ack a handler returns.  The library and the       *)
(* broker are not part of the repository: this is what its code relies on. *)
(*                                                                         *)
(* A copy is one physical message.  It is absent until somebody publishes  *)
(* it, ready while it waits, held while a consumer has it, and then acked, *)
(* dead or parked.  A retry waits in a delay queue and comes back as the   *)
(* same copy with its attempt counter moved; the last one dead-letters it. *)
(* A consumer that dies, or whose connection drops, gives its copy back.   *)
(***************************************************************************)
EXTENDS Naturals

CONSTANTS Copies,       \* physical messages that may reach the queue
          MaxAttempts   \* attempts in all that the retry policy allows

VARIABLES copy,         \* where each copy is
          attempt       \* the attempt each copy is on

CopyStates == {"absent", "ready", "held", "acked", "dead", "parked"}

\* Nobody but the owner of the queue will see the copy again without help.
Settled == {"acked", "dead", "parked"}

Arrive(c) ==
    /\ copy[c] = "absent"
    /\ copy' = [copy EXCEPT ![c] = "ready"]
    /\ UNCHANGED attempt

Take(c) ==
    /\ copy[c] = "ready"
    /\ copy' = [copy EXCEPT ![c] = "held"]
    /\ UNCHANGED attempt

Accept(c) ==
    /\ copy' = [copy EXCEPT ![c] = "acked"]
    /\ UNCHANGED attempt

\* Set aside for a human, whatever attempts are left.
Park(c) ==
    /\ copy' = [copy EXCEPT ![c] = "parked"]
    /\ UNCHANGED attempt

\* Mutant: the last attempt is never made.
RetryOnceLess(c) ==
    IF attempt[c] + 1 < MaxAttempts
      THEN /\ copy' = [copy EXCEPT ![c] = "ready"]
           /\ attempt' = [attempt EXCEPT ![c] = @ + 1]
      ELSE /\ copy' = [copy EXCEPT ![c] = "dead"]
           /\ UNCHANGED attempt

\* A retry waits in the broker and comes back; after the last it is dead-lettered.
Retry(c) ==
    IF attempt[c] < MaxAttempts
      THEN /\ copy' = [copy EXCEPT ![c] = "ready"]
           /\ attempt' = [attempt EXCEPT ![c] = @ + 1]
      ELSE /\ copy' = [copy EXCEPT ![c] = "dead"]
           /\ UNCHANGED attempt

\* The broker hands a redelivered copy out again.  Whether the library counts
\* that as one attempt more depends on the redelivery flag it is given.
Requeue(c) ==
    /\ copy' = [copy EXCEPT ![c] = "ready"]
    /\ \/ UNCHANGED attempt
       \/ attempt[c] < MaxAttempts /\ attempt' = [attempt EXCEPT ![c] = @ + 1]
-----------------------------------------------------------------------------
(***************************************************************************)
(* One consumer that handles one message of its queue at a time, as        *)
(* acemq.Consume runs it.  A handler is a series of phases named by pc; it *)
(* ends in "accept", "retry" or "park", the Ack it returns.  (Payments has *)
(* several consumers and keeps their places itself.)                       *)
(***************************************************************************)
VARIABLES pc,           \* the phase of the handler, "idle" between messages
          msg,          \* the copy being handled, or the last one that was
          stale         \* that copy went back to the broker meanwhile

Deliver(first) ==
    /\ pc = "idle"
    /\ \E c \in Copies : Take(c) /\ msg' = c
    /\ pc' = first
    /\ stale' = FALSE

\* On a delivery the broker already took back the verdict goes nowhere.
Settle ==
    /\ \/ stale /\ pc \in {"accept", "retry", "park"} /\ UNCHANGED <<copy, attempt>>
       \/ ~stale /\ pc = "accept" /\ Accept(msg)
       \/ ~stale /\ pc = "retry" /\ Retry(msg)
       \/ ~stale /\ pc = "park" /\ Park(msg)
    /\ pc' = "idle"
    /\ UNCHANGED <<msg, stale>>

\* The process dies in the middle of a message.
Die ==
    /\ pc # "idle"
    /\ IF stale THEN UNCHANGED <<copy, attempt>> ELSE Requeue(msg)
    /\ pc' = "idle"
    /\ UNCHANGED <<msg, stale>>

\* The connection drops, and the handler goes on without knowing.
Drop ==
    /\ pc # "idle" /\ ~stale
    /\ Requeue(msg)
    /\ stale' = TRUE
    /\ UNCHANGED <<pc, msg>>
=============================================================================
