----------------------------- MODULE RequestReply -----------------------------
(***************************************************************************)
(* intermediate/01-request-reply: many callers share one requester and its *)
(* reply queue, and a responder answers from several handlers at once, so  *)
(* that replies come back in any order.  A caller's wait is bounded; an    *)
(* answer nobody waits for any more is dropped.                            *)
(***************************************************************************)
EXTENDS Naturals, FiniteSetsExt

CONSTANTS Callers,      \* goroutines that call Do
          Sku,          \* what each asks about: a length, or 0 for "unknown"
          Concurrency,  \* handlers of the responder
          MaxRepeats    \* bound: requests answered and then handed out again

VARIABLES call,         \* what each call of Do came to
          requests,     \* on the queue "prices"
          answering,    \* with a handler of the responder
          replies,      \* on the reply queue: [to, says], to a correlation id
          answered      \* requests handed out again after their answer

vars == <<call, requests, answering, replies, answered>>

Idle == [is |-> "idle"]
Waiting == [is |-> "waiting"]
TimedOut == [is |-> "timeout"]
Failed == [is |-> "failed"]

\* The handler: a failure is an answer too.
Price(sku) == IF sku = 0 THEN Failed ELSE [is |-> "priced", cents |-> sku * 100]

Init ==
    /\ call = [c \in Callers |-> Idle]
    /\ requests = {} /\ answering = {} /\ replies = {} /\ answered = 0

Do(c) ==
    /\ call[c] = Idle
    /\ call' = [call EXCEPT ![c] = Waiting]
    /\ requests' = requests \cup {c}
    /\ UNCHANGED <<answering, replies, answered>>

TakeRequest(c) ==
    /\ c \in requests /\ Cardinality(answering) < Concurrency
    /\ requests' = requests \ {c}
    /\ answering' = answering \cup {c}
    /\ UNCHANGED <<call, replies, answered>>

\* The answer is published, and then the request settled, or handed out again.
Serve(c) ==
    /\ c \in answering
    /\ answering' = answering \ {c}
    /\ replies' = replies \cup {[to |-> c, says |-> Price(Sku[c])]}
    /\ \/ UNCHANGED <<requests, answered>>
       \/ /\ answered < MaxRepeats /\ answered' = answered + 1
          /\ requests' = requests \cup {c}
    /\ UNCHANGED call

\* The responder dies with the request in hand.
Abandon(c) ==
    /\ c \in answering /\ answered < MaxRepeats
    /\ answered' = answered + 1
    /\ answering' = answering \ {c} /\ requests' = requests \cup {c}
    /\ UNCHANGED <<call, replies>>

\* Mutant: the answer goes to a caller that waits, not to the one that asked.
ReplyToAnybody(r) ==
    /\ r \in replies
    /\ replies' = replies \ {r}
    /\ \E c \in Callers : call[c] = Waiting /\ call' = [call EXCEPT ![c] = r.says]
    /\ UNCHANGED <<requests, answering, answered>>

\* Paired by correlation id with a caller that waits, or dropped.
Reply(r) ==
    /\ r \in replies
    /\ replies' = replies \ {r}
    /\ call' = IF call[r.to] = Waiting THEN [call EXCEPT ![r.to] = r.says] ELSE call
    /\ UNCHANGED <<requests, answering, answered>>

TimeOut(c) ==
    /\ call[c] = Waiting
    /\ call' = [call EXCEPT ![c] = TimedOut]
    /\ UNCHANGED <<requests, answering, replies, answered>>

Next ==
    \/ \E c \in Callers : Do(c) \/ TakeRequest(c) \/ Serve(c) \/ Abandon(c) \/ TimeOut(c)
    \/ \E r \in replies : Reply(r)

Spec == Init /\ [][Next]_vars
-----------------------------------------------------------------------------
\* Ten concurrent requests, each got its own answer: out of order, after a
\* repeat, or beside somebody's timeout.
OwnAnswer ==
    \A c \in Callers : call[c].is = "priced" => call[c].cents = Sku[c] * 100

\* A caller of an unknown product learns of the failure, and nobody else does.
FailureIsAnAnswer ==
    \A c \in Callers :
        /\ call[c] = Failed => Sku[c] = 0
        /\ Sku[c] = 0 => call[c] \in {Idle, Waiting, TimedOut, Failed}

\* What Do returned stands, whatever arrives later.
ReturnedIsFinal ==
    [][\A c \in Callers : call[c] \notin {Idle, Waiting} => call'[c] = call[c]]_call
=============================================================================
