------------------------------- MODULE Tracing -------------------------------
(***************************************************************************)
(* advanced/06-tracing: a publish opens a span and an interceptor writes   *)
(* its identity into the headers; a delivery opens a span whose parent is  *)
(* what the headers say, and the engine ends it with what became of the    *)
(* message, which is not always what the handler asked for.                *)
(***************************************************************************)
EXTENDS Naturals, FiniteSets

CONSTANTS Sent,         \* messages
          Traced,       \* those published inside a trace
          Tries,        \* attempts in all
          MaxReturned   \* bound: settlements lost with a connection

VARIABLES headers,      \* message -> the trace its headers carry
          publishSpans, \* messages whose publish has a span
          tried,        \* message -> its attempt
          place,        \* message -> "new", "queue", "handler", "asked", "done", "dead"
          asks,         \* message -> what its handler asked for
          spans,        \* consumer spans: [of, try, parent, trace, outcome], "open" or ended
          ambient,      \* the trace of whatever this process published last
          returned

vars == <<headers, publishSpans, tried, place, asks, spans, ambient, returned>>

NoTrace == "none"

Init ==
    /\ headers = [m \in Sent |-> NoTrace] /\ publishSpans = {}
    /\ tried = [m \in Sent |-> 1] /\ place = [m \in Sent |-> "new"]
    /\ asks = [m \in Sent |-> "accept"] /\ spans = {} /\ ambient = NoTrace
    /\ returned = 0

\* The interceptor of the connection: nothing to write where nothing is traced.
Intercept(m) ==
    headers' = [headers EXCEPT ![m] = IF m \in Traced THEN m ELSE NoTrace]

Publish(m) ==
    /\ place[m] = "new" /\ place' = [place EXCEPT ![m] = "queue"]
    /\ Intercept(m)
    /\ publishSpans' = IF m \in Traced THEN publishSpans \cup {m} ELSE publishSpans
    /\ ambient' = IF m \in Traced THEN m ELSE ambient
    /\ UNCHANGED <<tried, asks, spans, returned>>

Open(m) ==
    spans' = spans \cup {[of |-> m, try |-> tried[m], no |-> Cardinality(spans),
                          parent |-> headers[m], outcome |-> "open"]}

Deliver(m) ==
    /\ place[m] = "queue" /\ place' = [place EXCEPT ![m] = "handler"]
    /\ Open(m)
    /\ UNCHANGED <<headers, publishSpans, tried, asks, ambient, returned>>

Return(m, ask) ==
    /\ place[m] = "handler" /\ place' = [place EXCEPT ![m] = "asked"]
    /\ asks' = [asks EXCEPT ![m] = ask]
    /\ UNCHANGED <<headers, publishSpans, tried, spans, ambient, returned>>

OpenOf(m) == CHOOSE s \in spans : s.of = m /\ s.outcome = "open"
Ended(m, outcome) == spans' = (spans \ {OpenOf(m)}) \cup {[OpenOf(m) EXCEPT !.outcome = outcome]}

\* The engine settles the message and ends the span with what it did: a retry on
\* the last attempt is a dead letter.
Settle(m) ==
    /\ place[m] = "asked"
    /\ \/ /\ asks[m] = "accept" /\ Ended(m, "acked")
          /\ place' = [place EXCEPT ![m] = "done"] /\ UNCHANGED tried
       \/ /\ asks[m] = "retry" /\ tried[m] < Tries /\ Ended(m, "retried")
          /\ place' = [place EXCEPT ![m] = "queue"] /\ tried' = [tried EXCEPT ![m] = @ + 1]
       \/ /\ asks[m] = "retry" /\ tried[m] = Tries /\ Ended(m, "dead-lettered")
          /\ place' = [place EXCEPT ![m] = "dead"] /\ UNCHANGED tried
    /\ UNCHANGED <<headers, publishSpans, asks, ambient, returned>>

\* The settlement is lost and the message delivered again, under the same attempt.
Lose(m) ==
    /\ place[m] = "asked" /\ returned < MaxReturned /\ returned' = returned + 1
    /\ place' = [place EXCEPT ![m] = "queue"] /\ Ended(m, "failed")
    /\ UNCHANGED <<headers, publishSpans, tried, asks, ambient>>

Engine ==
    \E m \in Sent : Publish(m) \/ Deliver(m) \/ Settle(m) \/ \E a \in {"accept", "retry"} : Return(m, a)

Next == Engine \/ \E m \in Sent : Lose(m)

Spec == Init /\ [][Next]_vars
-----------------------------------------------------------------------------
\* The join comes off the message: every delivery of a traced message, a repeated
\* one too, is a child of its publish, and an untraced one is a root of its own,
\* whatever else was published in between.
JoinedToItsPublish ==
    \A s \in spans : s.parent = (IF s.of \in publishSpans THEN s.of ELSE NoTrace)

\* A trace search and a dashboard agree: a message is dead exactly if one of its
\* spans says so, and a span that says retried has another after it, or will.
OutcomeIsTheEngines ==
    \A m \in Sent :
        /\ (place[m] = "dead") <=> \E s \in spans : s.of = m /\ s.outcome = "dead-lettered"
        /\ \A s \in spans : s.of = m /\ s.outcome = "retried" => tried[m] > s.try

\* No span is left open once its message has been settled, so that waiting for
\* the spans that ended is waiting for the deliveries.
NoSpanStaysOpen ==
    \A m \in Sent :
        Cardinality({s \in spans : s.of = m /\ s.outcome = "open"})
            = (IF place[m] \in {"handler", "asked"} THEN 1 ELSE 0)
=============================================================================
