--------------------------- MODULE GracefulShutdown ---------------------------
(***************************************************************************)
(* intermediate/11-graceful-shutdown: one shutdown after another, each of  *)
(* a consumer with its own handler and prefetch, closed while a message is *)
(* in hand.  Close hands back what was not started and waits for what was, *)
(* but for no longer than its bound; then the channel is let go of, and a  *)
(* handler that still runs settles nothing.                                *)
(***************************************************************************)
EXTENDS Naturals, Sequences, FiniteSetsExt

CONSTANTS Orders,
          Runs          \* sequence of [handler, prefetch]; handler is "finishes",
                        \* "stuck" until released, or "watches" its context

VARIABLES nth,          \* the shutdown under way
          stage,        \* consuming, draining, cancelled, closed
          onQueue, fetched, running, \* where the orders of this run are, and
          settling,     \* the ones whose handler returned, not yet settled
          filed,        \* in the dead-letter queue, as [run, what]
          began,        \* the counter started
          accepted,     \* what the counter finished counts, as [run, what]
          stranded,     \* of the error Close returns, 0 with nil
          astray,       \* handlers of this and earlier runs nobody waits for
          cut           \* history: deliveries Close gave back unsettled, of
                        \* handlers that had begun, [run, what]

vars == <<nth, stage, onQueue, fetched, running, settling, filed, began, accepted,
          stranded, astray, cut>>

Handler == Runs[nth].handler
InHand == running \cup settling
Mark(S) == {[run |-> nth, what |-> o] : o \in S}

Fresh ==
    /\ stage' = "consuming" /\ onQueue' = Orders /\ fetched' = {}
    /\ running' = {} /\ settling' = {}
    /\ filed' = {} /\ began' = 0 /\ accepted' = {} /\ stranded' = 0

Init ==
    /\ nth = 1 /\ stage = "consuming"
    /\ onQueue = Orders /\ fetched = {} /\ running = {} /\ settling = {}
    /\ filed = {} /\ began = 0 /\ accepted = {} /\ stranded = 0
    /\ astray = {} /\ cut = {}

\* The queues are deleted and filled again, the counters reset.
NextRun ==
    /\ stage = "closed" /\ nth < Len(Runs)
    /\ nth' = nth + 1
    /\ Fresh
    /\ UNCHANGED <<astray, cut>>

\* Mutant: deliveries go on until the channel is let go of.
DeliveringOn == stage \in {"consuming", "draining"}

Delivering == stage = "consuming"

Fetch(o) ==
    /\ Delivering /\ o \in onQueue
    /\ Cardinality(fetched \cup InHand) < Runs[nth].prefetch
    /\ onQueue' = onQueue \ {o} /\ fetched' = fetched \cup {o}
    /\ UNCHANGED <<nth, stage, running, settling, filed, began, accepted, stranded, astray, cut>>

Begin(o) ==
    /\ Delivering /\ o \in fetched /\ InHand = {}
    /\ fetched' = fetched \ {o} /\ running' = {o}
    /\ began' = began + 1
    /\ UNCHANGED <<nth, stage, onQueue, settling, filed, accepted, stranded, astray, cut>>

\* The handler counts its work and returns; its ack is still to be sent.
Complete(o) ==
    /\ o \in running /\ Handler # "stuck"
    /\ running' = running \ {o} /\ settling' = settling \cup {o}
    /\ accepted' = accepted \cup Mark({o})
    /\ UNCHANGED <<nth, stage, onQueue, fetched, filed, began, stranded, astray, cut>>

\* Its context cancelled, the handler rejects: the consumer files the dead letter
\* itself, and acknowledges the delivery after that.
GiveUp(o) ==
    /\ stage = "cancelled" /\ o \in running /\ Handler = "watches"
    /\ running' = running \ {o} /\ settling' = settling \cup {o}
    /\ filed' = filed \cup Mark({o})
    /\ UNCHANGED <<nth, stage, onQueue, fetched, began, accepted, stranded, astray, cut>>

Settle(o) ==
    /\ o \in settling
    /\ settling' = settling \ {o}
    /\ UNCHANGED <<nth, stage, onQueue, fetched, running, filed, began, accepted, stranded,
                   astray, cut>>

\* SIGTERM, once a handler has started.
Drain ==
    /\ stage = "consuming" /\ began > 0
    /\ stage' = "draining"
    /\ onQueue' = onQueue \cup fetched /\ fetched' = {}
    /\ UNCHANGED <<nth, running, settling, filed, began, accepted, stranded, astray, cut>>

\* The bound: the handlers' context is cancelled, who is still at it is counted.
Cancel ==
    /\ stage = "draining" /\ InHand # {}
    /\ stage' = "cancelled" /\ stranded' = Cardinality(InHand)
    /\ UNCHANGED <<nth, onQueue, fetched, running, settling, filed, began, accepted, astray, cut>>

\* Nobody is at it any more, or the bound and its grace are over: the channel
\* goes, and the broker has back what nobody settled.
CloseReturns ==
    /\ \/ stage = "draining" /\ InHand = {}
       \/ stage = "cancelled"
    /\ stage' = "closed"
    /\ onQueue' = onQueue \cup InHand /\ running' = {} /\ settling' = {}
    /\ astray' = astray \cup Mark(running)
    /\ cut' = cut \cup Mark(InHand)
    /\ UNCHANGED <<nth, fetched, filed, began, accepted, stranded>>

\* A stranded handler ends: its ack is refused by the closed channel, but it
\* counts what it finished, or files what it gave up if the publish still goes
\* out, in whichever run that is.
EndAstray(a) ==
    /\ a \in astray
    /\ astray' = astray \ {a}
    /\ \/ /\ Runs[a.run].handler # "stuck"
          /\ accepted' = accepted \cup {a} /\ UNCHANGED filed
       \/ /\ Runs[a.run].handler = "watches"
          /\ filed' = filed \cup {a} /\ UNCHANGED accepted
       \/ /\ Runs[a.run].handler # "finishes"
          /\ UNCHANGED <<accepted, filed>>
    /\ UNCHANGED <<nth, stage, onQueue, fetched, running, settling, began, stranded, cut>>

Next ==
    \/ \E o \in Orders : Fetch(o) \/ Begin(o) \/ Complete(o) \/ GiveUp(o) \/ Settle(o)
    \/ Drain \/ Cancel \/ CloseReturns \/ NextRun
    \/ \E a \in astray : EndAstray(a)

Spec == Init /\ [][Next]_vars
-----------------------------------------------------------------------------
Ended == accepted \cup filed

\* What the program's last loop adds up, once Close is back: an order is on the
\* queue again or its handler ended, one way only.  One that is in two places was
\* taken back by Close while a handler had it, and the sum is too high by exactly
\* the handlers that ended all the same, in this run or late from an earlier one.
EveryOrderAccounted ==
    stage = "closed" =>
        /\ \A o \in Orders : o \in onQueue \/ [run |-> nth, what |-> o] \in Ended
        /\ \A r \in Ended \ cut : r.run = nth /\ r.what \notin onQueue
        /\ Cardinality(accepted) + Cardinality(filed) + Cardinality(onQueue)
              = Cardinality(Orders) + Cardinality(Ended \cap cut)

\* Close returns nil only if every handler that began came to its end and was
\* settled; otherwise its error counts at least the deliveries it took back from
\* their handlers.
StrandedIsToldOf ==
    stage = "closed" =>
        /\ stranded = 0 => Cardinality({r \in accepted : r.run = nth}) = began
        /\ Cardinality({c \in cut : c.run = nth}) <= stranded

\* The drain is as long as the handlers in hand, not as what was fetched.
NothingBeginsWhileDraining ==
    [][(stage \in {"draining", "cancelled"}) => (began' <= began)]_vars

\* Close returns, whatever the handler does.
EveryCloseReturns == \A i \in DOMAIN Runs : nth = i /\ stage = "draining" ~> nth > i \/ stage = "closed"
=============================================================================
