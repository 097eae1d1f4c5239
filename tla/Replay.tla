-------------------------------- MODULE Replay --------------------------------
(***************************************************************************)
(* basic/04-replay: dead letters go back to the queue they came from, in   *)
(* two stages with a filter, while the service that handles them runs.     *)
(* The service counts what it handled and tells two wait groups.           *)
(***************************************************************************)
EXTENDS Integers, FiniteSets, Sequences, SequencesExt

CONSTANTS Invoices,     \* what is on the dead-letter queue, in its order
          Fixed,        \* those of the tenant the fix is deployed for
          MostMoved,    \* Limit of a replay
          MaxLost       \* bound: settlements lost, of the replay or the service

VARIABLES deadLetters,  \* the dead-letter queue
          aside,        \* what this replay declined, held until it is over
          moving,       \* the message the replay has published and not settled
          queued,       \* the queue the service reads
          handlings,    \* invoices in the order they were handled
          stage,        \* "first", "wait acme", "second", "wait rest", "over", "panicked"
          moved,        \* by this replay
          open,         \* the two wait groups
          settlementsLost

vars == <<deadLetters, aside, moving, queued, handlings, stage, moved, open, settlementsLost>>

None == "none"
InOrder == Invoices
All == {Invoices[i] : i \in DOMAIN Invoices}

\* How many of them are the fixed tenant's.
FixedOnes == Cardinality({n \in DOMAIN Invoices : Invoices[n] \in Fixed})

Init ==
    /\ deadLetters = InOrder /\ aside = <<>> /\ moving = None /\ queued = <<>>
    /\ handlings = <<>> /\ stage = "first" /\ moved = 0
    /\ open = [g \in {"acme", "rest"} |-> IF g = "acme" THEN FixedOnes ELSE Len(Invoices) - FixedOnes]
    /\ settlementsLost = 0

Replaying == stage \in {"first", "second"}

Filter(i) == stage = "first" => i \in Fixed

\* Mutant: the message is settled first, and published after.
MoveSettlingFirst ==
    /\ Replaying /\ moving = None /\ deadLetters # <<>> /\ moved < MostMoved
    /\ Filter(Head(deadLetters))
    /\ deadLetters' = Tail(deadLetters) /\ moved' = moved + 1
    /\ \/ queued' = Append(queued, Head(deadLetters)) /\ UNCHANGED settlementsLost
       \/ settlementsLost < MaxLost /\ settlementsLost' = settlementsLost + 1 /\ UNCHANGED queued
    /\ UNCHANGED <<aside, moving, handlings, stage, open>>

\* Taken and published to the queue it came from.
Move ==
    /\ Replaying /\ moving = None /\ deadLetters # <<>> /\ moved < MostMoved
    /\ Filter(Head(deadLetters))
    /\ moving' = Head(deadLetters) /\ deadLetters' = Tail(deadLetters)
    /\ queued' = Append(queued, Head(deadLetters)) /\ moved' = moved + 1
    /\ UNCHANGED <<aside, handlings, stage, open, settlementsLost>>

\* Settled; or the settlement is lost and the dead letter is where it was, moved
\* or not.
SettleMoved ==
    /\ moving # None /\ moving' = None
    /\ \/ UNCHANGED <<deadLetters, settlementsLost>>
       \/ /\ settlementsLost < MaxLost /\ settlementsLost' = settlementsLost + 1
          /\ deadLetters' = <<moving>> \o deadLetters
    /\ UNCHANGED <<aside, queued, handlings, stage, moved, open>>

\* What the filter declines is left where it was.
Decline ==
    /\ Replaying /\ moving = None /\ deadLetters # <<>> /\ moved < MostMoved
    /\ ~Filter(Head(deadLetters))
    /\ aside' = Append(aside, Head(deadLetters)) /\ deadLetters' = Tail(deadLetters)
    /\ UNCHANGED <<moving, queued, handlings, stage, moved, open, settlementsLost>>

\* At the end of the queue, or at the limit.
EndReplay ==
    /\ Replaying /\ moving = None /\ (deadLetters = <<>> \/ moved = MostMoved)
    /\ deadLetters' = aside \o deadLetters /\ aside' = <<>> /\ moved' = 0
    /\ stage' = IF stage = "first" THEN "wait acme" ELSE "wait rest"
    /\ UNCHANGED <<moving, queued, handlings, open, settlementsLost>>

Waited ==
    /\ \/ stage = "wait acme" /\ open["acme"] = 0 /\ stage' = "second"
       \/ stage = "wait rest" /\ open["rest"] = 0 /\ stage' = "over"
    /\ UNCHANGED <<deadLetters, aside, moving, queued, handlings, moved, open, settlementsLost>>

\* The first two handled count for one group, every other for the other one,
\* whosever they are.
Group == IF Len(handlings) + 1 <= FixedOnes THEN "acme" ELSE "rest"

\* A wait group below zero panics.  An accept that is lost brings it round again.
HandleInvoice ==
    /\ queued # <<>> /\ stage # "panicked"
    /\ handlings' = Append(handlings, Head(queued))
    /\ IF open[Group] = 0
         THEN stage' = "panicked" /\ UNCHANGED <<open, queued, settlementsLost>>
         ELSE /\ open' = [open EXCEPT ![Group] = @ - 1] /\ UNCHANGED stage
              /\ \/ queued' = Tail(queued) /\ UNCHANGED settlementsLost
                 \/ /\ settlementsLost < MaxLost /\ settlementsLost' = settlementsLost + 1
                    /\ UNCHANGED queued
    /\ UNCHANGED <<deadLetters, aside, moving, moved>>

Next == Move \/ SettleMoved \/ Decline \/ EndReplay \/ Waited \/ HandleInvoice

Spec == Init /\ [][Next]_vars
-----------------------------------------------------------------------------
\* Nothing is lost on its way back: an invoice is a dead letter, held aside, on
\* its queue, or handled.
NothingIsLostOnItsWay ==
    \A i \in All : \/ i \in ToSet(deadLetters) \cup ToSet(aside) \cup ToSet(queued)
                   \/ i \in ToSet(handlings)

\* A replay in stages: as long as the first is not over nobody else's invoice has
\* been handled.
OnlyTheFixedTenant ==
    stage \in {"first", "wait acme"} => ToSet(handlings) \subseteq Fixed

\* The service falls over only where an invoice was handled twice: once for each
\* settlement that was lost.
PanicIsARepeat ==
    stage = "panicked" => settlementsLost > 0 /\ Len(handlings) > Len(Invoices)

\* Both stages end, and every invoice has been handled, once each unless a
\* settlement was lost.
EveryInvoiceIsHandled ==
    <>(stage \in {"over", "panicked"} /\
         (settlementsLost = 0 => Len(handlings) = Len(Invoices) /\ ToSet(handlings) = All))
=============================================================================
