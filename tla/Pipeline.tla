------------------------------- MODULE Pipeline -------------------------------
(***************************************************************************)
(* intermediate/08-a-declared-pipeline: validate, reserve and dispatch,    *)
(* with a queue between each pair.  A step runs its handler, hands the     *)
(* product on and then settles, so one that dies on the way runs the rest  *)
(* of the pipeline again, and one that does not is still unsettled while   *)
(* the next step is at its product.  The program waits for two signals on  *)
(* buffered channels, and not for two orders.                              *)
(***************************************************************************)
EXTENDS Naturals, Sequences, Functions

CONSTANTS Orders, Digital,   \* what is sent in, and what of it ends at reserve
          Buffer,            \* capacity of each channel
          MaxFaults          \* bound: steps that die before they settle

VARIABLES toSend,            \* runs not yet started
          queued,            \* [order, step] -> copies the step has to handle
          returned,          \* [order, step] -> handled, the product not yet out
          passedOn,          \* [order, step] -> the product out, not yet settled
          saw,               \* [order, step] -> times the step handled it
          dispatched, stopped, \* the two channels
          heard,             \* signals the program took
          died

vars == <<toSend, queued, returned, passedOn, saw, dispatched, stopped, heard, died>>

Steps == <<"validate", "reserve", "dispatch">>
Consumers == <<1, 4, 1>>     \* StepConsumers, and one unless it is given
Cells == Orders \X (1..Len(Steps))
None == [c \in Cells |-> 0]

Init ==
    /\ toSend = Orders
    /\ queued = None /\ returned = None /\ passedOn = None /\ saw = None
    /\ dispatched = <<>> /\ stopped = <<>> /\ heard = <<>>
    /\ died = 0

Send(o) ==
    /\ o \in toSend
    /\ toSend' = toSend \ {o}
    /\ queued' = [queued EXCEPT ![<<o, 1>>] = @ + 1]
    /\ UNCHANGED <<returned, passedOn, saw, dispatched, stopped, heard, died>>

\* What a step tells the program before it returns; a full channel keeps it.
Signal(o, i) ==
    \/ /\ Steps[i] = "dispatch" /\ Len(dispatched) < Buffer
       /\ dispatched' = Append(dispatched, o) /\ UNCHANGED stopped
    \/ /\ Steps[i] = "reserve" /\ o \in Digital /\ Len(stopped) < Buffer
       /\ stopped' = Append(stopped, o) /\ UNCHANGED dispatched
    \/ /\ \/ Steps[i] = "validate"
          \/ Steps[i] = "reserve" /\ o \notin Digital
       /\ UNCHANGED <<dispatched, stopped>>

\* False from a step is a decision: nothing is published onwards.
HandsOn(o, i) == i < Len(Steps) /\ ~(Steps[i] = "reserve" /\ o \in Digital)

\* Deliveries a step's consumers have in hand.
Busy(i) == SumFunctionOnSet([o \in Orders |-> returned[<<o, i>>] + passedOn[<<o, i>>]], Orders)

\* The handler of one message of one step runs and returns.
Handle(o, i) ==
    /\ queued[<<o, i>>] > 0 /\ Busy(i) < Consumers[i]
    /\ queued' = [queued EXCEPT ![<<o, i>>] = @ - 1]
    /\ returned' = [returned EXCEPT ![<<o, i>>] = @ + 1]
    /\ saw' = [saw EXCEPT ![<<o, i>>] = @ + 1]
    /\ Signal(o, i)
    /\ UNCHANGED <<toSend, passedOn, heard, died>>

\* Its product is published to the queue of the next step.
HandOn(o, i) ==
    /\ returned[<<o, i>>] > 0
    /\ returned' = [returned EXCEPT ![<<o, i>>] = @ - 1]
    /\ passedOn' = [passedOn EXCEPT ![<<o, i>>] = @ + 1]
    /\ queued' = IF HandsOn(o, i) THEN [queued EXCEPT ![<<o, i + 1>>] = @ + 1] ELSE queued
    /\ UNCHANGED <<toSend, saw, dispatched, stopped, heard, died>>

\* Mutant: the message is settled once its handler returned, product out or not.
SettleOnReturn(o, i) ==
    /\ \/ /\ returned[<<o, i>>] > 0 /\ UNCHANGED passedOn
          /\ returned' = [returned EXCEPT ![<<o, i>>] = @ - 1]
       \/ /\ passedOn[<<o, i>>] > 0 /\ UNCHANGED returned
          /\ passedOn' = [passedOn EXCEPT ![<<o, i>>] = @ - 1]
    /\ UNCHANGED <<toSend, queued, saw, dispatched, stopped, heard, died>>

Settle(o, i) ==
    /\ passedOn[<<o, i>>] > 0
    /\ passedOn' = [passedOn EXCEPT ![<<o, i>>] = @ - 1]
    /\ UNCHANGED <<toSend, queued, returned, saw, dispatched, stopped, heard, died>>

\* A step dies, or loses its connection, before the hand-over or after it, and
\* the message is delivered again.
Die(o, i) ==
    /\ died < MaxFaults /\ died' = died + 1
    /\ \/ /\ returned[<<o, i>>] > 0 /\ UNCHANGED passedOn
          /\ returned' = [returned EXCEPT ![<<o, i>>] = @ - 1]
       \/ /\ passedOn[<<o, i>>] > 0 /\ UNCHANGED returned
          /\ passedOn' = [passedOn EXCEPT ![<<o, i>>] = @ - 1]
    /\ queued' = [queued EXCEPT ![<<o, i>>] = @ + 1]
    /\ UNCHANGED <<toSend, saw, dispatched, stopped, heard>>

\* The select of the program, which looks twice.
Hear ==
    /\ Len(heard) < 2 /\ toSend = {}
    /\ \/ dispatched # <<>> /\ heard' = Append(heard, Head(dispatched))
          /\ dispatched' = Tail(dispatched) /\ UNCHANGED stopped
       \/ stopped # <<>> /\ heard' = Append(heard, Head(stopped))
          /\ stopped' = Tail(stopped) /\ UNCHANGED dispatched
    /\ UNCHANGED <<toSend, queued, returned, passedOn, saw, died>>

Next ==
    \/ \E o \in Orders : Send(o)
    \/ \E o \in Orders, i \in 1..Len(Steps) :
          Handle(o, i) \/ HandOn(o, i) \/ Settle(o, i) \/ Die(o, i)
    \/ Hear

Spec == Init /\ [][Next]_vars
-----------------------------------------------------------------------------
\* How often a step has an order to handle in the end: what it saw, what it has
\* not, and what the steps before it have still to hand on.
Due(o, i) ==
    saw[<<o, i>>] + queued[<<o, i>>]
        + (IF i > 1 THEN returned[<<o, 1>>] + queued[<<o, 1>>] ELSE 0)
        + (IF i > 2 THEN returned[<<o, 2>>] + queued[<<o, 2>>] ELSE 0)

\* However the four reservers and the other steps overtake each other, no step is
\* ever to handle an order more than once, but for the deaths of this one and
\* those before it; and dispatch never sees one that ended at reserve.
RepeatsAreDeaths ==
    \A o \in Orders :
        /\ \A i \in 1..Len(Steps) : Due(o, i) <= 1 + died
        /\ o \in Digital => saw[<<o, Len(Steps)>>] = 0

\* What the program prints at the end is about two different orders: the wait on
\* two signals is one for two runs, as long as no step was repeated.
HeardOfBoth ==
    Len(heard) = 2 /\ heard[1] = heard[2] => died > 0

\* Every run is with a step that has still to hand it on, or the last step it was
\* meant for has seen it: nothing is settled before its product is out.
NoRunIsLost ==
    \A o \in Orders \ toSend :
        \/ \E i \in 1..Len(Steps) : queued[<<o, i>>] + returned[<<o, i>>] > 0
        \/ saw[<<o, IF o \in Digital THEN 2 ELSE Len(Steps)>>] > 0

\* The program hears what it waits for.
TheProgramEnds == <>(Len(heard) >= 2)
=============================================================================
