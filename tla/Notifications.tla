--------------------------- MODULE Notifications ----------------------------
(***************************************************************************)
(* apps/01-order-fulfilment/notifications: the customer's timeline.        *)
(*                                                                         *)
(* One consumer on a queue bound to every event appends each message's     *)
(* type to the timeline of the order its correlation id names.  It handles *)
(* one message at a time, so the queue is a sequence and only its head can *)
(* be unacknowledged.  The timelines are in memory.                        *)
(***************************************************************************)
EXTENDS Sequences, Naturals

CONSTANTS Orders, Types, MaxFaults

VARIABLES
    inbox,      \* messages of the queue, oldest first: an order and a type each
    handled,    \* the head was appended and is not acknowledged yet
    timeline,   \* what TimelineOf returns, per order
    forgotten,  \* history: the process died and its timelines with it
    faults      \* faults so far

vars == <<inbox, handled, timeline, forgotten, faults>>

Fault == faults < MaxFaults /\ faults' = faults + 1

Init ==
    /\ inbox = <<>>
    /\ handled = FALSE
    /\ timeline = [o \in Orders |-> <<>>]
    /\ forgotten = FALSE
    /\ faults = 0

\* The broker routes an event to the queue.
Arrive(o, type) ==
    /\ inbox' = Append(inbox, <<o, type>>)
    /\ UNCHANGED <<handled, timeline, forgotten>>

\* Mutant: the newest message is shown first.
HandleNewest ==
    /\ inbox # <<>> /\ ~handled
    /\ LET newest == inbox[Len(inbox)]
       IN  timeline' = [timeline EXCEPT ![newest[1]] = Append(@, newest[2])]
    /\ handled' = TRUE
    /\ UNCHANGED <<inbox, forgotten, faults>>

Handle ==
    /\ inbox # <<>> /\ ~handled
    /\ LET order == Head(inbox)[1]
       IN  timeline' = [timeline EXCEPT ![order] = Append(@, Head(inbox)[2])]
    /\ handled' = TRUE
    /\ UNCHANGED <<inbox, forgotten, faults>>

Accept ==
    /\ handled
    /\ inbox' = Tail(inbox)
    /\ handled' = FALSE
    /\ UNCHANGED <<timeline, forgotten, faults>>

\* The broker gives the head out again, to a handler that keeps no record of ids.
ConnectionDropped ==
    /\ handled
    /\ Fault
    /\ handled' = FALSE
    /\ UNCHANGED <<inbox, timeline, forgotten>>

Crash ==
    /\ Fault
    /\ handled' = FALSE
    /\ timeline' = [o \in Orders |-> <<>>]
    /\ forgotten' = TRUE
    /\ UNCHANGED inbox

Work == Handle \/ Accept

Failure == ConnectionDropped \/ Crash

Step == Work \/ Failure

Next ==
    \/ \E o \in Orders, t \in Types : Arrive(o, t) /\ UNCHANGED faults
    \/ Step

Spec == Init /\ [][Next]_vars
=============================================================================
