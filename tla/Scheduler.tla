------------------------------- MODULE Scheduler -------------------------------
(***************************************************************************)
(* intermediate/05-scheduling: messages delivered later by a ladder of     *)
(* queues, each with one time to live, that dead-letter into a control     *)
(* queue.  Its consumer delivers a message when less than the smallest     *)
(* rung is left, and otherwise sends it down the largest rung that does    *)
(* not overshoot.  A rung expires from its head only, so it is a sequence. *)
(*                                                                         *)
(* The clock counts in a unit of which the smallest rung holds several.    *)
(***************************************************************************)
EXTENDS Naturals, SequencesExt, FiniteSetsExt

CONSTANTS Reminders,    \* what is scheduled, each once
          Delays,       \* the delays asked for, 0 for a moment gone by
          Rungs,        \* times to live of the ladder
          Horizon,      \* bound of the clock
          MaxFaults     \* bound: deliveries that are repeated

VARIABLES now,
          due,          \* when each scheduled reminder is to be delivered
          control,      \* acemq.schedule.due: what waits for the scheduler
          rung,         \* the queue of each rung, heads first: [what, out]
          arrivals,     \* when each reminder reached its queue, oldest first
          faults

vars == <<now, due, control, rung, arrivals, faults>>

Smallest == Min(Rungs)

\* What is left until r is due.
Left(r) == IF due[r] > now THEN due[r] - now ELSE 0

RungFor(left) == Max({t \in Rungs : t <= left})

Init ==
    /\ now = 0
    /\ due = <<>>
    /\ control = {}
    /\ rung = [t \in Rungs |-> <<>>]
    /\ arrivals = [r \in Reminders |-> <<>>]
    /\ faults = 0

Deliver(r) == arrivals' = [arrivals EXCEPT ![r] = Append(@, now)]

\* A rung has one time to live, for whatever goes down it.
Ttl(t, left) == t

Climb(r, left) ==
    LET t == RungFor(left) IN
    rung' = [rung EXCEPT ![t] = Append(@, [what |-> r, out |-> now + Ttl(t, left)])]

Lead == Smallest

Schedule(r, delay) ==
    /\ r \notin DOMAIN due
    /\ due' = [x \in DOMAIN due \cup {r} |-> IF x = r THEN now + delay ELSE due[x]]
    /\ IF delay < Lead
         THEN Deliver(r) /\ UNCHANGED rung
         ELSE Climb(r, delay) /\ UNCHANGED arrivals
    /\ UNCHANGED <<now, control, faults>>

\* The head of a rung has waited its time, and is dead-lettered.
Expire(t) ==
    /\ rung[t] # <<>> /\ Head(rung[t]).out <= now
    /\ control' = control \cup {Head(rung[t]).what}
    /\ rung' = [rung EXCEPT ![t] = Tail(@)]
    /\ UNCHANGED <<now, due, arrivals, faults>>

\* The scheduler's consumer, which publishes before it settles: one that dies in
\* between does the same again.
Control(r) ==
    /\ r \in control
    /\ IF Left(r) < Lead THEN Deliver(r) /\ UNCHANGED rung
                         ELSE Climb(r, Left(r)) /\ UNCHANGED arrivals
    /\ \/ control' = control \ {r} /\ UNCHANGED faults
       \/ faults < MaxFaults /\ faults' = faults + 1 /\ UNCHANGED control
    /\ UNCHANGED <<now, due>>

\* The broker and the scheduler keep up, or the clock would mean nothing.
Tick ==
    /\ now < Horizon
    /\ control = {}
    /\ \A t \in Rungs : rung[t] # <<>> => Head(rung[t]).out > now
    /\ now' = now + 1
    /\ UNCHANGED <<due, control, rung, arrivals, faults>>

Next ==
    \/ \E r \in Reminders, d \in Delays : Schedule(r, d)
    \/ \E t \in Rungs : Expire(t)
    \/ \E r \in Reminders : Control(r)
    \/ Tick

Spec == Init /\ [][Next]_vars

\* The clock, the broker and the scheduler go on.
KeepsUp == Tick \/ (\E t \in Rungs : Expire(t)) \/ \E r \in Reminders : Control(r)
-----------------------------------------------------------------------------
\* A reminder is early by less than the smallest rung, and never late, whatever
\* else is on the ladder.
OnTimeByARung ==
    \A r \in DOMAIN due : \A i \in 1..Len(arrivals[r]) :
        arrivals[r][i] + Smallest > due[r] /\ arrivals[r][i] <= due[r]

\* Everything in a rung has the same delay, so nothing is stuck behind a message
\* that is due later.
NobodyWaitsBehind ==
    \A t \in Rungs : \A i, j \in 1..Len(rung[t]) :
        i < j => rung[t][i].out <= rung[t][j].out

\* A reminder is delivered again only when the scheduler died before it settled.
RemindedOnce == \A r \in Reminders : Len(arrivals[r]) <= 1 + faults

\* Nothing falls off the ladder: what was scheduled arrives, clock permitting.
EveryReminderArrives ==
    \A r \in Reminders :
        r \in DOMAIN due /\ due[r] <= Horizon ~> arrivals[r] # <<>>
=============================================================================
