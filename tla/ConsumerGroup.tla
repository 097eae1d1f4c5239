---------------------------- MODULE ConsumerGroup ----------------------------
(***************************************************************************)
(* intermediate/09-consumer-groups: the same invoices handled by a group   *)
(* of consumers and then by one consumer with as many handlers.  What can  *)
(* be in hand at once is the prefetch of each consumer, or the handlers    *)
(* behind it, whichever is less.  A watcher counts the handlers running    *)
(* and closes its channel at the last invoice.                             *)
(***************************************************************************)
EXTENDS Naturals, FiniteSetsExt

CONSTANTS Invoices,
          Size,         \* consumers of the group, and handlers of the single one
          Prefetch,
          MaxDrops      \* bound: channels lost while deliveries are handled

VARIABLES round,        \* "group", "single", "over"
          phase,        \* of the round: "fill", "run", "closing"
          backlog,      \* invoice -> messages on the queue
          unsettled,    \* consumer -> invoices it holds, as a set of [what, tag]
          working,      \* handlers running: [round, at, what, tag]
          most,         \* round -> the most seen running at once
          tally,        \* round -> invoice -> times handled
          closes,       \* round -> times its done channel was closed
          tag, drops

vars == <<round, phase, backlog, unsettled, working, most, tally, closes, tag, drops>>

Rounds == {"group", "single"}
Members == IF round = "group" THEN 1..Size ELSE {1}
Handlers == IF round = "group" THEN 1 ELSE Size

Init ==
    /\ round = "group" /\ phase = "fill"
    /\ backlog = [v \in Invoices |-> 0]
    /\ unsettled = [c \in 1..Size |-> {}] /\ working = {}
    /\ most = [r \in Rounds |-> 0] /\ closes = [r \in Rounds |-> 0]
    /\ tally = [r \in Rounds |-> [v \in Invoices |-> 0]]
    /\ tag = 0 /\ drops = 0

Fill ==
    /\ phase = "fill" /\ round \in Rounds
    /\ backlog' = [v \in Invoices |-> backlog[v] + 1]
    /\ phase' = "run"
    /\ UNCHANGED <<round, unsettled, working, most, tally, closes, tag, drops>>

\* A consumer is handed a message while it holds fewer than its prefetch, and
\* starts a handler while one is free.
HasRoom(c) ==
    /\ Cardinality(unsettled[c]) < Prefetch
    /\ Cardinality({w \in working : w.at = c}) < Handlers

Enter(c, v) ==
    /\ phase = "run" /\ c \in Members /\ backlog[v] > 0
    /\ HasRoom(c)
    /\ backlog' = [backlog EXCEPT ![v] = @ - 1]
    /\ tag' = tag + 1
    /\ unsettled' = [unsettled EXCEPT ![c] = @ \cup {[what |-> v, tag |-> tag']}]
    /\ working' = working \cup {[round |-> round, at |-> c, what |-> v, tag |-> tag']}
    /\ most' = [most EXCEPT ![round] = IF Cardinality(working') > @ THEN Cardinality(working') ELSE @]
    /\ UNCHANGED <<round, phase, tally, closes, drops>>

Seen(r) == SumFunction(tally[r])

\* Mutant: the invoices are counted before this one is added.
LeaveCountingLate(w) ==
    /\ w \in working
    /\ working' = working \ {w}
    /\ tally' = [tally EXCEPT ![w.round][w.what] = @ + 1]
    /\ closes' = [closes EXCEPT ![w.round] =
                     IF Seen(w.round) = Cardinality(Invoices) THEN @ + 1 ELSE @]
    /\ unsettled' = [unsettled EXCEPT ![w.at] = @ \ {[what |-> w.what, tag |-> w.tag]}]
    /\ UNCHANGED <<round, phase, backlog, most, tag, drops>>

\* The handler's end, and the Accept, which settles nothing if the delivery was
\* taken back.
Leave(w) ==
    /\ w \in working
    /\ working' = working \ {w}
    /\ tally' = [tally EXCEPT ![w.round][w.what] = @ + 1]
    /\ closes' = [closes EXCEPT ![w.round] =
                     IF Seen(w.round) + 1 = Cardinality(Invoices) THEN @ + 1 ELSE @]
    /\ unsettled' = [unsettled EXCEPT ![w.at] = @ \ {[what |-> w.what, tag |-> w.tag]}]
    /\ UNCHANGED <<round, phase, backlog, most, tag, drops>>

\* A consumer's channel is lost: the broker has its messages back, the handlers
\* go on, and the consumer attaches again.
Drop(c) ==
    /\ unsettled[c] # {} /\ drops < MaxDrops
    /\ drops' = drops + 1
    /\ backlog' = [v \in Invoices |->
                      backlog[v] + Cardinality({u \in unsettled[c] : u.what = v})]
    /\ unsettled' = [unsettled EXCEPT ![c] = {}]
    /\ UNCHANGED <<round, phase, working, most, tally, closes, tag>>

\* finished, and then Close, which takes no more messages.
Finished ==
    /\ phase = "run" /\ closes[round] > 0
    /\ phase' = "closing"
    /\ UNCHANGED <<round, backlog, unsettled, working, most, tally, closes, tag, drops>>

Close ==
    /\ phase = "closing" /\ working = {}
    /\ round' = IF round = "group" THEN "single" ELSE "over"
    /\ phase' = "fill"
    /\ UNCHANGED <<backlog, unsettled, working, most, tally, closes, tag, drops>>

Handling ==
    \/ \E c \in 1..Size, v \in Invoices : Enter(c, v)
    \/ \E w \in working : Leave(w)

Next ==
    \/ Fill \/ Handling \/ Finished \/ Close
    \/ \E c \in 1..Size : Drop(c)

\* All but the drops.
Goes == Fill \/ Handling \/ Finished \/ Close

Spec == Init /\ [][Next]_vars
-----------------------------------------------------------------------------
\* The claim of the pattern: as many at once as there are prefetches, in one
\* consumer no more than its own, once more for each channel it lost.
AtOnceIsPrefetch ==
    /\ most["group"] <= Size * Prefetch
    /\ most["single"] <= Prefetch * (1 + drops)

\* The group may have every invoice in hand at once: while one waits, no member
\* that could take it is idle for want of another's prefetch.
NobodyWaitsForAnothersPrefetch ==
    phase = "run" => \A c \in Members :
        unsettled[c] = {} /\ {w \in working : w.at = c} = {} => HasRoom(c)

\* The done channel is closed once, whatever is handled again: a second close
\* would be a panic.
ClosedOnce == \A r \in Rounds : closes[r] <= 1

\* Closed means that every invoice was handled once, or something was handled
\* twice because a delivery was dropped.
DoneMeansEach ==
    \A r \in Rounds : closes[r] > 0 /\ drops = 0 =>
        \A v \in Invoices : tally[r][v] = 1

\* No handler of the group runs once its Close has returned.
ClosedIsQuiet == \A w \in working : w.round = round

\* Both rounds are over in the end.
BothRoundsEnd == <>(round = "over")
=============================================================================
