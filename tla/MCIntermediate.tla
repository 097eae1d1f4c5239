--------------------------- MODULE MCIntermediate ----------------------------
(***************************************************************************)
(* The examples of intermediate/, each by itself: one of them takes steps, *)
(* the others stay as they began, so that the states of one run add up and *)
(* do not multiply.                                                        *)
(***************************************************************************)
EXTENDS Naturals, Sequences, FiniteSets

CONSTANTS
    Length,                                                \* Saga
    Reminders, Delays, Rungs, Horizon, MaxRedeliveries,    \* Scheduler
    Messages, Strays, Served, NoTenant, MaxUnsettled,      \* Interceptors
    PipelineOrders, Digital, Buffer, MaxDeaths,            \* Pipeline
    GroupInvoices, Size, Prefetch, MaxDrops,               \* ConsumerGroup
    Callers, Sku, Concurrency, MaxRepeats,                 \* RequestReply
    Sends, Attempts, MaxRestarts,                          \* IdempotentConsumer
    ShutdownOrders, Runs,                                  \* GracefulShutdown
    Services, MaxSent                                      \* SchemaEvolution

VARIABLES
    example,
    sagaStep, mode, failedAt, unresolved, world, hidden,
    now, due, control, rung, arrivals, faults,
    hook, stamp, card, told, wire, waiting, handled, dead, repeats,
    toSend, queued, returned, passedOn, saw, dispatched, stopped, heard, died,
    round, phase, backlog, unsettled, working, most, tally, closes, tag, drops,
    call, requests, answering, replies, answered,
    copies, unsent, guard, inHand, deliveries, charged, everCharged, dropped,
    restarts,
    nth, stage, onQueue, fetched, running, settling, filed, began, accepted,
    stranded, astray, cut,
    registry, deployed, inFlight, decoded, sentCount

Saga == INSTANCE Saga WITH at <- sagaStep
Scheduler == INSTANCE Scheduler WITH MaxFaults <- MaxRedeliveries
Interceptors == INSTANCE Interceptors WITH Foreign <- Strays, MaxRepeats <- MaxUnsettled
Pipeline == INSTANCE Pipeline WITH Orders <- PipelineOrders, MaxFaults <- MaxDeaths
Group == INSTANCE ConsumerGroup WITH Invoices <- GroupInvoices
Rpc == INSTANCE RequestReply
Idempotent == INSTANCE IdempotentConsumer
Shutdown == INSTANCE GracefulShutdown WITH Orders <- ShutdownOrders
Schemas == INSTANCE SchemaEvolution

sagaVars == <<sagaStep, mode, failedAt, unresolved, world, hidden>>
schedulerVars == <<now, due, control, rung, arrivals, faults>>
interceptorsVars == <<hook, stamp, card, told, wire, waiting, handled, dead,
    repeats>>
pipelineVars == <<toSend, queued, returned, passedOn, saw, dispatched, stopped, heard, died>>
groupVars == <<round, phase, backlog, unsettled, working, most, tally, closes,
    tag, drops>>
rpcVars == <<call, requests, answering, replies, answered>>
idempotentVars == <<copies, unsent, guard, inHand, deliveries, charged,
    everCharged, dropped, restarts>>
shutdownVars == <<nth, stage, onQueue, fetched, running, settling, filed, began,
    accepted, stranded, astray, cut>>
schemasVars == <<registry, deployed, inFlight, decoded, sentCount>>
vars == <<example, sagaVars, schedulerVars, interceptorsVars, pipelineVars,
    groupVars, rpcVars, idempotentVars, shutdownVars, schemasVars>>

\* What the examples need of their constants, and their mains give them: bounds
\* are numbers, work is finite, and a message outlives the restarts with the
\* attempts it has.
ASSUME SagaAssumption == Length \in Nat
ASSUME TenantsAssumption == NoTenant \notin Served /\ Messages \cap Strays = {}
ASSUME ShutdownAssumption == IsFiniteSet(ShutdownOrders)
ASSUME AttemptsAssumption == /\ Sends \in Nat \ {0} /\ Attempts \in Nat /\ MaxRestarts \in Nat
                             /\ MaxRestarts + 1 < Attempts
ASSUME GroupAssumption == IsFiniteSet(GroupInvoices) /\ Size \in Nat \ {0} /\ Prefetch \in Nat \ {0}
ASSUME RungsAssumption == IsFiniteSet(Rungs) /\ Rungs # {} /\ Rungs \subseteq Nat /\ Delays \subseteq Nat
ASSUME SkuAssumption == \A c \in Callers : Sku[c] \in Nat

Examples == {"saga", "scheduler", "interceptors", "pipeline", "group", "rpc", "idempotent", "shutdown", "schemas"}

\* The turn of one example: the others keep their state.
Others(e) ==
    /\ UNCHANGED example
    /\ IF e = "saga" THEN TRUE ELSE UNCHANGED sagaVars
    /\ IF e = "scheduler" THEN TRUE ELSE UNCHANGED schedulerVars
    /\ IF e = "interceptors" THEN TRUE ELSE UNCHANGED interceptorsVars
    /\ IF e = "pipeline" THEN TRUE ELSE UNCHANGED pipelineVars
    /\ IF e = "group" THEN TRUE ELSE UNCHANGED groupVars
    /\ IF e = "rpc" THEN TRUE ELSE UNCHANGED rpcVars
    /\ IF e = "idempotent" THEN TRUE ELSE UNCHANGED idempotentVars
    /\ IF e = "shutdown" THEN TRUE ELSE UNCHANGED shutdownVars
    /\ IF e = "schemas" THEN TRUE ELSE UNCHANGED schemasVars

Init ==
    /\ example \in Examples
    /\ Saga!Init
    /\ Scheduler!Init
    /\ Interceptors!Init
    /\ Pipeline!Init
    /\ Group!Init
    /\ Rpc!Init
    /\ Idempotent!Init
    /\ Shutdown!Init
    /\ Schemas!Init

Next ==
    \/ example = "saga" /\ Saga!Next /\ Others("saga")
    \/ example = "scheduler" /\ Scheduler!Next /\ Others("scheduler")
    \/ example = "interceptors" /\ Interceptors!Next /\ Others("interceptors")
    \/ example = "pipeline" /\ Pipeline!Next /\ Others("pipeline")
    \/ example = "group" /\ Group!Next /\ Others("group")
    \/ example = "rpc" /\ Rpc!Next /\ Others("rpc")
    \/ example = "idempotent" /\ Idempotent!Next /\ Others("idempotent")
    \/ example = "shutdown" /\ Shutdown!Next /\ Others("shutdown")
    \/ example = "schemas" /\ Schemas!Next /\ Others("schemas")

Spec == Init /\ [][Next]_vars

\* What keeps going: the program and the broker, not the faults.
Progress ==
    \/ example = "saga" /\ Saga!Run /\ Others("saga")
    \/ example = "scheduler" /\ Scheduler!KeepsUp /\ Others("scheduler")
    \/ example = "pipeline" /\ Pipeline!Next /\ Others("pipeline")
    \/ example = "group" /\ Group!Goes /\ Others("group")
    \/ example = "shutdown" /\ Shutdown!Next /\ Others("shutdown")

FairSpec == Spec /\ WF_vars(Progress)
-----------------------------------------------------------------------------
\* Whatever fails on the way, no work disappears unseen: a step a failed saga
\* leaves standing is on its list, a refused delivery is dead-lettered, a run
\* of the pipeline or an order of a shutdown is somewhere or accounted for, a
\* group is done only with every invoice, a handler Close gave up on is counted
\* in its error, and a failure on purpose never uses up the last attempt at a
\* charge.
NothingIsLost ==
    /\ Saga!NothingLeftSilently
    /\ Saga!UnresolvedWasTried
    /\ Interceptors!NobodyIsDropped
    /\ Pipeline!NoRunIsLost
    /\ Group!DoneMeansEach
    /\ Shutdown!EveryOrderAccounted
    /\ Shutdown!StrandedIsToldOf
    /\ Idempotent!SomebodyPays

\* A redelivery repeats only what the code lets it repeat: a reminder and a run
\* of the pipeline for a death, a charge for a process that forgot; a channel
\* is never closed twice, one order is never taken for two, and a restart
\* registers no second version of a schema.
NothingIsDoneTwice ==
    /\ Scheduler!RemindedOnce
    /\ Pipeline!RepeatsAreDeaths
    /\ Pipeline!HeardOfBoth
    /\ Group!ClosedOnce
    /\ Idempotent!ChargedOnce
    /\ Schemas!VersionsAreSchemas

\* On queues that are shared, nobody sees what is another's: a caller gets the
\* answer or the failure of its own request, a publish goes out under its own
\* tenant, redacted, or is refused for want of one, a handler sees only tenants
\* it serves, and a reader gets the fields of the version that wrote, whichever
\* was deployed first.
EverybodyGetsTheirOwn ==
    /\ Rpc!OwnAnswer
    /\ Rpc!FailureIsAnAnswer
    /\ Interceptors!RefusedForItsTenant
    /\ Interceptors!NothingLeavesInClear
    /\ Interceptors!OnlyServedAreHandled
    /\ Schemas!AnyOrderOfDeployment

\* Things happen in the order that matters: nothing is undone while a later
\* step stands on it, a reminder is early by less than a rung and never behind
\* one due later, a group has as many invoices in hand as it has prefetches,
\* nobody waits for another's, and none of its handlers outlives its Close.
InItsTurn ==
    /\ Saga!UndoneBackwards
    /\ Scheduler!OnTimeByARung
    /\ Scheduler!NobodyWaitsBehind
    /\ Group!AtOnceIsPrefetch
    /\ Group!NobodyWaitsForAnothersPrefetch
    /\ Group!ClosedIsQuiet

\* No step takes back what a caller was told: what Do returned stands whatever
\* reply arrives later, and once Close drains no handler begins on what was
\* fetched before.
StandsOnceSaid ==
    /\ Rpc!ReturnedIsFinal
    /\ Shutdown!NothingBeginsWhileDraining

\* A saga returns, a scheduled reminder arrives, the pipeline hears both
\* signals, both rounds of the group are over and every Close returns, through
\* the repeats and deaths of the run.
EveryExampleEnds ==
    /\ example = "saga" => Saga!SagaReturns
    /\ example = "scheduler" => Scheduler!EveryReminderArrives
    /\ example = "pipeline" => Pipeline!TheProgramEnds
    /\ example = "group" => Group!BothRoundsEnd
    /\ example = "shutdown" => Shutdown!EveryCloseReturns
-----------------------------------------------------------------------------
\* The instance that is checked: tenants that are served, not served and absent,
\* a product nobody knows, and every kind of handler a Close can meet.
MCMessages == {[tenant |-> "acme", payment |-> TRUE], [tenant |-> "globex", payment |-> TRUE],
               [tenant |-> "none", payment |-> TRUE], [tenant |-> "acme", payment |-> FALSE]}
MCStrays == {[tenant |-> "acme", text |-> TRUE], [tenant |-> "acme", text |-> FALSE]}
MCSku == [c \in {"c1", "c2", "c3"} |-> IF c = "c1" THEN 6 ELSE IF c = "c2" THEN 3 ELSE 0]
MCRuns == <<[handler |-> "finishes", prefetch |-> 1], [handler |-> "finishes", prefetch |-> 2],
            [handler |-> "stuck", prefetch |-> 1], [handler |-> "watches", prefetch |-> 1]>>
=============================================================================
