---------------------------- MODULE PolicyModules ----------------------------
(***************************************************************************)
(* apps/02-policy-administration: the contracts the modules share, and the *)
(* modules that keep state and talk through the broker: underwriting,      *)
(* policies, billing and claims, each in a section with its variables and  *)
(* its operations.  They are packages of one program and share nothing but *)
(* the messages; module PolicyAdministration starts them and stops them.   *)
(***************************************************************************)
EXTENDS Integers, FiniteSetsExt, Bags
-----------------------------------------------------------------------------
(***************************************************************************)
(* contracts: the events, the queue of each module and the bindings        *)
(* between them, with what the broker and acemq.Consume do for a handler.  *)
(* Queues are bags: the broker redelivers and retries, so nobody may rely  *)
(* on the order.  A handler with a single effect is one step here.  What a *)
(* failure can leave behind is spelled out in its outcomes: the effect     *)
(* happened or not, and the message was settled, sent round again or       *)
(* redelivered.                                                            *)
(***************************************************************************)
CONSTANTS PolicyIds,    \* ids that a policy may be given
          MaxAttempts,  \* attempts in all that the default retry policy allows
          MaxFaults     \* bound: failed calls, timeouts and restarts

VARIABLES queue,        \* the unsettled messages of each queue
          audit,        \* the events in policy.audit, which nobody reads
          dead,         \* the messages that ran out of attempts
          faults        \* faults so far

brokerVars == <<queue, audit, dead>>

Stages == {"register", "price", "decide"}      \* queues the pipeline declares
Queues == {"underwriting", "policies", "billing", "claims"} \cup Stages

\* Mutant: policies issues on the application, not on the decision.
BindingsEarly ==
    {<<"underwriting", "submitted">>, <<"policies", "submitted">>,
     <<"billing", "issued">>, <<"claims", "issued">>}

Bindings ==
    {<<"underwriting", "submitted">>, <<"policies", "accepted">>,
     <<"billing", "issued">>, <<"claims", "issued">>}

Event(kind, app, pol, premium) ==
    [event |-> kind, app |-> app, pol |-> pol, premium |-> premium, attempt |-> 1]

Fault == faults < MaxFaults /\ faults' = faults + 1

One(m) == SetToBag({m})
With(Q, q, m) == [Q EXCEPT ![q] = @ (+) One(m)]
Without(Q, q, m) == [Q EXCEPT ![q] = @ (-) One(m)]

\* Publishers are mandatory and the audit queue is bound to policy.#: an event
\* whose publish succeeded is there, and in each queue bound to its key.
Routed(Q, m) ==
    [q \in Queues |-> IF <<q, m.event>> \in Bindings THEN Q[q] (+) One(m) ELSE Q[q]]
Record(m) == audit' = audit (+) One(m)

\* How a delivery of m ends; Q are the queues after what the handler did.
Accept(Q, q, m) ==
    /\ queue' = Without(Q, q, m)
    /\ UNCHANGED dead

\* A delay queue and back with one attempt more, or the dead-letter queue.
Retry(Q, q, m) ==
    IF m.attempt < MaxAttempts
      THEN queue' = With(Without(Q, q, m), q, [m EXCEPT !.attempt = @ + 1]) /\ UNCHANGED dead
      ELSE queue' = Without(Q, q, m) /\ dead' = dead (+) One(m)

\* The process died, or lost its connection, before the message was settled.
Redeliver(Q) ==
    /\ queue' = Q
    /\ UNCHANGED dead

\* The handler did its work and reports an error, or never reports.
Unreported(Q, q, m) ==
    /\ Fault
    /\ Retry(Q, q, m) \/ Redeliver(Q)

\* The handler did its work and accepts, and the settlement is lost.
Unsettled(Q) ==
    /\ Fault
    /\ Redeliver(Q)

\* The handler could not do its work.
NotDone(q, m) ==
    /\ Fault
    /\ Retry(queue, q, m)
    /\ UNCHANGED audit

\* How often an event is in the audit trail.
Audited(kind, app) ==
    SumFunctionOnSet(audit, {m \in BagToSet(audit) : m.event = kind /\ m.app = app})
-----------------------------------------------------------------------------
(***************************************************************************)
(* underwriting: submissions are fed into a pipeline of three stages, each *)
(* with a queue of its own. The last one publishes the decision, counts    *)
(* it, and settles.                                                        *)
(***************************************************************************)
CONSTANTS SumAssured, AgeOfApplicant, KnownToRegister,   \* of each application
          ReferralThreshold

VARIABLES accepted, declined    \* counters of this process

underwritingVars == <<accepted, declined>>

\* Where a submission, and the product of each stage but the last, goes.
Following == [underwriting |-> "register", register |-> "price", price |-> "decide"]

\* The rating table of the price stage.
Premium(app) ==
    LET base == SumAssured[app] \div 1000 IN
    base + 2 * Max({0, AgeOfApplicant[app] - 30})
         + (IF KnownToRegister[app] THEN base \div 2 ELSE 0)

Refer(app) == SumAssured[app] > ReferralThreshold

Produce(q, m) ==
    [m EXCEPT !.attempt = 1, !.premium = IF q = "price" THEN Premium(m.app) ELSE @]

\* Submissions enter the pipeline, and a stage hands on what it produced.
Forward(q) ==
    /\ \E m \in BagToSet(queue[q]) :
          LET Q == With(queue, Following[q], Produce(q, m)) IN
          \/ Accept(Q, q, m) /\ UNCHANGED faults
          \/ Unreported(Q, q, m)
          \/ NotDone(q, m)
    /\ UNCHANGED <<audit, underwritingVars>>

Decision(m) ==
    IF Refer(m.app) THEN Event("declined", m.app, {}, 0)
                    ELSE Event("accepted", m.app, {}, m.premium)

Count(m) ==
    IF Refer(m.app) THEN declined' = declined + 1 /\ UNCHANGED accepted
                    ELSE accepted' = accepted + 1 /\ UNCHANGED declined

\* A referral is a decision, published like the other; counted once it is out.
Decide ==
    \E m \in BagToSet(queue["decide"]) :
        LET Q == Routed(queue, Decision(m)) IN
        \/ /\ \/ Accept(Q, "decide", m) /\ UNCHANGED faults
              \/ Unsettled(Q)
           /\ Record(Decision(m)) /\ Count(m)
        \/ /\ Unreported(Q, "decide", m)
           /\ Record(Decision(m)) /\ UNCHANGED underwritingVars
        \/ NotDone("decide", m) /\ UNCHANGED underwritingVars
-----------------------------------------------------------------------------
(***************************************************************************)
(* policies: applications and policies, each written with the event that   *)
(* announces it in one transaction, and the relay that publishes the       *)
(* events. A transaction is one step here: its statements, and the         *)
(* connection it shares with the relay, are the ones module Outbox takes   *)
(* apart.                                                                  *)
(***************************************************************************)
VARIABLES applications, \* rows of the two tables: the applications,
          policies,     \* and the policies, [id, app, premium]
          outbox,       \* records waiting to be published
          confirmed,    \* the one the broker confirmed, still to be deleted
          issued        \* the counter of this process

policiesVars == <<applications, policies, outbox, confirmed, issued>>

Ids == {p.id : p \in policies}

Submit(app) ==
    /\ app \notin applications
    /\ applications' = applications \cup {app}
    /\ outbox' = outbox \cup {Event("submitted", app, {}, 0)}
    /\ UNCHANGED <<brokerVars, faults, policies, confirmed, issued>>

\* Mutant: the record is added through the pool, where an insert that fails takes
\* nothing back with it.
WritePolicyApart(m, p) ==
    /\ policies' = policies \cup {[id |-> p, app |-> m.app, premium |-> m.premium]}
    /\ \/ outbox' = outbox \cup {Event("issued", m.app, {p}, m.premium)}
       \/ UNCHANGED outbox

WritePolicy(m, p) ==
    /\ policies' = policies \cup {[id |-> p, app |-> m.app, premium |-> m.premium]}
    /\ outbox' = outbox \cup {Event("issued", m.app, {p}, m.premium)}

\* The id is drawn anew at every delivery, and nothing says that the application
\* has a policy already.  An id in use fails the insert.
Issue ==
    /\ \E m \in BagToSet(queue["policies"]) :
          \/ \E p \in PolicyIds \ Ids :
                /\ WritePolicy(m, p)
                /\ \/ /\ \/ Accept(queue, "policies", m) /\ UNCHANGED faults
                         \/ Unsettled(queue)
                      /\ issued' = issued + 1
                   \/ Unreported(queue, "policies", m) /\ UNCHANGED issued
          \/ NotDone("policies", m) /\ UNCHANGED <<policies, outbox, issued>>
    /\ UNCHANGED <<audit, applications, confirmed>>

RelaySend ==
    /\ confirmed = {}
    /\ \E r \in outbox :
          /\ queue' = Routed(queue, r) /\ Record(r)
          /\ \/ confirmed' = {r} /\ UNCHANGED faults
             \/ Fault /\ UNCHANGED confirmed    \* the confirm is lost
    /\ UNCHANGED <<dead, applications, policies, outbox, issued>>

RelayDelete ==
    /\ confirmed # {}
    /\ outbox' = outbox \ confirmed
    /\ confirmed' = {}
    /\ UNCHANGED <<brokerVars, faults, applications, policies, issued>>
-----------------------------------------------------------------------------
(***************************************************************************)
(* billing: the premium is charged behind patterns.Idempotent, which       *)
(* claims the message id before the handler, confirms it after it accepted *)
(* and releases it after it asked for a retry. A PolicyIssued keeps the id *)
(* of its outbox record however often the relay publishes it, so the       *)
(* policy stands for the message id.                                       *)
(***************************************************************************)
VARIABLES seen,         \* the row of each message id in the SQL store
          charging,     \* the message being charged, and where its handler is
          charges,      \* charges this process took, per policy
          unconfirmed,  \* history: charges that arrived and reported an error
          expired       \* history: claims that timed out with nobody behind them

billingVars == <<seen, charging, charges, unconfirmed, expired>>

Of(m) == CHOOSE p \in m.pol : TRUE      \* the policy a message is about

\* Mutant: the handler runs whatever the store says.
ClaimAnyway ==
    /\ charging = {}
    /\ \E m \in BagToSet(queue["billing"]) :
          /\ seen' = [seen EXCEPT ![Of(m)] = "claimed"]
          /\ charging' = {[msg |-> m, at |-> "charge"]}
    /\ UNCHANGED <<brokerVars, faults, charges, unconfirmed, expired>>

\* Mutant: a message whose claim somebody left behind is taken for a duplicate.
ClaimAcceptingHeld ==
    /\ charging = {}
    /\ \E m \in BagToSet(queue["billing"]) :
          \/ /\ seen[Of(m)] = "free"
             /\ seen' = [seen EXCEPT ![Of(m)] = "claimed"]
             /\ charging' = {[msg |-> m, at |-> "charge"]}
             /\ UNCHANGED brokerVars
          \/ /\ seen[Of(m)] # "free"
             /\ Accept(queue, "billing", m)
             /\ UNCHANGED <<audit, seen, charging>>
    /\ UNCHANGED <<faults, charges, unconfirmed, expired>>

\* A duplicate is accepted.  A message whose claim is held and not confirmed is
\* neither run nor accepted: it is put back, its attempt unspent, and waits here.
Claim ==
    /\ charging = {}
    /\ \E m \in BagToSet(queue["billing"]) :
          \/ /\ seen[Of(m)] = "free"
             /\ seen' = [seen EXCEPT ![Of(m)] = "claimed"]
             /\ charging' = {[msg |-> m, at |-> "charge"]}
             /\ UNCHANGED brokerVars
          \/ /\ seen[Of(m)] = "confirmed"
             /\ Accept(queue, "billing", m)
             /\ UNCHANGED <<audit, seen, charging>>
    /\ UNCHANGED <<faults, charges, unconfirmed, expired>>

Release(p) == seen' = [seen EXCEPT ![p] = "free"]

\* charge publishes, notes the charge and accepts.  The error path releases the
\* claim, so that the retry runs for real.
Charge ==
    /\ \E c \in charging :
          LET m == c.msg
              e == Event("charged", m.app, m.pol, m.premium) IN
          /\ c.at = "charge"
          /\ \/ /\ queue' = Routed(queue, e) /\ Record(e)
                /\ charges' = [charges EXCEPT ![Of(m)] = @ + 1]
                /\ charging' = {[c EXCEPT !.at = "confirm"]}
                /\ UNCHANGED <<dead, faults, seen, unconfirmed>>
             \/ /\ Fault /\ Retry(Routed(queue, e), "billing", m) /\ Record(e)
                /\ unconfirmed' = [unconfirmed EXCEPT ![Of(m)] = @ + 1]
                /\ Release(Of(m)) /\ charging' = {} /\ UNCHANGED charges
             \/ /\ NotDone("billing", m)
                /\ Release(Of(m)) /\ charging' = {} /\ UNCHANGED <<charges, unconfirmed>>
    /\ UNCHANGED expired

Confirm ==
    /\ \E c \in charging :
          /\ c.at = "confirm"
          /\ seen' = [seen EXCEPT ![Of(c.msg)] = "confirmed"]
          /\ \/ Accept(queue, "billing", c.msg) /\ UNCHANGED faults
             \/ Fault /\ Redeliver(queue)
          /\ charging' = {}
    /\ UNCHANGED <<audit, charges, unconfirmed, expired>>

\* A claim left by a process that died is free again after its timeout, which is
\* longer than a charge takes.
Expire(p) ==
    /\ seen[p] = "claimed" /\ \A c \in charging : Of(c.msg) # p
    /\ Release(p)
    /\ expired' = [expired EXCEPT ![p] = @ + 1]
    /\ UNCHANGED <<brokerVars, faults, charging, charges, unconfirmed>>
-----------------------------------------------------------------------------
(***************************************************************************)
(* claims: a claim is settled or rejected after policies has answered      *)
(* whether the policy is in force. The question waits LookupTimeout; a     *)
(* claim it could not establish is neither, and its owner submits it again *)
(* under a new id.                                                         *)
(***************************************************************************)
CONSTANTS Losses,       \* what happened, each worth one claim in the end
          PolicyOfLoss  \* the policy each is claimed on, which need not exist

VARIABLES phase,        \* where the Submit for each loss is
          call,         \* which Submit for the loss this is
          lookups,      \* questions in policy.lookup, <<loss, call>>
          replies,      \* answers on their way, <<loss, call, in force>>
          settled, rejected,    \* counters of this process
          covered,      \* history: losses whose policy was in force when last asked
          lostConfirms  \* history: decisions that arrived and reported an error

claimsVars ==
    <<phase, call, lookups, replies, settled, rejected, covered, lostConfirms>>

\* Claims listens to issued policies and keeps nothing of them.
NotePolicy ==
    /\ \E m \in BagToSet(queue["claims"]) : Accept(queue, "claims", m)
    /\ UNCHANGED <<audit, faults, claimsVars>>

Ask(i, ids) ==
    /\ phase[i] \in {"new", "failed"}
    /\ phase' = [phase EXCEPT ![i] = "asked"]
    /\ call' = [call EXCEPT ![i] = @ + 1]
    /\ lookups' = lookups \cup {<<i, call'[i]>>}
    /\ covered' = IF PolicyOfLoss[i] \in ids THEN covered \cup {i} ELSE covered \ {i}
    /\ UNCHANGED <<brokerVars, faults, replies, settled, rejected, lostConfirms>>

\* policies' statusOf, over its own table.
Answer(ids) ==
    /\ \E q \in lookups :
          /\ lookups' = lookups \ {q}
          /\ replies' = replies \cup {<<q[1], q[2], PolicyOfLoss[q[1]] \in ids>>}
    /\ UNCHANGED <<brokerVars, faults, phase, call, settled, rejected, covered, lostConfirms>>

\* A reply finds its request by correlation id; one that comes late finds nobody.
Hear(r) ==
    /\ r \in replies /\ replies' = replies \ {r}
    /\ IF phase[r[1]] = "asked" /\ call[r[1]] = r[2]
         THEN phase' = [phase EXCEPT ![r[1]] = IF r[3] THEN "settle" ELSE "reject"]
         ELSE UNCHANGED phase
    /\ UNCHANGED <<brokerVars, faults, call, lookups, settled, rejected, covered, lostConfirms>>

\* Mutant: no answer is a no.
TimeOutIsNo(i) ==
    /\ phase[i] = "asked" /\ Fault
    /\ phase' = [phase EXCEPT ![i] = "reject"]
    /\ UNCHANGED <<brokerVars, call, lookups, replies, settled, rejected, covered, lostConfirms>>

TimeOut(i) ==
    /\ phase[i] = "asked" /\ Fault
    /\ phase' = [phase EXCEPT ![i] = "failed"]
    /\ UNCHANGED <<brokerVars, call, lookups, replies, settled, rejected, covered, lostConfirms>>

\* Mutant: a caller whose claim was settled is asked to submit it again.
ConcludeAndAskAgain(i) ==
    /\ phase[i] \in {"settle", "reject"}
    /\ Record(Event(IF phase[i] = "settle" THEN "settled" ELSE "rejected",
                    i, {PolicyOfLoss[i]}, 0))
    /\ phase' = [phase EXCEPT ![i] = "failed"]
    /\ UNCHANGED <<queue, faults, settled, rejected, lostConfirms>>
    /\ UNCHANGED <<dead, call, lookups, replies, covered>>

\* The outcome is published and then counted; a publish that reports an error,
\* whether the outcome is out or not, leaves it to the caller to submit again.
Conclude(i) ==
    /\ phase[i] \in {"settle", "reject"}
    /\ LET e == Event(IF phase[i] = "settle" THEN "settled" ELSE "rejected",
                      i, {PolicyOfLoss[i]}, 0)
       IN  \/ /\ queue' = Routed(queue, e) /\ Record(e)
              /\ \/ /\ IF phase[i] = "settle" THEN settled' = settled + 1 /\ UNCHANGED rejected
                                              ELSE rejected' = rejected + 1 /\ UNCHANGED settled
                    /\ phase' = [phase EXCEPT ![i] = "done"]
                    /\ UNCHANGED <<faults, lostConfirms>>
                 \/ /\ Fault /\ lostConfirms' = lostConfirms + 1
                    /\ phase' = [phase EXCEPT ![i] = "failed"]
                    /\ UNCHANGED <<settled, rejected>>
           \/ /\ Fault
              /\ phase' = [phase EXCEPT ![i] = "failed"]
              /\ UNCHANGED <<queue, audit, settled, rejected, lostConfirms>>
    /\ UNCHANGED <<dead, call, lookups, replies, covered>>
=============================================================================
