------------------------- MODULE PolicyAdministration -------------------------
(***************************************************************************)
(* apps/02-policy-administration: the modules in one process, on one       *)
(* connection and one database, as start assembles them.                   *)
(*                                                                         *)
(* A restart is stop, or a crash, and start again: the database and the    *)
(* queues outlive it; counters, stored documents and calls in progress do  *)
(* not.  (main gives every scenario a fresh database and empty queues,     *)
(* which is Init.)                                                         *)
(***************************************************************************)
EXTENDS PolicyModules

CONSTANTS Applications,
          Documents     \* documents somebody may store, by the key they get

VARIABLES store,        \* keys whose content is held
          announcing,   \* calls of Store that have yet to publish
          forgotten     \* history: keys whose content went with the process

documentVars == <<store, announcing, forgotten>>

ASSUME PolicyAssumption ==
    /\ MaxAttempts \in Nat \ {0}
    /\ MaxFaults \in Nat
    /\ ReferralThreshold \in Nat
    /\ \A a \in Applications : SumAssured[a] \in Nat /\ AgeOfApplicant[a] \in Nat

vars == <<brokerVars, faults, underwritingVars, policiesVars, billingVars,
          claimsVars, documentVars>>

Init ==
    /\ queue = [q \in Queues |-> EmptyBag]
    /\ audit = EmptyBag /\ dead = EmptyBag /\ faults = 0
    /\ accepted = 0 /\ declined = 0
    /\ applications = {} /\ policies = {}
    /\ outbox = {} /\ confirmed = {} /\ issued = 0
    /\ seen = [p \in PolicyIds |-> "free"]
    /\ charging = {}
    /\ charges = [p \in PolicyIds |-> 0]
    /\ unconfirmed = [p \in PolicyIds |-> 0]
    /\ expired = [p \in PolicyIds |-> 0]
    /\ phase = [i \in Losses |-> "new"] /\ call = [i \in Losses |-> 0]
    /\ lookups = {} /\ replies = {}
    /\ settled = 0 /\ rejected = 0 /\ covered = {} /\ lostConfirms = 0
    /\ store = {} /\ announcing = {} /\ forgotten = {}

\* stop and start: what the process kept in memory is gone.
Restart ==
    /\ Fault
    /\ accepted' = 0 /\ declined' = 0 /\ issued' = 0
    /\ settled' = 0 /\ rejected' = 0
    /\ charging' = {}
    /\ charges' = [p \in PolicyIds |-> 0]
    /\ confirmed' = {}
    /\ phase' = [i \in Losses |-> IF phase[i] \in {"new", "done"} THEN phase[i] ELSE "failed"]
    /\ replies' = {}        \* the reply queue was this connection's own
    /\ store' = {} /\ announcing' = {}
    /\ forgotten' = forgotten \cup store
    /\ UNCHANGED <<brokerVars, applications, policies, outbox, seen, unconfirmed, expired,
                   call, lookups, covered, lostConfirms>>

underwritingRest == <<policiesVars, billingVars, claimsVars, documentVars>>
policiesRest == <<underwritingVars, billingVars, claimsVars, documentVars>>
billingRest == <<underwritingVars, policiesVars, claimsVars, documentVars>>
claimsRest == <<underwritingVars, policiesVars, billingVars, documentVars>>
documentsRest == <<underwritingVars, policiesVars, billingVars, claimsVars>>

UnderwritingStep ==
    /\ (\E q \in DOMAIN Following : Forward(q)) \/ Decide
    /\ UNCHANGED underwritingRest

PoliciesStep ==
    /\ (\E a \in Applications : Submit(a)) \/ Issue \/ RelaySend \/ RelayDelete
    /\ UNCHANGED policiesRest

BillingStep ==
    /\ Claim \/ Charge \/ Confirm \/ \E p \in PolicyIds : Expire(p)
    /\ UNCHANGED billingRest

ClaimsStep ==
    /\ \/ NotePolicy
       \/ \E i \in Losses : Ask(i, Ids) \/ TimeOut(i) \/ Conclude(i)
       \/ Answer(Ids)
       \/ \E r \in replies : Hear(r)
    /\ UNCHANGED claimsRest

\* documents: the document goes to a store in this process, the message carries
\* its key.
Keep(d) ==
    /\ d \notin store \cup forgotten
    /\ store' = store \cup {d}
    /\ announcing' = announcing \cup {d}
    /\ UNCHANGED <<brokerVars, faults, forgotten>>

\* The key is returned whether or not the event went out.
Announce(d) ==
    /\ d \in announcing
    /\ announcing' = announcing \ {d}
    /\ \/ Record(Event("stored", d, {}, 0)) /\ UNCHANGED faults
       \/ Fault /\ UNCHANGED audit
    /\ UNCHANGED <<queue, dead, store, forgotten>>

DocumentsStep ==
    /\ \E d \in Documents : Keep(d) \/ Announce(d)
    /\ UNCHANGED documentsRest

Next ==
    \/ UnderwritingStep \/ PoliciesStep \/ BillingStep
    \/ ClaimsStep \/ DocumentsStep \/ Restart

Spec == Init /\ [][Next]_vars

\* The broker delivers, a handler that runs goes on, the relay's ticker ticks, a
\* claim nobody holds any more times out.
\* Nobody has to submit anything, and nothing has to fail.
FairSpec ==
    /\ Spec
    /\ WF_vars(UnderwritingStep) /\ WF_vars(BillingStep)
    /\ WF_vars((Issue \/ RelaySend \/ RelayDelete) /\ UNCHANGED policiesRest)
-----------------------------------------------------------------------------
Trail(kind) == {m \in BagToSet(audit) : m.event = kind}

Charged(p) ==
    SumFunctionOnSet(audit, {m \in Trail("charged") : m.pol = {p}})

\* An application above the limit is never insured and one at or below it is
\* never referred, through a pipeline that may run each stage again.
LimitIsRespected ==
    /\ \A p \in policies : SumAssured[p.app] <= ReferralThreshold
    /\ \A m \in Trail("declined") : SumAssured[m.app] > ReferralThreshold

\* What is charged is a policy on record, at the premium on record, which is
\* the one the rating table gives: two modules agree without asking each other.
ChargesAreOfPolicies ==
    \A m \in Trail("charged") : \E p \in policies :
        /\ m.pol = {p.id} /\ m.premium = p.premium
        /\ p.premium = Premium(p.app)

\* Neither half of an outbox transaction survives alone: what is on record was
\* announced or is about to be, and nothing is announced that is not on record.
NothingLostOrInvented ==
    /\ \A p \in policies :
          \E m \in outbox \cup Trail("issued") : m.event = "issued" /\ m.pol = {p.id}
    /\ \A m \in outbox \cup Trail("issued") :
          m.event = "issued" => \E p \in policies : m.pol = {p.id} /\ m.app = p.app
    /\ \A a \in applications :
          \E m \in outbox \cup Trail("submitted") : m.event = "submitted" /\ m.app = a

\* A key in the audit trail can be redeemed while the process that announced it
\* lives.
AnnouncedIsHeld ==
    \A m \in Trail("stored") : m.app \in store \cup forgotten

\* The counters main and its scenarios read never run ahead of the audit trail
\* and the table of policies.
CountersNeverOverstate ==
    /\ accepted <= SumFunctionOnSet(audit, Trail("accepted"))
    /\ declined <= SumFunctionOnSet(audit, Trail("declined"))
    /\ issued <= Cardinality(policies)
    /\ \A p \in PolicyIds : charges[p] <= Charged(p)

\* The audit trail, which five modules write and nobody reads back, says what the
\* tables say: who is insured, what is charged and for which policy, what each
\* transaction announced and which documents can be fetched.
AuditAgrees ==
    /\ LimitIsRespected
    /\ ChargesAreOfPolicies
    /\ NothingLostOrInvented
    /\ AnnouncedIsHeld
    /\ CountersNeverOverstate

\* issue keeps no key on the application, so a redelivery insures it again, and
\* without a fault on the way there is one policy to an application.  However
\* often its PolicyIssued is published or delivered, a policy is charged once,
\* but for charges that reported an error and claims that timed out.
RepeatsArePaidFor ==
    /\ \A a \in Applications : Cardinality({p \in policies : p.app = a}) <= 1 + faults
    /\ \A p \in PolicyIds : Charged(p) <= 1 + unconfirmed[p] + expired[p]

\* A claim is paid on a policy in force, and one whose policy was in force when
\* the question was asked is not refused: silence, or an answer to an earlier
\* question, is not a no.
NoGuessing ==
    \A i \in Losses :
        /\ phase[i] = "reject" => i \notin covered
        /\ Audited("settled", i) > 0 => PolicyOfLoss[i] \in Ids

\* A loss is settled or rejected once, except where a confirm was lost and the
\* caller, who saw an error, submitted it again.
OneOutcomePerLoss ==
    \A i \in Losses : Audited("settled", i) + Audited("rejected", i) <= 1 + lostConfirms

\* What comes before each event of the audit trail about an application.
Milestones ==
    [submitted |-> {},
     declined  |-> {"submitted"},
     accepted  |-> {"submitted"},
     issued    |-> {"accepted"},
     charged   |-> {"issued"}]

Lifecycle == INSTANCE Lifecycle WITH
    Subjects <- Applications,
    Needs <- Milestones,
    Excludes <- [m \in DOMAIN Milestones |->
                    CASE m = "declined" -> {"accepted"} [] m = "accepted" -> {"declined"}
                      [] OTHER -> {}],
    Open <- [m \in DOMAIN Milestones |-> Applications],
    passed <- [a \in Applications |->
                  {m \in DOMAIN Milestones : Audited(m, a) > 0}]

\* In the audit trail every application is submitted, then declined or accepted and
\* never both, an accepted one becomes a policy, and only a policy is charged.
KeepsLifecycle == Lifecycle!Spec

\* An application that was taken is declined or insured and charged in the end,
\* and every policy on record is charged, unless a message on the way is in a
\* dead-letter queue: a process that dies while it holds the claim on a charge
\* does not cost the charge, since its message is put back until the claim has
\* timed out.
EveryApplicationIsDecided ==
    /\ \A a \in Applications :
          a \in applications ~> \/ Audited("declined", a) > 0 \/ Audited("charged", a) > 0
                                \/ \E m \in BagToSet(dead) : m.app = a
    /\ \A p \in PolicyIds :
          p \in Ids ~> Charged(p) > 0 \/ \E m \in BagToSet(dead) : m.pol = {p}
=============================================================================
