------------------------ MODULE Intermediate_proof ---------------------------
(***************************************************************************)
(* Proofs about the examples of intermediate/, for any number of steps,    *)
(* reminders, messages, orders, invoices, callers, attempts and versions.  *)
(* Every example has an invariant of its own that its initial states have  *)
(* and its steps keep; the last section puts the examples together, and    *)
(* proves what MCIntermediate states of them.                              *)
(***************************************************************************)
EXTENDS MCIntermediate, Sums, SequenceTheorems

\* intermediate/04-saga.  The steps before the one in hand are done, those behind
\* it untouched but for one that hid its success; on the way back what is behind
\* is undone or on the list.
SagaInv ==
    /\ sagaStep \in Nat /\ failedAt \in 0..Length
    /\ mode \in {"forward", "back", "returned", "dead"}
    /\ world \in [Saga!Steps -> {"untouched", "done", "undone"}]
    /\ hidden \subseteq {failedAt} \ {0} /\ unresolved \subseteq Saga!Steps
    /\ failedAt = 0 => /\ mode # "back" /\ unresolved = {}
                       /\ sagaStep \in 1..Length + 1
                       /\ mode = "returned" => sagaStep = Length + 1
                       /\ \A s \in Saga!Steps :
                             world[s] = IF s < sagaStep THEN "done" ELSE "untouched"
    /\ failedAt # 0 => /\ mode # "forward" /\ sagaStep < failedAt
                       /\ mode = "returned" => sagaStep = 0
                       /\ \A s \in Saga!Steps :
                             /\ s <= sagaStep => world[s] = "done"
                             /\ s > failedAt => world[s] = "untouched"
                             /\ world[s] = "done" /\ s = failedAt => s \in hidden
                             /\ world[s] = "undone" => sagaStep < s /\ s < failedAt
                             /\ sagaStep < s /\ s < failedAt => world[s] # "untouched"
                             /\ sagaStep < s /\ s < failedAt /\ world[s] = "done" => s \in unresolved
    /\ Saga!UnresolvedWasTried

LEMMA SagaStarts == Saga!Init => SagaInv
  BY SagaAssumption DEF Saga!Init, SagaInv, Saga!Steps, Saga!UnresolvedWasTried

LEMMA SagaKept == SagaInv /\ [Saga!Next]_(Saga!vars) => SagaInv'
<1> SUFFICES ASSUME SagaInv, [Saga!Next]_(Saga!vars) PROVE SagaInv'
  OBVIOUS
<1> USE SagaAssumption DEF SagaInv, Saga!Steps, Saga!UnresolvedWasTried
<1>1. CASE Saga!Do BY <1>1 DEF Saga!Do
<1>2. CASE Saga!DoFailed
  <2>1. /\ failedAt = 0 /\ sagaStep \in 1..Length /\ hidden = {} /\ unresolved = {}
        /\ failedAt' = sagaStep /\ sagaStep' = sagaStep - 1 /\ mode' = "back" /\ unresolved' = {}
    BY <1>2 DEF Saga!DoFailed
  <2>2. CASE UNCHANGED <<world, hidden>> BY <2>1, <2>2
  <2>3. CASE world' = [world EXCEPT ![sagaStep] = "done"] /\ hidden' = hidden \cup {sagaStep}
    BY <2>1, <2>3
  <2> QED BY <1>2, <2>2, <2>3 DEF Saga!DoFailed
<1>3. CASE Saga!Undo BY <1>3 DEF Saga!Undo
<1>4. CASE Saga!UndoFailed BY <1>4 DEF Saga!UndoFailed
<1>5. CASE Saga!Return BY <1>5 DEF Saga!Return
<1>6. CASE Saga!Die BY <1>6 DEF Saga!Die
<1>7. CASE UNCHANGED Saga!vars BY <1>7 DEF Saga!vars
<1> QED BY <1>1, <1>2, <1>3, <1>4, <1>5, <1>6, <1>7 DEF Saga!Next, Saga!Run

\* Whatever a saga leaves standing is on its list or hid its success, a person is
\* sent only where an undo was tried, and the undoing goes backwards.
THEOREM SagaIsUndone ==
    Saga!Spec => [](Saga!NothingLeftSilently /\ Saga!UnresolvedWasTried /\ Saga!UndoneBackwards)
<1>1. SagaInv => Saga!NothingLeftSilently /\ Saga!UnresolvedWasTried /\ Saga!UndoneBackwards
  BY SagaAssumption DEF SagaInv, Saga!Steps, Saga!NothingLeftSilently, Saga!UnresolvedWasTried,
     Saga!UndoneBackwards
<1> QED BY SagaStarts, SagaKept, <1>1, PTL DEF Saga!Spec
-----------------------------------------------------------------------------
\* intermediate/01-request-reply.  A reply on the queue says what the caller it is
\* addressed to asked about.
RpcInv ==
    /\ DOMAIN call = Callers /\ requests \subseteq Callers /\ answering \subseteq Callers
    /\ \A c \in Callers :
          call[c] \in {Rpc!Idle, Rpc!Waiting, Rpc!TimedOut, Rpc!Price(Sku[c])}
    /\ \A r \in replies : r.to \in Callers /\ r.says = Rpc!Price(Sku[r.to])

LEMMA RpcStarts == Rpc!Init => RpcInv
  BY DEF Rpc!Init, RpcInv

LEMMA RpcKept == RpcInv /\ [Rpc!Next]_(Rpc!vars) => RpcInv'
<1> SUFFICES ASSUME RpcInv, [Rpc!Next]_(Rpc!vars) PROVE RpcInv'
  OBVIOUS
<1> USE DEF RpcInv
<1>1. ASSUME NEW c \in Callers, Rpc!Do(c) PROVE RpcInv' BY <1>1 DEF Rpc!Do
<1>2. ASSUME NEW c \in Callers, Rpc!TakeRequest(c) PROVE RpcInv' BY <1>2 DEF Rpc!TakeRequest
<1>3. ASSUME NEW c \in Callers, Rpc!Serve(c) PROVE RpcInv' BY <1>3 DEF Rpc!Serve
<1>4. ASSUME NEW c \in Callers, Rpc!Abandon(c) PROVE RpcInv' BY <1>4 DEF Rpc!Abandon
<1>5. ASSUME NEW c \in Callers, Rpc!TimeOut(c) PROVE RpcInv' BY <1>5 DEF Rpc!TimeOut
<1>6. ASSUME NEW r \in replies, Rpc!Reply(r) PROVE RpcInv' BY <1>6 DEF Rpc!Reply
<1>7. CASE UNCHANGED Rpc!vars BY <1>7 DEF Rpc!vars
<1> QED BY <1>1, <1>2, <1>3, <1>4, <1>5, <1>6, <1>7 DEF Rpc!Next

\* Do returns the answer or the failure of its own request.
THEOREM AnswersAreOnesOwn == Rpc!Spec => [](Rpc!OwnAnswer /\ Rpc!FailureIsAnAnswer)
<1>1. RpcInv => Rpc!OwnAnswer /\ Rpc!FailureIsAnAnswer
  BY SkuAssumption DEF RpcInv, Rpc!OwnAnswer, Rpc!FailureIsAnAnswer, Rpc!Price, Rpc!Idle,
     Rpc!Waiting, Rpc!TimedOut, Rpc!Failed
<1> QED BY RpcStarts, RpcKept, <1>1, PTL DEF Rpc!Spec

\* What Do returned stands whatever reply arrives later.
THEOREM AnswersAreFinal == Rpc!Spec => Rpc!ReturnedIsFinal
<1>1. RpcInv /\ [Rpc!Next]_(Rpc!vars) =>
        [\A c \in Callers : call[c] \notin {Rpc!Idle, Rpc!Waiting} => call'[c] = call[c]]_call
  <2> SUFFICES ASSUME RpcInv, [Rpc!Next]_(Rpc!vars), NEW c \in Callers,
                      call[c] \notin {Rpc!Idle, Rpc!Waiting}
               PROVE  call'[c] = call[c]
    OBVIOUS
  <2> USE DEF RpcInv
  <2>1. ASSUME NEW d \in Callers, Rpc!Do(d) PROVE call'[c] = call[c] BY <2>1 DEF Rpc!Do
  <2>2. ASSUME NEW d \in Callers, Rpc!TimeOut(d) PROVE call'[c] = call[c]
    BY <2>2 DEF Rpc!TimeOut
  <2>3. ASSUME NEW r \in replies, Rpc!Reply(r) PROVE call'[c] = call[c] BY <2>3 DEF Rpc!Reply
  <2> QED BY <2>1, <2>2, <2>3 DEF Rpc!Next, Rpc!TakeRequest, Rpc!Serve, Rpc!Abandon, Rpc!vars
<1> QED BY RpcStarts, RpcKept, <1>1, PTL DEF Rpc!Spec, Rpc!ReturnedIsFinal
-----------------------------------------------------------------------------
\* intermediate/02-idempotent-consumer.  A process that forgot is what a second charge
\* and a further attempt are due to; until somebody has paid, a copy is left.
IdempotentInv ==
    /\ copies \in [1..Sends -> Nat] /\ unsent \in 0..Sends /\ inHand \in 0..Sends
    /\ deliveries \in Nat /\ charged \in {0, 1} /\ everCharged \in Nat
    /\ restarts \in 0..MaxRestarts
    /\ guard \in {"free", "claimed", "done"}
    /\ inHand # 0 <=> guard = "claimed"
    /\ charged = 1 <=> guard = "done"
    /\ charged <= everCharged /\ everCharged <= charged + restarts
    /\ \A i \in 1..Sends : copies[i] <= 1 + restarts + (IF deliveries > 0 THEN 1 ELSE 0)
    /\ dropped = 0
    /\ everCharged > 0 \/ unsent > 0 \/ \E i \in 1..Sends : copies[i] > 0

LEMMA IdempotentStarts == Idempotent!Init => IdempotentInv
  BY AttemptsAssumption DEF Idempotent!Init, IdempotentInv

LEMMA IdempotentKept == IdempotentInv /\ [Idempotent!Next]_(Idempotent!vars) => IdempotentInv'
<1> SUFFICES ASSUME IdempotentInv, [Idempotent!Next]_(Idempotent!vars) PROVE IdempotentInv'
  OBVIOUS
<1> USE AttemptsAssumption DEF IdempotentInv
<1>1. CASE Idempotent!SendCopy BY <1>1 DEF Idempotent!SendCopy
<1>2. ASSUME NEW i \in 1..Sends, Idempotent!Counting(i) PROVE IdempotentInv'
  <2>1. CASE deliveries = 0
    <3>1. /\ \A j \in 1..Sends : copies[j] \in Nat /\ copies[j] <= 1 + restarts
          /\ copies[i] > 0 /\ copies[i] < Attempts
      BY <1>2, <2>1 DEF Idempotent!Counting
    <3>2. /\ copies' = [copies EXCEPT ![i] = copies[i] + 1] /\ deliveries' = 1
          /\ UNCHANGED <<dropped, guard, inHand, unsent, charged, everCharged, restarts>>
      BY <1>2, <2>1, <3>1 DEF Idempotent!Counting, Idempotent!Fails
    <3>3. /\ \A j \in 1..Sends : copies'[j] \in Nat /\ copies'[j] <= 2 + restarts
          /\ copies'[i] > 0 /\ copies' \in [1..Sends -> Nat]
      BY <3>1, <3>2, SMTT(20)
    <3> QED BY <3>2, <3>3
  <2>2. CASE deliveries # 0 /\ guard = "free"
    BY <1>2, <2>2 DEF Idempotent!Counting, Idempotent!Fails, Idempotent!AskGuard
  <2>3. CASE deliveries # 0 /\ guard # "free"
    BY <1>2, <2>3 DEF Idempotent!Counting, Idempotent!Fails, Idempotent!AskGuard
  <2> QED BY <2>1, <2>2, <2>3
<1>3. CASE Idempotent!ChargeOnce BY <1>3 DEF Idempotent!ChargeOnce
<1>4. ASSUME NEW made \in BOOLEAN, Idempotent!RestartCharges(made) PROVE IdempotentInv'
  BY <1>4 DEF Idempotent!RestartCharges
<1>5. CASE UNCHANGED Idempotent!vars BY <1>5 DEF Idempotent!vars
<1> QED BY <1>1, <1>2, <1>3, <1>4, <1>5 DEF Idempotent!Next

\* A message is charged for, once for each process that began with no memory of it.
THEOREM ChargedForOnce == Idempotent!Spec => [](Idempotent!ChargedOnce /\ Idempotent!SomebodyPays)
<1>1. IdempotentInv => Idempotent!ChargedOnce /\ Idempotent!SomebodyPays
  BY AttemptsAssumption DEF IdempotentInv, Idempotent!ChargedOnce, Idempotent!SomebodyPays
<1> QED BY IdempotentStarts, IdempotentKept, <1>1, PTL DEF Idempotent!Spec
-----------------------------------------------------------------------------
\* intermediate/10-schema-evolution.  The registry holds every version that is
\* deployed or under way, once; an identifier keeps its schema.
SchemasInv ==
    /\ registry \in Seq(Schemas!Versions) /\ DOMAIN deployed = Services
    /\ \A s \in Services : deployed[s] # Schemas!Undeployed =>
          \E i \in 1..Len(registry) : registry[i] = deployed[s]
    /\ \A m \in inFlight : m.id \in 1..Len(registry)
    /\ Schemas!VersionsAreSchemas /\ Schemas!AnyOrderOfDeployment

\* Registering a schema keeps the identifiers there are and adds none twice.
RegistryGrows ==
    /\ registry' \in Seq(Schemas!Versions) /\ Len(registry) <= Len(registry')
    /\ \A i \in 1..Len(registry) : registry'[i] = registry[i]
    /\ \A i, j \in 1..Len(registry') : i # j => registry'[i] # registry'[j]
    /\ \A m \in inFlight : m.id \in 1..Len(registry')
                           /\ Schemas!FieldsOf(registry'[m.id]) = m.fields

LEMMA SchemasRegister ==
    ASSUME SchemasInv, NEW v \in Schemas!Versions, Schemas!Register(v)
    PROVE  /\ RegistryGrows
           /\ \E i \in 1..Len(registry') : registry'[i] = v
<1> USE DEF SchemasInv, Schemas!VersionsAreSchemas
<1>0. Schemas!Contains(registry, v) <=> \E i \in 1..Len(registry) : registry[i] = v
  BY DEF Schemas!Contains
<1>1. CASE registry' = registry /\ \E i \in 1..Len(registry) : registry[i] = v
  BY <1>1 DEF RegistryGrows
<1>2. CASE registry' = Append(registry, v) /\ ~\E i \in 1..Len(registry) : registry[i] = v
  <2>1. /\ registry' \in Seq(Schemas!Versions) /\ Len(registry') = Len(registry) + 1
        /\ Len(registry) \in Nat /\ registry'[Len(registry) + 1] = v
        /\ \A i \in 1..Len(registry) : registry'[i] = registry[i]
    BY <1>2
  <2>2. \A m \in inFlight : m.id \in 1..Len(registry) /\ registry'[m.id] = registry[m.id]
    BY <2>1
  <2> QED BY <1>2, <2>1, <2>2 DEF RegistryGrows
<1> QED BY <1>0, <1>1, <1>2 DEF Schemas!Register

LEMMA SchemasRead ==
    ASSUME SchemasInv, NEW v \in Schemas!Versions, NEW m \in inFlight, NEW onto \in BOOLEAN,
           Schemas!Read(v, m, onto)
    PROVE  Schemas!AnyOrderOfDeployment'
<1> DEFINE got == Schemas!Resolve(v, registry[m.id], onto)
           new == [as |-> v, onto |-> onto, fields |-> m.fields, got |-> got]
<1> USE DEF SchemasInv, Schemas!VersionsAreSchemas
<1>1. decoded' = decoded \cup {new} BY DEF Schemas!Read
<1>2. new.as = v /\ new.onto = onto /\ new.got = got
      /\ new.fields = Schemas!FieldsOf(registry[m.id])
  OBVIOUS
<1>3. ASSUME NEW f \in DOMAIN got
      PROVE  IF f \in new.fields THEN got[f] = "written"
             ELSE got[f] = IF ~onto THEN "zero" ELSE IF v = "v2NoDefault" THEN "refused" ELSE "default"
  BY <1>2, <1>3 DEF Schemas!Resolve, Schemas!FieldsOf, Schemas!DefaultsOf, Schemas!Versions
<1> HIDE DEF new, got
<1> QED BY <1>1, <1>2, <1>3 DEF Schemas!AnyOrderOfDeployment

LEMMA SchemasStart == Schemas!Init => SchemasInv
  BY DEF Schemas!Init, SchemasInv, Schemas!VersionsAreSchemas, Schemas!AnyOrderOfDeployment

LEMMA SchemasKept == SchemasInv /\ [Schemas!Next]_(Schemas!vars) => SchemasInv'
<1> SUFFICES ASSUME SchemasInv, [Schemas!Next]_(Schemas!vars) PROVE SchemasInv'
  OBVIOUS
<1> USE DEF SchemasInv, Schemas!VersionsAreSchemas
<1>1. ASSUME NEW s \in Services, NEW v \in Schemas!Versions, Schemas!Start(s, v) PROVE SchemasInv'
  BY <1>1, SchemasRegister DEF Schemas!Start, RegistryGrows, Schemas!AnyOrderOfDeployment
<1>2. ASSUME NEW s \in Services, Schemas!Encode(s) PROVE SchemasInv'
  <2> DEFINE new == [id |-> Schemas!IdOf(deployed[s]), fields |-> Schemas!FieldsOf(deployed[s])]
  <2>1. /\ inFlight' = inFlight \cup {new} /\ UNCHANGED <<registry, deployed, decoded>>
        /\ deployed[s] # Schemas!Undeployed
    BY <1>2 DEF Schemas!Encode
  <2>2. new.id \in 1..Len(registry) /\ registry[new.id] = deployed[s]
    BY <2>1 DEF Schemas!IdOf
  <2>3. new.fields = Schemas!FieldsOf(registry[new.id]) BY <2>2
  <2> HIDE DEF new
  <2> QED BY <2>1, <2>2, <2>3 DEF Schemas!AnyOrderOfDeployment
<1>3. ASSUME NEW s \in Services, NEW m \in inFlight, Schemas!Decode(s, m) PROVE SchemasInv'
  <2>1. deployed[s] \in Schemas!Versions BY <1>3 DEF Schemas!Decode
  <2>2. Schemas!AnyOrderOfDeployment' BY <1>3, <2>1, SchemasRead DEF Schemas!Decode
  <2> QED BY <1>3, <2>2 DEF Schemas!Decode
<1>4. ASSUME NEW m \in inFlight, NEW v \in Schemas!Versions, Schemas!DecodeWrongly(m, v)
      PROVE  SchemasInv'
  <2>1. (v = "v2NoDefault") \in BOOLEAN OBVIOUS
  <2>2. Schemas!AnyOrderOfDeployment' BY <1>4, <2>1, SchemasRead DEF Schemas!DecodeWrongly
  <2> QED BY <1>4, <2>2, SchemasRegister, SMTT(20) DEF Schemas!DecodeWrongly, RegistryGrows
<1>5. CASE UNCHANGED Schemas!vars BY <1>5 DEF Schemas!vars, Schemas!AnyOrderOfDeployment
<1> QED BY <1>1, <1>2, <1>3, <1>4, <1>5 DEF Schemas!Next

\* Whichever service is deployed first, a reader makes of a message what its
\* schemas say, and restarts register no version twice.
THEOREM SchemasInAnyOrder ==
    Schemas!Spec => [](Schemas!AnyOrderOfDeployment /\ Schemas!VersionsAreSchemas)
<1>1. SchemasInv => Schemas!AnyOrderOfDeployment /\ Schemas!VersionsAreSchemas
  BY DEF SchemasInv
<1> QED BY SchemasStart, SchemasKept, <1>1, PTL DEF Schemas!Spec
-----------------------------------------------------------------------------
\* intermediate/06-interceptors.  A publish that is through an interceptor has what
\* it puts on, what is on the wire or the queue under a message's name was sent, told
\* so or not, and until a settlement is lost a dead letter is no longer waiting.
Out == {"sent", "failed"}

Deliveries ==
    [what : Messages \cup Strays,
     tenant : {x.tenant : x \in Messages \cup Strays} \cup {NoTenant}]

ThroughTheChain ==
    /\ DOMAIN hook = Messages /\ DOMAIN stamp = Messages
    /\ DOMAIN card = Messages /\ DOMAIN told = Messages
    /\ \A m \in Messages :
          /\ hook[m] \in 0..2 /\ told[m] \in {"sending", "noTenant"} \cup Out
          /\ hook[m] > 0 => m.tenant # NoTenant /\ stamp[m] = m.tenant
          /\ card[m] = IF ~m.payment THEN "none" ELSE IF hook[m] = 2 THEN "masked" ELSE "clear"
          /\ told[m] = "noTenant" => m.tenant = NoTenant
          /\ told[m] \in Out => hook[m] = 2

OnTheWire ==
    /\ \A w \in wire : w.what \in Messages /\ told[w.what] \in Out
    /\ Interceptors!NothingLeavesInClear

OnTheQueue ==
    /\ repeats \in Nat /\ waiting \subseteq Deliveries /\ handled \subseteq Deliveries
    /\ dead \in Seq(Deliveries)
    /\ \A d \in waiting : /\ d.what \in Messages => told[d.what] \in Out
                          /\ d.tenant \in Served => d.what.tenant = d.tenant
    /\ \A i \in 1..Len(dead) : /\ dead[i].what \in Messages => told[dead[i].what] \in Out
                               /\ repeats = 0 => dead[i] \notin waiting
    /\ Interceptors!OnlyServedAreHandled /\ Interceptors!NobodyIsDropped

InterceptorsInv == ThroughTheChain /\ OnTheWire /\ OnTheQueue

LEMMA InterceptorsStart == Interceptors!Init => InterceptorsInv
<1> SUFFICES ASSUME Interceptors!Init PROVE InterceptorsInv
  OBVIOUS
<1>1. ThroughTheChain /\ OnTheWire
  BY DEF Interceptors!Init, ThroughTheChain, OnTheWire, Interceptors!NothingLeavesInClear, Out
<1>2. waiting \subseteq Deliveries /\ \A d \in waiting :
        d.what \in Strays /\ d.tenant = Interceptors!HeaderString(d.what)
  BY DEF Interceptors!Init, Deliveries, Interceptors!HeaderString
<1>3. OnTheQueue
  BY <1>2, TenantsAssumption DEF Interceptors!Init, OnTheQueue, Interceptors!HeaderString,
     Interceptors!OnlyServedAreHandled, Interceptors!NobodyIsDropped
<1> QED BY <1>1, <1>3 DEF InterceptorsInv

LEMMA InterceptorsPublish ==
    ASSUME InterceptorsInv, NEW m \in Messages, Interceptors!Publish(m) PROVE InterceptorsInv'
<1> DEFINE d == [what |-> m, tenant |-> stamp[m]]
           w == [what |-> m, tenant |-> stamp[m], card |-> card[m]]
<1> USE DEF InterceptorsInv
<1>1. /\ told[m] = "sending" /\ hook[m] = 2
      /\ UNCHANGED <<hook, stamp, card, handled, dead, repeats>>
      /\ \/ /\ wire' = wire \cup {w} /\ waiting' = waiting \cup {d}
            /\ \E r \in Out : told' = [told EXCEPT ![m] = r]
         \/ told' = [told EXCEPT ![m] = "failed"] /\ UNCHANGED <<wire, waiting>>
  BY DEF Interceptors!Publish, Interceptors!Arrive, Interceptors!Chain, Out
<1>2. stamp[m] = m.tenant /\ card[m] # "clear" BY <1>1 DEF ThroughTheChain
<1>3. d \in Deliveries /\ d.what = m /\ d.tenant = m.tenant BY <1>2 DEF Deliveries
<1>4. w.what = m /\ w.tenant = m.tenant /\ w.card # "clear" BY <1>2
<1> HIDE DEF d, w
<1>5. PICK r \in Out : /\ told' = [told EXCEPT ![m] = r]
                       /\ \/ wire' = wire \cup {w} /\ waiting' = waiting \cup {d}
                          \/ r = "failed" /\ UNCHANGED <<wire, waiting>>
  BY <1>1 DEF Out
<1>6. /\ DOMAIN told' = Messages /\ told'[m] = r
      /\ \A k \in Messages : k # m => told'[k] = told[k]
  BY <1>5 DEF ThroughTheChain
<1>7. /\ r # "sending" /\ r # "noTenant" /\ told[m] \notin Out BY <1>1 DEF Out
<1>8. ThroughTheChain' BY <1>1, <1>6, <1>7 DEF ThroughTheChain
<1>9. OnTheWire'
  BY <1>5, <1>4, <1>6, <1>7 DEF OnTheWire, Interceptors!NothingLeavesInClear
<1>10. \A i \in 1..Len(dead) : dead[i] # d BY <1>7, <1>3 DEF OnTheQueue
<1>11. Interceptors!NobodyIsDropped'
  <2>1. UNCHANGED <<handled, dead, repeats>> /\ waiting \subseteq waiting'
        /\ (r = "sent" => d \in waiting')
    BY <1>5, <1>1
  <2> QED BY <2>1, <1>3, <1>6 DEF OnTheQueue, Interceptors!NobodyIsDropped
<1>12. OnTheQueue'
  BY <1>5, <1>1, <1>3, <1>10, <1>11, <1>6, <1>7 DEF OnTheQueue, Interceptors!OnlyServedAreHandled
<1> QED BY <1>8, <1>9, <1>12

LEMMA InterceptorsKept ==
    InterceptorsInv /\ [Interceptors!Next]_(Interceptors!vars) => InterceptorsInv'
<1> SUFFICES ASSUME InterceptorsInv, [Interceptors!Next]_(Interceptors!vars)
             PROVE  InterceptorsInv'
  OBVIOUS
<1> USE DEF InterceptorsInv
<1>1. ASSUME NEW m \in Messages, Interceptors!Intercept(m) PROVE InterceptorsInv'
  <2>1. /\ told[m] = "sending" /\ hook[m] \in {0, 1}
        /\ UNCHANGED <<wire, waiting, handled, dead, repeats>>
        /\ Interceptors!Chain[hook[m] + 1] = IF hook[m] = 0 THEN "tenant" ELSE "card"
    BY <1>1 DEF Interceptors!Intercept, Interceptors!Chain, ThroughTheChain
  <2>2. ThroughTheChain'
    <3>1. CASE hook[m] = 0 BY <1>1, <2>1, <3>1
            DEF Interceptors!Intercept, Interceptors!Tenant, ThroughTheChain, Out
    <3>2. CASE hook[m] = 1 BY <1>1, <2>1, <3>2
            DEF Interceptors!Intercept, Interceptors!Redact, ThroughTheChain, Out
    <3> QED BY <2>1, <3>1, <3>2
  <2>3. \A k \in Messages : /\ told'[k] = "sent" <=> told[k] = "sent"
                            /\ told'[k] \in Out <=> told[k] \in Out
    BY <1>1, <2>1 DEF Interceptors!Intercept, Interceptors!Tenant, Interceptors!Redact,
       ThroughTheChain, Out
  <2>4. OnTheWire' BY <2>1, <2>3 DEF OnTheWire, Interceptors!NothingLeavesInClear
  <2>5. OnTheQueue' BY <2>1, <2>3 DEF OnTheQueue, Interceptors!OnlyServedAreHandled,
                                      Interceptors!NobodyIsDropped
  <2> QED BY <2>2, <2>4, <2>5
<1>2. ASSUME NEW m \in Messages, Interceptors!Publish(m) PROVE InterceptorsInv'
  BY <1>2, InterceptorsPublish
<1>3. ASSUME NEW d \in waiting, Interceptors!Handle(d) \/ Interceptors!Refuse(d)
      PROVE  InterceptorsInv'
  <2>1. /\ UNCHANGED <<hook, stamp, card, told, wire>> /\ d \in Deliveries
        /\ waiting' \subseteq waiting /\ waiting \subseteq waiting' \cup {d}
        /\ repeats' \in Nat /\ repeats' >= repeats /\ (repeats' = 0 => d \notin waiting')
    BY <1>3 DEF Interceptors!Handle, Interceptors!Refuse, Interceptors!SettleOrRepeat, OnTheQueue
  <2>2. ThroughTheChain' /\ OnTheWire'
    BY <2>1 DEF ThroughTheChain, OnTheWire, Interceptors!NothingLeavesInClear
  <2>3. CASE Interceptors!Handle(d)
    <3>1. handled' = handled \cup {d} /\ dead' = dead /\ d.tenant \in Served
      BY <2>3 DEF Interceptors!Handle, Interceptors!Serves
    <3>2. Interceptors!NobodyIsDropped'
      BY <2>1, <3>1 DEF OnTheQueue, Interceptors!NobodyIsDropped
    <3> QED BY <2>1, <2>2, <3>1, <3>2 DEF OnTheQueue, Interceptors!OnlyServedAreHandled
  <2>4. CASE Interceptors!Refuse(d)
    <3>1. handled' = handled /\ dead' = Append(dead, d) /\ d.tenant \notin Served
      BY <2>4 DEF Interceptors!Refuse, Interceptors!Serves
    <3>2. /\ dead' \in Seq(Deliveries) /\ Len(dead') = Len(dead) + 1 /\ Len(dead) \in Nat
          /\ \A i \in 1..Len(dead) : dead'[i] = dead[i]
          /\ dead'[Len(dead) + 1] = d
          /\ DOMAIN dead' = 1..Len(dead') /\ DOMAIN dead = 1..Len(dead)
      BY <2>1, <3>1 DEF OnTheQueue
    <3>3. \A i \in DOMAIN dead' : i \in DOMAIN dead \/ i = Len(dead) + 1 BY <3>2
    <3>4. \A k \in Messages : told'[k] = "sent" =>
             \E e \in waiting' \cup handled' \cup {dead'[i] : i \in DOMAIN dead'} : e.what = k
      <4> SUFFICES ASSUME NEW k \in Messages, told[k] = "sent"
                   PROVE \E e \in waiting' \cup handled' \cup {dead'[i] : i \in DOMAIN dead'} : e.what = k
        BY <2>1
      <4>1. PICK e \in waiting \cup handled \cup {dead[i] : i \in DOMAIN dead} : e.what = k
        BY DEF OnTheQueue, Interceptors!NobodyIsDropped
      <4>2. CASE e \in {dead[i] : i \in DOMAIN dead}
        <5>1. PICK i \in DOMAIN dead : e = dead[i] BY <4>2
        <5>2. i \in DOMAIN dead' /\ dead'[i] = e BY <3>2, <5>1
        <5> QED BY <4>1, <5>2
      <4>3. CASE e \in handled BY <4>1, <4>3, <3>1
      <4>4. CASE e \in waiting /\ e # d BY <4>1, <4>4, <2>1
      <4>5. CASE e = d
        <5>1. Len(dead) + 1 \in DOMAIN dead' /\ dead'[Len(dead) + 1] = e BY <3>2, <4>5
        <5> QED BY <4>1, <5>1
      <4> QED BY <4>1, <4>2, <4>3, <4>4, <4>5
    <3>5. \A i \in DOMAIN dead' : /\ dead'[i].tenant \notin Served
                                  /\ dead'[i].what \in Messages => told'[dead'[i].what] \in Out
                                  /\ repeats' = 0 => dead'[i] \notin waiting'
      <4> SUFFICES ASSUME NEW i \in DOMAIN dead'
                   PROVE /\ dead'[i].tenant \notin Served
                         /\ dead'[i].what \in Messages => told'[dead'[i].what] \in Out
                         /\ repeats' = 0 => dead'[i] \notin waiting'
        OBVIOUS
      <4>1. CASE i \in DOMAIN dead
        BY <4>1, <2>1, <3>2 DEF OnTheQueue, Interceptors!NobodyIsDropped
      <4>2. CASE i = Len(dead) + 1 BY <4>2, <2>1, <3>1, <3>2 DEF OnTheQueue
      <4> QED BY <3>3, <4>1, <4>2
    <3>6. \A i, j \in DOMAIN dead' : i < j /\ dead'[i] = dead'[j] => repeats' > 0
      <4> SUFFICES ASSUME NEW i \in DOMAIN dead', NEW j \in DOMAIN dead', i < j,
                          dead'[i] = dead'[j]
                   PROVE repeats' > 0
        OBVIOUS
      <4>1. i \in DOMAIN dead /\ dead'[i] = dead[i] BY <3>2
      <4>2. CASE j \in DOMAIN dead
        <5>1. dead[i] = dead[j] BY <4>1, <4>2, <3>2
        <5>2. repeats > 0 /\ repeats \in Nat
          BY <4>1, <4>2, <5>1 DEF OnTheQueue, Interceptors!NobodyIsDropped
        <5> QED BY <2>1, <5>2
      <4>3. CASE j = Len(dead) + 1
        <5>1. dead[i] = d /\ d \in waiting BY <4>1, <4>3, <3>2
        <5> QED BY <5>1, <4>1, <2>1, <3>2 DEF OnTheQueue
      <4> QED BY <3>3, <4>2, <4>3
    <3>7. Interceptors!NobodyIsDropped' BY <3>4, <3>5, <3>6 DEF Interceptors!NobodyIsDropped
    <3> QED BY <2>1, <2>2, <3>1, <3>2, <3>5, <3>7 DEF OnTheQueue, Interceptors!OnlyServedAreHandled
  <2> QED BY <1>3, <2>3, <2>4
<1>4. CASE UNCHANGED Interceptors!vars
  BY <1>4 DEF Interceptors!vars, ThroughTheChain, OnTheWire, OnTheQueue,
     Interceptors!NothingLeavesInClear, Interceptors!OnlyServedAreHandled,
     Interceptors!NobodyIsDropped
<1> QED BY <1>1, <1>2, <1>3, <1>4 DEF Interceptors!Next

\* What leaves is redacted and under its tenant or refused for want of one, the
\* handler has its own tenants' messages, and the rest is dead-lettered.
THEOREM TenantsKeptApart ==
    Interceptors!Spec => [](/\ Interceptors!RefusedForItsTenant /\ Interceptors!NothingLeavesInClear
                            /\ Interceptors!OnlyServedAreHandled /\ Interceptors!NobodyIsDropped)
<1>1. InterceptorsInv => /\ Interceptors!RefusedForItsTenant /\ Interceptors!NothingLeavesInClear
                         /\ Interceptors!OnlyServedAreHandled /\ Interceptors!NobodyIsDropped
  BY DEF InterceptorsInv, ThroughTheChain, OnTheWire, OnTheQueue, Interceptors!RefusedForItsTenant, Out
<1> QED BY InterceptorsStart, InterceptorsKept, <1>1, PTL DEF Interceptors!Spec
-----------------------------------------------------------------------------
\* intermediate/11-graceful-shutdown.  An order is in one place or its handler has
\* ended, what is in two places was taken back by a Close, one handler is at work
\* at a time, and a drain that timed out counts the one it left.
Rec(o) == [run |-> nth, what |-> o]
Mine(S) == {r \in S : r.run = nth}
Records == [run : 1..nth, what : ShutdownOrders]

ShutdownPlaces ==
    /\ onQueue \subseteq ShutdownOrders /\ fetched \subseteq ShutdownOrders
    /\ running \subseteq ShutdownOrders /\ settling \subseteq ShutdownOrders
    /\ onQueue \cap fetched = {} /\ running \cap settling = {}
    /\ onQueue \cap (running \cup settling) = {} /\ fetched \cap (running \cup settling) = {}
    /\ stage \in {"consuming", "draining", "cancelled", "closed"}
    /\ stage # "consuming" => fetched = {}
    /\ stage = "closed" => running = {} /\ settling = {}
    /\ \A o, p \in running \cup settling : o = p

ShutdownEnds ==
    /\ nth \in Nat \ {0}
    /\ accepted \subseteq Records /\ filed \subseteq Records /\ cut \subseteq Records
    /\ IsFiniteSet(accepted) /\ IsFiniteSet(filed)
    /\ accepted \cap filed = {}
    /\ astray \subseteq cut /\ astray \cap (accepted \cup filed) = {}
    /\ \A r \in accepted \cup filed :
          \/ r \in cut
          \/ r.run = nth /\ r.what \notin onQueue \cup fetched \cup running
    /\ \A o \in ShutdownOrders \ (onQueue \cup fetched \cup running) : Rec(o) \in accepted \cup filed
    /\ \A c \in Mine(cut) : stage = "closed" /\ c.what \in onQueue

ShutdownTold ==
    /\ began \in Nat
    /\ stranded = IF stage = "cancelled" THEN 1 ELSE IF stage = "closed" THEN stranded ELSE 0
    /\ stranded \in {0, 1}
    /\ stranded = 0 => /\ Mine(cut) = {}
                       /\ began = Cardinality(Mine(accepted)) + Cardinality(running)
    /\ \A c, d \in Mine(cut) : c = d

ShutdownInv == ShutdownPlaces /\ ShutdownEnds /\ ShutdownTold

LEMMA ShutdownCardinality == \A S : Shutdown!Cardinality(S) = Cardinality(S)
  BY DEF Shutdown!Cardinality, Cardinality

\* Two sets that have nothing in common count together.
LEMMA TogetherCardinality ==
    ASSUME NEW S, NEW T, IsFiniteSet(S), IsFiniteSet(T), S \cap T = {}
    PROVE  Cardinality(S \cup T) = Cardinality(S) + Cardinality(T)
<1>1. Cardinality(S \cup T) = Cardinality(S) + Cardinality(T) - Cardinality(S \cap T)
  BY FS_Union
<1>2. Cardinality(S \cap T) = 0 BY FS_EmptySet
<1>3. Cardinality(S) \in Nat /\ Cardinality(T) \in Nat BY FS_CardinalityType
<1> QED BY <1>1, <1>2, <1>3

\* The records of this run are as many as the orders they are of.
LEMMA RecordsCount ==
    ASSUME NEW S, IsFiniteSet(S)
    PROVE  Cardinality({Rec(o) : o \in S}) = Cardinality(S)
<1> DEFINE T == {Rec(o) : o \in S}
           f == [o \in S |-> Rec(o)]
<1>1. f \in [S -> T] /\ (\A o \in S : f[o] = Rec(o)) OBVIOUS
<1>2. \A o, p \in S : f[o] = f[p] => o = p BY DEF Rec
<1>3. \A t \in T : \E o \in S : f[o] = t OBVIOUS
<1> HIDE DEF f, T
<1>4. f \in Bijection(S, T)
  BY <1>1, <1>2, <1>3 DEF Bijection, Injection, Surjection, IsInjective
<1>5. ExistsBijection(S, T) BY <1>4 DEF ExistsBijection
<1>6. Cardinality(T) = Cardinality(S) BY <1>5, FS_Bijection
<1> QED BY <1>6 DEF T

\* At most one handler is at work, and what this run counted is finite.
LEMMA ShutdownFinite ==
    ASSUME ShutdownPlaces, ShutdownEnds
    PROVE  /\ Cardinality({}) = 0 /\ \A o : Cardinality({o}) = 1
           /\ running = {} \/ \E o : running = {o}
           /\ IsFiniteSet(Mine(accepted)) /\ Cardinality(Mine(accepted)) \in Nat
<1>1. IsFiniteSet(Mine(accepted)) BY FS_Subset DEF ShutdownEnds, Mine
<1>2. Cardinality({}) = 0 BY FS_EmptySet
<1>3. \A o : Cardinality({o}) = 1 BY FS_Singleton
<1>4. running = {} \/ \E o : running = {o} BY DEF ShutdownPlaces
<1>5. Cardinality(Mine(accepted)) \in Nat BY <1>1, FS_CardinalityType
<1> QED BY <1>1, <1>2, <1>3, <1>4, <1>5

LEMMA ShutdownStarts == Shutdown!Init => ShutdownInv
<1> SUFFICES ASSUME Shutdown!Init PROVE ShutdownInv
  OBVIOUS
<1> USE DEF Shutdown!Init
<1>1. ShutdownPlaces BY DEF ShutdownPlaces
<1>2. ShutdownEnds BY FS_EmptySet DEF ShutdownEnds, Mine
<1>3. ShutdownTold
  <2>1. Mine(accepted) = {} /\ Mine(cut) = {} BY DEF Mine
  <2> QED BY <2>1, FS_EmptySet DEF ShutdownTold
<1> QED BY <1>1, <1>2, <1>3 DEF ShutdownInv

\* Steps that end no handler and begin no shutdown: deliveries come and go.
LEMMA ShutdownEndsStay ==
    ASSUME ShutdownEnds, UNCHANGED <<nth, accepted, filed, cut, astray>>,
           stage # "closed", stage' # "closed",
           onQueue' \cup fetched' \cup running' = onQueue \cup fetched \cup running
    PROVE  ShutdownEnds'
<1>1. Records' = Records /\ Mine(cut)' = Mine(cut) /\ \A o : Rec(o)' = Rec(o)
  BY DEF Records, Mine, Rec
<1> QED BY <1>1 DEF ShutdownEnds

\* A handler at work has not ended in this run before.
LEMMA ShutdownNotYet ==
    ASSUME ShutdownPlaces, ShutdownEnds, NEW o \in running
    PROVE  /\ Rec(o) \in Records /\ Rec(o) \notin accepted \cup filed
           /\ Rec(o).run = nth /\ Rec(o).what = o /\ Rec(o) \notin cut
<1>1. Rec(o) \in Records /\ Rec(o).run = nth /\ Rec(o).what = o
  BY DEF Rec, Records, ShutdownEnds, ShutdownPlaces
<1>2. Rec(o) \notin cut BY <1>1 DEF ShutdownPlaces, ShutdownEnds, Mine
<1> QED BY <1>1, <1>2 DEF ShutdownEnds

LEMMA ShutdownKept == ShutdownInv /\ [Shutdown!Next]_(Shutdown!vars) => ShutdownInv'
<1> SUFFICES ASSUME ShutdownInv, [Shutdown!Next]_(Shutdown!vars) PROVE ShutdownInv'
  OBVIOUS
<1> USE DEF ShutdownInv
<1>f. /\ Cardinality({}) = 0 /\ \A o : Cardinality({o}) = 1
      /\ running = {} \/ \E o : running = {o}
      /\ IsFiniteSet(Mine(accepted)) /\ Cardinality(Mine(accepted)) \in Nat
  BY ShutdownFinite
<1>m. UNCHANGED <<nth, accepted, cut>> =>
        Mine(accepted)' = Mine(accepted) /\ Mine(cut)' = Mine(cut)
  BY DEF Mine
<1>1. ASSUME NEW o \in ShutdownOrders, Shutdown!Fetch(o) PROVE ShutdownInv'
  <2> USE <1>1 DEF Shutdown!Fetch, Shutdown!Delivering
  <2>1. ShutdownPlaces' BY DEF ShutdownPlaces
  <2>2. ShutdownEnds' BY ShutdownEndsStay
  <2>3. ShutdownTold' BY <1>m DEF ShutdownTold
  <2> QED BY <2>1, <2>2, <2>3
<1>2. ASSUME NEW o \in ShutdownOrders, Shutdown!Begin(o) PROVE ShutdownInv'
  <2> USE <1>2 DEF Shutdown!Begin, Shutdown!Delivering, Shutdown!InHand
  <2>1. ShutdownPlaces' BY DEF ShutdownPlaces
  <2>2. ShutdownEnds' BY ShutdownEndsStay
  <2>3. running = {} /\ running' = {o} /\ Cardinality(running) = 0 /\ Cardinality(running') = 1
    BY <1>f
  <2>4. ShutdownTold' BY <1>m, <1>f, <2>3 DEF ShutdownTold
  <2> QED BY <2>1, <2>2, <2>4
<1>3. ASSUME NEW o \in ShutdownOrders, Shutdown!Complete(o) PROVE ShutdownInv'
  <2>0. /\ o \in running /\ running' = running \ {o} /\ settling' = settling \cup {o}
        /\ accepted' = accepted \cup {Rec(o)}
        /\ UNCHANGED <<nth, stage, onQueue, fetched, filed, began, stranded, astray, cut>>
    BY <1>3 DEF Shutdown!Complete, Shutdown!Mark, Rec
  <2>1. ShutdownPlaces' BY <2>0 DEF ShutdownPlaces
  <2>2. /\ Rec(o) \in Records /\ Rec(o) \notin accepted \cup filed
        /\ Rec(o).run = nth /\ Rec(o).what = o /\ Rec(o) \notin cut
    BY <2>0, ShutdownNotYet
  <2>3. Records' = Records /\ Mine(cut)' = Mine(cut) /\ \A p : Rec(p)' = Rec(p)
    BY <2>0 DEF Records, Mine, Rec
  <2>4. IsFiniteSet(accepted') BY <2>0, FS_AddElement DEF ShutdownEnds
  <2>5. o \notin onQueue \cup fetched \cup running'
    BY <2>0 DEF ShutdownPlaces
  <2>6. ShutdownEnds' BY <2>0, <2>2, <2>3, <2>4, <2>5 DEF ShutdownEnds
  <2>7. Mine(accepted)' = Mine(accepted) \cup {Rec(o)} /\ Rec(o) \notin Mine(accepted)
    BY <2>0, <2>2 DEF Mine
  <2>8. Cardinality(Mine(accepted)') = Cardinality(Mine(accepted)) + 1
    BY <1>f, <2>7, FS_AddElement
  <2>9. running = {o} /\ running' = {} BY <2>0 DEF ShutdownPlaces
  <2>10. Cardinality(running) = 1 /\ Cardinality(running') = 0 BY <1>f, <2>9
  <2>11. ShutdownTold' BY <1>f, <2>0, <2>3, <2>8, <2>10 DEF ShutdownTold
  <2> QED BY <2>1, <2>6, <2>11
<1>4. ASSUME NEW o \in ShutdownOrders, Shutdown!GiveUp(o) PROVE ShutdownInv'
  <2>0. /\ o \in running /\ running' = running \ {o} /\ settling' = settling \cup {o}
        /\ filed' = filed \cup {Rec(o)} /\ stage = "cancelled"
        /\ UNCHANGED <<nth, stage, onQueue, fetched, accepted, began, stranded, astray, cut>>
    BY <1>4 DEF Shutdown!GiveUp, Shutdown!Mark, Rec
  <2>1. ShutdownPlaces' BY <2>0 DEF ShutdownPlaces
  <2>2. /\ Rec(o) \in Records /\ Rec(o) \notin accepted \cup filed
        /\ Rec(o).run = nth /\ Rec(o).what = o /\ Rec(o) \notin cut
    BY <2>0, ShutdownNotYet
  <2>3. Records' = Records /\ Mine(cut)' = Mine(cut) /\ \A p : Rec(p)' = Rec(p)
    BY <2>0 DEF Records, Mine, Rec
  <2>4. IsFiniteSet(filed') BY <2>0, FS_AddElement DEF ShutdownEnds
  <2>5. o \notin onQueue \cup fetched \cup running'
    BY <2>0 DEF ShutdownPlaces
  <2>6. ShutdownEnds' BY <2>0, <2>2, <2>3, <2>4, <2>5 DEF ShutdownEnds
  <2>7. ShutdownTold' BY <2>0, <2>3 DEF ShutdownTold
  <2> QED BY <2>1, <2>6, <2>7
<1>5. ASSUME NEW o \in ShutdownOrders, Shutdown!Settle(o) PROVE ShutdownInv'
  <2> USE <1>5 DEF Shutdown!Settle
  <2>1. ShutdownPlaces' BY DEF ShutdownPlaces
  <2>2. ShutdownEnds'
    <3>1. stage # "closed" BY DEF ShutdownPlaces
    <3> QED BY <3>1, ShutdownEndsStay
  <2>3. ShutdownTold' BY <1>m DEF ShutdownTold
  <2> QED BY <2>1, <2>2, <2>3
<1>6. CASE Shutdown!Drain
  <2> USE <1>6 DEF Shutdown!Drain
  <2>1. ShutdownPlaces' BY DEF ShutdownPlaces
  <2>2. ShutdownEnds' BY ShutdownEndsStay
  <2>3. ShutdownTold' BY <1>m DEF ShutdownTold
  <2> QED BY <2>1, <2>2, <2>3
<1>7. CASE Shutdown!Cancel
  <2> USE <1>7 DEF Shutdown!Cancel, Shutdown!InHand
  <2>1. ShutdownPlaces' BY DEF ShutdownPlaces
  <2>2. ShutdownEnds' BY ShutdownEndsStay
  <2>3. \E o : running \cup settling = {o} BY DEF ShutdownPlaces
  <2>4. stranded' = 1 BY <1>f, <2>3, ShutdownCardinality
  <2>5. ShutdownTold' BY <1>m, <2>4 DEF ShutdownTold
  <2> QED BY <2>1, <2>2, <2>5
<1>8. CASE Shutdown!CloseReturns
  <2> DEFINE hand == running \cup settling
             back == {Rec(o) : o \in hand}
             left == {Rec(o) : o \in running}
  <2>0. /\ stage' = "closed" /\ onQueue' = onQueue \cup hand /\ running' = {} /\ settling' = {}
        /\ astray' = astray \cup left /\ cut' = cut \cup back
        /\ UNCHANGED <<nth, fetched, filed, began, accepted, stranded>>
        /\ stage # "cancelled" => hand = {}
        /\ stage \in {"draining", "cancelled"}
    BY <1>8 DEF Shutdown!CloseReturns, Shutdown!InHand, Shutdown!Mark, Rec
  <2>1. ShutdownPlaces' BY <2>0 DEF ShutdownPlaces
  <2>2. Records' = Records /\ \A p : Rec(p)' = Rec(p)
    BY <2>0 DEF Records, Rec
  <2>3. /\ \A r \in back : r \in Records /\ r.run = nth /\ r.what \in hand /\ r = Rec(r.what)
        /\ \A o \in hand : Rec(o) \in back
        /\ left \subseteq back
    BY DEF Rec, Records, ShutdownPlaces, ShutdownEnds
  <2>4. left \cap (accepted \cup filed) = {} BY ShutdownNotYet
  <2>5. \A a, b \in back : a = b BY DEF ShutdownPlaces
  <2>6. hand = {} => back = {} OBVIOUS
  <2> HIDE DEF back, left
  <2>7. Mine(cut)' = back
    <3>1. Mine(cut) = {} BY <2>0 DEF ShutdownEnds
    <3> QED BY <2>0, <2>3, <3>1 DEF Mine
  <2>8. \A r \in accepted \cup filed :
           r \in cut' \/ (r.run = nth /\ r.what \notin onQueue' \cup fetched' \cup running')
    <3> SUFFICES ASSUME NEW r \in accepted \cup filed, r \notin cut'
                 PROVE  r.run = nth /\ r.what \notin onQueue' \cup fetched' \cup running'
      OBVIOUS
    <3>1. r.run = nth /\ r.what \notin onQueue \cup fetched \cup running
      BY <2>0 DEF ShutdownEnds
    <3>2. r = Rec(r.what) BY <3>1 DEF ShutdownEnds, Records, Rec
    <3>3. r.what \notin hand BY <2>0, <2>3, <3>2
    <3> QED BY <2>0, <3>1, <3>3
  <2>9. ShutdownEnds'
    <3>1. \A c \in Mine(cut)' : stage' = "closed" /\ c.what \in onQueue'
      BY <2>0, <2>3, <2>7
    <3>2. \A o \in ShutdownOrders \ (onQueue' \cup fetched' \cup running') :
             Rec(o)' \in accepted' \cup filed'
      BY <2>0, <2>2 DEF ShutdownEnds
    <3>3. astray' \subseteq cut' /\ astray' \cap (accepted' \cup filed') = {}
      BY <2>0, <2>3, <2>4 DEF ShutdownEnds
    <3>4. cut' \subseteq Records BY <2>0, <2>3 DEF ShutdownEnds
    <3> QED BY <2>0, <2>2, <2>8, <3>1, <3>2, <3>3, <3>4 DEF ShutdownEnds
  <2>10. ShutdownTold'
    <3>1. Mine(accepted)' = Mine(accepted) BY <2>0 DEF Mine
    <3>2. stranded = IF stage = "cancelled" THEN 1 ELSE 0 BY <2>0 DEF ShutdownTold
    <3>3. stranded = 0 => back = {} /\ running = {} BY <2>0, <2>6, <3>2
    <3> QED BY <2>0, <2>5, <2>7, <3>1, <3>2, <3>3 DEF ShutdownTold
  <2> QED BY <2>1, <2>9, <2>10
<1>9. CASE Shutdown!NextRun
  <2> USE <1>9 DEF Shutdown!NextRun, Shutdown!Fresh
  <2>1. ShutdownPlaces' BY DEF ShutdownPlaces
  <2>2. nth' = nth + 1 /\ nth \in Nat \ {0} BY DEF ShutdownEnds
  <2>3. Records \subseteq Records' BY <2>2 DEF Records
  <2>4. Mine(cut)' = {} /\ Mine(accepted)' = {} BY <2>2 DEF Mine, ShutdownEnds, Records
  <2>5. ShutdownEnds' BY <2>2, <2>3, <2>4, FS_EmptySet DEF ShutdownEnds
  <2>6. /\ Cardinality(Mine(accepted)') = 0 /\ Cardinality(running') = 0
        /\ began' = 0 /\ stranded' = 0 /\ stage' = "consuming"
    BY <1>f, <2>4
  <2>7. ShutdownTold' BY <2>4, <2>6 DEF ShutdownTold
  <2> QED BY <2>1, <2>5, <2>7
<1>10. ASSUME NEW a \in astray, Shutdown!EndAstray(a) PROVE ShutdownInv'
  <2>0. /\ astray' = astray \ {a}
        /\ \/ accepted' = accepted \cup {a} /\ filed' = filed
           \/ filed' = filed \cup {a} /\ accepted' = accepted
           \/ UNCHANGED <<accepted, filed>>
        /\ UNCHANGED <<nth, stage, onQueue, fetched, running, settling, began, stranded, cut>>
    BY <1>10 DEF Shutdown!EndAstray
  <2>1. ShutdownPlaces' BY <2>0 DEF ShutdownPlaces
  <2>2. a \in cut /\ a \in Records /\ a \notin accepted \cup filed BY DEF ShutdownEnds
  <2>3. Records' = Records /\ Mine(cut)' = Mine(cut) /\ \A p : Rec(p)' = Rec(p)
    BY <2>0 DEF Records, Mine, Rec
  <2>4. IsFiniteSet(accepted') /\ IsFiniteSet(filed')
    BY <2>0, FS_AddElement DEF ShutdownEnds
  <2>5. ShutdownEnds' BY <2>0, <2>2, <2>3, <2>4 DEF ShutdownEnds
  <2>6. stranded = 0 => Mine(accepted)' = Mine(accepted)
    BY <2>0, <2>2 DEF ShutdownTold, Mine
  <2>7. ShutdownTold' BY <2>0, <2>3, <2>6 DEF ShutdownTold
  <2> QED BY <2>1, <2>5, <2>7
<1>11. CASE UNCHANGED Shutdown!vars
  BY <1>11 DEF Shutdown!vars, ShutdownPlaces, ShutdownEnds, ShutdownTold, Records, Mine, Rec
<1> QED BY <1>1, <1>2, <1>3, <1>4, <1>5, <1>6, <1>7, <1>8, <1>9, <1>10, <1>11 DEF Shutdown!Next

\* A Close that returned accounts for every order, says how many of them are counted
\* twice, and tells of every delivery it took back from its handler.
THEOREM ClosesAccount == Shutdown!Spec => [](Shutdown!EveryOrderAccounted /\ Shutdown!StrandedIsToldOf)
<1>1. ShutdownInv /\ stage = "closed" => Shutdown!EveryOrderAccounted /\ Shutdown!StrandedIsToldOf
  <2>0. SUFFICES ASSUME ShutdownInv, stage = "closed"
                 PROVE  Shutdown!EveryOrderAccounted /\ Shutdown!StrandedIsToldOf
    OBVIOUS
  <2> USE <2>0 DEF ShutdownInv
  <2> DEFINE E == accepted \cup filed
             rest == ShutdownOrders \ onQueue
  <2>1. running = {} /\ fetched = {} /\ onQueue \subseteq ShutdownOrders
    BY <2>0 DEF ShutdownPlaces
  <2>2. \A o \in ShutdownOrders : o \in onQueue \/ Rec(o) \in E
    BY <2>1 DEF ShutdownEnds
  <2>3. \A r \in E \ cut : r.run = nth /\ r.what \notin onQueue
    BY DEF ShutdownEnds
  <2>4. E \ cut = {Rec(o) : o \in rest}
    <3>1. \A r \in E \ cut : r = Rec(r.what) /\ r.what \in rest
      BY <2>3 DEF ShutdownEnds, Records, Rec
    <3>2. ASSUME NEW o \in rest PROVE Rec(o) \in E \ cut
      <4>1. Rec(o) \in E BY <2>2
      <4>2. Rec(o).run = nth /\ Rec(o).what = o BY DEF Rec
      <4>3. Rec(o) \notin cut BY <4>2 DEF ShutdownEnds, Mine
      <4> QED BY <4>1, <4>3
    <3> QED BY <3>1, <3>2
  <2>5. Cardinality(accepted) + Cardinality(filed) = Cardinality(E) /\ IsFiniteSet(E)
    BY TogetherCardinality, FS_Union DEF ShutdownEnds
  <2> HIDE DEF E
  <2>6. Cardinality(E) = Cardinality(E \cap cut) + Cardinality(E \ cut)
    <3>1. IsFiniteSet(E \cap cut) /\ IsFiniteSet(E \ cut) BY <2>5, FS_Subset
    <3>2. E = (E \cap cut) \cup (E \ cut) /\ (E \cap cut) \cap (E \ cut) = {} OBVIOUS
    <3> QED BY <3>1, <3>2, TogetherCardinality
  <2>7. /\ IsFiniteSet(onQueue) /\ IsFiniteSet(rest)
        /\ Cardinality(ShutdownOrders) = Cardinality(onQueue) + Cardinality(rest)
    <3>1. IsFiniteSet(onQueue) /\ IsFiniteSet(rest) BY <2>1, ShutdownAssumption, FS_Subset
    <3>2. ShutdownOrders = onQueue \cup rest /\ onQueue \cap rest = {} BY <2>1
    <3> HIDE DEF rest
    <3> QED BY <3>1, <3>2, TogetherCardinality
  <2>8. Cardinality(E \ cut) = Cardinality(rest) BY <2>4, <2>7, RecordsCount
  <2>9. /\ Cardinality(onQueue) \in Nat /\ Cardinality(rest) \in Nat
        /\ Cardinality(E \cap cut) \in Nat
    BY <2>5, <2>7, FS_Subset, FS_CardinalityType
  <2>10. Cardinality(accepted) + Cardinality(filed) + Cardinality(onQueue)
           = Cardinality(ShutdownOrders) + Cardinality(E \cap cut)
    <3> HIDE DEF rest
    <3> QED BY <2>5, <2>6, <2>7, <2>8, <2>9
  <2>11. Shutdown!EveryOrderAccounted
    BY <2>2, <2>3, <2>10, ShutdownCardinality
    DEF E, Rec, Shutdown!EveryOrderAccounted, Shutdown!Ended
  <2>12. stranded = 0 => Cardinality(Mine(accepted)) = began
    BY <2>1, ShutdownFinite DEF ShutdownTold
  <2>13. Cardinality(Mine(cut)) <= stranded
    <3>1. Mine(cut) = {} \/ (stranded = 1 /\ \E c : Mine(cut) = {c}) BY <2>0 DEF ShutdownTold
    <3>2. Cardinality({}) = 0 /\ (\A c : Cardinality({c}) = 1) /\ stranded \in {0, 1}
      BY ShutdownFinite DEF ShutdownTold
    <3>3. CASE Mine(cut) = {} BY <3>2, <3>3
    <3>4. CASE stranded = 1 /\ \E c : Mine(cut) = {c}
      <4>1. Cardinality(Mine(cut)) = 1 BY <3>2, <3>4
      <4> QED BY <3>4, <4>1
    <3> QED BY <3>1, <3>3, <3>4
  <2> QED BY <2>11, <2>12, <2>13, ShutdownCardinality DEF Shutdown!StrandedIsToldOf, Mine
<1>2. stage # "closed" => Shutdown!EveryOrderAccounted /\ Shutdown!StrandedIsToldOf
  BY DEF Shutdown!EveryOrderAccounted, Shutdown!StrandedIsToldOf
<1>3. ShutdownInv => Shutdown!EveryOrderAccounted /\ Shutdown!StrandedIsToldOf
  BY <1>1, <1>2
<1> QED BY ShutdownStarts, ShutdownKept, <1>3, PTL DEF Shutdown!Spec

\* Once Close drains, no handler begins on what was fetched before.
THEOREM DrainBeginsNothing == Shutdown!Spec => Shutdown!NothingBeginsWhileDraining
<1>1. ShutdownInv /\ [Shutdown!Next]_(Shutdown!vars) =>
        [(stage \in {"draining", "cancelled"}) => (began' <= began)]_(Shutdown!vars)
  <2> SUFFICES ASSUME ShutdownInv, Shutdown!Next, stage \in {"draining", "cancelled"}
               PROVE  began' <= began
    OBVIOUS
  <2>1. began \in Nat BY DEF ShutdownInv, ShutdownTold
  <2>2. began' = began
    BY DEF Shutdown!Next, Shutdown!Fetch, Shutdown!Begin, Shutdown!Delivering, Shutdown!Complete,
       Shutdown!GiveUp, Shutdown!Settle, Shutdown!Drain, Shutdown!Cancel, Shutdown!CloseReturns, Shutdown!NextRun,
       Shutdown!EndAstray
  <2> QED BY <2>1, <2>2
<1> QED BY ShutdownStarts, ShutdownKept, <1>1, PTL DEF Shutdown!Spec, Shutdown!NothingBeginsWhileDraining
-----------------------------------------------------------------------------
\* intermediate/08-a-declared-pipeline.  What a step saw of an order, what is queued
\* for it, and what the steps before it have still to hand on is one, and one more
\* for each death; and no signal of an order is given twice before the first death.
LastStep(o) == IF o \in Digital THEN 2 ELSE 3

PipelineCells == PipelineOrders \X (1..3)

PipelineOrder(o) ==
    /\ queued[<<o, 1>>] + saw[<<o, 1>>] <= 1 + died
    /\ queued[<<o, 1>>] + returned[<<o, 1>>] + queued[<<o, 2>>] + saw[<<o, 2>>] <= 1 + died
    /\ queued[<<o, 1>>] + returned[<<o, 1>>] + queued[<<o, 2>>] + returned[<<o, 2>>]
          + queued[<<o, 3>>] + saw[<<o, 3>>] <= 1 + died
    /\ o \in Digital => /\ queued[<<o, 3>>] = 0 /\ returned[<<o, 3>>] = 0
                       /\ passedOn[<<o, 3>>] = 0 /\ saw[<<o, 3>>] = 0
    /\ \A i \in 1..3 : returned[<<o, i>>] > 0 => saw[<<o, i>>] > 0
    /\ o \notin toSend => \/ \E i \in 1..3 : queued[<<o, i>>] + returned[<<o, i>>] > 0
                          \/ saw[<<o, LastStep(o)>>] > 0

PipelineCounts ==
    /\ toSend \subseteq PipelineOrders /\ died \in Nat
    /\ queued \in [PipelineCells -> Nat] /\ returned \in [PipelineCells -> Nat]
    /\ passedOn \in [PipelineCells -> Nat] /\ saw \in [PipelineCells -> Nat]
    /\ \A o \in toSend, i \in 1..3 :
          queued[<<o, i>>] = 0 /\ returned[<<o, i>>] = 0 /\ passedOn[<<o, i>>] = 0 /\ saw[<<o, i>>] = 0
    /\ \A o \in PipelineOrders : PipelineOrder(o)

Distinct(s) == \A i, j \in 1..Len(s) : i # j => s[i] # s[j]

Apart(s, t) == \A i \in 1..Len(s), j \in 1..Len(t) : s[i] # t[j]

Signalled(s) == \A i \in 1..Len(s) : saw[<<s[i], LastStep(s[i])>>] > 0

PipelineSignals ==
    /\ dispatched \in Seq(PipelineOrders) /\ stopped \in Seq(PipelineOrders)
    /\ heard \in Seq(PipelineOrders)
    /\ died = 0 => /\ Signalled(dispatched) /\ Signalled(stopped) /\ Signalled(heard)
                   /\ Distinct(dispatched) /\ Distinct(stopped) /\ Distinct(heard)
                   /\ Apart(heard, dispatched) /\ Apart(heard, stopped)
                   /\ Apart(dispatched, stopped)

PipelineInv == PipelineCounts /\ PipelineSignals

LEMMA PipelineSteps == /\ Len(Pipeline!Steps) = 3 /\ Pipeline!Cells = PipelineCells
                       /\ Pipeline!Steps[1] = "validate" /\ Pipeline!Steps[2] = "reserve"
                       /\ Pipeline!Steps[3] = "dispatch"
  BY DEF Pipeline!Steps, Pipeline!Cells, PipelineCells

LEMMA PipelineHandsOn ==
    ASSUME NEW o, NEW i \in 1..3
    PROVE  Pipeline!HandsOn(o, i) <=> i < LastStep(o)
<1>1. i = 1 \/ i = 2 \/ i = 3 OBVIOUS
<1>2. CASE i = 1 BY <1>2, PipelineSteps DEF Pipeline!HandsOn, LastStep
<1>3. CASE i = 2 BY <1>3, PipelineSteps DEF Pipeline!HandsOn, LastStep
<1>4. CASE i = 3 BY <1>4, PipelineSteps DEF Pipeline!HandsOn, LastStep
<1> QED BY <1>1, <1>2, <1>3, <1>4

\* One cell of a count is set anew.
LEMMA PipelineSet ==
    ASSUME NEW f \in [PipelineCells -> Nat], NEW o \in PipelineOrders, NEW i \in 1..3, NEW n \in Nat
    PROVE  /\ [f EXCEPT ![<<o, i>>] = n] \in [PipelineCells -> Nat]
           /\ \A p \in PipelineOrders, j \in 1..3 :
                 [f EXCEPT ![<<o, i>>] = n][<<p, j>>] = IF p = o /\ j = i THEN n ELSE f[<<p, j>>]
  BY DEF PipelineCells

LEMMA PipelineStarts == Pipeline!Init => PipelineInv
<1> SUFFICES ASSUME Pipeline!Init PROVE PipelineInv
  OBVIOUS
<1>1. /\ queued = [c \in PipelineCells |-> 0] /\ returned = [c \in PipelineCells |-> 0]
      /\ passedOn = [c \in PipelineCells |-> 0] /\ saw = [c \in PipelineCells |-> 0]
      /\ toSend = PipelineOrders /\ died = 0
  BY PipelineSteps DEF Pipeline!Init, Pipeline!None
<1>2. \A o \in PipelineOrders, i \in 1..3 :
         queued[<<o, i>>] = 0 /\ returned[<<o, i>>] = 0 /\ passedOn[<<o, i>>] = 0 /\ saw[<<o, i>>] = 0
  BY <1>1 DEF PipelineCells
<1>3. ASSUME NEW o \in PipelineOrders PROVE PipelineOrder(o)
  <2>1. /\ queued[<<o, 1>>] = 0 /\ queued[<<o, 2>>] = 0 /\ queued[<<o, 3>>] = 0
        /\ returned[<<o, 1>>] = 0 /\ returned[<<o, 2>>] = 0 /\ returned[<<o, 3>>] = 0
        /\ saw[<<o, 1>>] = 0 /\ saw[<<o, 2>>] = 0 /\ saw[<<o, 3>>] = 0 /\ passedOn[<<o, 3>>] = 0
    BY <1>2
  <2>2. died = 0 /\ o \in toSend BY <1>1
  <2>3. \A i \in 1..3 : returned[<<o, i>>] = 0 BY <1>2
  <2> QED BY <2>1, <2>2, <2>3 DEF PipelineOrder
<1>4. PipelineCounts BY <1>1, <1>2, <1>3 DEF PipelineCounts
<1>5. PipelineSignals BY DEF Pipeline!Init, PipelineSignals, Signalled, Apart, Distinct
<1> QED BY <1>4, <1>5 DEF PipelineInv

\* A step that moves one order leaves the others where they are.
LEMMA PipelineOneMoves ==
    ASSUME PipelineCounts, NEW o \in PipelineOrders,
           toSend' = toSend \ {o}, died' \in {died, died + 1},
           queued' \in [PipelineCells -> Nat], returned' \in [PipelineCells -> Nat],
           passedOn' \in [PipelineCells -> Nat], saw' \in [PipelineCells -> Nat],
           \A p \in PipelineOrders, j \in 1..3 : p # o =>
              /\ queued'[<<p, j>>] = queued[<<p, j>>] /\ returned'[<<p, j>>] = returned[<<p, j>>]
              /\ passedOn'[<<p, j>>] = passedOn[<<p, j>>] /\ saw'[<<p, j>>] = saw[<<p, j>>],
           PipelineOrder(o)'
    PROVE  PipelineCounts'
<1>1. ASSUME NEW p \in PipelineOrders, p # o PROVE PipelineOrder(p)'
  <2> DEFINE q(j) == queued[<<p, j>>]
             r(j) == returned[<<p, j>>]
             w(j) == passedOn[<<p, j>>]
             s(j) == saw[<<p, j>>]
  <2>1. /\ \A j \in 1..3 : /\ queued'[<<p, j>>] = q(j) /\ returned'[<<p, j>>] = r(j)
                           /\ passedOn'[<<p, j>>] = w(j) /\ saw'[<<p, j>>] = s(j)
        /\ LastStep(p) \in 1..3 /\ (p \notin toSend' => p \notin toSend)
    BY <1>1 DEF LastStep
  <2>2. \A j \in 1..3 : q(j) \in Nat /\ r(j) \in Nat /\ s(j) \in Nat
    BY DEF PipelineCounts, PipelineCells
  <2>3. /\ q(1) + s(1) <= 1 + died /\ q(1) + r(1) + q(2) + s(2) <= 1 + died
        /\ q(1) + r(1) + q(2) + r(2) + q(3) + s(3) <= 1 + died
        /\ p \in Digital => q(3) = 0 /\ r(3) = 0 /\ w(3) = 0 /\ s(3) = 0
        /\ \A j \in 1..3 : r(j) > 0 => s(j) > 0
        /\ p \notin toSend => (\E j \in 1..3 : q(j) + r(j) > 0) \/ s(LastStep(p)) > 0
        /\ died \in Nat
    BY DEF PipelineCounts, PipelineOrder
  <2> HIDE DEF q, r, w, s
  <2>4. /\ q(1) \in Nat /\ q(2) \in Nat /\ q(3) \in Nat /\ r(1) \in Nat /\ r(2) \in Nat
        /\ s(1) \in Nat /\ s(2) \in Nat /\ s(3) \in Nat
    BY <2>2
  <2>5. /\ q(1) + s(1) <= 1 + died' /\ q(1) + r(1) + q(2) + s(2) <= 1 + died'
        /\ q(1) + r(1) + q(2) + r(2) + q(3) + s(3) <= 1 + died'
    BY <2>3, <2>4
  <2>6. saw'[<<p, LastStep(p)>>] = s(LastStep(p)) BY <2>1
  <2>7. p \notin toSend' => \/ \E j \in 1..3 : queued'[<<p, j>>] + returned'[<<p, j>>] > 0
                            \/ saw'[<<p, LastStep(p)>>] > 0
    BY <2>1, <2>3, <2>6
  <2> QED BY <2>1, <2>3, <2>5, <2>7 DEF PipelineOrder, LastStep
<1>2. ASSUME NEW p \in toSend', NEW j \in 1..3
      PROVE  /\ queued'[<<p, j>>] = 0 /\ returned'[<<p, j>>] = 0
             /\ passedOn'[<<p, j>>] = 0 /\ saw'[<<p, j>>] = 0
  BY DEF PipelineCounts
<1>3. died' \in Nat /\ toSend' \subseteq PipelineOrders BY DEF PipelineCounts
<1> QED BY <1>1, <1>2, <1>3 DEF PipelineCounts

\* The numbers of the order that a step is at: what its handler and its hand-over
\* change.
LEMMA PipelineNumbers ==
    ASSUME PipelineCounts, NEW o \in PipelineOrders
    PROVE  /\ died \in Nat
           /\ \A j \in 1..3 : /\ queued[<<o, j>>] \in Nat /\ returned[<<o, j>>] \in Nat
                              /\ passedOn[<<o, j>>] \in Nat /\ saw[<<o, j>>] \in Nat
           /\ LastStep(o) = IF o \in Digital THEN 2 ELSE 3
           /\ PipelineOrder(o)
  BY DEF PipelineCounts, PipelineCells, LastStep

\* A run that is with a step has been started.
LEMMA PipelineSent ==
    ASSUME PipelineCounts, NEW o \in PipelineOrders, NEW i \in 1..3,
           queued[<<o, i>>] > 0 \/ returned[<<o, i>>] > 0 \/ passedOn[<<o, i>>] > 0
    PROVE  o \notin toSend
<1> SUFFICES ASSUME o \in toSend PROVE FALSE
  OBVIOUS
<1>1. queued[<<o, i>>] = 0 /\ returned[<<o, i>>] = 0 /\ passedOn[<<o, i>>] = 0
  BY DEF PipelineCounts
<1> QED BY <1>1

LEMMA PipelineHandles ==
    ASSUME PipelineCounts, NEW o \in PipelineOrders, NEW i \in 1..3, Pipeline!Handle(o, i)
    PROVE  /\ PipelineCounts' /\ queued[<<o, i>>] > 0 /\ UNCHANGED <<heard, died>>
           /\ saw' = [saw EXCEPT ![<<o, i>>] = saw[<<o, i>>] + 1]
<1>1. /\ queued[<<o, i>>] > 0 /\ UNCHANGED <<toSend, passedOn, heard, died>>
      /\ queued' = [queued EXCEPT ![<<o, i>>] = queued[<<o, i>>] - 1]
      /\ returned' = [returned EXCEPT ![<<o, i>>] = returned[<<o, i>>] + 1]
      /\ saw' = [saw EXCEPT ![<<o, i>>] = saw[<<o, i>>] + 1]
  BY DEF Pipeline!Handle
<1> DEFINE q(j) == queued[<<o, j>>]
           r(j) == returned[<<o, j>>]
           w(j) == passedOn[<<o, j>>]
           s(j) == saw[<<o, j>>]
<1>2. /\ q(i) - 1 \in Nat /\ r(i) + 1 \in Nat /\ s(i) + 1 \in Nat /\ q(i) > 0
      /\ \A j \in 1..3 : q(j) \in Nat /\ r(j) \in Nat /\ w(j) \in Nat /\ s(j) \in Nat
  BY <1>1, PipelineNumbers
<1>3. /\ queued' \in [PipelineCells -> Nat] /\ returned' \in [PipelineCells -> Nat]
      /\ passedOn' \in [PipelineCells -> Nat] /\ saw' \in [PipelineCells -> Nat]
      /\ \A p \in PipelineOrders, j \in 1..3 :
            /\ queued'[<<p, j>>] = IF p = o /\ j = i THEN q(i) - 1 ELSE queued[<<p, j>>]
            /\ returned'[<<p, j>>] = IF p = o /\ j = i THEN r(i) + 1 ELSE returned[<<p, j>>]
            /\ saw'[<<p, j>>] = IF p = o /\ j = i THEN s(i) + 1 ELSE saw[<<p, j>>]
            /\ passedOn'[<<p, j>>] = passedOn[<<p, j>>]
  BY <1>1, <1>2, PipelineSet DEF PipelineCounts
<1>4. o \notin toSend BY <1>1, PipelineSent
<1>5. \A j \in 1..3 : /\ queued'[<<o, j>>] = IF j = i THEN q(j) - 1 ELSE q(j)
                      /\ returned'[<<o, j>>] = IF j = i THEN r(j) + 1 ELSE r(j)
                      /\ passedOn'[<<o, j>>] = w(j)
                      /\ saw'[<<o, j>>] = IF j = i THEN s(j) + 1 ELSE s(j)
  BY <1>3
<1>6. PipelineOrder(o)'
  <2>1. /\ q(1) + s(1) <= 1 + died /\ q(1) + r(1) + q(2) + s(2) <= 1 + died
        /\ q(1) + r(1) + q(2) + r(2) + q(3) + s(3) <= 1 + died
        /\ o \in Digital => q(3) = 0 /\ r(3) = 0 /\ w(3) = 0 /\ s(3) = 0
        /\ \A j \in 1..3 : r(j) > 0 => s(j) > 0
        /\ died \in Nat /\ died' = died
    BY <1>1, PipelineNumbers DEF PipelineOrder
  <2> HIDE DEF q, r, w, s
  <2>2. /\ q(1) \in Nat /\ q(2) \in Nat /\ q(3) \in Nat /\ r(1) \in Nat /\ r(2) \in Nat
        /\ r(3) \in Nat /\ s(1) \in Nat /\ s(2) \in Nat /\ s(3) \in Nat
    BY <1>2
  <2>3. i = 1 \/ i = 2 \/ i = 3 OBVIOUS
  <2>4. \A j \in 1..3 : returned'[<<o, j>>] > 0 => saw'[<<o, j>>] > 0 BY <1>2, <1>5, <2>1
  <2>5. \E j \in 1..3 : queued'[<<o, j>>] + returned'[<<o, j>>] > 0 BY <1>2, <1>5
  <2>6. o \in Digital => /\ queued'[<<o, 3>>] = 0 /\ returned'[<<o, 3>>] = 0
                           /\ passedOn'[<<o, 3>>] = 0 /\ saw'[<<o, 3>>] = 0
    BY <1>2, <1>5, <2>1
  <2>7. /\ queued'[<<o, 1>>] + saw'[<<o, 1>>] <= 1 + died
        /\ queued'[<<o, 1>>] + returned'[<<o, 1>>] + queued'[<<o, 2>>] + saw'[<<o, 2>>] <= 1 + died
        /\ queued'[<<o, 1>>] + returned'[<<o, 1>>] + queued'[<<o, 2>>] + returned'[<<o, 2>>]
              + queued'[<<o, 3>>] + saw'[<<o, 3>>] <= 1 + died
    <3>1. CASE i = 1 BY <1>5, <2>1, <2>2, <3>1
    <3>2. CASE i = 2 BY <1>5, <2>1, <2>2, <3>2
    <3>3. CASE i = 3 BY <1>5, <2>1, <2>2, <3>3
    <3> QED BY <2>3, <3>1, <3>2, <3>3
  <2> QED BY <2>1, <2>4, <2>5, <2>6, <2>7 DEF PipelineOrder
<1> HIDE DEF q, r, w, s
<1>7. toSend' = toSend \ {o} /\ died' \in {died, died + 1} BY <1>1, <1>4
<1>8. \A p \in PipelineOrders, j \in 1..3 : p # o =>
         /\ queued'[<<p, j>>] = queued[<<p, j>>] /\ returned'[<<p, j>>] = returned[<<p, j>>]
         /\ passedOn'[<<p, j>>] = passedOn[<<p, j>>] /\ saw'[<<p, j>>] = saw[<<p, j>>]
  BY <1>3
<1>9. PipelineCounts' BY <1>3, <1>6, <1>7, <1>8, PipelineOneMoves
<1> QED BY <1>1, <1>9

LEMMA PipelineHands ==
    ASSUME PipelineCounts, NEW o \in PipelineOrders, NEW i \in 1..3, Pipeline!HandOn(o, i)
    PROVE  PipelineCounts'
<1>1. /\ returned[<<o, i>>] > 0 /\ UNCHANGED <<toSend, saw, died>>
      /\ returned' = [returned EXCEPT ![<<o, i>>] = returned[<<o, i>>] - 1]
      /\ passedOn' = [passedOn EXCEPT ![<<o, i>>] = passedOn[<<o, i>>] + 1]
      /\ queued' = IF i < LastStep(o)
                     THEN [queued EXCEPT ![<<o, i + 1>>] = queued[<<o, i + 1>>] + 1] ELSE queued
  BY PipelineHandsOn DEF Pipeline!HandOn
<1> DEFINE q(j) == queued[<<o, j>>]
           r(j) == returned[<<o, j>>]
           w(j) == passedOn[<<o, j>>]
           s(j) == saw[<<o, j>>]
<1>2. /\ r(i) - 1 \in Nat /\ passedOn[<<o, i>>] + 1 \in Nat /\ r(i) > 0
      /\ LastStep(o) = (IF o \in Digital THEN 2 ELSE 3)
      /\ \A j \in 1..3 : q(j) \in Nat /\ r(j) \in Nat /\ w(j) \in Nat /\ s(j) \in Nat
  BY <1>1, PipelineNumbers
<1>3. /\ returned' \in [PipelineCells -> Nat]
      /\ passedOn' \in [PipelineCells -> Nat] /\ saw' \in [PipelineCells -> Nat]
      /\ \A p \in PipelineOrders, j \in 1..3 :
            /\ returned'[<<p, j>>] = IF p = o /\ j = i THEN r(i) - 1 ELSE returned[<<p, j>>]
            /\ passedOn'[<<p, j>>] = IF p = o /\ j = i THEN w(i) + 1 ELSE passedOn[<<p, j>>]
            /\ saw'[<<p, j>>] = saw[<<p, j>>]
  BY <1>1, <1>2, PipelineSet DEF PipelineCounts
<1>4. /\ queued' \in [PipelineCells -> Nat]
      /\ \A p \in PipelineOrders, j \in 1..3 :
            queued'[<<p, j>>] = IF p = o /\ j = i + 1 /\ i < LastStep(o) THEN q(j) + 1
                                ELSE queued[<<p, j>>]
  <2>1. CASE i < LastStep(o)
    <3>1. PICK k \in 1..3 : k = i + 1 BY <1>2, <2>1
    <3>2. PICK n \in Nat : n = q(k) + 1 BY <1>2
    <3>3. queued' = [queued EXCEPT ![<<o, k>>] = n] BY <1>1, <2>1, <3>1, <3>2
    <3>4. queued \in [PipelineCells -> Nat] BY DEF PipelineCounts
    <3>5. /\ queued' \in [PipelineCells -> Nat]
          /\ \A p \in PipelineOrders, j \in 1..3 :
                queued'[<<p, j>>] = IF p = o /\ j = k THEN n ELSE queued[<<p, j>>]
      BY <3>3, <3>4 DEF PipelineCells
    <3> QED BY <2>1, <3>1, <3>2, <3>5
  <2>2. CASE ~(i < LastStep(o)) BY <1>1, <2>2 DEF PipelineCounts
  <2> QED BY <2>1, <2>2
<1>5. o \notin toSend BY <1>1, PipelineSent
<1>6. \A j \in 1..3 : /\ queued'[<<o, j>>] = IF j = i + 1 /\ i < LastStep(o) THEN q(j) + 1 ELSE q(j)
                      /\ returned'[<<o, j>>] = IF j = i THEN r(j) - 1 ELSE r(j)
                      /\ passedOn'[<<o, j>>] = IF j = i THEN w(j) + 1 ELSE w(j)
                      /\ saw'[<<o, j>>] = s(j)
  BY <1>3, <1>4
<1>7. PipelineOrder(o)'
  <2>1. /\ q(1) + s(1) <= 1 + died /\ q(1) + r(1) + q(2) + s(2) <= 1 + died
        /\ q(1) + r(1) + q(2) + r(2) + q(3) + s(3) <= 1 + died
        /\ o \in Digital => q(3) = 0 /\ r(3) = 0 /\ w(3) = 0 /\ s(3) = 0
        /\ \A j \in 1..3 : r(j) > 0 => s(j) > 0
        /\ died \in Nat /\ died' = died
    BY <1>1, PipelineNumbers DEF PipelineOrder
  <2> HIDE DEF q, r, w, s
  <2>2. /\ q(1) \in Nat /\ q(2) \in Nat /\ q(3) \in Nat /\ r(1) \in Nat /\ r(2) \in Nat
        /\ r(3) \in Nat /\ s(1) \in Nat /\ s(2) \in Nat /\ s(3) \in Nat
    BY <1>2
  <2>3. i = 1 \/ i = 2 \/ i = 3 OBVIOUS
  <2>4. \A j \in 1..3 : returned'[<<o, j>>] > 0 => saw'[<<o, j>>] > 0 BY <1>2, <1>6, <2>1
  <2>5. /\ o \in Digital => /\ queued'[<<o, 3>>] = 0 /\ returned'[<<o, 3>>] = 0
                           /\ passedOn'[<<o, 3>>] = 0 /\ saw'[<<o, 3>>] = 0
        /\ \/ \E j \in 1..3 : queued'[<<o, j>>] + returned'[<<o, j>>] > 0
           \/ saw'[<<o, LastStep(o)>>] > 0
        /\ queued'[<<o, 1>>] + saw'[<<o, 1>>] <= 1 + died
        /\ queued'[<<o, 1>>] + returned'[<<o, 1>>] + queued'[<<o, 2>>] + saw'[<<o, 2>>] <= 1 + died
        /\ queued'[<<o, 1>>] + returned'[<<o, 1>>] + queued'[<<o, 2>>] + returned'[<<o, 2>>]
              + queued'[<<o, 3>>] + saw'[<<o, 3>>] <= 1 + died
    <3>1. CASE i = 1 BY <1>2, <1>6, <2>1, <2>2, <3>1
    <3>2. CASE i = 2 BY <1>2, <1>6, <2>1, <2>2, <3>2
    <3>3. CASE i = 3 BY <1>2, <1>6, <2>1, <2>2, <3>3
    <3> QED BY <2>3, <3>1, <3>2, <3>3
  <2>6. LastStep(o)' = LastStep(o) BY DEF LastStep
  <2> QED BY <2>1, <2>4, <2>5, <2>6 DEF PipelineOrder
<1> HIDE DEF q, r, w, s
<1>8. toSend' = toSend \ {o} /\ died' \in {died, died + 1} BY <1>1, <1>5
<1>9. \A p \in PipelineOrders, j \in 1..3 : p # o =>
         /\ queued'[<<p, j>>] = queued[<<p, j>>] /\ returned'[<<p, j>>] = returned[<<p, j>>]
         /\ passedOn'[<<p, j>>] = passedOn[<<p, j>>] /\ saw'[<<p, j>>] = saw[<<p, j>>]
  BY <1>3, <1>4
<1> QED BY <1>3, <1>4, <1>7, <1>8, <1>9, PipelineOneMoves


LEMMA PipelineSettles ==
    ASSUME PipelineCounts, NEW o \in PipelineOrders, NEW i \in 1..3, Pipeline!Settle(o, i)
    PROVE  PipelineCounts'
<1>1. /\ passedOn[<<o, i>>] > 0 /\ UNCHANGED <<toSend, queued, returned, saw, died>>
      /\ passedOn' = [passedOn EXCEPT ![<<o, i>>] = passedOn[<<o, i>>] - 1]
  BY DEF Pipeline!Settle
<1> DEFINE w == passedOn[<<o, i>>]
<1>2. w \in Nat /\ w - 1 \in Nat
  <2>1. w \in Nat BY PipelineNumbers
  <2>2. w > 0 BY <1>1
  <2> HIDE DEF w
  <2> QED BY <2>1, <2>2
<1>3. /\ passedOn' \in [PipelineCells -> Nat]
      /\ \A p \in PipelineOrders, j \in 1..3 :
            passedOn'[<<p, j>>] = IF p = o /\ j = i THEN w - 1 ELSE passedOn[<<p, j>>]
  <2>1. PICK n \in Nat : n = w - 1 BY <1>2
  <2>2. passedOn \in [PipelineCells -> Nat] /\ passedOn' = [passedOn EXCEPT ![<<o, i>>] = n]
    BY <1>1, <2>1 DEF PipelineCounts
  <2>3. /\ passedOn' \in [PipelineCells -> Nat]
        /\ \A p \in PipelineOrders, j \in 1..3 :
              passedOn'[<<p, j>>] = IF p = o /\ j = i THEN n ELSE passedOn[<<p, j>>]
    BY <2>2 DEF PipelineCells
  <2> HIDE DEF w
  <2> QED BY <2>1, <2>3
<1> HIDE DEF w
<1>4. o \notin toSend BY <1>1, PipelineSent
<1>5. PipelineOrder(o)'
  <2>1. o \in Digital => passedOn[<<o, 3>>] = 0 BY PipelineNumbers DEF PipelineOrder
  <2>2. o \in Digital => passedOn'[<<o, 3>>] = 0 BY <1>1, <1>3, <2>1
  <2> QED BY <1>1, <2>2, PipelineNumbers DEF PipelineOrder, LastStep
<1>6. toSend' = toSend \ {o} /\ died' \in {died, died + 1} BY <1>1, <1>4
<1>7. /\ queued' \in [PipelineCells -> Nat] /\ returned' \in [PipelineCells -> Nat]
      /\ saw' \in [PipelineCells -> Nat]
  BY <1>1 DEF PipelineCounts
<1> QED BY <1>1, <1>3, <1>5, <1>6, <1>7, PipelineOneMoves

LEMMA PipelineDies ==
    ASSUME PipelineCounts, NEW o \in PipelineOrders, NEW i \in 1..3, Pipeline!Die(o, i)
    PROVE  PipelineCounts' /\ died' = died + 1
<1>1. /\ died' = died + 1 /\ UNCHANGED <<toSend, saw>>
      /\ queued' = [queued EXCEPT ![<<o, i>>] = queued[<<o, i>>] + 1]
      /\ \/ /\ returned[<<o, i>>] > 0 /\ passedOn' = passedOn
            /\ returned' = [returned EXCEPT ![<<o, i>>] = returned[<<o, i>>] - 1]
         \/ /\ passedOn[<<o, i>>] > 0 /\ returned' = returned
            /\ passedOn' = [passedOn EXCEPT ![<<o, i>>] = passedOn[<<o, i>>] - 1]
  BY DEF Pipeline!Die
<1> DEFINE q(j) == queued[<<o, j>>]
           r(j) == returned[<<o, j>>]
           w(j) == passedOn[<<o, j>>]
           s(j) == saw[<<o, j>>]
<1>2. /\ q(i) + 1 \in Nat /\ died \in Nat
      /\ returned[<<o, i>>] > 0 => returned[<<o, i>>] - 1 \in Nat
      /\ passedOn[<<o, i>>] > 0 => passedOn[<<o, i>>] - 1 \in Nat
      /\ LastStep(o) = (IF o \in Digital THEN 2 ELSE 3)
      /\ \A j \in 1..3 : q(j) \in Nat /\ r(j) \in Nat /\ w(j) \in Nat /\ s(j) \in Nat
  BY PipelineNumbers
<1>3. /\ queued' \in [PipelineCells -> Nat] /\ saw' \in [PipelineCells -> Nat]
      /\ \A p \in PipelineOrders, j \in 1..3 :
            /\ queued'[<<p, j>>] = IF p = o /\ j = i THEN q(i) + 1 ELSE queued[<<p, j>>]
            /\ saw'[<<p, j>>] = saw[<<p, j>>]
  BY <1>1, <1>2, PipelineSet DEF PipelineCounts
<1>4. /\ returned' \in [PipelineCells -> Nat] /\ passedOn' \in [PipelineCells -> Nat]
      /\ \A p \in PipelineOrders, j \in 1..3 : p # o =>
            returned'[<<p, j>>] = returned[<<p, j>>] /\ passedOn'[<<p, j>>] = passedOn[<<p, j>>]
      /\ \A j \in 1..3 : /\ returned'[<<o, j>>] \in Nat /\ returned'[<<o, j>>] <= r(j)
                         /\ passedOn'[<<o, j>>] \in Nat /\ passedOn'[<<o, j>>] <= w(j)
  <2>1. CASE /\ returned[<<o, i>>] > 0 /\ passedOn' = passedOn
             /\ returned' = [returned EXCEPT ![<<o, i>>] = returned[<<o, i>>] - 1]
    <3>1. /\ returned' \in [PipelineCells -> Nat]
          /\ \A p \in PipelineOrders, j \in 1..3 :
                returned'[<<p, j>>] = IF p = o /\ j = i THEN r(i) - 1 ELSE returned[<<p, j>>]
      BY <1>2, <2>1, PipelineSet DEF PipelineCounts
    <3>2. \A j \in 1..3 : /\ returned'[<<o, j>>] \in Nat /\ returned'[<<o, j>>] <= r(j)
                          /\ passedOn'[<<o, j>>] \in Nat /\ passedOn'[<<o, j>>] <= w(j)
      BY <1>2, <2>1, <3>1
    <3> QED BY <2>1, <3>1, <3>2 DEF PipelineCounts
  <2>2. CASE /\ passedOn[<<o, i>>] > 0 /\ returned' = returned
             /\ passedOn' = [passedOn EXCEPT ![<<o, i>>] = passedOn[<<o, i>>] - 1]
    <3>1. /\ passedOn' \in [PipelineCells -> Nat]
          /\ \A p \in PipelineOrders, j \in 1..3 :
                passedOn'[<<p, j>>] = IF p = o /\ j = i THEN w(i) - 1 ELSE passedOn[<<p, j>>]
      BY <1>2, <2>2, PipelineSet DEF PipelineCounts
    <3>2. \A j \in 1..3 : /\ returned'[<<o, j>>] \in Nat /\ returned'[<<o, j>>] <= r(j)
                          /\ passedOn'[<<o, j>>] \in Nat /\ passedOn'[<<o, j>>] <= w(j)
      BY <1>2, <2>2, <3>1
    <3> QED BY <2>2, <3>1, <3>2 DEF PipelineCounts
  <2> QED BY <1>1, <2>1, <2>2
<1>5. o \notin toSend BY <1>1, PipelineSent
<1>6. PipelineOrder(o)'
  <2>1. /\ q(1) + s(1) <= 1 + died /\ q(1) + r(1) + q(2) + s(2) <= 1 + died
        /\ q(1) + r(1) + q(2) + r(2) + q(3) + s(3) <= 1 + died
        /\ o \in Digital => q(3) = 0 /\ r(3) = 0 /\ w(3) = 0 /\ s(3) = 0
        /\ \A j \in 1..3 : r(j) > 0 => s(j) > 0
    BY PipelineNumbers DEF PipelineOrder
  <2>2. \A j \in 1..3 : /\ queued'[<<o, j>>] = IF j = i THEN q(j) + 1 ELSE q(j)
                        /\ saw'[<<o, j>>] = s(j)
    BY <1>3
  <2>9. \A j \in 1..3 : /\ returned'[<<o, j>>] \in Nat /\ returned'[<<o, j>>] <= r(j)
                        /\ passedOn'[<<o, j>>] \in Nat /\ passedOn'[<<o, j>>] <= w(j)
    BY <1>4
  <2>0. i = 3 => o \notin Digital BY <1>1, <2>1
  <2> DEFINE r1(j) == returned'[<<o, j>>]
             q1(j) == queued'[<<o, j>>]
             w1(j) == passedOn'[<<o, j>>]
             s1(j) == saw'[<<o, j>>]
  <2>3. \A j \in 1..3 : /\ q1(j) = IF j = i THEN q(j) + 1 ELSE q(j)
                        /\ s1(j) = s(j) /\ r1(j) \in Nat /\ r1(j) <= r(j)
                        /\ w1(j) \in Nat /\ w1(j) <= w(j)
    BY <2>2, <2>9
  <2> HIDE DEF q, r, w, s, r1, w1, q1, s1
  <2>4. /\ q(1) \in Nat /\ q(2) \in Nat /\ q(3) \in Nat /\ r(1) \in Nat /\ r(2) \in Nat
        /\ r(3) \in Nat /\ s(1) \in Nat /\ s(2) \in Nat /\ s(3) \in Nat
        /\ r1(1) \in Nat /\ r1(2) \in Nat /\ r1(3) \in Nat
        /\ w(3) \in Nat /\ w1(3) \in Nat /\ w1(3) <= w(3)
        /\ r1(1) <= r(1) /\ r1(2) <= r(2) /\ r1(3) <= r(3)
    BY <1>2, <2>3
  <2>5. \A j \in 1..3 : r1(j) > 0 => s1(j) > 0 BY <1>2, <2>1, <2>3
  <2>6. \E j \in 1..3 : q1(j) + r1(j) > 0 BY <1>2, <2>3
  <2>7. /\ q1(1) + s1(1) <= 1 + died' /\ q1(1) + r1(1) + q1(2) + s1(2) <= 1 + died'
        /\ q1(1) + r1(1) + q1(2) + r1(2) + q1(3) + s1(3) <= 1 + died'
        /\ o \in Digital => q1(3) = 0 /\ r1(3) = 0 /\ w1(3) = 0 /\ s1(3) = 0
    <3>1. CASE i = 1 BY <1>1, <1>2, <2>1, <2>3, <2>4, <3>1
    <3>2. CASE i = 2 BY <1>1, <1>2, <2>1, <2>3, <2>4, <3>2
    <3>3. CASE i = 3 BY <1>1, <1>2, <2>0, <2>1, <2>3, <2>4, <3>3
    <3> QED BY <3>1, <3>2, <3>3
  <2> QED BY <2>5, <2>6, <2>7 DEF PipelineOrder, q1, r1, w1, s1
<1> HIDE DEF q, r, w, s
<1>7. toSend' = toSend \ {o} /\ died' \in {died, died + 1} BY <1>1, <1>5
<1>8. \A p \in PipelineOrders, j \in 1..3 : p # o =>
         /\ queued'[<<p, j>>] = queued[<<p, j>>] /\ returned'[<<p, j>>] = returned[<<p, j>>]
         /\ passedOn'[<<p, j>>] = passedOn[<<p, j>>] /\ saw'[<<p, j>>] = saw[<<p, j>>]
  BY <1>3, <1>4
<1> QED BY <1>1, <1>3, <1>4, <1>6, <1>7, <1>8, PipelineOneMoves

\* A signal given at the end of a sequence and one taken from its front.
LEMMA OneMore ==
    ASSUME NEW S, NEW s \in Seq(S), NEW o \in S, \A i \in 1..Len(s) : s[i] # o
    PROVE  /\ Append(s, o) \in Seq(S)
           /\ Distinct(s) => Distinct(Append(s, o))
           /\ \A i \in 1..Len(Append(s, o)) : Append(s, o)[i] = o \/ \E j \in 1..Len(s) : Append(s, o)[i] = s[j]
  BY DEF Distinct

LEMMA OneLess ==
    ASSUME NEW S, NEW s \in Seq(S), s # <<>>
    PROVE  /\ Tail(s) \in Seq(S) /\ Head(s) \in S /\ 1 \in 1..Len(s) /\ Head(s) = s[1]
           /\ Distinct(s) => Distinct(Tail(s)) /\ \A i \in 1..Len(Tail(s)) : Tail(s)[i] # Head(s)
           /\ \A i \in 1..Len(Tail(s)) : \E j \in 1..Len(s) : Tail(s)[i] = s[j]
<1>1. /\ Tail(s) \in Seq(S) /\ Head(s) \in S /\ 1 \in 1..Len(s) /\ Head(s) = s[1]
      /\ Len(Tail(s)) = Len(s) - 1 /\ Len(s) \in Nat
      /\ \A i \in 1..Len(Tail(s)) : i + 1 \in 1..Len(s) /\ i + 1 # 1 /\ Tail(s)[i] = s[i + 1]
  OBVIOUS
<1>2. Distinct(s) => Distinct(Tail(s)) /\ \A i \in 1..Len(Tail(s)) : Tail(s)[i] # Head(s)
  BY <1>1 DEF Distinct
<1> QED BY <1>1, <1>2

LEMMA PipelineSignalsKept ==
    ASSUME PipelineInv, NEW o \in PipelineOrders, NEW i \in 1..3, Pipeline!Handle(o, i)
    PROVE  PipelineSignals'
<1> USE DEF PipelineInv
<1>0. /\ queued[<<o, i>>] > 0 /\ heard' = heard /\ died' = died
      /\ saw' = [saw EXCEPT ![<<o, i>>] = saw[<<o, i>>] + 1]
  BY PipelineHandles
<1>1. /\ dispatched \in Seq(PipelineOrders) /\ stopped \in Seq(PipelineOrders)
      /\ heard \in Seq(PipelineOrders)
  BY DEF PipelineSignals
<1>2. \/ i = LastStep(o) /\ i = 3 /\ dispatched' = Append(dispatched, o) /\ stopped' = stopped
      \/ i = LastStep(o) /\ i = 2 /\ stopped' = Append(stopped, o) /\ dispatched' = dispatched
      \/ dispatched' = dispatched /\ stopped' = stopped
  <2>1. Pipeline!Signal(o, i) BY DEF Pipeline!Handle
  <2>2. i = 3 => o \notin Digital
    <3>1. o \in Digital => queued[<<o, 3>>] = 0 BY PipelineNumbers DEF PipelineOrder
    <3> QED BY <1>0, <3>1
  <2>3. i = 1 \/ i = 2 \/ i = 3 OBVIOUS
  <2>4. CASE i = 1 BY <2>1, <2>4, PipelineSteps DEF Pipeline!Signal
  <2>5. CASE i = 2 BY <2>1, <2>5, PipelineSteps DEF Pipeline!Signal, LastStep
  <2>6. CASE i = 3 BY <2>1, <2>2, <2>6, PipelineSteps DEF Pipeline!Signal, LastStep
  <2> QED BY <2>3, <2>4, <2>5, <2>6
<1>3. died' \in Nat /\ died \in Nat /\ (died' = 0 => died = 0) BY <1>0 DEF PipelineCounts
<1>4. /\ \A p \in PipelineOrders : saw[<<p, LastStep(p)>>] > 0 => saw'[<<p, LastStep(p)>>] > 0
      /\ saw'[<<o, i>>] > 0
  <2>1. \A p \in PipelineOrders : <<p, LastStep(p)>> \in PipelineCells BY DEF LastStep, PipelineCells
  <2>2. <<o, i>> \in PipelineCells /\ \A c \in PipelineCells : saw[c] \in Nat
    BY DEF PipelineCounts, PipelineCells
  <2>3. \A c \in PipelineCells :
           saw'[c] = IF c = <<o, i>> THEN saw[<<o, i>>] + 1 ELSE saw[c]
    BY <1>0 DEF PipelineCounts
  <2> QED BY <2>1, <2>2, <2>3
<1>5. i = LastStep(o) /\ died = 0 => saw[<<o, LastStep(o)>>] = 0
  <2> DEFINE q(j) == queued[<<o, j>>]
             r(j) == returned[<<o, j>>]
             s(j) == saw[<<o, j>>]
  <2>1. /\ q(1) \in Nat /\ q(2) \in Nat /\ q(3) \in Nat /\ r(1) \in Nat /\ r(2) \in Nat
        /\ s(1) \in Nat /\ s(2) \in Nat /\ s(3) \in Nat
    BY PipelineNumbers
  <2>2. /\ q(1) + r(1) + q(2) + s(2) <= 1 + died
        /\ q(1) + r(1) + q(2) + r(2) + q(3) + s(3) <= 1 + died
    BY PipelineNumbers DEF PipelineOrder
  <2>3. q(i) > 0 /\ LastStep(o) \in {2, 3} BY <1>0 DEF LastStep
  <2> HIDE DEF q, r, s
  <2>4. CASE i = 2 /\ LastStep(o) = 2 /\ died = 0
    <3>1. s(2) = 0 BY <2>1, <2>2, <2>3, <2>4
    <3> QED BY <2>4, <3>1 DEF s
  <2>5. CASE i = 3 /\ LastStep(o) = 3 /\ died = 0
    <3>0. q(3) > 0 BY <2>3, <2>5
    <3>1. q(1) + r(1) + q(2) + r(2) + q(3) + s(3) <= 1 BY <2>2, <2>5
    <3>2. s(3) = 0 BY <2>1, <3>0, <3>1
    <3> QED BY <2>5, <3>2 DEF s
  <2> QED BY <2>3, <2>4, <2>5
<1>6. CASE died' # 0
  <2>1. dispatched' \in Seq(PipelineOrders) /\ stopped' \in Seq(PipelineOrders)
    <3>1. Append(dispatched, o) \in Seq(PipelineOrders) /\ Append(stopped, o) \in Seq(PipelineOrders)
      BY <1>1
    <3> QED BY <1>1, <1>2, <3>1
  <2> QED BY <1>0, <1>1, <1>6, <2>1 DEF PipelineSignals
<1>7. CASE died' = 0
  <2>1. /\ Signalled(dispatched) /\ Signalled(stopped) /\ Signalled(heard)
        /\ Distinct(dispatched) /\ Distinct(stopped) /\ Distinct(heard)
        /\ Apart(heard, dispatched) /\ Apart(heard, stopped) /\ Apart(dispatched, stopped)
    BY <1>3, <1>7 DEF PipelineSignals
  <2>2. \A s \in Seq(PipelineOrders) : Signalled(s) =>
           \A k \in 1..Len(s) : saw'[<<s[k], LastStep(s[k])>>] > 0
    BY <1>4 DEF Signalled
  <2>3. i = LastStep(o) => \A s \in Seq(PipelineOrders) : Signalled(s) => \A k \in 1..Len(s) : s[k] # o
    BY <1>3, <1>5, <1>7 DEF Signalled
  <2>4. heard' = heard /\ Signalled(heard)' BY <1>0, <1>1, <2>1, <2>2 DEF Signalled
  <2>5. CASE dispatched' = dispatched /\ stopped' = stopped
    <3>1. Signalled(dispatched)' /\ Signalled(stopped)' BY <1>1, <2>1, <2>2, <2>5 DEF Signalled
    <3> QED BY <1>1, <2>1, <2>4, <2>5, <3>1 DEF PipelineSignals, Distinct, Apart
  <2>6. CASE i = LastStep(o) /\ dispatched' = Append(dispatched, o) /\ stopped' = stopped
    <3>1. /\ \A k \in 1..Len(dispatched) : dispatched[k] # o
          /\ \A k \in 1..Len(stopped) : stopped[k] # o
          /\ \A k \in 1..Len(heard) : heard[k] # o
      BY <1>1, <2>1, <2>3, <2>6
    <3>2. /\ dispatched' \in Seq(PipelineOrders) /\ Distinct(dispatched')
          /\ \A k \in 1..Len(dispatched') : dispatched'[k] = o
                \/ \E j \in 1..Len(dispatched) : dispatched'[k] = dispatched[j]
      BY <1>1, <2>1, <2>6, <3>1, OneMore
    <3>3. Signalled(dispatched)' BY <1>1, <1>4, <2>1, <2>2, <2>6, <3>2 DEF Signalled
    <3>4. Signalled(stopped)' BY <1>1, <2>1, <2>2, <2>6 DEF Signalled
    <3>5. Apart(heard, dispatched') /\ Apart(dispatched', stopped)
      BY <2>1, <3>1, <3>2 DEF Apart
    <3> QED BY <1>1, <2>1, <2>4, <2>6, <3>2, <3>3, <3>4, <3>5 DEF PipelineSignals, Distinct, Apart
  <2>7. CASE i = LastStep(o) /\ stopped' = Append(stopped, o) /\ dispatched' = dispatched
    <3>1. /\ \A k \in 1..Len(dispatched) : dispatched[k] # o
          /\ \A k \in 1..Len(stopped) : stopped[k] # o
          /\ \A k \in 1..Len(heard) : heard[k] # o
      BY <1>1, <2>1, <2>3, <2>7
    <3>2. /\ stopped' \in Seq(PipelineOrders) /\ Distinct(stopped')
          /\ \A k \in 1..Len(stopped') : stopped'[k] = o
                \/ \E j \in 1..Len(stopped) : stopped'[k] = stopped[j]
      BY <1>1, <2>1, <2>7, <3>1, OneMore
    <3>3. Signalled(stopped)' BY <1>1, <1>4, <2>1, <2>2, <2>7, <3>2 DEF Signalled
    <3>4. Signalled(dispatched)' BY <1>1, <2>1, <2>2, <2>7 DEF Signalled
    <3>5. Apart(heard, stopped') /\ Apart(dispatched, stopped')
      BY <2>1, <3>1, <3>2 DEF Apart
    <3> QED BY <1>1, <2>1, <2>4, <2>7, <3>2, <3>3, <3>4, <3>5 DEF PipelineSignals, Distinct, Apart
  <2> QED BY <1>2, <2>5, <2>6, <2>7
<1> QED BY <1>6, <1>7

\* The program hears a signal.
LEMMA PipelineHeard ==
    ASSUME PipelineSignals, UNCHANGED <<saw, died>>, NEW s, NEW t,
           s \in Seq(PipelineOrders), t \in Seq(PipelineOrders), s # <<>>,
           died = 0 => /\ Signalled(s) /\ Signalled(t) /\ Distinct(s) /\ Distinct(t)
                       /\ Apart(heard, s) /\ Apart(heard, t) /\ Apart(s, t)
    PROVE  LET h == Append(heard, Head(s)) IN
           /\ h \in Seq(PipelineOrders) /\ Tail(s) \in Seq(PipelineOrders)
           /\ died = 0 => /\ Signalled(Tail(s)) /\ Signalled(h) /\ Distinct(Tail(s)) /\ Distinct(h)
                          /\ Apart(h, Tail(s)) /\ Apart(h, t) /\ Apart(Tail(s), t)
                          /\ Apart(t, Tail(s))
<1> DEFINE h == Append(heard, Head(s))
           r == Tail(s)
<1>1. /\ r \in Seq(PipelineOrders) /\ Head(s) \in PipelineOrders
      /\ 1 \in 1..Len(s) /\ Head(s) = s[1]
      /\ Distinct(s) => Distinct(r) /\ \A i \in 1..Len(r) : r[i] # Head(s)
      /\ \A i \in 1..Len(r) : \E j \in 1..Len(s) : r[i] = s[j]
  BY OneLess
<1>2. heard \in Seq(PipelineOrders) /\ (died = 0 => Signalled(heard) /\ Distinct(heard))
  BY DEF PipelineSignals
<1>3. h \in Seq(PipelineOrders) BY <1>1, <1>2
<1>4. CASE died = 0
  <2>1. \A i \in 1..Len(heard) : heard[i] # Head(s) BY <1>1, <1>4 DEF Apart
  <2>2. /\ Distinct(h)
        /\ \A i \in 1..Len(h) : h[i] = Head(s) \/ \E j \in 1..Len(heard) : h[i] = heard[j]
    BY <1>1, <1>2, <1>4, <2>1, OneMore
  <2> HIDE DEF h, r
  <2>3. Signalled(r) BY <1>1, <1>4 DEF Signalled
  <2>4. Signalled(h) BY <1>1, <1>2, <1>4, <2>2 DEF Signalled
  <2>5. Apart(h, r) /\ Apart(h, t) BY <1>1, <1>4, <2>2 DEF Apart
  <2>6. Apart(r, t) /\ Apart(t, r) BY <1>1, <1>4 DEF Apart
  <2> QED BY <1>1, <1>3, <1>4, <2>2, <2>3, <2>4, <2>5, <2>6 DEF h, r
<1> QED BY <1>1, <1>3, <1>4

LEMMA PipelineKept == PipelineInv /\ [Pipeline!Next]_(Pipeline!vars) => PipelineInv'
<1> SUFFICES ASSUME PipelineInv, [Pipeline!Next]_(Pipeline!vars) PROVE PipelineInv'
  OBVIOUS
<1> USE DEF PipelineInv
<1>0. UNCHANGED <<dispatched, stopped, heard, saw>> /\ (died' = 0 => died = 0) => PipelineSignals'
  BY DEF PipelineSignals, Signalled, Distinct, Apart
<1>1. ASSUME NEW o \in PipelineOrders, Pipeline!Send(o) PROVE PipelineInv'
  <2>1. /\ o \in toSend /\ toSend' = toSend \ {o}
        /\ queued' = [queued EXCEPT ![<<o, 1>>] = queued[<<o, 1>>] + 1]
        /\ UNCHANGED <<returned, passedOn, saw, dispatched, stopped, heard, died>>
    BY <1>1 DEF Pipeline!Send
  <2>2. \A j \in 1..3 : /\ queued[<<o, j>>] = 0 /\ returned[<<o, j>>] = 0
                        /\ passedOn[<<o, j>>] = 0 /\ saw[<<o, j>>] = 0
    BY <2>1 DEF PipelineCounts
  <2>3. /\ queued' \in [PipelineCells -> Nat]
        /\ \A p \in PipelineOrders, j \in 1..3 :
              queued'[<<p, j>>] = IF p = o /\ j = 1 THEN 1 ELSE queued[<<p, j>>]
    BY <2>1, <2>2, PipelineSet DEF PipelineCounts
  <2>4. PipelineOrder(o)'
    <3>1. /\ queued'[<<o, 1>>] = 1 /\ queued'[<<o, 2>>] = 0 /\ queued'[<<o, 3>>] = 0
          /\ \A j \in 1..3 : /\ returned'[<<o, j>>] = 0 /\ passedOn'[<<o, j>>] = 0
                             /\ saw'[<<o, j>>] = 0
          /\ died' \in Nat
      BY <2>1, <2>2, <2>3, PipelineNumbers
    <3> QED BY <3>1 DEF PipelineOrder
  <2>5. died' \in {died, died + 1} BY <2>1
  <2>6. PipelineCounts' BY <2>1, <2>3, <2>4, <2>5, PipelineOneMoves DEF PipelineCounts
  <2>7. PipelineSignals' BY <1>0, <2>1
  <2> QED BY <2>6, <2>7
<1>2. ASSUME NEW o \in PipelineOrders, NEW i \in 1..3, Pipeline!Handle(o, i) PROVE PipelineInv'
  BY <1>2, PipelineHandles, PipelineSignalsKept
<1>3. ASSUME NEW o \in PipelineOrders, NEW i \in 1..3, Pipeline!HandOn(o, i) PROVE PipelineInv'
  <2>1. UNCHANGED <<dispatched, stopped, heard, saw, died>> BY <1>3 DEF Pipeline!HandOn
  <2> QED BY <1>0, <1>3, <2>1, PipelineHands
<1>4. ASSUME NEW o \in PipelineOrders, NEW i \in 1..3, Pipeline!Settle(o, i) PROVE PipelineInv'
  <2>1. UNCHANGED <<dispatched, stopped, heard, saw, died>> BY <1>4 DEF Pipeline!Settle
  <2> QED BY <1>0, <1>4, <2>1, PipelineSettles
<1>5. ASSUME NEW o \in PipelineOrders, NEW i \in 1..3, Pipeline!Die(o, i) PROVE PipelineInv'
  <2>1. UNCHANGED <<dispatched, stopped, heard, saw>> BY <1>5 DEF Pipeline!Die
  <2>2. PipelineCounts' /\ died' = died + 1 BY <1>5, PipelineDies
  <2>3. died' = 0 => died = 0 BY <2>2 DEF PipelineCounts
  <2> QED BY <1>0, <2>1, <2>2, <2>3
<1>6. CASE Pipeline!Hear
  <2>1. UNCHANGED <<toSend, queued, returned, passedOn, saw, died>> BY <1>6 DEF Pipeline!Hear
  <2>2. PipelineCounts' BY <2>1 DEF PipelineCounts, PipelineOrder, LastStep
  <2>3. CASE /\ dispatched # <<>> /\ heard' = Append(heard, Head(dispatched))
             /\ dispatched' = Tail(dispatched) /\ stopped' = stopped
    <3>1. PipelineSignals' BY <2>1, <2>3, PipelineHeard DEF PipelineSignals, Signalled
    <3> QED BY <2>2, <3>1
  <2>4. CASE /\ stopped # <<>> /\ heard' = Append(heard, Head(stopped))
             /\ stopped' = Tail(stopped) /\ dispatched' = dispatched
    <3>1. died = 0 => Apart(stopped, dispatched) BY DEF PipelineSignals, Apart
    <3>2. PipelineSignals' BY <2>1, <2>4, <3>1, PipelineHeard DEF PipelineSignals, Signalled
    <3> QED BY <2>2, <3>2
  <2> QED BY <1>6, <2>3, <2>4 DEF Pipeline!Hear
<1>7. CASE UNCHANGED Pipeline!vars
  <2>1. /\ UNCHANGED <<toSend, queued, returned, passedOn, saw, died>>
        /\ UNCHANGED <<dispatched, stopped, heard>>
    BY <1>7 DEF Pipeline!vars
  <2>2. PipelineCounts' BY <2>1 DEF PipelineCounts, PipelineOrder, LastStep
  <2> QED BY <1>0, <2>1, <2>2
<1> QED BY <1>1, <1>2, <1>3, <1>4, <1>5, <1>6, <1>7, PipelineSteps DEF Pipeline!Next

\* A run of the pipeline is with a step or at its end; no step is ever to handle it
\* more than once but for deaths, however the steps overtake each other; and before
\* the first death the two signals are two orders'.
THEOREM PipelineRepeatsAreDeaths ==
    Pipeline!Spec => [](/\ Pipeline!NoRunIsLost /\ Pipeline!RepeatsAreDeaths
                        /\ Pipeline!HeardOfBoth)
<1>1. ASSUME PipelineInv, NEW o \in PipelineOrders
      PROVE  /\ \A i \in 1..3 : Pipeline!Due(o, i) <= 1 + died
             /\ o \in Digital => saw[<<o, 3>>] = 0
             /\ o \notin toSend => \/ \E i \in 1..3 : queued[<<o, i>>] + returned[<<o, i>>] > 0
                                   \/ saw[<<o, LastStep(o)>>] > 0
  <2> DEFINE q(j) == queued[<<o, j>>]
             r(j) == returned[<<o, j>>]
             s(j) == saw[<<o, j>>]
  <2>1. /\ q(1) \in Nat /\ q(2) \in Nat /\ q(3) \in Nat /\ r(1) \in Nat /\ r(2) \in Nat
        /\ s(1) \in Nat /\ s(2) \in Nat /\ s(3) \in Nat /\ died \in Nat
    BY <1>1, PipelineNumbers DEF PipelineInv
  <2>2. PipelineOrder(o) BY <1>1, PipelineNumbers DEF PipelineInv
  <2>3. /\ q(1) + s(1) <= 1 + died /\ q(1) + r(1) + q(2) + s(2) <= 1 + died
        /\ q(1) + r(1) + q(2) + r(2) + q(3) + s(3) <= 1 + died
    BY <2>2 DEF PipelineOrder
  <2>4. /\ Pipeline!Due(o, 1) = s(1) + q(1) + 0 + 0
        /\ Pipeline!Due(o, 2) = s(2) + q(2) + (r(1) + q(1)) + 0
        /\ Pipeline!Due(o, 3) = s(3) + q(3) + (r(1) + q(1)) + (r(2) + q(2))
    BY DEF Pipeline!Due
  <2> HIDE DEF q, r, s
  <2>5. /\ Pipeline!Due(o, 1) <= 1 + died /\ Pipeline!Due(o, 2) <= 1 + died
        /\ Pipeline!Due(o, 3) <= 1 + died
    BY <2>1, <2>3, <2>4
  <2>6. \A i \in 1..3 : i = 1 \/ i = 2 \/ i = 3 OBVIOUS
  <2>7. \A i \in 1..3 : Pipeline!Due(o, i) <= 1 + died BY <2>5, <2>6
  <2> QED BY <2>2, <2>7 DEF PipelineOrder
<1>2. PipelineInv => Pipeline!HeardOfBoth
  <2> SUFFICES ASSUME PipelineInv, Len(heard) = 2, heard[1] = heard[2] PROVE died > 0
    BY DEF Pipeline!HeardOfBoth
  <2>1. ~Distinct(heard) /\ died \in Nat BY DEF Distinct, PipelineInv, PipelineCounts
  <2> QED BY <2>1 DEF PipelineInv, PipelineSignals
<1>3. PipelineInv => /\ Pipeline!NoRunIsLost /\ Pipeline!RepeatsAreDeaths /\ Pipeline!HeardOfBoth
  BY <1>1, <1>2, PipelineSteps DEF Pipeline!NoRunIsLost, Pipeline!RepeatsAreDeaths, LastStep
<1> QED BY PipelineStarts, PipelineKept, <1>3, PTL DEF Pipeline!Spec
-----------------------------------------------------------------------------
\* intermediate/05-scheduling.  A finite set of naturals has a least and a greatest,
LEMMA SchedulerExtremes ==
    ASSUME NEW S \in SUBSET Nat, IsFiniteSet(S), S # {}
    PROVE  /\ Scheduler!Max(S) \in S /\ \A x \in S : x <= Scheduler!Max(S)
           /\ Scheduler!Min(S) \in S /\ \A x \in S : Scheduler!Min(S) <= x
<1> DEFINE Q == {T \in SUBSET S : T # {} => /\ \E x \in T : \A y \in T : y <= x
                                           /\ \E x \in T : \A y \in T : x <= y}
<1>1. ASSUME NEW T \in SUBSET S, \A U \in SUBSET T : U # T => U \in Q
      PROVE  T \in Q
  <2>1. ASSUME NEW a \in T
        PROVE  (\E x \in T : \A y \in T : y <= x) /\ (\E x \in T : \A y \in T : x <= y)
    <3>1. T \ {a} \in Q BY <1>1
    <3>2. CASE T \ {a} = {} BY <3>2
    <3>3. CASE T \ {a} # {}
      <4>1. PICK x \in T \ {a} : \A y \in T \ {a} : y <= x BY <3>1, <3>3
      <4>2. PICK z \in T \ {a} : \A y \in T \ {a} : z <= y BY <3>1, <3>3
      <4>3. a \in Nat /\ x \in Nat /\ z \in Nat /\ \A y \in T : y \in Nat /\ (y = a \/ y \in T \ {a})
        OBVIOUS
      <4>4. \E w \in T : \A y \in T : y <= w
        <5>1. CASE a <= x BY <4>1, <4>3, <5>1
        <5>2. CASE x <= a BY <4>1, <4>3, <5>2
        <5> QED BY <4>3, <5>1, <5>2
      <4>5. \E w \in T : \A y \in T : w <= y
        <5>1. CASE a <= z BY <4>2, <4>3, <5>1
        <5>2. CASE z <= a BY <4>2, <4>3, <5>2
        <5> QED BY <4>3, <5>1, <5>2
      <4> QED BY <4>4, <4>5
    <3> QED BY <3>2, <3>3
  <2> QED BY <2>1
<1>2. S \in Q
  <2> HIDE DEF Q
  <2> QED BY <1>1, SubsetInduction
<1> QED BY <1>2 DEF Scheduler!Max, Scheduler!Min

\* and the rung that is taken does not overshoot.
LEMMA SchedulerRungs ==
    /\ Scheduler!Smallest \in Rungs /\ Scheduler!Smallest \in Nat
    /\ \A left \in Nat : left >= Scheduler!Smallest =>
          Scheduler!RungFor(left) \in Rungs /\ Scheduler!RungFor(left) <= left
<1>1. Scheduler!Smallest \in Rungs /\ Scheduler!Smallest \in Nat
  BY RungsAssumption, SchedulerExtremes DEF Scheduler!Smallest
<1>2. ASSUME NEW left \in Nat, left >= Scheduler!Smallest
      PROVE  Scheduler!RungFor(left) \in Rungs /\ Scheduler!RungFor(left) <= left
  <2> DEFINE T == {t \in Rungs : t <= left}
  <2>1. T # {} /\ T \in SUBSET Nat /\ IsFiniteSet(T)
    BY <1>1, <1>2, RungsAssumption, FS_Subset
  <2>2. Scheduler!Max(T) \in T BY <2>1, SchedulerExtremes
  <2> QED BY <2>2 DEF Scheduler!RungFor
<1> QED BY <1>1, <1>2

\* What of a rung is about one reminder, when the rung gains and loses a message.
About(s, r) == {i \in 1..Len(s) : s[i].what = r}

LEMMA AboutEnds ==
    ASSUME NEW S, NEW s \in Seq(S), NEW r
    PROVE  /\ IsFiniteSet(About(s, r)) /\ Cardinality(About(s, r)) \in Nat
           /\ \A e \in S : Cardinality(About(Append(s, e), r)) =
                 Cardinality(About(s, r)) + (IF e.what = r THEN 1 ELSE 0)
           /\ s # <<>> => Cardinality(About(Tail(s), r)) =
                 Cardinality(About(s, r)) - (IF Head(s).what = r THEN 1 ELSE 0)
<1>1. \A t \in Seq(S) : IsFiniteSet(About(t, r)) /\ Cardinality(About(t, r)) \in Nat
  <2> SUFFICES ASSUME NEW t \in Seq(S) PROVE IsFiniteSet(About(t, r)) /\ Cardinality(About(t, r)) \in Nat
    OBVIOUS
  <2>1. IsFiniteSet(1..Len(t)) BY FS_Interval
  <2>2. IsFiniteSet(About(t, r)) BY <2>1, FS_Subset DEF About
  <2> QED BY <2>2, FS_CardinalityType
<1>2. ASSUME NEW e \in S
      PROVE  Cardinality(About(Append(s, e), r)) =
                Cardinality(About(s, r)) + (IF e.what = r THEN 1 ELSE 0)
  <2>1. About(Append(s, e), r) = IF e.what = r THEN About(s, r) \cup {Len(s) + 1} ELSE About(s, r)
    BY DEF About
  <2>2. Len(s) + 1 \notin About(s, r) BY DEF About
  <2>3. Cardinality(About(s, r) \cup {Len(s) + 1}) = Cardinality(About(s, r)) + 1
    BY <1>1, <2>2, FS_AddElement
  <2> QED BY <1>1, <2>1, <2>3
<1>3. ASSUME s # <<>>
      PROVE  Cardinality(About(Tail(s), r)) =
                Cardinality(About(s, r)) - (IF Head(s).what = r THEN 1 ELSE 0)
  <2>1. /\ Tail(s) \in Seq(S) /\ Len(s) \in Nat /\ Len(s) >= 1 /\ Len(Tail(s)) = Len(s) - 1
        /\ Head(s) = s[1] /\ \A i \in 1..Len(s) - 1 : Tail(s)[i] = s[i + 1]
    BY <1>3
  <2> DEFINE A == About(Tail(s), r)
             B == About(s, r) \ {1}
             f == [i \in A |-> i + 1]
  <2>2. /\ \A i \in A : i \in Nat /\ i + 1 \in B
        /\ \A j \in B : j \in Nat /\ j - 1 \in A /\ (j - 1) + 1 = j
    BY <2>1 DEF About
  <2>3. f \in Bijection(A, B)
    <3>1. f \in [A -> B] BY <2>2
    <3>2. \A i, j \in A : f[i] = f[j] => i = j BY <2>2
    <3>3. \A j \in B : \E i \in A : f[i] = j BY <2>2
    <3> HIDE DEF A, B, f
    <3> QED BY <3>1, <3>2, <3>3 DEF Bijection, Injection, Surjection, IsInjective
  <2>4. Cardinality(B) = Cardinality(A)
    <3>1. IsFiniteSet(A) BY <1>1, <2>1
    <3>2. ExistsBijection(A, B) BY <2>3 DEF ExistsBijection
    <3> HIDE DEF A, B
    <3> QED BY <3>1, <3>2, FS_Bijection
  <2>5. 1 \in About(s, r) <=> Head(s).what = r BY <2>1 DEF About
  <2>6. Cardinality(B) = IF 1 \in About(s, r) THEN Cardinality(About(s, r)) - 1
                         ELSE Cardinality(About(s, r))
    BY <1>1, FS_RemoveElement
  <2> QED BY <1>1, <2>4, <2>5, <2>6
<1> QED BY <1>1, <1>2, <1>3

Waits == [what : Reminders, out : Nat]

LEMMA WaitsFields == \A e \in Waits : e.what \in Reminders /\ e.out \in Nat
  BY DEF Waits

SchedulerTypes ==
    /\ now \in Nat /\ faults \in Nat /\ DOMAIN due \subseteq Reminders
    /\ \A r \in DOMAIN due : due[r] \in Nat
    /\ control \subseteq DOMAIN due
    /\ rung \in [Rungs -> Seq(Waits)]
    /\ arrivals \in [Reminders -> Seq(Nat)]

SchedulerOnTime ==
    /\ \A r \in control : now <= due[r]
    /\ \A t \in Rungs : \A i \in 1..Len(rung[t]) :
          /\ rung[t][i].what \in DOMAIN due
          /\ now <= rung[t][i].out /\ rung[t][i].out <= now + t
          /\ rung[t][i].out <= due[rung[t][i].what]
    /\ Scheduler!NobodyWaitsBehind
    /\ \A r \in Reminders : r \notin DOMAIN due => arrivals[r] = <<>>
    /\ Scheduler!OnTimeByARung

\* Where a reminder is, and has been delivered, counted together.
OnRungs(r) == SumFunctionOnSet([t \in Rungs |-> Cardinality(About(rung[t], r))], Rungs)

SchedulerCopies ==
    \A r \in Reminders :
        /\ OnRungs(r) + (IF r \in control THEN 1 ELSE 0) + Len(arrivals[r]) <= 1 + faults
        /\ r \notin DOMAIN due => OnRungs(r) = 0

SchedulerInv == SchedulerTypes /\ SchedulerOnTime /\ SchedulerCopies

LEMMA RungsCount ==
    ASSUME NEW g \in [Rungs -> Seq(Waits)], NEW r
    PROVE  /\ SumFunctionOnSet([t \in Rungs |-> Cardinality(About(g[t], r))], Rungs) \in Nat
           /\ \A t \in Rungs : Cardinality(About(g[t], r)) \in Nat
<1> DEFINE f == [t \in Rungs |-> Cardinality(About(g[t], r))]
<1>1. \A t \in Rungs : Cardinality(About(g[t], r)) \in Nat BY AboutEnds
<1>2. \A t \in Rungs : f[t] \in Nat BY <1>1
<1> HIDE DEF f
<1>3. SumFunctionOnSet(f, Rungs) \in Nat BY <1>2, RungsAssumption, SumNat
<1> QED BY <1>1, <1>3 DEF f

LEMMA OnRungsType ==
    ASSUME SchedulerTypes, NEW r
    PROVE  /\ OnRungs(r) \in Nat
           /\ \A t \in Rungs : Cardinality(About(rung[t], r)) \in Nat
<1>1. rung \in [Rungs -> Seq(Waits)] BY DEF SchedulerTypes
<1> QED BY <1>1, RungsCount DEF OnRungs

\* One rung changes what is on the rungs by what it gains or loses.
LEMMA OnRungsMoves ==
    ASSUME SchedulerTypes, NEW u \in Rungs, NEW s, NEW r, NEW k \in Int,
           rung' = [rung EXCEPT ![u] = s],
           Cardinality(About(s, r)) = Cardinality(About(rung[u], r)) + k
    PROVE  OnRungs(r)' = OnRungs(r) + k
<1> DEFINE f == [t \in Rungs |-> Cardinality(About(rung[t], r))]
           g == [t \in Rungs |-> Cardinality(About(rung'[t], r))]
<1>1. \A t \in Rungs : f[t] \in Nat BY OnRungsType
<1>2. \A t \in Rungs : rung'[t] = IF t = u THEN s ELSE rung[t] BY DEF SchedulerTypes
<1>3. g[u] = f[u] + k /\ \A t \in Rungs \ {u} : f[t] = g[t] BY <1>2
<1>4. OnRungs(r) = SumFunctionOnSet(f, Rungs) /\ OnRungs(r)' = SumFunctionOnSet(g, Rungs)
  BY DEF OnRungs
<1> HIDE DEF f, g
<1>5. \A t \in Rungs : f[t] \in Int /\ g[t] \in Int BY <1>1, <1>3
<1>6. SumFunctionOnSet(g, Rungs) = SumFunctionOnSet(f, Rungs) + (IF u \in Rungs THEN g[u] - f[u] ELSE 0)
  BY <1>5, <1>3, RungsAssumption, SumMoved
<1>7. SumFunctionOnSet(f, Rungs) \in Int BY <1>5, RungsAssumption, SumType
<1> QED BY <1>1, <1>3, <1>4, <1>6, <1>7

\* The numbers that are counted together, before a step and after it.
LEMMA SchedulerNumbers ==
    /\ SchedulerTypes => \A x \in Reminders : OnRungs(x) \in Nat /\ Len(arrivals[x]) \in Nat
    /\ SchedulerTypes' => \A x \in Reminders : OnRungs(x)' \in Nat /\ Len(arrivals'[x]) \in Nat
<1>1. SchedulerTypes => \A x \in Reminders : OnRungs(x) \in Nat /\ Len(arrivals[x]) \in Nat
  <2> SUFFICES ASSUME SchedulerTypes, NEW x \in Reminders
               PROVE  OnRungs(x) \in Nat /\ Len(arrivals[x]) \in Nat
    OBVIOUS
  <2>1. arrivals[x] \in Seq(Nat) BY DEF SchedulerTypes
  <2> QED BY <2>1, OnRungsType
<1>2. SchedulerTypes' => \A x \in Reminders : OnRungs(x)' \in Nat /\ Len(arrivals'[x]) \in Nat
  <2> SUFFICES ASSUME SchedulerTypes', NEW x \in Reminders
               PROVE  OnRungs(x)' \in Nat /\ Len(arrivals'[x]) \in Nat
    OBVIOUS
  <2>1. arrivals'[x] \in Seq(Nat) /\ rung' \in [Rungs -> Seq(Waits)] BY DEF SchedulerTypes
  <2>2. OnRungs(x)' \in Nat BY <2>1, RungsCount DEF OnRungs
  <2> QED BY <2>1, <2>2
<1> QED BY <1>1, <1>2

LEMMA SchedulerStarts == Scheduler!Init => SchedulerInv
<1> SUFFICES ASSUME Scheduler!Init PROVE SchedulerInv
  OBVIOUS
<1>1. SchedulerTypes /\ SchedulerOnTime
  BY DEF Scheduler!Init, SchedulerTypes, SchedulerOnTime, Scheduler!NobodyWaitsBehind,
     Scheduler!OnTimeByARung
<1>2. ASSUME NEW r \in Reminders PROVE OnRungs(r) = 0
  <2> DEFINE f == [t \in Rungs |-> Cardinality(About(rung[t], r))]
  <2>1. \A t \in Rungs : rung[t] = <<>> BY DEF Scheduler!Init
  <2>2. About(<<>>, r) = {} BY DEF About
  <2>3. \A t \in Rungs : f[t] = 0 BY <2>1, <2>2, FS_EmptySet
  <2> HIDE DEF f
  <2>4. SumFunctionOnSet(f, Rungs) = 0 BY <2>3, RungsAssumption, SumZero
  <2> QED BY <2>4 DEF OnRungs, f
<1>3. SchedulerCopies BY <1>2 DEF Scheduler!Init, SchedulerCopies
<1> QED BY <1>1, <1>3 DEF SchedulerInv

\* A reminder that is left in time: it is delivered or goes down a rung, whether it
\* was scheduled just now or comes from the control queue.
SchedulerPasses(r, left) ==
    /\ now' = now
    /\ DOMAIN due' = DOMAIN due \cup {r} /\ due'[r] = now + left
    /\ \A x \in DOMAIN due : due'[x] = due[x]
    /\ IF left < Scheduler!Lead THEN Scheduler!Deliver(r) /\ UNCHANGED rung
                                ELSE Scheduler!Climb(r, left) /\ UNCHANGED arrivals

SchedulerPassed(r) ==
    /\ rung' \in [Rungs -> Seq(Waits)]
    /\ arrivals' \in [Reminders -> Seq(Nat)]
    /\ \A t \in Rungs : \A i \in 1..Len(rung'[t]) :
          /\ rung'[t][i].what \in DOMAIN due'
          /\ now <= rung'[t][i].out /\ rung'[t][i].out <= now + t
          /\ rung'[t][i].out <= due'[rung'[t][i].what]
    /\ Scheduler!NobodyWaitsBehind' /\ Scheduler!OnTimeByARung'
    /\ \A x \in Reminders : x # r => OnRungs(x)' = OnRungs(x) /\ arrivals'[x] = arrivals[x]
    /\ OnRungs(r)' + Len(arrivals'[r]) = OnRungs(r) + Len(arrivals[r]) + 1

LEMMA SchedulerDelivers ==
    ASSUME SchedulerInv, NEW r \in Reminders, NEW left \in Nat, SchedulerPasses(r, left),
           left < Scheduler!Lead
    PROVE  SchedulerPassed(r)
<1> USE DEF SchedulerInv
<1>1. /\ arrivals' = [arrivals EXCEPT ![r] = Append(arrivals[r], now)] /\ rung' = rung
      /\ now' = now /\ left < Scheduler!Smallest
      /\ DOMAIN due' = DOMAIN due \cup {r} /\ due'[r] = now + left
      /\ \A x \in DOMAIN due : due'[x] = due[x]
  BY DEF SchedulerPasses, Scheduler!Deliver, Scheduler!Lead
<1>2. /\ now \in Nat /\ arrivals \in [Reminders -> Seq(Nat)] /\ Scheduler!Smallest \in Nat
      /\ rung \in [Rungs -> Seq(Waits)]
      /\ DOMAIN due \subseteq Reminders
  BY SchedulerRungs DEF SchedulerTypes
<1>3. \A x \in Reminders : arrivals'[x] = IF x = r THEN Append(arrivals[r], now) ELSE arrivals[x]
  BY <1>1, <1>2
<1>4. /\ arrivals' \in [Reminders -> Seq(Nat)]
      /\ Len(arrivals'[r]) = Len(arrivals[r]) + 1 /\ Len(arrivals[r]) \in Nat
      /\ \A i \in 1..Len(arrivals[r]) : arrivals'[r][i] = arrivals[r][i]
      /\ arrivals'[r][Len(arrivals[r]) + 1] = now
  BY <1>1, <1>2
<1>5. \A t \in Rungs : \A i \in 1..Len(rung[t]) :
          /\ rung[t][i].what \in DOMAIN due'
          /\ now <= rung[t][i].out /\ rung[t][i].out <= now + t
          /\ rung[t][i].out <= due'[rung[t][i].what]
  BY <1>1 DEF SchedulerOnTime
<1>6. Scheduler!NobodyWaitsBehind' BY <1>1 DEF SchedulerOnTime, Scheduler!NobodyWaitsBehind
<1>7. ASSUME NEW i \in 1..Len(arrivals'[r])
      PROVE  arrivals'[r][i] + Scheduler!Smallest > due'[r] /\ arrivals'[r][i] <= due'[r]
  <2>1. CASE i = Len(arrivals[r]) + 1 BY <1>1, <1>2, <1>4, <2>1
  <2>2. CASE i \in 1..Len(arrivals[r])
    <3>1. r \in DOMAIN due BY <2>2 DEF SchedulerOnTime
    <3> QED BY <1>1, <1>4, <2>2, <3>1 DEF SchedulerOnTime, Scheduler!OnTimeByARung
  <2> QED BY <1>4, <2>1, <2>2
<1>8. Scheduler!OnTimeByARung'
  BY <1>1, <1>2, <1>3, <1>7 DEF SchedulerOnTime, Scheduler!OnTimeByARung, Scheduler!Smallest
<1>9. \A x : OnRungs(x)' = OnRungs(x) BY <1>1 DEF OnRungs
<1>10. rung' \in [Rungs -> Seq(Waits)] BY <1>1, <1>2
<1>11. OnRungs(r) \in Nat BY OnRungsType
<1>12. OnRungs(r)' + Len(arrivals'[r]) = OnRungs(r) + Len(arrivals[r]) + 1
  BY <1>4, <1>9, <1>11
<1>13. \A x \in Reminders : x # r => OnRungs(x)' = OnRungs(x) /\ arrivals'[x] = arrivals[x]
  BY <1>3, <1>9
<1>14. \A t \in Rungs : \A i \in 1..Len(rung'[t]) :
          /\ rung'[t][i].what \in DOMAIN due'
          /\ now <= rung'[t][i].out /\ rung'[t][i].out <= now + t
          /\ rung'[t][i].out <= due'[rung'[t][i].what]
  BY <1>1, <1>5
<1> QED BY <1>4, <1>6, <1>8, <1>10, <1>12, <1>13, <1>14 DEF SchedulerPassed

LEMMA SchedulerClimbs ==
    ASSUME SchedulerInv, NEW r \in Reminders, NEW left \in Nat, SchedulerPasses(r, left),
           ~(left < Scheduler!Lead)
    PROVE  SchedulerPassed(r)
<1> DEFINE u == Scheduler!RungFor(left)
           e == [what |-> r, out |-> now + u]
           s == Append(rung[u], e)
<1> USE DEF SchedulerInv
<1>1. /\ rung' = [rung EXCEPT ![u] = s] /\ arrivals' = arrivals
      /\ now' = now /\ left >= Scheduler!Smallest
      /\ DOMAIN due' = DOMAIN due \cup {r} /\ due'[r] = now + left
      /\ \A x \in DOMAIN due : due'[x] = due[x]
  BY SchedulerRungs DEF SchedulerPasses, Scheduler!Climb, Scheduler!Ttl, Scheduler!Lead
<1>2. /\ now \in Nat /\ arrivals \in [Reminders -> Seq(Nat)]
      /\ rung \in [Rungs -> Seq(Waits)]
      /\ DOMAIN due \subseteq Reminders
      /\ u \in Rungs /\ u <= left /\ u \in Nat
  BY <1>1, SchedulerRungs, RungsAssumption DEF SchedulerTypes
<1>3. e \in Waits /\ e.what = r /\ e.out = now + u
  BY <1>1, <1>2 DEF Waits
<1> HIDE DEF u, e
<1>4. \A t \in Rungs : rung[t] \in Seq(Waits) BY <1>2
<1>5. /\ s \in Seq(Waits) /\ Len(s) = Len(rung[u]) + 1
      /\ Len(rung[u]) \in Nat /\ s[Len(rung[u]) + 1] = e
      /\ \A i \in 1..Len(rung[u]) : s[i] = rung[u][i]
  BY <1>2, <1>3, <1>4
<1>6. \A x : Cardinality(About(s, x)) = Cardinality(About(rung[u], x)) + (IF x = r THEN 1 ELSE 0)
  <2> SUFFICES ASSUME NEW x
               PROVE  Cardinality(About(s, x)) = Cardinality(About(rung[u], x)) + (IF x = r THEN 1 ELSE 0)
    OBVIOUS
  <2>1. rung[u] \in Seq(Waits) BY <1>2, <1>4
  <2>2. Cardinality(About(Append(rung[u], e), x)) =
          Cardinality(About(rung[u], x)) + (IF e.what = x THEN 1 ELSE 0)
    BY <1>3, <2>1, AboutEnds
  <2> QED BY <1>3, <2>2
<1> HIDE DEF s
<1>7. \A t \in Rungs : rung'[t] = IF t = u THEN s ELSE rung[t] BY <1>1, <1>2
<1>8. rung' \in [Rungs -> Seq(Waits)] BY <1>1, <1>2, <1>4, <1>5, <1>7
<1>9. \A t \in Rungs : \A i \in 1..Len(rung[t]) :
          /\ rung[t][i].what \in DOMAIN due'
          /\ rung[t][i].out \in Nat
          /\ now <= rung[t][i].out /\ rung[t][i].out <= now + t
          /\ rung[t][i].out <= due'[rung[t][i].what]
  <2>1. \A t \in Rungs : \A i \in 1..Len(rung[t]) : rung[t][i] \in Waits BY <1>4
  <2>2. \A t \in Rungs : \A i \in 1..Len(rung[t]) : rung[t][i].out \in Nat BY <2>1, WaitsFields
  <2> QED BY <1>1, <2>2 DEF SchedulerOnTime
<1>10. ASSUME NEW t \in Rungs, NEW i \in 1..Len(rung'[t])
       PROVE  /\ rung'[t][i].what \in DOMAIN due'
              /\ now <= rung'[t][i].out /\ rung'[t][i].out <= now + t
              /\ rung'[t][i].out <= due'[rung'[t][i].what]
  <2>1. CASE t # u BY <1>7, <1>9, <2>1
  <2>2. CASE t = u /\ i \in 1..Len(rung[u])
    <3>1. rung'[t][i] = rung[u][i] BY <1>2, <1>5, <1>7, <2>2
    <3> QED BY <1>2, <1>9, <2>2, <3>1
  <2>3. CASE t = u /\ i = Len(rung[u]) + 1
    <3>1. rung'[t][i] = e BY <1>2, <1>5, <1>7, <2>3
    <3> QED BY <1>1, <1>2, <1>3, <2>3, <3>1
  <2> QED BY <1>2, <1>5, <1>7, <2>1, <2>2, <2>3
<1>11. ASSUME NEW t \in Rungs, NEW i \in 1..Len(rung'[t]), NEW j \in 1..Len(rung'[t]), i < j
       PROVE  rung'[t][i].out <= rung'[t][j].out
  <2>0. \A k, l \in 1..Len(rung[t]) : k < l => rung[t][k].out <= rung[t][l].out
    BY DEF SchedulerOnTime, Scheduler!NobodyWaitsBehind
  <2>1. CASE t # u BY <1>7, <1>11, <2>0, <2>1
  <2>2. CASE t = u /\ j \in 1..Len(rung[u])
    <3>0. i \in 1..Len(rung[u]) BY <1>5, <1>7, <1>11, <2>2
    <3>1. /\ i \in 1..Len(rung[u]) /\ rung'[t][i] = rung[u][i] /\ rung'[t][j] = rung[u][j]
      BY <1>5, <1>7, <2>2, <3>0
    <3> QED BY <1>11, <2>0, <2>2, <3>1
  <2>3. CASE t = u /\ j = Len(rung[u]) + 1
    <3>0. i \in 1..Len(rung[u]) BY <1>5, <1>7, <1>11, <2>3
    <3>1. i \in 1..Len(rung[u]) /\ rung'[t][i] = rung[u][i] /\ rung'[t][j] = e
      BY <1>5, <1>7, <2>3, <3>0
    <3> QED BY <1>2, <1>3, <1>9, <2>3, <3>1
  <2> QED BY <1>2, <1>5, <1>7, <2>1, <2>2, <2>3
<1>12. Scheduler!NobodyWaitsBehind' BY <1>11 DEF Scheduler!NobodyWaitsBehind
<1>13. Scheduler!OnTimeByARung'
  <2>1. r \notin DOMAIN due => arrivals[r] = <<>> BY DEF SchedulerOnTime
  <2> QED BY <1>1, <2>1 DEF SchedulerOnTime, Scheduler!OnTimeByARung, Scheduler!Smallest
<1>14. \A x : OnRungs(x)' = OnRungs(x) + (IF x = r THEN 1 ELSE 0)
  <2> SUFFICES ASSUME NEW x PROVE OnRungs(x)' = OnRungs(x) + (IF x = r THEN 1 ELSE 0)
    OBVIOUS
  <2> DEFINE k == IF x = r THEN 1 ELSE 0
  <2>1. k \in Int OBVIOUS
  <2>2. Cardinality(About(s, x)) = Cardinality(About(rung[u], x)) + k BY <1>6
  <2> HIDE DEF k
  <2>3. OnRungs(x)' = OnRungs(x) + k BY <1>1, <1>2, <2>1, <2>2, OnRungsMoves
  <2> QED BY <2>3 DEF k
<1>15. \A x \in Reminders : OnRungs(x) \in Nat /\ Len(arrivals[x]) \in Nat
  BY <1>2, OnRungsType
<1>16. OnRungs(r)' + Len(arrivals'[r]) = OnRungs(r) + Len(arrivals[r]) + 1
  BY <1>1, <1>14, <1>15
<1>17. \A x \in Reminders : x # r => OnRungs(x)' = OnRungs(x) /\ arrivals'[x] = arrivals[x]
  BY <1>1, <1>14, <1>15
<1>18. arrivals' \in [Reminders -> Seq(Nat)] BY <1>1, <1>2
<1> QED BY <1>8, <1>10, <1>12, <1>13, <1>16, <1>17, <1>18 DEF SchedulerPassed

LEMMA SchedulerKept == SchedulerInv /\ [Scheduler!Next]_(Scheduler!vars) => SchedulerInv'
<1> SUFFICES ASSUME SchedulerInv, [Scheduler!Next]_(Scheduler!vars) PROVE SchedulerInv'
  OBVIOUS
<1> USE DEF SchedulerInv
<1>n. \A x \in Reminders : OnRungs(x) \in Nat /\ Len(arrivals[x]) \in Nat
  <2>1. \A x \in Reminders : arrivals[x] \in Seq(Nat) BY DEF SchedulerTypes
  <2>2. \A x \in Reminders : Len(arrivals[x]) \in Nat BY <2>1
  <2> QED BY <2>2, OnRungsType
<1>1. ASSUME NEW r \in Reminders, NEW d \in Delays, Scheduler!Schedule(r, d) PROVE SchedulerInv'
  <2>1. /\ r \notin DOMAIN due /\ d \in Nat /\ UNCHANGED <<now, control, faults>>
        /\ DOMAIN due' = DOMAIN due \cup {r} /\ due'[r] = now + d
        /\ \A x \in DOMAIN due : due'[x] = due[x]
    BY <1>1, RungsAssumption DEF Scheduler!Schedule
  <2>2. SchedulerPasses(r, d) BY <1>1, <2>1 DEF Scheduler!Schedule, SchedulerPasses
  <2>3. SchedulerPassed(r) BY <2>1, <2>2, SchedulerDelivers, SchedulerClimbs
  <2>4. SchedulerTypes'
    <3>1. \A x \in DOMAIN due' : due'[x] \in Nat BY <2>1 DEF SchedulerTypes
    <3> QED BY <2>1, <2>3, <3>1 DEF SchedulerPassed, SchedulerTypes
  <2>5. SchedulerOnTime' BY <2>1, <2>3 DEF SchedulerPassed, SchedulerTypes, SchedulerOnTime
  <2>6. arrivals[r] = <<>> /\ OnRungs(r) = 0 /\ r \notin control
    BY <2>1 DEF SchedulerOnTime, SchedulerCopies, SchedulerTypes
  <2>7. faults \in Nat BY DEF SchedulerTypes
  <2>8t. \A x \in Reminders : OnRungs(x)' \in Nat /\ Len(arrivals'[x]) \in Nat
    BY <2>4, SchedulerNumbers
  <2>8. ASSUME NEW x \in Reminders
        PROVE /\ OnRungs(x)' + (IF x \in control' THEN 1 ELSE 0) + Len(arrivals'[x]) <= 1 + faults'
              /\ x \notin DOMAIN due' => OnRungs(x)' = 0
    <3>1. CASE x = r
      <4>1. OnRungs(r)' + Len(arrivals'[r]) = 1 BY <2>3, <2>6 DEF SchedulerPassed
      <4>2. r \in DOMAIN due' /\ r \notin control' BY <2>1, <2>6
      <4> QED BY <2>1, <2>6, <2>7, <3>1, <4>1, <4>2, <2>8t
    <3>2. CASE x # r
      <4>1. OnRungs(x)' = OnRungs(x) /\ arrivals'[x] = arrivals[x]
        BY <2>3, <3>2 DEF SchedulerPassed
      <4> QED BY <2>1, <3>2, <4>1 DEF SchedulerCopies
    <3> QED BY <3>1, <3>2
  <2>9. SchedulerCopies' BY <2>8 DEF SchedulerCopies
  <2> QED BY <2>4, <2>5, <2>9
<1>2. ASSUME NEW t \in Rungs, Scheduler!Expire(t) PROVE SchedulerInv'
  <2> DEFINE s == Tail(rung[t])
             h == Head(rung[t]).what
  <2>1. /\ rung[t] # <<>> /\ Head(rung[t]).out <= now /\ control' = control \cup {h}
        /\ rung' = [rung EXCEPT ![t] = s] /\ UNCHANGED <<now, due, arrivals, faults>>
    BY <1>2 DEF Scheduler!Expire
  <2>2. /\ rung[t] \in Seq(Waits)
        /\ Head(rung[t]) = rung[t][1] /\ 1 \in 1..Len(rung[t]) /\ h \in DOMAIN due
        /\ s \in Seq(Waits) /\ Len(s) = Len(rung[t]) - 1 /\ Len(rung[t]) \in Nat
        /\ \A i \in 1..Len(s) : s[i] = rung[t][i + 1] /\ i + 1 \in 1..Len(rung[t])
    <3>1. rung[t] \in Seq(Waits) BY DEF SchedulerTypes
    <3>2. /\ Head(rung[t]) = rung[t][1] /\ 1 \in 1..Len(rung[t]) /\ Len(rung[t]) \in Nat
          /\ s \in Seq(Waits) /\ Len(s) = Len(rung[t]) - 1
          /\ \A i \in 1..Len(s) : s[i] = rung[t][i + 1] /\ i + 1 \in 1..Len(rung[t])
      BY <2>1, <3>1
    <3>3. h \in DOMAIN due BY <3>2 DEF SchedulerOnTime
    <3> QED BY <3>1, <3>2, <3>3
  <2>3. \A x : Cardinality(About(s, x)) = Cardinality(About(rung[t], x)) - (IF h = x THEN 1 ELSE 0)
    BY <2>1, <2>2, AboutEnds
  <2>4. now <= due[h] /\ now \in Nat /\ due[h] \in Nat
    <3>1. /\ Head(rung[t]).out <= now /\ now <= Head(rung[t]).out
          /\ Head(rung[t]).out <= due[h]
      BY <2>1, <2>2 DEF SchedulerOnTime
    <3>2. Head(rung[t]).out \in Nat BY <2>2, WaitsFields
    <3>3. now \in Nat /\ due[h] \in Nat BY <2>2 DEF SchedulerTypes
    <3> QED BY <3>1, <3>2, <3>3
  <2> HIDE DEF s, h
  <2>5. \A u \in Rungs : rung'[u] = IF u = t THEN s ELSE rung[u] BY <2>1 DEF SchedulerTypes
  <2>6. SchedulerTypes' BY <2>1, <2>2 DEF SchedulerTypes
  <2>7. \A u \in Rungs : \A i \in 1..Len(rung'[u]) :
          /\ rung'[u][i].what \in DOMAIN due
          /\ now <= rung'[u][i].out /\ rung'[u][i].out <= now + u
          /\ rung'[u][i].out <= due[rung'[u][i].what]
    <3>1. ASSUME NEW u \in Rungs, NEW i \in 1..Len(rung'[u])
          PROVE  \E j \in 1..Len(rung[u]) : rung'[u][i] = rung[u][j]
      <4>1. CASE u = t BY <2>2, <2>5, <4>1
      <4>2. CASE u # t BY <2>5, <4>2
      <4> QED BY <4>1, <4>2
    <3> QED BY <3>1, SMTT(20) DEF SchedulerOnTime
  <2>8. ASSUME NEW u \in Rungs, NEW i \in 1..Len(rung'[u]), NEW j \in 1..Len(rung'[u]), i < j
        PROVE  rung'[u][i].out <= rung'[u][j].out
    <3>1. \A k, l \in 1..Len(rung[u]) : k < l => rung[u][k].out <= rung[u][l].out
      BY DEF SchedulerOnTime, Scheduler!NobodyWaitsBehind
    <3>2. CASE u # t BY <2>5, <2>8, <3>1, <3>2
    <3>3. CASE u = t
      <4>1. /\ i \in 1..Len(s) /\ j \in 1..Len(s) /\ rung'[u] = s BY <2>5, <3>3
      <4>2. /\ i + 1 \in 1..Len(rung[t]) /\ j + 1 \in 1..Len(rung[t]) /\ i + 1 < j + 1
            /\ s[i] = rung[t][i + 1] /\ s[j] = rung[t][j + 1]
        BY <2>2, <2>8, <4>1
      <4> QED BY <3>1, <3>3, <4>1, <4>2
    <3> QED BY <3>2, <3>3
  <2>9. SchedulerOnTime'
    <3>1. Scheduler!NobodyWaitsBehind' BY <2>8 DEF Scheduler!NobodyWaitsBehind
    <3>2. Scheduler!OnTimeByARung'
      BY <2>1 DEF SchedulerOnTime, Scheduler!OnTimeByARung, Scheduler!Smallest
    <3> QED BY <2>1, <2>4, <2>7, <3>1, <3>2 DEF SchedulerOnTime
  <2>10. ASSUME NEW x \in Reminders
         PROVE  OnRungs(x)' = OnRungs(x) - (IF h = x THEN 1 ELSE 0)
    <3> DEFINE k == IF h = x THEN -1 ELSE 0
    <3>1. k \in Int OBVIOUS
    <3>2. Cardinality(About(s, x)) = Cardinality(About(rung[t], x)) + k
      <4>1. Cardinality(About(rung[t], x)) \in Nat BY OnRungsType
      <4> QED BY <2>3, <4>1
    <3> HIDE DEF k
    <3>3. OnRungs(x)' = OnRungs(x) + k BY <2>1, <3>1, <3>2, OnRungsMoves
    <3> QED BY <3>3, <1>n DEF k
  <2>11. SchedulerCopies'
    <3> SUFFICES ASSUME NEW x \in Reminders
                 PROVE /\ OnRungs(x)' + (IF x \in control' THEN 1 ELSE 0) + Len(arrivals'[x]) <= 1 + faults'
                       /\ x \notin DOMAIN due' => OnRungs(x)' = 0
      BY DEF SchedulerCopies
    <3>1. /\ OnRungs(x) + (IF x \in control THEN 1 ELSE 0) + Len(arrivals[x]) <= 1 + faults
          /\ x \notin DOMAIN due => OnRungs(x) = 0
          /\ faults \in Nat
      BY DEF SchedulerCopies, SchedulerTypes
    <3>2. CASE x = h BY <1>n, <2>1, <2>2, <2>10, <3>1, <3>2, SMTT(20)
    <3>3. CASE x # h BY <1>n, <2>1, <2>10, <3>1, <3>3
    <3> QED BY <3>2, <3>3
  <2> QED BY <2>6, <2>9, <2>11
<1>3. ASSUME NEW r \in Reminders, Scheduler!Control(r) PROVE SchedulerInv'
  <2>1. /\ r \in control /\ r \in DOMAIN due /\ due[r] \in Nat /\ now \in Nat /\ now <= due[r]
    BY <1>3 DEF Scheduler!Control, SchedulerTypes, SchedulerOnTime
  <2>2. /\ Scheduler!Left(r) \in Nat /\ due[r] = now + Scheduler!Left(r)
    BY <2>1 DEF Scheduler!Left
  <2>3. UNCHANGED <<now, due>> /\ SchedulerPasses(r, Scheduler!Left(r))
    BY <1>3, <2>1, <2>2 DEF Scheduler!Control, SchedulerPasses
  <2>4. SchedulerPassed(r) BY <2>2, <2>3, SchedulerDelivers, SchedulerClimbs
  <2>5. /\ faults \in Nat
        /\ \/ control' = control \ {r} /\ faults' = faults
           \/ control' = control /\ faults' = faults + 1
    BY <1>3 DEF Scheduler!Control, SchedulerTypes
  <2>6. SchedulerTypes'
    <3>1. control' \subseteq control /\ faults' \in Nat BY <2>5
    <3> QED BY <2>3, <2>4, <3>1 DEF SchedulerPassed, SchedulerTypes
  <2>7. \A x \in Reminders : x \notin DOMAIN due => arrivals'[x] = <<>>
    BY <2>1, <2>4 DEF SchedulerPassed, SchedulerOnTime
  <2>8. SchedulerOnTime' BY <2>3, <2>4, <2>5, <2>7 DEF SchedulerPassed, SchedulerOnTime
  <2>9. SchedulerCopies'
    <3> SUFFICES ASSUME NEW x \in Reminders
                 PROVE /\ OnRungs(x)' + (IF x \in control' THEN 1 ELSE 0) + Len(arrivals'[x]) <= 1 + faults'
                       /\ x \notin DOMAIN due' => OnRungs(x)' = 0
      BY DEF SchedulerCopies
    <3>1. /\ OnRungs(x) + (IF x \in control THEN 1 ELSE 0) + Len(arrivals[x]) <= 1 + faults
          /\ x \notin DOMAIN due => OnRungs(x) = 0
      BY DEF SchedulerCopies
    <3>2. CASE x = r
      <4>1. OnRungs(r)' + Len(arrivals'[r]) = OnRungs(r) + Len(arrivals[r]) + 1
        BY <2>4 DEF SchedulerPassed
      <4>2. OnRungs(r)' \in Nat /\ Len(arrivals'[r]) \in Nat
        BY <2>6, SchedulerNumbers
      <4>3. OnRungs(r) + 1 + Len(arrivals[r]) <= 1 + faults BY <2>1, <3>1, <3>2
      <4>4. CASE control' = control \ {r} /\ faults' = faults
        BY <1>n, <2>1, <2>3, <2>5, <3>2, <4>1, <4>2, <4>3, <4>4
      <4>5. CASE control' = control /\ faults' = faults + 1
        <5>1. r \in control' /\ x \in DOMAIN due' BY <2>1, <2>3, <3>2, <4>5
        <5>2. OnRungs(r)' + 1 + Len(arrivals'[r]) <= 1 + (faults + 1)
          BY <1>n, <2>5, <4>1, <4>2, <4>3, SMTT(20)
        <5> QED BY <3>2, <4>5, <5>1, <5>2
      <4> QED BY <2>5, <4>4, <4>5
    <3>3. CASE x # r
      <4>1. OnRungs(x)' = OnRungs(x) /\ arrivals'[x] = arrivals[x]
        BY <2>4, <3>3 DEF SchedulerPassed
      <4> QED BY <1>n, <2>3, <2>5, <3>1, <3>3, <4>1
    <3> QED BY <3>2, <3>3
  <2> QED BY <2>6, <2>8, <2>9
<1>4. CASE Scheduler!Tick
  <2>1. /\ control = {} /\ now' = now + 1 /\ UNCHANGED <<due, control, rung, arrivals, faults>>
        /\ \A t \in Rungs : rung[t] # <<>> => Head(rung[t]).out > now
    BY <1>4 DEF Scheduler!Tick
  <2>2. SchedulerTypes'
    <3>1. now' \in Nat BY <2>1 DEF SchedulerTypes
    <3> QED BY <2>1, <3>1 DEF SchedulerTypes
  <2>3. SchedulerCopies' BY <2>1 DEF SchedulerCopies, OnRungs
  <2>4. ASSUME NEW t \in Rungs, NEW i \in 1..Len(rung[t])
        PROVE  now + 1 <= rung[t][i].out /\ rung[t][i].out <= now + 1 + t
    <3>1. /\ rung[t] \in Seq(Waits) /\ now \in Nat /\ t \in Nat
      BY RungsAssumption DEF SchedulerTypes
    <3>2. rung[t] # <<>> /\ Head(rung[t]) = rung[t][1] /\ 1 \in 1..Len(rung[t])
          /\ rung[t][1].out \in Nat /\ rung[t][i].out \in Nat
      BY <3>1, WaitsFields
    <3>3. rung[t][1].out > now BY <2>1, <3>2
    <3>4. rung[t][1].out <= rung[t][i].out
      <4>1. CASE i = 1 BY <3>2, <4>1
      <4>2. CASE 1 < i BY <3>2, <4>2 DEF SchedulerOnTime, Scheduler!NobodyWaitsBehind
      <4> QED BY <4>1, <4>2
    <3>5. rung[t][i].out <= now + t BY DEF SchedulerOnTime
    <3> QED BY <3>1, <3>2, <3>3, <3>4, <3>5
  <2>5. SchedulerOnTime'
    <3>1. Scheduler!NobodyWaitsBehind' BY <2>1 DEF SchedulerOnTime, Scheduler!NobodyWaitsBehind
    <3>2. Scheduler!OnTimeByARung'
      BY <2>1 DEF SchedulerOnTime, Scheduler!OnTimeByARung, Scheduler!Smallest
    <3> QED BY <2>1, <2>4, <3>1, <3>2 DEF SchedulerOnTime
  <2> QED BY <2>2, <2>3, <2>5
<1>5. CASE UNCHANGED Scheduler!vars
  BY <1>5 DEF Scheduler!vars, SchedulerTypes, SchedulerOnTime, SchedulerCopies, OnRungs,
     Scheduler!NobodyWaitsBehind, Scheduler!OnTimeByARung, Scheduler!Smallest
<1> QED BY <1>1, <1>2, <1>3, <1>4, <1>5 DEF Scheduler!Next

\* A reminder arrives early by less than the smallest rung and never late, behind
\* none that is due later, and once more for each death of the scheduler.
THEOREM RemindersInTime ==
    Scheduler!Spec => [](/\ Scheduler!RemindedOnce /\ Scheduler!OnTimeByARung
                         /\ Scheduler!NobodyWaitsBehind)
<1>1. SchedulerInv => Scheduler!RemindedOnce
  <2> SUFFICES ASSUME SchedulerInv, NEW r \in Reminders PROVE Len(arrivals[r]) <= 1 + faults
    BY DEF Scheduler!RemindedOnce
  <2>1. /\ OnRungs(r) + (IF r \in control THEN 1 ELSE 0) + Len(arrivals[r]) <= 1 + faults
        /\ faults \in Nat /\ Len(arrivals[r]) \in Nat /\ OnRungs(r) \in Nat
    <3>1. SchedulerTypes BY DEF SchedulerInv
    <3> QED BY <3>1, SchedulerNumbers DEF SchedulerInv, SchedulerCopies, SchedulerTypes
  <2> QED BY <2>1
<1>2. SchedulerInv => /\ Scheduler!RemindedOnce /\ Scheduler!OnTimeByARung
                      /\ Scheduler!NobodyWaitsBehind
  BY <1>1 DEF SchedulerInv, SchedulerOnTime
<1> QED BY SchedulerStarts, SchedulerKept, <1>2, PTL DEF Scheduler!Spec
-----------------------------------------------------------------------------
\* intermediate/09-consumer-groups.  A round counts its own handlers, a member of the
\* group has one, the single consumer as many as it was handed since it last lost its
\* channel, and until one is lost an invoice of a round is on the queue, in hand or
\* handled, once.
LEMMA GroupCardinality == \A S : Group!Cardinality(S) = Cardinality(S)
  BY DEF Group!Cardinality, Cardinality

LEMMA GroupSum == \A f : Group!SumFunction(f) = SumFunctionOnSet(f, DOMAIN f)
  BY DEF Group!SumFunction, Group!SumFunctionOnSet, Group!FoldFunctionOnSet, Group!MapThenFoldSet,
         SumFunctionOnSet, FoldFunctionOnSet, MapThenFoldSet

\* A sum of at most ones is at most their number, and is it only if all are ones.
LEMMA SumOfOnes ==
    ASSUME NEW S, IsFiniteSet(S), NEW f, \A x \in S : f[x] \in {0, 1}
    PROVE  /\ SumFunctionOnSet(f, S) <= Cardinality(S)
           /\ SumFunctionOnSet(f, S) >= Cardinality(S) => \A x \in S : f[x] = 1
<1> DEFINE Q == {T \in SUBSET S : SumFunctionOnSet(f, T) <= Cardinality(T)}
<1>1. ASSUME NEW T \in SUBSET S, NEW x \in T
      PROVE  /\ IsFiniteSet(T) /\ IsFiniteSet(T \ {x})
             /\ Cardinality(T \ {x}) = Cardinality(T) - 1 /\ Cardinality(T) \in Nat
             /\ SumFunctionOnSet(f, T) = f[x] + SumFunctionOnSet(f, T \ {x})
             /\ SumFunctionOnSet(f, T \ {x}) \in Int
  <2>1. IsFiniteSet(T) BY FS_Subset
  <2>2. IsFiniteSet(T \ {x}) /\ Cardinality(T \ {x}) = Cardinality(T) - 1
    BY <2>1, FS_RemoveElement
  <2>3. \A y \in T : f[y] \in Int OBVIOUS
  <2>4. SumFunctionOnSet(f, T) = f[x] + SumFunctionOnSet(f, T \ {x})
    BY <2>1, <2>3, SumWithout
  <2>5. SumFunctionOnSet(f, T \ {x}) \in Int BY <2>2, <2>3, SumType
  <2> QED BY <2>1, <2>2, <2>4, <2>5, FS_CardinalityType
<1>2. ASSUME NEW T \in SUBSET S, \A U \in SUBSET T : U # T => U \in Q
      PROVE  T \in Q
  <2>1. CASE T = {} BY <2>1, SumEmpty, FS_EmptySet
  <2>2. ASSUME NEW x \in T PROVE T \in Q
    <3>1. T \ {x} \in Q BY <1>2
    <3>2. f[x] \in {0, 1} OBVIOUS
    <3> QED BY <1>1, <3>1, <3>2
  <2> QED BY <2>1, <2>2
<1>3. \A T \in SUBSET S : T \in Q
  <2> HIDE DEF Q
  <2>1. ASSUME NEW T \in SUBSET S PROVE T \in Q
    <3>1. IsFiniteSet(T) BY FS_Subset
    <3>2. \A U \in SUBSET T : (\A V \in SUBSET U : V # U => V \in Q) => U \in Q BY <1>2
    <3> QED BY <3>1, <3>2, SubsetInduction
  <2> QED BY <2>1
<1>4. ASSUME SumFunctionOnSet(f, S) >= Cardinality(S), NEW x \in S PROVE f[x] = 1
  <2>1. S \ {x} \in Q BY <1>3
  <2>2. f[x] \in {0, 1} OBVIOUS
  <2> QED BY <1>1, <1>4, <2>1, <2>2
<1> QED BY <1>3, <1>4

GroupTypes ==
    /\ round \in {"group", "single", "over"} /\ phase \in {"fill", "run", "closing"}
    /\ backlog \in [GroupInvoices -> Nat] /\ tag \in Nat /\ drops \in Nat
    /\ DOMAIN unsettled = 1..Size
    /\ \A c \in 1..Size : /\ IsFiniteSet(unsettled[c])
                          /\ \A u \in unsettled[c] : u.tag \in Nat /\ u.tag <= tag
    /\ IsFiniteSet(working)
    /\ \A w \in working : /\ w.round = round /\ w.at \in Group!Members
                          /\ w.what \in GroupInvoices
    /\ phase = "fill" \/ round = "over" => working = {} /\ phase = "fill"

GroupAtOnce ==
    /\ most \in [Group!Rounds -> Nat]
    /\ \A c \in 1..Size : Cardinality(unsettled[c]) <= Prefetch
    /\ round = "group" => \A w, x \in working : w.at = x.at => w = x
    /\ round = "single" => Cardinality(working) <= Cardinality(unsettled[1]) + Prefetch * drops
    /\ Group!AtOnceIsPrefetch

GroupCounts ==
    /\ tally \in [Group!Rounds -> [GroupInvoices -> Nat]]
    /\ closes \in [Group!Rounds -> {0, 1}]
    /\ \A r \in Group!Rounds : closes[r] = 1 =>
          SumFunctionOnSet(tally[r], GroupInvoices) >= Cardinality(GroupInvoices)
    /\ phase = "closing" => closes[round] = 1

GroupEach ==
    drops = 0 =>
        /\ \A r \in Group!Rounds, v \in GroupInvoices : tally[r][v] \in {0, 1}
        /\ \A w, x \in working : w.what = x.what => w = x
        /\ \A w \in working : backlog[w.what] = 0 /\ tally[round][w.what] = 0
        /\ round = "group" => \A v \in GroupInvoices : tally["single"][v] = 0
        /\ round \in Group!Rounds => \A v \in GroupInvoices : backlog[v] + tally[round][v] <= 1
        /\ phase = "fill" => \A v \in GroupInvoices : backlog[v] = 0
        /\ phase = "fill" /\ round \in Group!Rounds =>
              \A v \in GroupInvoices : tally[round][v] = 0

GroupInv == GroupTypes /\ GroupAtOnce /\ GroupCounts /\ GroupEach

LEMMA GroupStarts == Group!Init => GroupInv
<1> SUFFICES ASSUME Group!Init PROVE GroupInv
  OBVIOUS
<1> USE GroupAssumption, FS_EmptySet DEF Group!Init, Group!Rounds
<1>1. GroupTypes BY DEF GroupTypes
<1>2. GroupAtOnce
  <2>1. /\ \A c \in 1..Size : Cardinality(unsettled[c]) = 0 /\ Cardinality(working) = 0
        /\ most["group"] = 0 /\ most["single"] = 0 /\ drops = 0 /\ 1 \in 1..Size
        /\ Size * Prefetch \in Nat /\ Prefetch * (1 + 0) = Prefetch /\ Prefetch * 0 = 0
    OBVIOUS
  <2> QED BY <2>1 DEF GroupAtOnce, Group!AtOnceIsPrefetch
<1>3. GroupCounts BY DEF GroupCounts
<1>4. GroupEach BY DEF GroupEach
<1> QED BY <1>1, <1>2, <1>3, <1>4 DEF GroupInv

\* A delivery that enters makes one more in hand, where there was room.
LEMMA GroupRoom ==
    ASSUME GroupInv, NEW c \in 1..Size, c \in Group!Members, Group!HasRoom(c), round \in Group!Rounds
    PROVE  /\ Cardinality(unsettled[c]) < Prefetch
           /\ round = "group" => \A w \in working : w.at # c
           /\ round = "single" => c = 1
<1> DEFINE mine == {w \in working : w.at = c}
<1>1. Cardinality(unsettled[c]) < Prefetch /\ Cardinality(mine) < Group!Handlers
  BY GroupCardinality DEF Group!HasRoom
<1>2. IsFiniteSet(mine) BY FS_Subset DEF GroupInv, GroupTypes
<1>3. ASSUME round = "group" PROVE mine = {}
  <2>1. Cardinality(mine) = 0
    <3>1. Cardinality(mine) \in Nat BY <1>2, FS_CardinalityType
    <3>2. Group!Handlers = 1 BY <1>3 DEF Group!Handlers
    <3> HIDE DEF mine
    <3> QED BY <1>1, <3>1, <3>2
  <2> QED BY <1>2, <2>1, FS_EmptySet
<1> QED BY <1>1, <1>3 DEF Group!Members

\* As many at once as there are members, each with one handler.
LEMMA GroupOneEach ==
    ASSUME NEW W, IsFiniteSet(W), \A w \in W : w.at \in 1..Size,
           \A w, x \in W : w.at = x.at => w = x
    PROVE  Cardinality(W) <= Size
<1> DEFINE f == [w \in W |-> w.at]
<1>1. f \in Injection(W, 1..Size) BY DEF Injection, IsInjective
<1>2. IsFiniteSet(1..Size) /\ Cardinality(1..Size) = Size
  BY GroupAssumption, FS_Interval
<1> QED BY <1>1, <1>2, FS_Injection

LEMMA GroupEnters ==
    ASSUME GroupInv, NEW c \in 1..Size, NEW v \in GroupInvoices, Group!Enter(c, v)
    PROVE  GroupInv'
<1> DEFINE u == [what |-> v, tag |-> tag']
           w == [round |-> round, at |-> c, what |-> v, tag |-> tag']
<1> USE DEF GroupInv
<1>1. /\ phase = "run" /\ c \in Group!Members /\ backlog[v] > 0 /\ Group!HasRoom(c)
      /\ backlog' = [backlog EXCEPT ![v] = backlog[v] - 1]
      /\ tag' = tag + 1
      /\ unsettled' = [unsettled EXCEPT ![c] = unsettled[c] \cup {u}]
      /\ working' = working \cup {w}
      /\ most' = [most EXCEPT ![round] =
                    IF Cardinality(working') > most[round] THEN Cardinality(working') ELSE most[round]]
      /\ UNCHANGED <<round, phase, tally, closes, drops>>
  BY GroupCardinality DEF Group!Enter
<1>2. /\ round \in Group!Rounds /\ u.tag = tag + 1
      /\ w.round = round /\ w.at = c /\ w.what = v
  BY <1>1 DEF GroupTypes, Group!Rounds
<1> HIDE DEF u, w
<1>3. /\ Cardinality(unsettled[c]) < Prefetch
      /\ round = "group" => \A x \in working : x.at # c
      /\ round = "single" => c = 1
  BY <1>1, <1>2, GroupRoom
<1>4. /\ u \notin unsettled[c] /\ IsFiniteSet(unsettled[c]) /\ IsFiniteSet(working)
      /\ tag \in Nat
  BY <1>2 DEF GroupTypes
<1>5. /\ IsFiniteSet(unsettled[c] \cup {u}) /\ IsFiniteSet(working')
      /\ Cardinality(unsettled[c] \cup {u}) = Cardinality(unsettled[c]) + 1
      /\ Cardinality(working') <= Cardinality(working) + 1
      /\ Cardinality(working) \in Nat /\ Cardinality(working') \in Nat
      /\ Cardinality(unsettled[c]) \in Nat
  <2>1. Cardinality(unsettled[c] \cup {u}) = Cardinality(unsettled[c]) + 1
        /\ IsFiniteSet(unsettled[c] \cup {u})
    BY <1>4, FS_AddElement
  <2>2. /\ IsFiniteSet(working \cup {w})
        /\ Cardinality(working \cup {w}) = IF w \in working THEN Cardinality(working)
                                           ELSE Cardinality(working) + 1
    BY <1>4, FS_AddElement
  <2>3. Cardinality(working) \in Nat /\ Cardinality(unsettled[c]) \in Nat
    BY <1>4, FS_CardinalityType
  <2> QED BY <1>1, <2>1, <2>2, <2>3
<1>6. GroupTypes'
  <2>1. Group!Members' = Group!Members BY <1>1 DEF Group!Members
  <2>2. \A d \in 1..Size : unsettled'[d] = IF d = c THEN unsettled[c] \cup {u} ELSE unsettled[d]
    BY <1>1 DEF GroupTypes
  <2>3. /\ backlog' \in [GroupInvoices -> Nat] /\ tag' \in Nat /\ drops' \in Nat
        /\ DOMAIN unsettled' = 1..Size
        /\ round' \in {"group", "single", "over"} /\ phase' \in {"fill", "run", "closing"}
    BY <1>1 DEF GroupTypes
  <2>4. \A d \in 1..Size : /\ IsFiniteSet(unsettled'[d])
                           /\ \A x \in unsettled'[d] : x.tag \in Nat /\ x.tag <= tag'
    BY <1>1, <1>2, <1>4, <1>5, <2>2 DEF GroupTypes
  <2>5. \A x \in working' : /\ x.round = round' /\ x.at \in Group!Members
                            /\ x.what \in GroupInvoices
    BY <1>1, <1>2 DEF GroupTypes
  <2>6. phase' # "fill" /\ round' # "over" BY <1>1, <1>2 DEF Group!Rounds
  <2> QED BY <1>5, <2>1, <2>3, <2>4, <2>5, <2>6 DEF GroupTypes
<1>7. GroupAtOnce'
  <2>0. /\ most \in [Group!Rounds -> Nat] /\ drops \in Nat /\ drops' = drops
        /\ Size \in Nat \ {0} /\ Prefetch \in Nat \ {0}
        /\ \A d \in 1..Size : unsettled'[d] = IF d = c THEN unsettled[c] \cup {u} ELSE unsettled[d]
    BY <1>1, GroupAssumption DEF GroupAtOnce, GroupTypes
  <2>1. \A d \in 1..Size : Cardinality(unsettled'[d]) <= Prefetch
    <3>1. ASSUME NEW d \in 1..Size, d # c PROVE Cardinality(unsettled'[d]) <= Prefetch
      BY <2>0, <3>1 DEF GroupAtOnce
    <3>2. Cardinality(unsettled[c] \cup {u}) <= Prefetch BY <1>3, <1>5, <2>0
    <3> QED BY <2>0, <3>1, <3>2
  <2>2. ASSUME round = "group"
        PROVE  /\ \A x, y \in working' : x.at = y.at => x = y
               /\ Cardinality(working') <= Size * Prefetch
    <3>1. \A x, y \in working' : x.at = y.at => x = y
      BY <1>1, <1>2, <1>3, <2>2 DEF GroupAtOnce
    <3>2. \A x \in working' : x.at \in 1..Size
      BY <1>1, <1>2, <2>2 DEF GroupTypes, Group!Members
    <3>3. Cardinality(working') <= Size BY <1>5, <3>1, <3>2, GroupOneEach
    <3>4. Size <= Size * Prefetch /\ Size * Prefetch \in Nat BY <2>0
    <3> QED BY <1>5, <2>0, <3>1, <3>3, <3>4
  <2>3. ASSUME round = "single"
        PROVE  /\ Cardinality(working') <= Cardinality(unsettled'[1]) + Prefetch * drops
               /\ Cardinality(working') <= Prefetch * (1 + drops)
    <3>1. c = 1 /\ 1 \in 1..Size BY <1>3, <2>3
    <3>2. Cardinality(working) <= Cardinality(unsettled[1]) + Prefetch * drops
      BY <2>3 DEF GroupAtOnce
    <3>3. Prefetch * drops \in Nat /\ Prefetch * (1 + drops) = Prefetch + Prefetch * drops
      BY <2>0
    <3>4. unsettled'[1] = unsettled[1] \cup {u} BY <2>0, <3>1
    <3>5. Cardinality(unsettled'[1]) = Cardinality(unsettled[1]) + 1
          /\ Cardinality(unsettled'[1]) <= Prefetch
      BY <1>5, <2>1, <3>1, <3>4
    <3> HIDE DEF u, w
    <3> QED BY <1>5, <2>0, <3>1, <3>2, <3>3, <3>5
  <2>4. \A r \in Group!Rounds : most'[r] =
           IF r = round THEN IF Cardinality(working') > most[r] THEN Cardinality(working') ELSE most[r]
           ELSE most[r]
    BY <1>1, <2>0
  <2>5. most' \in [Group!Rounds -> Nat] BY <1>1, <1>5, <2>0
  <2>6. /\ most["group"] <= Size * Prefetch
        /\ most["single"] <= Prefetch * (1 + drops)
    BY DEF GroupAtOnce, Group!AtOnceIsPrefetch
  <2>7. /\ most'["group"] <= Size * Prefetch
        /\ most'["single"] <= Prefetch * (1 + drops)
    BY <2>2, <2>3, <2>4, <2>6 DEF Group!Rounds
  <2> QED BY <1>1, <2>1, <2>2, <2>3, <2>5, <2>7 DEF GroupAtOnce, Group!AtOnceIsPrefetch
<1>8. GroupCounts' BY <1>1 DEF GroupCounts
<1>9. GroupEach'
  <2> SUFFICES ASSUME drops = 0 PROVE GroupEach'
    BY <1>1 DEF GroupEach
  <2>1. /\ \A x, y \in working : x.what = y.what => x = y
        /\ \A x \in working : backlog[x.what] = 0 /\ tally[round][x.what] = 0
        /\ \A x \in working : x.what \in GroupInvoices
        /\ \A i \in GroupInvoices : backlog[i] + tally[round][i] <= 1
        /\ \A i \in GroupInvoices : tally[round][i] \in {0, 1} /\ backlog[i] \in Nat
    BY <1>2 DEF GroupEach, GroupTypes
  <2>2. \A i \in GroupInvoices : backlog'[i] = IF i = v THEN backlog[v] - 1 ELSE backlog[i]
    BY <1>1 DEF GroupTypes
  <2>3. backlog[v] = 1 /\ tally[round][v] = 0 /\ \A x \in working : x.what # v
    BY <1>1, <2>1
  <2>4. /\ \A x, y \in working' : x.what = y.what => x = y
        /\ \A x \in working' : backlog'[x.what] = 0 /\ tally[round][x.what] = 0
    BY <1>1, <1>2, <2>1, <2>2, <2>3
  <2>5. \A i \in GroupInvoices : backlog'[i] + tally[round][i] <= 1 BY <2>1, <2>2, <2>3
  <2> QED BY <1>1, <2>4, <2>5 DEF GroupEach
<1> QED BY <1>6, <1>7, <1>8, <1>9

LEMMA GroupLeaves ==
    ASSUME GroupInv, NEW w \in working, Group!Leave(w) PROVE GroupInv'
<1> DEFINE u == [what |-> w.what, tag |-> w.tag]
<1> USE DEF GroupInv
<1>1. /\ w.round = round /\ w.at \in 1..Size /\ w.what \in GroupInvoices
      /\ round \in Group!Rounds /\ (round = "single" => w.at = 1)
  BY GroupAssumption DEF GroupTypes, Group!Members, Group!Rounds
<1>2. /\ working' = working \ {w}
      /\ tally' = [tally EXCEPT ![round][w.what] = tally[round][w.what] + 1]
      /\ closes' = [closes EXCEPT ![round] =
            IF Group!Seen(round) + 1 = Cardinality(GroupInvoices) THEN closes[round] + 1
            ELSE closes[round]]
      /\ unsettled' = [unsettled EXCEPT ![w.at] = unsettled[w.at] \ {u}]
      /\ UNCHANGED <<round, phase, backlog, most, tag, drops>>
  BY <1>1, GroupCardinality DEF Group!Leave
<1> HIDE DEF u
<1>3. \A d \in 1..Size : unsettled'[d] = IF d = w.at THEN unsettled[w.at] \ {u} ELSE unsettled[d]
  BY <1>2 DEF GroupTypes
<1>4. /\ IsFiniteSet(working) /\ IsFiniteSet(working')
      /\ Cardinality(working) \in Nat /\ Cardinality(working') = Cardinality(working) - 1
  <2>1. IsFiniteSet(working) BY DEF GroupTypes
  <2> QED BY <1>2, <2>1, FS_RemoveElement, FS_CardinalityType
<1>5. \A d \in 1..Size :
         /\ IsFiniteSet(unsettled[d]) /\ IsFiniteSet(unsettled'[d]) /\ unsettled'[d] \subseteq unsettled[d]
         /\ Cardinality(unsettled[d]) \in Nat /\ Cardinality(unsettled'[d]) \in Nat
         /\ Cardinality(unsettled'[d]) <= Cardinality(unsettled[d])
         /\ Cardinality(unsettled[d]) <= Cardinality(unsettled'[d]) + 1
  <2> SUFFICES ASSUME NEW d \in 1..Size
               PROVE  /\ IsFiniteSet(unsettled[d]) /\ IsFiniteSet(unsettled'[d])
                      /\ unsettled'[d] \subseteq unsettled[d]
                      /\ Cardinality(unsettled[d]) \in Nat /\ Cardinality(unsettled'[d]) \in Nat
                      /\ Cardinality(unsettled'[d]) <= Cardinality(unsettled[d])
                      /\ Cardinality(unsettled[d]) <= Cardinality(unsettled'[d]) + 1
    OBVIOUS
  <2>1. IsFiniteSet(unsettled[d]) /\ Cardinality(unsettled[d]) \in Nat
    BY FS_CardinalityType DEF GroupTypes
  <2>2. CASE d # w.at BY <1>3, <2>1, <2>2
  <2>3. CASE d = w.at
    <3>1. unsettled'[d] = unsettled[d] \ {u} BY <1>3, <2>3
    <3>2. /\ IsFiniteSet(unsettled[d] \ {u})
          /\ Cardinality(unsettled[d] \ {u}) = IF u \in unsettled[d] THEN Cardinality(unsettled[d]) - 1
                                               ELSE Cardinality(unsettled[d])
      BY <2>1, FS_RemoveElement
    <3>3. Cardinality(unsettled[d] \ {u}) \in Nat BY <3>2, FS_CardinalityType
    <3> QED BY <2>1, <3>1, <3>2, <3>3
  <2> QED BY <2>2, <2>3
<1>6. GroupTypes'
  <2>1. Group!Members' = Group!Members BY <1>2 DEF Group!Members
  <2>2. DOMAIN unsettled' = 1..Size BY <1>2 DEF GroupTypes
  <2> QED BY <1>2, <1>4, <1>5, <2>1, <2>2 DEF GroupTypes
<1>7. GroupAtOnce'
  <2>1. \A d \in 1..Size : Cardinality(unsettled'[d]) <= Prefetch
    BY <1>5, GroupAssumption DEF GroupAtOnce
  <2>2. ASSUME round = "single"
        PROVE  Cardinality(working') <= Cardinality(unsettled'[1]) + Prefetch * drops
    <3>1. 1 \in 1..Size BY GroupAssumption
    <3>2. Cardinality(working) <= Cardinality(unsettled[1]) + Prefetch * drops
      BY <2>2 DEF GroupAtOnce
    <3>3. Prefetch * drops \in Nat BY GroupAssumption DEF GroupTypes
    <3> QED BY <1>4, <1>5, <3>1, <3>2, <3>3
  <2> QED BY <1>2, <2>1, <2>2 DEF GroupAtOnce, Group!AtOnceIsPrefetch
<1>8. /\ tally' \in [Group!Rounds -> [GroupInvoices -> Nat]]
      /\ \A r \in Group!Rounds, v \in GroupInvoices :
            tally'[r][v] = IF r = round /\ v = w.what THEN tally[r][v] + 1 ELSE tally[r][v]
  BY <1>1, <1>2 DEF GroupCounts
<1>9. /\ Group!Seen(round) = SumFunctionOnSet(tally[round], GroupInvoices)
      /\ SumFunctionOnSet(tally[round], GroupInvoices) \in Int
      /\ SumFunctionOnSet(tally'[round], GroupInvoices) = SumFunctionOnSet(tally[round], GroupInvoices) + 1
  <2>1. /\ DOMAIN tally[round] = GroupInvoices
        /\ \A v \in GroupInvoices : tally[round][v] \in Int
    BY <1>1 DEF GroupCounts
  <2>2. /\ \A v \in GroupInvoices : tally'[round][v] \in Int
        /\ \A v \in GroupInvoices \ {w.what} : tally[round][v] = tally'[round][v]
        /\ tally'[round][w.what] = tally[round][w.what] + 1
    BY <1>1, <1>8, <2>1
  <2> DEFINE f == tally[round]
             g == tally'[round]
             a == w.what
  <2>3. /\ \A v \in GroupInvoices : f[v] \in Int /\ g[v] \in Int
        /\ \A v \in GroupInvoices \ {a} : f[v] = g[v]
        /\ g[a] = f[a] + 1 /\ a \in GroupInvoices /\ f[a] \in Int
    BY <1>1, <2>1, <2>2
  <2> HIDE DEF f, g, a
  <2>4. SumFunctionOnSet(f, GroupInvoices) \in Int BY <2>3, SumType, GroupAssumption
  <2>5. SumFunctionOnSet(g, GroupInvoices) =
          SumFunctionOnSet(f, GroupInvoices) + (IF a \in GroupInvoices THEN g[a] - f[a] ELSE 0)
    BY <2>3, SumMoved, GroupAssumption
  <2>6. SumFunctionOnSet(g, GroupInvoices) = SumFunctionOnSet(f, GroupInvoices) + 1
    BY <2>3, <2>4, <2>5
  <2> QED BY <2>1, <2>4, <2>6, GroupSum DEF Group!Seen, f, g
<1>10. GroupCounts'
  <2>1. /\ closes \in [Group!Rounds -> {0, 1}] /\ Cardinality(GroupInvoices) \in Nat
        /\ \A r \in Group!Rounds : closes[r] = 1 =>
              SumFunctionOnSet(tally[r], GroupInvoices) >= Cardinality(GroupInvoices)
    BY GroupAssumption, FS_CardinalityType DEF GroupCounts
  <2>2. \A r \in Group!Rounds : r # round => tally'[r] = tally[r] /\ closes'[r] = closes[r]
    BY <1>2, <2>1 DEF GroupCounts
  <2>3. closes'[round] = IF Group!Seen(round) + 1 = Cardinality(GroupInvoices) THEN closes[round] + 1
                         ELSE closes[round]
    BY <1>1, <1>2, <2>1
  <2>4. /\ closes'[round] \in {0, 1}
        /\ closes'[round] = 1 =>
              SumFunctionOnSet(tally'[round], GroupInvoices) >= Cardinality(GroupInvoices)
        /\ closes[round] = 1 => closes'[round] = 1
    BY <1>1, <1>9, <2>1, <2>3
  <2>5. closes' \in [Group!Rounds -> {0, 1}] BY <1>1, <1>2, <2>1, <2>2, <2>3, <2>4
  <2>6. \A r \in Group!Rounds : closes'[r] = 1 =>
          SumFunctionOnSet(tally'[r], GroupInvoices) >= Cardinality(GroupInvoices)
    BY <2>1, <2>2, <2>4
  <2> QED BY <1>2, <1>8, <2>4, <2>5, <2>6 DEF GroupCounts
<1>11. GroupEach'
  <2> SUFFICES ASSUME drops = 0 PROVE GroupEach'
    BY <1>2 DEF GroupEach
  <2>1. backlog[w.what] = 0 /\ tally[round][w.what] = 0 BY DEF GroupEach
  <2>2. /\ tally'[round][w.what] = 1
        /\ \A r \in Group!Rounds, v \in GroupInvoices :
               r # round \/ v # w.what => tally'[r][v] = tally[r][v]
    BY <1>1, <1>8, <2>1
  <2>3. \A r \in Group!Rounds, v \in GroupInvoices : tally'[r][v] \in {0, 1}
    BY <1>1, <2>2 DEF GroupEach
  <2>4. /\ \A x, y \in working' : x.what = y.what => x = y
        /\ \A x \in working' : x.what # w.what /\ x.what \in GroupInvoices
        /\ \A x \in working' : backlog[x.what] = 0 /\ tally[round][x.what] = 0
    BY <1>2 DEF GroupEach, GroupTypes
  <2>5. \A x \in working' : backlog'[x.what] = 0 /\ tally'[round][x.what] = 0
    BY <1>1, <1>2, <2>2, <2>4
  <2>6. round = "group" => \A v \in GroupInvoices : tally'["single"][v] = 0
    BY <2>2 DEF GroupEach, Group!Rounds
  <2>7. \A v \in GroupInvoices : backlog[v] + tally'[round][v] <= 1
    <3>1. \A v \in GroupInvoices : backlog[v] + tally[round][v] <= 1 BY <1>1 DEF GroupEach
    <3> QED BY <1>1, <2>1, <2>2, <3>1
  <2>8. phase # "fill" BY DEF GroupTypes
  <2> QED BY <1>2, <2>3, <2>4, <2>5, <2>6, <2>7, <2>8 DEF GroupEach
<1> QED BY <1>6, <1>7, <1>10, <1>11

\* A round that is done has handled each invoice, once until a channel is lost.
LEMMA GroupDone ==
    ASSUME GroupInv, NEW r \in Group!Rounds, closes[r] = 1, drops = 0
    PROVE  \A v \in GroupInvoices : tally[r][v] = 1
<1> DEFINE f == tally[r]
<1>1. \A v \in GroupInvoices : f[v] \in {0, 1} BY DEF GroupInv, GroupEach
<1>2. SumFunctionOnSet(f, GroupInvoices) >= Cardinality(GroupInvoices) BY DEF GroupInv, GroupCounts
<1> HIDE DEF f
<1>3. \A v \in GroupInvoices : f[v] = 1 BY <1>1, <1>2, GroupAssumption, SumOfOnes
<1> QED BY <1>3 DEF f

LEMMA GroupKept == GroupInv /\ [Group!Next]_(Group!vars) => GroupInv'
<1> SUFFICES ASSUME GroupInv, [Group!Next]_(Group!vars) PROVE GroupInv'
  OBVIOUS
<1> USE DEF GroupInv
<1>1. CASE Group!Fill
  <2>1. /\ phase = "fill" /\ round \in Group!Rounds /\ phase' = "run"
        /\ backlog' = [v \in GroupInvoices |-> backlog[v] + 1]
        /\ UNCHANGED <<round, unsettled, working, most, tally, closes, tag, drops>>
    BY <1>1 DEF Group!Fill
  <2>2. GroupTypes' BY <2>1 DEF GroupTypes, Group!Members, Group!Rounds
  <2>3. GroupAtOnce' BY <2>1 DEF GroupAtOnce, Group!AtOnceIsPrefetch
  <2>4. GroupCounts' BY <2>1 DEF GroupCounts
  <2>5. working = {} BY <2>1 DEF GroupTypes
  <2>6. GroupEach' BY <2>1, <2>5 DEF GroupEach
  <2> QED BY <2>2, <2>3, <2>4, <2>6
<1>2. ASSUME NEW c \in 1..Size, NEW v \in GroupInvoices, Group!Enter(c, v) PROVE GroupInv'
  BY <1>2, GroupEnters
<1>3. ASSUME NEW w \in working, Group!Leave(w) PROVE GroupInv' BY <1>3, GroupLeaves
<1>4. CASE Group!Finished
  <2>1. /\ phase = "run" /\ closes[round] > 0 /\ phase' = "closing"
        /\ UNCHANGED <<round, backlog, unsettled, working, most, tally, closes, tag, drops>>
    BY <1>4 DEF Group!Finished
  <2>2. round \in Group!Rounds BY <2>1 DEF GroupTypes, Group!Rounds
  <2>3. GroupTypes' BY <2>1, <2>2 DEF GroupTypes, Group!Members, Group!Rounds
  <2>4. GroupAtOnce' BY <2>1 DEF GroupAtOnce, Group!AtOnceIsPrefetch
  <2>5. GroupCounts' BY <2>1, <2>2 DEF GroupCounts
  <2>6. GroupEach' BY <2>1 DEF GroupEach
  <2> QED BY <2>3, <2>4, <2>5, <2>6
<1>5. CASE Group!Close
  <2>1. /\ phase = "closing" /\ working = {} /\ phase' = "fill"
        /\ round' = IF round = "group" THEN "single" ELSE "over"
        /\ UNCHANGED <<backlog, unsettled, working, most, tally, closes, tag, drops>>
    BY <1>5 DEF Group!Close
  <2>2. round \in Group!Rounds /\ closes[round] = 1
    BY <2>1 DEF GroupTypes, GroupCounts, Group!Rounds
  <2>3. GroupTypes' BY <2>1 DEF GroupTypes
  <2>4. Cardinality(working') <= Cardinality(unsettled'[1]) + Prefetch * drops'
    <3>1. Cardinality(working') = 0 BY <2>1, FS_EmptySet
    <3>2. Cardinality(unsettled[1]) \in Nat BY GroupAssumption, FS_CardinalityType DEF GroupTypes
    <3>3. Prefetch * drops \in Nat BY GroupAssumption DEF GroupTypes
    <3> QED BY <2>1, <3>1, <3>2, <3>3
  <2>5. GroupAtOnce' BY <2>1, <2>4 DEF GroupAtOnce, Group!AtOnceIsPrefetch
  <2>6. GroupCounts' BY <2>1 DEF GroupCounts
  <2>7. ASSUME drops = 0 PROVE \A v \in GroupInvoices : backlog[v] = 0
    <3>1. \A v \in GroupInvoices : tally[round][v] = 1 BY <2>2, <2>7, GroupDone
    <3>2. \A v \in GroupInvoices : backlog[v] \in Nat /\ backlog[v] + tally[round][v] <= 1
      BY <2>2, <2>7 DEF GroupEach, GroupTypes
    <3> QED BY <3>1, <3>2
  <2>8. GroupEach' BY <2>1, <2>2, <2>7 DEF GroupEach, Group!Rounds
  <2> QED BY <2>3, <2>5, <2>6, <2>8
<1>6. ASSUME NEW c \in 1..Size, Group!Drop(c) PROVE GroupInv'
  <2>1. /\ drops' = drops + 1
        /\ backlog' = [v \in GroupInvoices |->
               backlog[v] + Cardinality({u \in unsettled[c] : u.what = v})]
        /\ unsettled' = [unsettled EXCEPT ![c] = {}]
        /\ UNCHANGED <<round, phase, working, most, tally, closes, tag>>
    BY <1>6, GroupCardinality DEF Group!Drop
  <2>2. \A v : Cardinality({u \in unsettled[c] : u.what = v}) \in Nat
    <3>1. IsFiniteSet(unsettled[c]) BY DEF GroupTypes
    <3>2. \A v : IsFiniteSet({u \in unsettled[c] : u.what = v}) BY <3>1, FS_Subset
    <3> QED BY <3>2, FS_CardinalityType
  <2>3. backlog' \in [GroupInvoices -> Nat]
    <3> DEFINE back(v) == Cardinality({u \in unsettled[c] : u.what = v})
    <3>1. backlog' = [v \in GroupInvoices |-> backlog[v] + back(v)] BY <2>1
    <3>2. \A v \in GroupInvoices : back(v) \in Nat /\ backlog[v] \in Nat BY <2>2 DEF GroupTypes
    <3> HIDE DEF back
    <3> QED BY <3>1, <3>2
  <2>4. DOMAIN unsettled' = 1..Size /\ \A d \in 1..Size :
          unsettled'[d] = IF d = c THEN {} ELSE unsettled[d]
    BY <2>1 DEF GroupTypes
  <2>5. GroupTypes' BY <2>1, <2>3, <2>4, FS_EmptySet DEF GroupTypes, Group!Members
  <2>6. /\ Prefetch \in Nat \ {0} /\ drops \in Nat /\ Cardinality({}) = 0
        /\ Prefetch * (1 + drops) = Prefetch + Prefetch * drops
        /\ Prefetch * (1 + drops') = Prefetch + Prefetch * drops'
        /\ Prefetch * drops' = Prefetch * drops + Prefetch
        /\ Prefetch * drops \in Nat
    <3>1. ASSUME NEW p \in Nat, NEW d \in Nat
          PROVE  p * (1 + d) = p + p * d /\ p * d \in Nat
      OBVIOUS
    <3>2. drops' = 1 + drops /\ drops \in Nat /\ Prefetch \in Nat \ {0}
      BY <2>1, GroupAssumption DEF GroupTypes
    <3>3. /\ Prefetch * (1 + drops) = Prefetch + Prefetch * drops /\ Prefetch * drops \in Nat
          /\ Prefetch * (1 + drops') = Prefetch + Prefetch * drops'
      BY <3>1, <3>2
    <3>4. Prefetch * drops' = Prefetch * drops + Prefetch BY <3>2, <3>3
    <3> QED BY <3>2, <3>3, <3>4, FS_EmptySet
  <2>7. \A d \in 1..Size : Cardinality(unsettled'[d]) <= Prefetch
    <3>1. ASSUME NEW d \in 1..Size, d # c PROVE Cardinality(unsettled'[d]) <= Prefetch
      BY <2>4, <3>1 DEF GroupAtOnce
    <3>2. Cardinality(unsettled'[c]) = 0 BY <2>4, <2>6
    <3> QED BY <2>6, <3>1, <3>2
  <2>8. round = "single" => Cardinality(working') <= Cardinality(unsettled'[1]) + Prefetch * drops'
    <3>1. 1 \in 1..Size BY GroupAssumption
    <3>2. /\ Cardinality(unsettled[1]) \in Nat /\ Cardinality(working) \in Nat
          /\ Cardinality(unsettled'[1]) \in Nat
      BY <3>1, <2>5, FS_CardinalityType DEF GroupTypes
    <3>3. Cardinality(unsettled[1]) <= Prefetch BY <3>1 DEF GroupAtOnce
    <3>4. round = "single" => Cardinality(working) <= Cardinality(unsettled[1]) + Prefetch * drops
      BY DEF GroupAtOnce
    <3> QED BY <2>1, <2>6, <3>2, <3>3, <3>4
  <2>9. /\ most["group"] <= Size * Prefetch /\ most["single"] <= Prefetch * (1 + drops)
        /\ most["single"] \in Nat
    BY DEF GroupAtOnce, Group!AtOnceIsPrefetch, Group!Rounds
  <2>10. most["single"] <= Prefetch * (1 + drops') BY <2>6, <2>9
  <2>11. GroupAtOnce' BY <2>1, <2>7, <2>8, <2>9, <2>10 DEF GroupAtOnce, Group!AtOnceIsPrefetch
  <2>12. GroupCounts' BY <2>1 DEF GroupCounts
  <2>13. GroupEach' BY <2>1, <2>6 DEF GroupEach
  <2> QED BY <2>5, <2>11, <2>12, <2>13
<1>7. CASE UNCHANGED Group!vars
  BY <1>7 DEF Group!vars, GroupTypes, GroupAtOnce, GroupCounts, GroupEach, Group!Members,
     Group!AtOnceIsPrefetch
<1> QED BY <1>1, <1>2, <1>3, <1>4, <1>5, <1>6, <1>7 DEF Group!Next, Group!Handling

\* A group has as many invoices in hand as it has prefetches and closes each round
\* once, when each invoice was handled and no handler is left.
THEOREM GroupClosesOnce ==
    Group!Spec => [](/\ Group!DoneMeansEach /\ Group!ClosedOnce /\ Group!AtOnceIsPrefetch
                     /\ Group!NobodyWaitsForAnothersPrefetch /\ Group!ClosedIsQuiet)
<1>1. GroupInv => Group!DoneMeansEach /\ Group!ClosedOnce
  <2> SUFFICES ASSUME GroupInv PROVE Group!DoneMeansEach /\ Group!ClosedOnce
    OBVIOUS
  <2>1. \A r \in Group!Rounds : closes[r] \in {0, 1} BY DEF GroupInv, GroupCounts
  <2>2. Group!ClosedOnce BY <2>1 DEF Group!ClosedOnce
  <2>3. Group!DoneMeansEach BY <2>1, GroupDone DEF Group!DoneMeansEach
  <2> QED BY <2>2, <2>3
<1>2. GroupInv => Group!NobodyWaitsForAnothersPrefetch
  <2> SUFFICES ASSUME GroupInv, NEW c \in Group!Members, unsettled[c] = {},
                      {w \in working : w.at = c} = {}
               PROVE  Group!HasRoom(c)
    BY DEF Group!NobodyWaitsForAnothersPrefetch
  <2> QED BY GroupCardinality, GroupAssumption, FS_EmptySet DEF Group!HasRoom, Group!Handlers
<1>3. GroupInv => Group!AtOnceIsPrefetch /\ Group!ClosedIsQuiet
  BY DEF GroupInv, GroupAtOnce, GroupTypes, Group!ClosedIsQuiet
<1>4. GroupInv => /\ Group!DoneMeansEach /\ Group!ClosedOnce /\ Group!AtOnceIsPrefetch
                  /\ Group!NobodyWaitsForAnothersPrefetch /\ Group!ClosedIsQuiet
  BY <1>1, <1>2, <1>3
<1> QED BY GroupStarts, GroupKept, <1>4, PTL DEF Group!Spec
-----------------------------------------------------------------------------
\* The examples of intermediate/ together: a step of one of them leaves the others
\* as they are, so that a behaviour of the run is a behaviour of every example.
LEMMA IntermediateRuns ==
    Spec => /\ Saga!Spec /\ Scheduler!Spec /\ Interceptors!Spec /\ Pipeline!Spec /\ Group!Spec
            /\ Rpc!Spec /\ Idempotent!Spec /\ Shutdown!Spec /\ Schemas!Spec
<1>1. Init => /\ Saga!Init /\ Scheduler!Init /\ Interceptors!Init /\ Pipeline!Init /\ Group!Init
              /\ Rpc!Init /\ Idempotent!Init /\ Shutdown!Init /\ Schemas!Init
  BY DEF Init
<1>2. [Next]_vars => [Saga!Next]_(Saga!vars)
  BY DEF Next, Others, vars, sagaVars, Saga!vars
<1>3. [Next]_vars => [Scheduler!Next]_(Scheduler!vars)
  BY DEF Next, Others, vars, schedulerVars, Scheduler!vars
<1>4. [Next]_vars => [Interceptors!Next]_(Interceptors!vars)
  BY DEF Next, Others, vars, interceptorsVars, Interceptors!vars
<1>5. [Next]_vars => [Pipeline!Next]_(Pipeline!vars)
  BY DEF Next, Others, vars, pipelineVars, Pipeline!vars
<1>6. [Next]_vars => [Group!Next]_(Group!vars)
  BY DEF Next, Others, vars, groupVars, Group!vars
<1>7. [Next]_vars => [Rpc!Next]_(Rpc!vars)
  BY DEF Next, Others, vars, rpcVars, Rpc!vars
<1>8. [Next]_vars => [Idempotent!Next]_(Idempotent!vars)
  BY DEF Next, Others, vars, idempotentVars, Idempotent!vars
<1>9. [Next]_vars => [Shutdown!Next]_(Shutdown!vars)
  BY DEF Next, Others, vars, shutdownVars, Shutdown!vars
<1>10. [Next]_vars => [Schemas!Next]_(Schemas!vars)
  BY DEF Next, Others, vars, schemasVars, Schemas!vars
<1> QED
  BY <1>1, <1>2, <1>3, <1>4, <1>5, <1>6, <1>7, <1>8, <1>9, <1>10, PTL
     DEF Spec, Saga!Spec, Scheduler!Spec, Interceptors!Spec, Pipeline!Spec, Group!Spec, Rpc!Spec,
         Idempotent!Spec, Shutdown!Spec, Schemas!Spec

\* Whatever fails on the way, no work of the examples of intermediate/ disappears
\* unseen, for any number of steps, orders, invoices, messages and attempts.
THEOREM IntermediateLosesNothing == Spec => []NothingIsLost
<1>1. /\ Saga!NothingLeftSilently /\ Saga!UnresolvedWasTried /\ Saga!UndoneBackwards
      /\ Interceptors!RefusedForItsTenant /\ Interceptors!NothingLeavesInClear
      /\ Interceptors!OnlyServedAreHandled /\ Interceptors!NobodyIsDropped
      /\ Pipeline!NoRunIsLost /\ Group!DoneMeansEach
      /\ Shutdown!EveryOrderAccounted /\ Shutdown!StrandedIsToldOf
      /\ Idempotent!SomebodyPays
      => NothingIsLost
  BY DEF NothingIsLost
<1> QED
  BY IntermediateRuns, SagaIsUndone, TenantsKeptApart, PipelineRepeatsAreDeaths, GroupClosesOnce,
     ClosesAccount, ChargedForOnce, <1>1, PTL

\* What is redelivered to them is repeated only as far as their code lets it be.
THEOREM IntermediateRepeatsForACause == Spec => []NothingIsDoneTwice
<1>1. /\ Scheduler!RemindedOnce /\ Pipeline!RepeatsAreDeaths
      /\ Pipeline!HeardOfBoth /\ Group!ClosedOnce /\ Idempotent!ChargedOnce
      /\ Schemas!VersionsAreSchemas
      => NothingIsDoneTwice
  BY DEF NothingIsDoneTwice
<1> QED
  BY IntermediateRuns, RemindersInTime, PipelineRepeatsAreDeaths, GroupClosesOnce, ChargedForOnce,
     SchemasInAnyOrder, <1>1, PTL

\* Callers, tenants and versions that share a queue do not see what is another's.
THEOREM IntermediateKeepsApart == Spec => []EverybodyGetsTheirOwn
<1>1. /\ Rpc!OwnAnswer /\ Rpc!FailureIsAnAnswer /\ Interceptors!RefusedForItsTenant
      /\ Interceptors!NothingLeavesInClear /\ Interceptors!OnlyServedAreHandled
      /\ Schemas!AnyOrderOfDeployment
      => EverybodyGetsTheirOwn
  BY DEF EverybodyGetsTheirOwn
<1> QED
  BY IntermediateRuns, AnswersAreOnesOwn, TenantsKeptApart, SchemasInAnyOrder, <1>1, PTL

\* Undone backwards, reminded by a rung, in hand as many as are prefetched, and
\* closed without a handler running: what has an order keeps it.
THEOREM IntermediateKeepsOrder == Spec => []InItsTurn
<1>1. /\ Saga!UndoneBackwards /\ Scheduler!OnTimeByARung /\ Scheduler!NobodyWaitsBehind
      /\ Group!AtOnceIsPrefetch /\ Group!NobodyWaitsForAnothersPrefetch /\ Group!ClosedIsQuiet
      => InItsTurn
  BY DEF InItsTurn
<1> QED BY IntermediateRuns, SagaIsUndone, RemindersInTime, GroupClosesOnce, <1>1, PTL

\* What Do returned and that Close drains is taken back by no step.
THEOREM IntermediateStands == Spec => StandsOnceSaid
<1> QED BY IntermediateRuns, AnswersAreFinal, DrainBeginsNothing, PTL DEF StandsOnceSaid
=============================================================================
