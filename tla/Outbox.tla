------------------------------- MODULE Outbox -------------------------------
(***************************************************************************)
(* apps/01-order-fulfilment/gateway: placing an order through an outbox.   *)
(*                                                                         *)
(* PlaceOrder writes the order and its OrderPlaced record in one           *)
(* transaction.  A relay polls the table, publishes each record, and       *)
(* deletes it when the broker has confirmed it.  Requests and relay share  *)
(* a database handle limited to one connection, which a transaction keeps  *)
(* from begin to commit or rollback.                                       *)
(***************************************************************************)
EXTENDS Naturals, FiniteSets

CONSTANTS Orders,       \* ids that shortID may draw
          Requests,     \* calls of PlaceOrder
          RelayBatch,   \* records the relay reads per poll
          MaxFaults     \* bound: failed calls and crashes of the gateway

ASSUME OutboxAssumption ==
    /\ RelayBatch \in Nat \ {0}
    /\ MaxFaults \in Nat
    /\ Orders # {}

VARIABLES
    orders, outbox,     \* the committed rows of the two tables
    age,                \* when each record was committed
    pc,                 \* where each request is in PlaceOrder
    id,                 \* the order id each request drew
    answer,             \* what each caller was told
    conn,               \* the request that has the only connection, if any
    batch,              \* records the relay read and has not dealt with
    confirmed,          \* the one among them the broker confirmed
    announced,          \* copies of OrderPlaced the broker was given, per order
    faults              \* faults so far

tableVars   == <<orders, outbox, age>>
requestVars == <<pc, id, answer>>
relayVars   == <<batch, confirmed>>
vars == <<tableVars, requestVars, conn, relayVars, announced, faults>>

Phases == {"new", "begin", "insert", "add", "commit", "rollback", "answered"}

\* The phases in which a request has a transaction open.
InTransaction == {"insert", "add", "commit", "rollback"}

Fault == faults < MaxFaults /\ faults' = faults + 1

Goto(r, phase) == pc' = [pc EXCEPT ![r] = phase]

Answer(r, what) ==
    /\ answer' = [answer EXCEPT ![r] = what]
    /\ Goto(r, "answered")

\* What the relay's poll returns: the oldest records, RelayBatch at most.
Pending ==
    {o \in outbox : Cardinality({p \in outbox : age[p] < age[o]}) < RelayBatch}

Init ==
    /\ orders = {} /\ outbox = {}
    /\ age = [o \in Orders |-> 0]
    /\ pc = [r \in Requests |-> "new"]
    /\ id = [r \in Requests |-> CHOOSE o \in Orders : TRUE]
    /\ answer = [r \in Requests |-> "none"]
    /\ conn = {}
    /\ batch = {} /\ confirmed = {}
    /\ announced = [o \in Orders |-> 0]
    /\ faults = 0
-----------------------------------------------------------------------------
\* The id is random and short: two requests may draw the same one.
Call(r) ==
    /\ pc[r] = "new"
    /\ \E o \in Orders : id' = [id EXCEPT ![r] = o]
    /\ Goto(r, "begin")
    /\ UNCHANGED <<tableVars, answer, conn, relayVars, announced, faults>>

Begin(r) ==
    /\ pc[r] = "begin"
    /\ conn = {}
    /\ conn' = {r}
    /\ Goto(r, "insert")
    /\ UNCHANGED <<tableVars, id, answer, relayVars, announced, faults>>

\* The caller's context ends while it waits for the connection, or SQLite fails.
BeginFailed(r) ==
    /\ pc[r] = "begin"
    /\ Fault
    /\ Answer(r, "failed")
    /\ UNCHANGED <<tableVars, id, conn, relayVars, announced>>

\* Mutant: INSERT OR IGNORE.
InsertIgnoring(r) ==
    /\ pc[r] = "insert"
    /\ Goto(r, "add")
    /\ UNCHANGED <<tableVars, id, answer, conn, relayVars, announced, faults>>

\* The row stays in the transaction; the primary key refuses an id in use.
Insert(r) ==
    /\ pc[r] = "insert"
    /\ Goto(r, IF id[r] \in orders THEN "rollback" ELSE "add")
    /\ UNCHANGED <<tableVars, id, answer, conn, relayVars, announced, faults>>

\* Mutant: the record is added through the pool, not through the transaction.
AddThroughPool(r) ==
    /\ pc[r] = "add"
    /\ conn = {}
    /\ outbox' = outbox \cup {id[r]}
    /\ Goto(r, "commit")
    /\ UNCHANGED <<orders, age, id, answer, conn, relayVars, announced, faults>>

\* Mutant: the record is committed on its own, ahead of the order.
AddAtOnce(r) ==
    /\ pc[r] = "add"
    /\ outbox' = outbox \cup {id[r]}
    /\ Goto(r, "commit")
    /\ UNCHANGED <<orders, age, id, answer, conn, relayVars, announced, faults>>

\* Encoding the record and adding it, through the same transaction.
Add(r) ==
    /\ pc[r] = "add"
    /\ Goto(r, "commit")
    /\ UNCHANGED <<tableVars, id, answer, conn, relayVars, announced, faults>>

Store(o) ==
    /\ orders' = orders \cup {o}
    /\ outbox' = outbox \cup {o}
    /\ age' = [age EXCEPT ![o] = Cardinality(orders)]

Commit(r) ==
    /\ pc[r] = "commit"
    /\ Store(id[r])
    /\ conn' = {}
    /\ Answer(r, "placed")
    /\ UNCHANGED <<id, relayVars, announced, faults>>

\* The transaction is committed and the caller sees an error all the same.
CommitUnconfirmed(r) ==
    /\ pc[r] = "commit"
    /\ Fault
    /\ Store(id[r])
    /\ conn' = {}
    /\ Answer(r, "failed")
    /\ UNCHANGED <<id, relayVars, announced>>

StatementFailed(r) ==
    /\ pc[r] \in {"insert", "add", "commit"}
    /\ Fault
    /\ Goto(r, "rollback")
    /\ UNCHANGED <<tableVars, id, answer, conn, relayVars, announced>>

Rollback(r) ==
    /\ pc[r] = "rollback"
    /\ conn' = {}
    /\ Answer(r, "failed")
    /\ UNCHANGED <<tableVars, id, relayVars, announced, faults>>
-----------------------------------------------------------------------------
RelayPoll ==
    /\ batch = {} /\ conn = {}
    /\ outbox # {}
    /\ batch' = Pending
    /\ UNCHANGED <<tableVars, requestVars, conn, confirmed, announced, faults>>

RelaySend(o) ==
    /\ o \in batch /\ confirmed = {}
    /\ announced' = [announced EXCEPT ![o] = @ + 1]
    /\ confirmed' = {o}
    /\ UNCHANGED <<tableVars, requestVars, conn, batch, faults>>

\* Mutant: the record is deleted whether or not the broker took it.
RelaySendFailedDeleted(o) ==
    /\ o \in batch /\ confirmed = {}
    /\ Fault
    /\ batch' = batch \ {o}
    /\ outbox' = outbox \ {o}
    /\ UNCHANGED <<orders, age, requestVars, conn, confirmed, announced>>

\* The record stays where it is, for a later poll.
RelaySendFailed(o) ==
    /\ o \in batch /\ confirmed = {}
    /\ Fault
    /\ batch' = batch \ {o}
    /\ UNCHANGED <<tableVars, requestVars, conn, confirmed, announced>>

\* The broker has it and the confirm never came: it will be published again.
RelaySendUnconfirmed(o) ==
    /\ o \in batch /\ confirmed = {}
    /\ Fault
    /\ announced' = [announced EXCEPT ![o] = @ + 1]
    /\ batch' = batch \ {o}
    /\ UNCHANGED <<tableVars, requestVars, conn, confirmed>>

\* Mutant: a record that was confirmed is left in the table.
RelayDeleteForgotten(o) ==
    /\ o \in confirmed /\ conn = {}
    /\ batch' = batch \ {o}
    /\ confirmed' = {}
    /\ UNCHANGED <<tableVars, requestVars, conn, announced, faults>>

RelayDelete(o) ==
    /\ o \in confirmed /\ conn = {}
    /\ outbox' = outbox \ {o}
    /\ batch' = batch \ {o}
    /\ confirmed' = {}
    /\ UNCHANGED <<orders, age, requestVars, conn, announced, faults>>

RelayDeleteFailed(o) ==
    /\ o \in confirmed
    /\ Fault
    /\ batch' = batch \ {o}
    /\ confirmed' = {}
    /\ UNCHANGED <<tableVars, requestVars, conn, announced>>

\* The gateway dies and is started again: open transactions are gone, callers
\* are not answered, and the relay forgets what it had read.
Crash ==
    /\ Fault
    /\ pc' = [r \in Requests |-> IF pc[r] = "new" THEN "new" ELSE "answered"]
    /\ conn' = {}
    /\ batch' = {} /\ confirmed' = {}
    /\ UNCHANGED <<tableVars, id, answer, announced>>
-----------------------------------------------------------------------------
PlaceOrder(r) == Begin(r) \/ Insert(r) \/ Add(r) \/ Commit(r) \/ Rollback(r)

Relay == RelayPoll \/ \E o \in Orders : RelaySend(o) \/ RelayDelete(o)

Failure ==
    \/ \E r \in Requests : BeginFailed(r) \/ StatementFailed(r) \/ CommitUnconfirmed(r)
    \/ \E o \in Orders : \/ RelaySendFailed(o)
                         \/ RelaySendUnconfirmed(o)
                         \/ RelayDeleteFailed(o)
    \/ Crash

Next ==
    \/ \E r \in Requests : Call(r) \/ PlaceOrder(r)
    \/ Relay
    \/ Failure

Spec == Init /\ [][Next]_vars

\* A call goes on once it was made and the relay's ticker keeps ticking.  Nobody
\* has to call, and the pool hands its connection out in turn.
FairSpec ==
    /\ Spec
    /\ \A r \in Requests : SF_vars(PlaceOrder(r))
    /\ WF_vars(Relay)
-----------------------------------------------------------------------------
TypeOK ==
    /\ orders \subseteq Orders /\ IsFiniteSet(orders)
    /\ outbox \subseteq Orders
    /\ age \in [Orders -> Nat]
    /\ pc \in [Requests -> Phases]
    /\ id \in [Requests -> Orders]
    /\ answer \in [Requests -> {"none", "failed", "placed"}]
    /\ conn \in {{}} \cup {{r} : r \in Requests}
    /\ batch \subseteq Orders
    /\ confirmed \subseteq Orders
    /\ announced \in [Orders -> Nat]
    /\ faults \in 0..MaxFaults

\* The gap a service that writes and then publishes leaves open is closed on both
\* sides: a committed order is announced or its record still waits, and nothing is
\* announced or recorded of an order that was rolled back.
NothingLostOrInvented ==
    \A o \in Orders : o \in orders <=> o \in outbox \/ announced[o] > 0

\* A caller that was given an order id has that order on record, and no other
\* caller was given the same id, though ids are short and drawn at random.
AnswersAreKept ==
    \A r \in Requests : answer[r] = "placed" =>
        /\ id[r] \in orders
        /\ \A s \in Requests : answer[s] = "placed" /\ id[s] = id[r] => s = r

\* The relay deletes what the broker confirmed, so a repeated announcement is
\* always the work of a fault: a lost confirm, a failed delete or a crash.
RepeatsArePaidFor ==
    \A o \in Orders : announced[o] <= 1 + faults

\* Nobody waits for ever on the one connection: every call returns, unless the
\* gateway dies under it.
EveryCallReturns ==
    \A r \in Requests : pc[r] = "begin" ~> pc[r] = "answered"

\* The promise made to the rest of the system.
Promise == INSTANCE Announcement WITH placed <- orders

\* What the gateway does implements that promise, whatever fails on the way.
KeepsPromise == Promise!FairSpec
=============================================================================
