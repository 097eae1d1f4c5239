# A verification development for the AceMQ Go examples

The repository holds programs written against the `acemq-go-amqp` library:
twenty-five single-file examples (`src/basic`, `src/intermediate`,
`src/advanced`) and three applications (`src/apps`). It has no unit tests. Each
`main.go` runs scenarios against a real broker and fails when one does not come
out; a scenario shows one order of events. The modules here say what the
programs do in every order of events, with calls that fail, publishes whose
confirm is lost, connections that drop and processes that die, and which
promises survive that.

Three things are in this directory: TLA+ modules, one per component, and modules
that compose them; configurations with which TLC checks small instances; and
modules named `*_proof` whose theorems TLAPS proves for every value of the
constants. `PROJECT.json` is the index: components, runs, the lines each
definition was translated from, hazards, findings, theorems.

To check a model, `tlc -config MCPayments.cfg MCPayments`; to check a proof,
`tlapm Payments_proof.tla`.

## 1. Inventory

### apps/01-order-fulfilment: five services, five queues, one topic exchange

    gateway --OrderPlaced--> payments --PaymentCaptured--> inventory --StockReserved--> shipping
                                 \--PaymentDeclined           \--StockUnavailable          \--OrderShipped
    notifications is bound to fulfilment.# and sees all six

| part | state | operations | what makes it correct |
|---|---|---|---|
| gateway | tables `orders` and outbox, one database connection; what the relay has read | `PlaceOrder` (begin, insert, outbox add, commit or roll back), the relay (poll, publish, delete), restart | an order is on record exactly when it is announced or waits to be; an answer given is kept; nobody waits for ever for the connection |
| payments | row per order in `payments_handled`; three counters per instance | `charge`: claim, publish the outcome, confirm, accept; release and retry when the publish fails | one instance at a time charges an order; a second charge has a named cause; an order does not stop without anybody being told |
| inventory | stock per SKU, warehouse calls, counters, all in memory | `WithStock`, `WithFlakyWarehouse`, `reserve` | units are neither lost nor conjured; "not enough" is a verdict and not a failure; a flaky warehouse costs no order |
| shipping | a counter | `dispatch` | one shipment per reservation, but for faults |
| notifications | timeline per order, in memory | the fan-in handler | the timeline shows causes before effects |
| contracts | none | routing keys, bindings | each event reaches who waits for it and nobody else |

The services share nothing but the broker. They interact by events only; the
instances of payments also share their SQL store.

### apps/02-policy-administration: a modular monolith

    policies --ApplicationSubmitted--> underwriting: register -> price -> decide --ApplicationDeclined
        ^------------------ApplicationAccepted-------------------------/
        \--PolicyIssued--> billing --PremiumCharged          claims <--query/answer--> policies
    everything is also bound to the audit queue; documents announces keys, not documents

| part | state | operations | what makes it correct |
|---|---|---|---|
| policies | tables of applications, policies and the outbox | `Submit`, `issue`, the relay, the answer to a lookup | a row and the record of its event go together; one policy to an application, but for what a fault repeats |
| underwriting | messages between its stages; two counters | the feed, register, price, decide | the limit decides, exactly; nothing is lost between two stages; a counter does not run ahead of its event |
| billing | row per policy in the idempotency store; charges | `charge` behind `patterns.Idempotent` | one charge per policy, and only of policies on record |
| claims | policies heard of, questions under way | `Submit`, the reply, the deadline | silence is not a no; one outcome per loss |
| documents | the store in memory | `Store`, `Fetch` | a key is announced only when its document is held |

### apps/03-ledger: the log is the system of record

| part | state | operations | what makes it correct |
|---|---|---|---|
| ledger | the stream of entries; balances, counters in memory | start and rebuild, `apply` (decide, debit, credit, or reject), `Fund`, `Close` | balances are the log; no overdraft; half a transfer is parked, not repeated; each command decided once |
| transfers | refusals noticed | `Request`, and a consumer of refusals | every command reaches the writer |
| projections | statements per account | a second reader of the stream, from the first entry or from now | agrees with the log |

### The examples

Each is one `main.go` that shows a library feature, and each has its own states
and its own way to go wrong.

| example | state | what makes it correct |
|---|---|---|
| `basic/02` retries and dead letters | attempts, two consumers, the dead-letter queue | tried as the policy says; a fatal one at once; nothing vanishes |
| `basic/04` replay | the dead letters, what a filter sets aside, two wait groups | nothing is lost on its way back; only what the filter lets through |
| `basic/05`, `intermediate/07` codecs | which producer writes what | a body is read by what wrote it, or by nobody |
| `basic/06` streams | the log, offsets, a checkpoint | no gap, nothing twice, and reading changes nothing |
| `intermediate/01` request and reply | calls under way, the reply queue | everybody gets their own answer, and it stands |
| `intermediate/02` idempotent consumer | the guard in memory | charged once by a process, and by somebody |
| `intermediate/04` saga | steps done and undone | what stands is told of; undone backwards |
| `intermediate/05` scheduling | the ladder of delay queues | early by less than a rung, never late, nothing stuck |
| `intermediate/06` interceptors | the chain, envelopes | no tenant, no publish; no card number in clear |
| `intermediate/08` pipeline | queues between stages, deliveries not yet settled, two channels | the product is out before the message is settled, so that nothing is lost and repeats are deaths; the wait is for both |
| `intermediate/09` consumer groups | prefetch, handlers, a watcher | as many at once as prefetch allows; closed once |
| `intermediate/10` schema evolution | the registry, who is deployed | any order of deployment reads what was written |
| `intermediate/11` graceful shutdown | what is fetched, running, not yet settled, stranded, taken back | every order accounted for; Close returns |
| `advanced/03` claim check | store and messages | a key that points somewhere; the boundary |
| `advanced/04` key rotation | keyrings, bodies | a rotation in its order shuts nobody out; an altered body is not opened |
| `advanced/06` tracing | spans and headers | a delivery joins its publish; outcomes are the engine's |
| `advanced/07` health while blocked | alarm, link, deferred restores | the alarm is cleared, and before the close |
| `advanced/08` standing load | counters and the line printed from them | a line never confirms more than it offers |

`intermediate/03` shows the relay that `Outbox` models over a database. `basic/01`
and `03`, `advanced/02` and `05` are straight lines, and in `advanced/01` the library does all
the work (section 5). The
release scripts and workflows are tooling.

### The library and the broker

`acemq-go-amqp` and RabbitMQ are not in the repository. What the code relies on
is modelled in `Delivery`, and marked external in the map:

- a message taken by a consumer is held until the handler's `Ack` settles it;
- `Accept` removes it; `Park` sets it aside; `Retry` brings it back with the
  attempt counter moved and dead-letters it after the last attempt;
- a consumer that dies, or whose connection drops, gives its message back, and a
  verdict on a delivery the broker took back goes nowhere;
- a redelivery may or may not count as an attempt (the flag the broker sends is
  not under the program's control), so both happen;
- `Send` waits for the confirm. It can fail with nothing published, or fail with
  the message published and only the confirm lost;
- `OutboxRelay` deletes a record after its confirm and leaves it where it is
  otherwise, which `intermediate/03` shows.

Consumers run one handler at a time unless told otherwise, and none of the
modelled services sets the option; payments is scaled by starting instances.

### What is hard here

Two instances racing for one order. A crash between any two calls of a handler.
Errors that leave the caller not knowing whether the call took effect: every
publish, commit and claim can. A handler that keeps running after its delivery
went to somebody else. A timeout that takes a claim from its owner. One database
connection shared by requests and a relay. A rebuild that takes silence for the
end of the log. `PROJECT.json` lists each at its line, with the properties that
would catch it going wrong.

## 2. The modules

| module | models | lines of code behind it |
|---|---|---|
| `Delivery` | a durable queue, and one consumer of it | external |
| `Payments`, `MCPayments`, `Payments_proof` | `apps/01/payments` | `charge` and `start` |
| `Announcement` | what the gateway promises | abstract |
| `Outbox` (proofs in `Examples_proof`) | `apps/01/gateway` | `PlaceOrder`, `Start` |
| `Inventory`, `MCInventory`, `Inventory_proof` | `apps/01/inventory` | `reserve` and the options |
| `Shipping`, `Notifications` | the services of that name | `dispatch`; the fan-in handler |
| `Lifecycle` | which milestones an order or an application passes, and when | abstract |
| `OrderFulfilment`, `MCOrderFulfilment`, `OrderFulfilment_proof` | `apps/01/contracts`, and the five services composed | routing keys, `Topology`, `main.go`'s `start` |
| `Ledger`, `MCLedger`, `Ledger_proof` | `apps/03/ledger` | `apply`, `post`, `reject`, the rebuild |
| `Statements` | `apps/03` as `main.go` runs it | projections, refusals, amounts as machine words |
| `PolicyModules` | `apps/02/contracts`, `underwriting`, `policies`, `billing` and `claims`, a section each | events, queues, bindings; every function that changes state |
| `PolicyAdministration`, `MCPolicyAdministration`, `PolicyAdministration_proof` | `apps/02/documents`, and the five composed and restarted | `main.go`'s `start` and `stop` |
| `RequestReply`, `IdempotentConsumer`, `Saga`, `Scheduler`, `Interceptors`, `Pipeline`, `ConsumerGroup`, `SchemaEvolution`, `GracefulShutdown` | `intermediate/01`, `02`, `04` to `06`, `08` to `11` | each program |
| `Retries`, `Replay`, `Codecs`, `Streams` | `basic/02`, `04`, `05` with `intermediate/07`, `06` | each program |
| `ClaimCheck`, `KeyRotation`, `Tracing`, `BlockedHealth`, `StandingLoad` | `advanced/03`, `04`, `06` to `08` | each program |
| `MCIntermediate`, `Intermediate_proof` | the examples of `intermediate/` side by side | |
| `MCExamples`, `Examples_proof` | those of `basic/` and `advanced/`, and `Statements`, side by side | |
| `Sums` | what sums over finite sets do, for the proofs | |

**How a handler becomes actions.** `pc` is where a handler is. Every call that
can fail, or that a crash can separate from the next, is one action, and each
ends in the phase the code goes to. A call that can fail has up to three
actions: it worked (`Send`), it failed and did nothing (`SendFailed`), it took
effect and reported an error (`SendUnconfirmed`). Faults of all kinds come out
of one counter, `faults`, bounded by `MaxFaults`: the only bound on them.
`stale` says the broker took the delivery back while the handler runs.

**Payments.** `store[o]` is the order's row: no row or an expired claim
(`"free"`), claimed, confirmed. `charged[o]` counts outcomes the broker has,
`captures`, `declines` and `duplicatesRefused` are the counters of each
instance. `lost`, `expired` and `orphaned` are history: they name the causes the
properties speak of. `ClaimTimeout` waits until no instance is between its claim
and the end of that charge. That is the assumption `payments.go:84-87` states
when it picks two minutes, "longer than the slowest charge this can do". Without
it the model, like the program, lets two instances charge: the mutant
`ClaimTimeoutEarly` shows that.

**Outbox.** `conn` holds the request that has the only connection
(`main.go:333` sets the limit) from begin to commit or rollback. A transaction's
writes are not in `orders` and `outbox` until `Commit`. `shortID` draws any id,
so that two calls may draw one. The relay reads `RelayBatch` records of the
oldest, publishes them one at a time, and needs the connection to poll and to
delete. `Announcement` is the abstract specification, `placed` being `orders`.

**Inventory.** Stock and counters are in memory and die with the process.
`TakeStock` and `FindTooLittle` are the two sides of the code's one locked
check-and-decrement; publishing is outside the lock and a step of its own.
`WithStock` may come after the consumer took a message, because `start`
(`main.go:296-299`) starts the consumer first.

**OrderFulfilment.** Each service is an INSTANCE. A step in which a service
publishes is joined with the arrival of the copies on each queue `RoutedTo`
computes from the routing key and the bindings; the services otherwise
interleave. The gateway is represented by `Announcement`, which `Outbox` is
shown to implement, so that the composition stays small. A copy of an event is
`<<o, k>>`, the k-th publication about order `o`.

**Ledger.** `journal` is the stream, `accounts` the balances in memory,
`position` how far the rebuild got. `totals` is history: the balances after each
entry of the journal. `unseen[a]` is what faults since the start keep from
`accounts[a]` (an append whose confirm was lost, a rebuild that stopped early, an
entry read twice), `overlooked[a]` how much more than it held the writer was ever
led to believe was in `a`. `post` is one step: a publish and then an update of
the balances in memory, and only the writer's own next decision reads them.

**Statements.** `Ledger` looks at one writer statement by statement; this module
looks at the application around it. Projections start from the first entry or
from now and read at their own pace, the gateway hears refusals, and amounts are
words of `-Limit .. Limit - 1` that wrap, as an int64 does (`Limit` is 8 in the
run). What `Ledger` models of attempts, crashes and rebuilds is left out here.

**Policy administration.** The five modules share the variables of the
application, and queues are bags of messages. A handler whose calls change one
thing outside its process is one step, and the step's outcome spells out the
failures: `Accept` it worked, `Unreported` it took effect and the message comes
back all the same (a lost confirm, a death before the settlement), `NotDone` it
failed and the message comes back or is dead-lettered. The outbox transaction is
one step, because `Outbox` shows what makes it one. `charge` in billing has two
effects with a claim around them and keeps its phases. `Restart` is `stop` and
`start`: tables and queues stay, memory goes. The idempotency wrapper
of the library treats a claim that somebody holds otherwise than payments does
with its own: the message is neither run nor accepted, it is put back without
spending an attempt (`intermediate/02/README.md:64-66`), until the claim is
confirmed or has expired. `Expire` frees a claim only with nobody behind it, since
the timeout is longer than a charge takes.

**The examples.** One module each, with the program's `main` as a sequence of
phases beside its handlers, the broker and the library. What an example gets
from the library is modelled from how the example uses it and what it prints or
checks about it, and is marked external: the rungs of the scheduler, the order
in which a saga undoes, what a drain hands back. `Streams` leaves dropped
connections to `Ledger`, which rebuilds from a stream over one. In `Scheduler`
time is discrete and the clock waits for nobody but a message that is due now.
`MCIntermediate` and `MCExamples` hold the examples side by side: `example`
(`program` in `MCExamples`) picks one in the initial state, that one takes steps and the others stay as they
began, so that one run checks all of them and their states add up instead of
multiplying. What is a function where the program has a fixed list (the wait groups
of `Replay`, the counters of `StandingLoad`, who reads before whom in `Streams`) is
one because the provers instantiate functions and operators, not the text of a
sequence; `Statements` adds a journal up once and wraps the result once, which
ends at the same word as wrapping on the way.

Where two effects of an example can be separated, they are separate steps. In
`Pipeline` a message is handled, its product is published, and then it is settled
(`Handle`, `HandOn`, `Settle`), so that an order may be with the next step while
the one before has not settled it, and four reservers overtake each other. In
`GracefulShutdown` a handler that gives up has its dead letter filed before its
delivery is acknowledged; what `Close` cuts off in between, or leaves running, is in
the dead-letter queue or counted as finished, and on its queue again (`cut`,
`EndAstray`; `intermediate/11/README.md:118-119`). `KeyRotation` lets a process use
or drop a key at any time and notes in `hasty` which of these were out of the order
its README gives, `BlockedHealth` can be killed at any point, and a `Send` of
`StandingLoad` that was begun before the end may be confirmed after it. One that
is begun after the end is taken to wait for no confirm, its context being over.

## 3. What TLC checks

Twelve runs; each takes seconds to three minutes. `CHECK_DEADLOCK FALSE` is
set where the system really comes to rest: all messages settled, all calls
returned, no faults left.

| run | instance | shows |
|---|---|---|
| `payments` | 2 instances, 2 orders (one above the limit), 3 copies of which 2 are of one order, 2 attempts, 2 faults | see below |
| `outbox` | 3 calls drawing from 3 ids, a relay reading 2 at a time, 2 faults | the safety properties, the liveness of calls, and the refinement of `Announcement` with its liveness |
| `inventory` | 2 orders for one SKU that can serve either, 3 copies, 3 attempts, a warehouse that fails twice, 2 faults | stock and verdicts are accounted for |
| `fulfilment` | 2 orders, one declined, 1 instance of each service, 2 attempts, 1 fault | the services implement `Lifecycle` |
| `fulfilment_live` | 1 order, 1 fault, fairness | every order ends |
| `ledger` | 2 accounts, 2 transfers of which one can be paid, 2 attempts, 2 faults, fairness | balances, pairs, decisions; every command is settled |
| `policies` | an application at the limit, 2 policy ids, a loss, a document, 1 fault | the modules over one broker |
| `policies_live` | an application at the limit and one above it, 1 fault, fairness | the modules implement `Lifecycle`; every application is decided |
| `intermediate` | nine examples, 1 or 2 faults each, fairness | six themes, each the conjunction of what the examples promise of it |
| `examples` | nine examples and the ledger's readers, 1 or 2 faults each, fairness | five themes, likewise |
| `payments_stopped`, `inventory_twice` | small | a statement of the repository that does not hold: section 6 |

The properties, by what they say about the code:

- `ChargesAreExclusive`, `ChargeBound`, `ConfirmedMeansDecided`,
  `ConfirmedIsFinal`: the claim, the order publish-then-confirm and the dropped
  error of `Confirm` together keep a customer from being charged twice. What is
  left is exactly a publish whose confirm was lost and a claim that expired under
  an instance that died.
- `StopsOnlyWhenOrphaned`: an order accepted to its last copy with no outcome
  was stopped by a claim left behind, and by nothing else. The four ways to leave
  one are named in the model: a death while holding it, a claim or a release that
  reported an error, a retry asked for on a delivery already taken back.
- `NothingLostOrInvented`, `AnswersAreKept`, `RepeatsArePaidFor`, `KeepsPromise`,
  `EveryCallReturns`: the outbox closes the gap between the write and the
  publish on both sides; the price is repeats, at most one per fault; and with one
  connection nobody waits for ever, because the outbox writes through the
  transaction that has it.
- `StockAccounted`, `VerdictsArePaidFor`, `FlakyIsRetriedNotFailed`.
- `FollowsLifecycle`, `TimelineIsCausal`, `RepeatsArePaidFor`, `EveryOrderEnds`:
  end to end, over the topology.
- `MemoryIsTheLog`, `OverdraftBound`, `UnbalancedIsParked`, `DecisionsArePaidFor`,
  `EveryCommandSettles`: the writer's balances are a function of the log but for
  what faults are named to have hidden; an overdraft is never larger than that; an
  unbalanced pair is in progress, parked for a human or torn by a fault.

- `AuditAgrees`, `RepeatsArePaidFor`, `NoGuessing`, `OneOutcomePerLoss`,
  `KeepsLifecycle`, `EveryApplicationIsDecided`: the monolith. The audit trail, the
  tables, the counters and the documents tell one story, whichever of them a
  restart forgot. `issue` draws a new id on every delivery, so a redelivery can
  insure an application twice, and that is the only way to get there. Every
  application ends declined or charged, and every policy on record is charged, unless
  a message on the way is in a dead-letter queue. A claim left by a process that
  died is no excuse: it delays the charge until its timeout.
- The properties of an example are stated, with their reasons, in its module.
  `MCIntermediate` checks them as themes, `NothingIsLost`, `NothingIsDoneTwice`,
  `EverybodyGetsTheirOwn`, `InItsTurn`, `StandsOnceSaid`, `EveryExampleEnds`, and
  `MCExamples` as `NoMessageIsLost`, `RepeatsHaveACause`, `ReadAsMeant`,
  `ReportsAgree`, `EveryProgramEnds`. They say of every schedule what
  a `main` prints or checks at the end of its one: that a saga names what it
  leaves standing (`NothingLeftSilently`), that no message in the delay ladder
  waits behind one due later (`NobodyWaitsBehind`), that the two orders of the
  pipeline are both heard of (`HeardOfBoth`), that a broker put into alarm is let
  out of it and before the connection closes (`AlarmIsCleared`, `ClosesUnblocked`),
  that a printed line never confirms more than it offers although its numbers are
  loaded one after another (`ConfirmedWasOffered`). What the last loop of
  `intermediate/11` adds up comes to the number of orders but for the deliveries
  `Close` took back from handlers that ended all the same, and by exactly as many
  (`EveryOrderAccounted`); no step of the pipeline has an order to handle more often
  than once and once for each death, counting what is still to be handed on to it
  (`RepeatsAreDeaths`), and none is settled before its product is out (`NoRunIsLost`).
- In `ReportsAgree`, `ProjectionAgrees`, `ReadersDoNotCompete`, `BalancesAreTrue` and
  `RefusedMovedNothing` are about the ledger's application. `BalancesAreTrue` holds
  while everything paid in fits a word; the run goes past that limit too, where
  the code makes no promise.

Each property a run checks has a mutant in a module it is about, a definition marked `Mutant:` that
changes one operation the way a plausible bug would; with it TLC finds that
property violated. Mutants are not part of any specification.

**Why the bounds are enough.** The interesting cases of payments need two
instances and two copies of one order, so that one can hold the claim while the
other is delivered the second copy, and two faults, so that a retry of what
failed can fail too; the second order is there for the declined branch and for
interference through the shared queue. In the outbox three calls make a queue
for the connection behind a transaction while the relay also wants it, and a
batch of two leaves a third record for the next poll. In inventory the shelf
serves either order and not both. In the ledger the account can pay one of two
transfers, so the order of decisions matters, and the second fault can hit the
restart that the first one caused. In the monolith one fault is what each
"but for" in a property stands for, and two applications on either side of the
limit take the two ways through the pipeline. An example is small to begin with:
its instance is that of its `main` cut down to what still makes the case (three
invoices for a group of three, a stream of six events with a checkpoint at the
third), with one fault more than its property excuses. The shutdowns have two
orders, and one with room to fetch both, so that a drain has something to hand
back beside what it waits for; a handler of each kind is among them, and a
stranded one can end in the run after its own. The ledger's accounts are funded twice with an amount
that fits a word once and not twice, the last message of the standing load can be
offered on either side of the end, and a rotation has a body under the old key, one
under the new and one to be altered. Where a property is also proved, the bounds do
not matter.

**Fairness.** Only what the code's own scheduling gives.

- `Outbox!FairSpec`: strong fairness for each call that was made, because
  `database/sql` hands a freed connection to waiters in turn; weak fairness for
  the relay, because its ticker keeps ticking. Nobody is obliged to call.
- `OrderFulfilment!FairSpec`: weak fairness for each consumer's own work, and for
  the first announcement of an order, which is what the run `outbox` establishes
  of the gateway. Faults, repeated announcements, claim timeouts and `WithStock`
  are never forced.
- `PolicyAdministration!FairSpec`: weak fairness for underwriting, billing, and the
  consumer and relay of policies. Billing's includes the claim timeout, which
  comes by itself when nobody charges under the claim. Nobody has to submit, ask or store anything, and
  nothing has to fail or restart.
- `MCIntermediate!FairSpec`, `MCExamples!FairExamplesSpec`: weak fairness for the steps
  of the program and the broker (`Progress`, `ExamplesProgress`), which is to say that the example does
  not stop half way. Faults, which are bounded, and what a caller may leave
  undone are not part of it, except where they are all that could happen next.
- `Ledger!FairSpec`: weak fairness for the writer's own steps, restart included,
  and strong fairness for taking a command. `Close` can happen at any time the
  writer is idle and the operator may restart it for ever; without the strong
  condition, a writer that is closed each time before it takes a command would
  settle nothing, and no code could help that.

## 4. What is proved

For every value of the constants that satisfies the module's named assumption
(`PaymentsAssumption`, `OutboxAssumption`, `InventoryAssumption`,
`OrderFulfilmentAssumption`, `LedgerAssumption`, `PolicyAssumption`: fields of the
right type, at least one copy, request id, order or transfer, finitely many orders
where units are summed over them, bounds natural numbers; and the assumptions of the examples, listed below). Every
invariant and every safety property over steps that a passing run checks is a theorem.

**Payments_proof.** `TypeCorrect`; then `ChargesAreExclusive`, `ChargeBound`,
`ConfirmedMeansDecided`, `StopsOnlyWhenOrphaned` as invariants and
`ConfirmedIsFinal` as an action property. None of these is inductive. `ChargeInv`
ties the three places where the truth about an order is kept: an instance that
owns the claim implies the row is `"claimed"`, two owners are one, and how often
the order was charged is bounded by the row's state: nothing beyond the excused
charges while it is free or claimed and not yet sent, one more once it is out. The
step that could break it is a release or timeout that frees a row somebody still
relies on; the guard of `ClaimTimeout` and the phase of the releasing instance
exclude it. `StopsOnlyWhenOrphaned` needs two more. `HeldInv`: a delivery in hand
that is not stale is held, and by one instance, so that an instance that settles
takes nobody else's message away. `StopInv`: while nobody was told of an order and
its claim was not left behind, a claimed row has an owner who has yet to publish,
and there is a copy or an instance that will still be heard of. The step that
matters is an accept by an instance that lost the claim: what it lost to is then
somebody else's work, which is the hope that stays.

**Examples_proof, first section: the gateway's outbox.** `TypeCorrect`, `TransactionalOutbox` (`NothingLostOrInvented`),
`KeptAnswers`, `PaidRepeats`, and `Refinement`: the outbox implements the safety
half of `Announcement`. The inductive invariant has three parts. `ConnInv`: the
holder of the connection is the one request in a transaction, hence what it
learned of the committed tables (its id is not in use) is still true when it
commits. `RelayInv`: what the relay has read is in the table, what it saw
confirmed was announced, and a record still in the table that was announced
before owes that to a fault. `AnswerInv`: answers given.

**Inventory_proof.** `TypeCorrect`, which for the stock of each SKU is the
statement that it never goes below zero, and the three properties of the run
`inventory`.

- `VerdictInv` counts the chances of an order: verdicts given, messages that wait,
  and the one in hand if it has yet to be decided. `StepPaysForChances` says that
  no step makes one from nothing, a fault giving at most one: a redelivery after a
  lost confirm is a fault, a retry is the chance it had.
- `FlakyInv`: while nothing else failed, every attempt but the first of a copy was
  asked for by a call that failed, and no more calls fail than the warehouse was
  told to fail. A bound on `attempt` alone is not inductive, since the retry that
  is about to be asked for must be counted with it.
- `StockInv`: the balance of `StockAccounted`, with what the consumer is about to
  put back or publish. The sums over orders are the library's; `Sums` has what is
  needed about them.

**OrderFulfilment_proof.** The five services composed: `TypeCorrect`,
`LifecycleFollowed` (the refinement of `Lifecycle`), `RepeatsPaidFor`,
`CausalTimelines`. Payments and inventory enter through instances of their proof
modules, whose assumptions follow from this module's and whose lemmas about one
step (`StepTypeOK`, `StepKeepsArrived`, `StepPaysForChances`) are facts about a step
of the system; their invariants are not used, since beside other services they
are not closed under its steps.

- `CauseInv`: a copy of an event is on a queue only if the event was published, and
  what a service has in hand was on its queue. Each service's publish is then a
  milestone whose cause was passed (`NextPublishes`), which is one step of
  `Lifecycle`, and a step that publishes nothing is a stutter.
- `PaidInv`: for each order, the chances in payments, inventory and shipping, each
  less what that service already passed on, plus an announcement that is to come,
  are at most one more than the faults. A publish passes a chance down: the
  outcome of payments is a chance of inventory's. It is the sum over the services
  that is inductive; the bound on one service alone depends on what the
  one before it may still send.
- `TimelineInv`: everything published about an order is in its timeline or on its
  way there, ahead of each message in the customer's queue is whatever caused it
  and is not told yet, and a message that was told and not settled is told
  already. The handler never asks for a retry, so the queue keeps its order, which
  is why it holds.

**PolicyAdministration_proof.** `TypeCorrect`, the four safety properties of the run
`policies` (`AuditIsRight`, `RepeatsAreBounded`, `NobodyGuesses`, `LossesEndOnce`) and
the refinement of `Lifecycle` (`LifecycleKept`). Applications, policies, losses and
documents may be any sets. What a handler does to the bags is said once:
`Turn` is a message that had its turn and what it put into which queues, in
tallies (how many messages of a set a bag holds), whatever of `Accept`, `Unreported`
and `NotDone` came out. One lemma per handler says which turn it takes. `Inv` is the
conjunction of what the steps keep:

- `MessageInv`: what each message relies on when its handler runs. A submission at
  the last stage carries the premium of its application, an acceptance is of one
  within the limit, a `PolicyIssued` is of a policy on record at its premium, and
  the event that comes before each of them is in the audit trail. A step that
  publishes makes the same true of the next message; since the audit trail, the
  tables and the keys of documents only grow, nothing makes it false. `AuditAgrees`
  and the refinement are read off it: an event is published when what it needs was
  (`StepMay`).
- `RepeatInv`: the places where an application may still become a policy, or has:
  not yet submitted, a record in the outbox, messages in five queues, policies.
  Their number is at most one more than the faults. A handler moves one place on;
  a redelivery, a lost confirm or a restart between the confirm and the delete
  adds one, and each is a fault. The queues are counted without regard to the
  attempt, since a retry is the same chance.
- `ChargeInv`: a claim that is not followed by a charge still to come stands for
  one charge. A release or a timeout frees the claim, and each counts one in
  `unconfirmed` or `expired` when a charge may have gone out.
- `AskInv`: an answer is about the question it is matched to. A reply to an
  earlier question carries an earlier call, which is why it is not heard; a policy
  in force stays in force.
- `OutcomeInv`, `CounterInv`, `RecordInv`: what the published outcomes, the counters
  and the two halves of a transaction are bounded by.

**Intermediate_proof and Examples_proof.** A theorem for each of the nineteen
examples, stated of its own specification, and a theorem for each theme of the two
runs. A behaviour of `MCIntermediate` is, seen from one example, a behaviour of that
example or one that never leaves its initial state (`IntermediateRuns`,
`ExamplesRun`), so that the themes follow from the examples. None of the properties
is inductive except by accident; what had to be found is, by example:

- `Saga`: the steps before the one in hand are done and those behind it untouched,
  but for one that hid its success; on the way back what is behind is undone or on
  the list.
- `RequestReply`: a reply on the queue is about what its caller asked, also when
  the caller no longer waits.
- `IdempotentConsumer`: a charge past the first and an attempt past the first two
  are each due to a restart, and until somebody has paid a copy is left. That
  takes more attempts than restarts, which `AttemptsAssumption` says; `main` has
  five attempts and restarts nothing.
- `SchemaEvolution`: the registry holds each version once, every deployed one and
  every one a message names; an identifier keeps its schema when the registry grows.
- `Interceptors`: a publish that is through an interceptor has what that one puts on,
  and what waits or is on the wire went through all of them, whatever its `Send`
  reports; until a settlement is lost a dead letter no longer waits.
- `GracefulShutdown`: an order is in one place or its handler ended; what is in two
  was taken back by a `Close`, and the places add up but for that. One handler is in
  hand at a time, and a drain that timed out counts the one it left.
- `Pipeline`: what an order has on the queues up to a step, what the steps before
  have returned and not handed on, and its handlings there are together at most one
  more than the deaths. A bound on one queue depends on the queues before it; that
  a delivery settled has its product out is what keeps a run from being lost.
- `Scheduler`: a message leaves its rung no later than it is due and is there no
  longer than the rung is high; copies on all rungs, the control queue and the
  arrivals together are at most one more than the faults.
- `ConsumerGroup`: what is prefetched and what is in a handler, per consumer, with
  what the drops left running; each round's tally against its backlog, and a round
  closed only with as many handlings as invoices.
- `Retries`: while nothing came back there is one message of a payment, at the
  attempt that follows those noted; the fatal payment is with the second
  consumer only.
- `Replay`: every invoice is somewhere, the places hold as many as there are and one
  more for each settlement lost, and the wait groups are what is left after the
  handlings.
- `Codecs`: every codec that writes is offered, and who claims a type is who wrote it.
- `Streams`: what a reader kept is ascending, below its position, and with what
  retention took it has no gap; the checkpoint is the projection's last entry, and
  the reader that resumes has only what comes after.
- `ClaimCheck`: a body is as its report's size says, a checked one has its payload
  in the directory, and what is on a queue has a body.
- `KeyRotation`: a key somebody writes with, or that a body left alone names, is on
  every ring, unless it was used or dropped out of order (`hasty`).
- `Tracing`: a message in a handler has one open span, any other none, so that the
  one a settlement ends is its own.
- `BlockedHealth`: the node is in alarm only where the restore is deferred or a
  command failed, or `run` was killed, and the connection knows only of an alarm it
  published under.
- `StandingLoad`: what is loaded was true a moment ago, and counters only go up; the
  line holds together because `emit` loads what is confirmed before what is offered.
  In the last line one message at most, offered before the end, may still be under
  way.
- `Statements`: balances, the entries a post hid and the journal agree as words, and
  a refused transfer has moved nothing. While what was paid in fits a word, the
  balances come to it, less what is between two accounts, and what is in hand is
  covered, so that none of them can wrap.

Their assumptions on constants (in `MCIntermediate` and `MCExamples`) are what
`main` gives them: bounds are natural numbers, work, rungs, members and holders are
finite, prices are numbers, no message of another system is one of ours,
`NoTenant` is nobody's name, a key is shorter than the threshold above which it
replaces a document, JSON is among the codecs and the one that reads anything is
not (`basic/05` leaves it out for that reason), and in `Statements` accounts are
funded with amounts of a word that are not negative, as `main.go` does, and
transfers have ids of their own.

Trying to prove them showed one property to be wrong. `AtOnceIsPrefetch` bounded the
invoices in hand at once in the second half of `intermediate/09` by `Prefetch +
drops`. A channel that drops gives back all it had prefetched while the handlers it
started go on, so it is `Prefetch * (1 + drops)`; with the program's prefetch of one,
which the run uses, the two are the same.

**Sums.** `SumFunctionOnSet` of the community modules folds over a finite set with a
choice at each turn. That the fold is a function at all, takes elements in any
order, moves with one value or one element (`SumMoved`, `SumWithout`) and adds up over
two sets with nothing in common (`SumDisjoint`) is proved
by induction over the subsets of a finite set (`SubsetInduction`), from the
library's fact that strict inclusion is well founded there: the principle for a
set of subsets needs no operator parameter.

**Ledger_proof.** `TypeCorrect`, and all four safety properties of the run
`ledger`: `BalancesAreTheLog`, `OverdraftsAreBounded`, `HalvesAreParked`,
`PaidDecisions`. `LedgerInv` makes them inductive together.

- `LogInv`: `totals` is the journal added up entry by entry. Without it nothing
  relates what a rebuild has counted to the journal's balances.
- `BelievedInv`: during the rebuild `accounts + unseen` is the balance after the
  entries read so far, afterwards it is the balance of the whole journal; and
  neither `unseen` nor the journal's balance is below `-overlooked`.
- `CheckedInv`: from the check in `apply` to the debit the account still holds the
  amount. It does because the writer is alone: between the two only `Fund` moves a
  balance, and never down. This is the step where a second writer would break
  the proof.
- `DeliveryInv`: a command that waits has had at most as many decisions as there
  were faults, and the one being handled has room for one more; a delivery that
  was taken back has already paid for it.
- `HalvesInv`: past the debit there is exactly one debit more than credits, or the
  transfer is already torn. It needs `DeliveryInv` to know that the message being
  handled is not a parked one.

## 5. What is only model-checked, and what is left out

Only model-checked: liveness (`EveryCallReturns`, `EveryOrderEnds`,
`EveryCommandSettles`, `EveryApplicationIsDecided`, `EveryExampleEnds`,
`EveryProgramEnds`, the fair half of `KeepsPromise`), which TLAPS does not treat. The
safety properties are all proved as well.

Not modelled: `basic/01`, one publish and one handler that accepts; `basic/03`,
which prints the library's comparison of a topology with the broker's;
`advanced/02`, which reads counters and a health answer the library keeps (the
answer of a blocked broker is in `BlockedHealth`); `advanced/05`, which makes and
compares certificates by calls of the library one after another. None of these
four keeps state between two steps that something else could disturb. In `advanced/01` the program ticks and prints,
and the redial, the redeclaration and the consumers that come back are the
library's, whose source is not here; the store in memory of `intermediate/03`
shares no transaction with anything, so there is no promise of it to check. The
waiting and polling helpers of every `main`, the cipher, the encodings and the registry's
wire format are abstracted to what a reader can tell apart: the key, the codec or
the schema a body was written with.

Left out of the modelled components: payloads beyond what decides something,
the wording of errors and reasons, metrics read back from the library, the
polling helpers of the scenarios, and, in the ledger, `rebuildLimit` (a start
that gives up when entries keep coming; with one writer, which is the design,
they do not). Amounts are integers far below the limit of int64.

## 6. Where the code and its documentation part

Each has a run that expects the violation, on an instance small enough to read
the trace.

1. `payments_stopped`. `charge` accepts every message whose claim it loses. After
   a crash between claim and publish, the redelivery of the very same message
   loses to the claim it left, is accepted, and nobody is told of the order.
   `payments.go:130-132` names this outcome as the thing to avoid; the code avoids
   it for a failed publish and not for a crash or a failed release. It is a
   matter of time: a redelivery that comes after the claim timeout is charged.
2. `inventory_twice`. `payments.go:18-19` says every other service "can handle a
   message twice and produce the same outcome". `reserve` takes stock twice.

More of the kind that have no run of their own:

- `main.go:296-299` of apps/01 starts the inventory consumer before it calls
  `WithStock`; an order that waited on the durable queue is told, for good, that
  there is no stock. `inventory.go:125` takes that verdict to be permanent.
- `inventory.go:103-104` says the first `failures` calls time out; the count is
  compared with all calls since the start (`inventory.go:115`), so calls made
  before `WithFlakyWarehouse` are counted too and fewer of the following ones
  fail.
- `contracts.go:102` of apps/03 says a transfer must be applied once; a command
  redelivered after a crash is applied again, with entry ids of its own
  (`ledger.go:98-100`). `DecisionsArePaidFor` bounds how often.
- `balances.go:44-46` says a restart comes back identical; an append whose confirm
  was lost is in the log and not in memory until the restart, and a rebuild that
  heard nothing for `quietPeriod` stops early. `MemoryIsTheLog` says by how much,
  and since balances can be behind the log, an account can be overdrawn in the
  journal, by no more than `OverdraftBound` allows.
- `intermediate/02`'s comment at `main.go:84-86` has the guard forget the message
  that failed on purpose; the failure is returned by the wrapper outside the
  guard, which never heard of it. Nothing depends on it.
- `basic/04` counts handlings to decide which wait group to release
  (`main.go:94-98`); one redelivered invoice and the third `Done` of a group of
  one panics. `PanicIsARepeat` says that takes a lost settlement.
- `intermediate/09` closes its channel when as many handlings as invoices were
  seen (`main.go:79`): after a redelivery that is before the last invoice was
  handled. `DoneMeansEach` excuses exactly that.

## 7. What could follow

Liveness is checked on the instances of section 3 and would need another prover for
more. The places where the code gives less than its documentation says (section 6)
are the ones to look at first when the programs change: each of those runs
turns around when the code is mended.
