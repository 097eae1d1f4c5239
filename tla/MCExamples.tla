----------------------------- MODULE MCExamples ------------------------------
(***************************************************************************)
(* The examples of basic/ and advanced/, and the readers of apps/03, each  *)
(* by itself: one of them takes steps, the others stay as they began.      *)
(***************************************************************************)
EXTENDS Integers, Sequences, FiniteSets

CONSTANTS
    Policy, MaxReturns, Leftovers,                   \* Retries
    Invoices, Fixed, MostMoved, MaxLost,             \* Replay
    Producers, Offered, Foreign, MaxMessages,        \* Codecs
    Written, Half, RefusedAt, MaxDropped,            \* Streams
    Reports, Threshold, KeySize, MaxMishaps,         \* ClaimCheck
    Processes, Keys, MaxBodies, MaxAltered,          \* KeyRotation
    Sent, Traced, Tries, MaxReturned,                \* Tracing
    MaxAttempts,                                     \* BlockedHealth
    MaxOffered, MaxReadings,                         \* StandingLoad
    Holders, Funds, Asked, Projections, Limit,       \* Statements
    MaxFunded, MaxUnheard

VARIABLES
    program,
    payments, attempts, consumers, deadRead, channel, handledBy, step, fatalSeen,
    returns,
    deadLetters, aside, moving, replayed, handlings, replayStage, moved, open,
    settlementsLost,
    writes, encoded, decodedAs, unread, messages,
    log, firstKept, position, kept, checkpoint, stopping, readerStage,
    parkedCopies, skipped,
    encodedBody, directory, queueDepth, filedAway, readings, queueLives,
    mishaps,
    ring, writesWith, bodies, opened, parkedBodies, hasty, written, altered,
    headers, publishSpans, tried, place, asks, spans, ambient, returned,
    alarm, knowsBlocked, published, at, sendAttempts, declare, reports, restores,
    unreported,
    count, sending, unconsumed, blocked, ended, loaded, reading, printed,
    entries, held, onTheWay, posting, rejections, refusedList, view, fundings,
    unheard

Retries == INSTANCE Retries WITH copies <- payments
Replay == INSTANCE Replay WITH queued <- replayed, stage <- replayStage
Codecs == INSTANCE Codecs
Streams == INSTANCE Streams WITH Refused <- RefusedAt
ClaimCheck == INSTANCE ClaimCheck WITH MaxFaults <- MaxMishaps
Rotation == INSTANCE KeyRotation
Tracing == INSTANCE Tracing
Blocked == INSTANCE BlockedHealth WITH told <- knowsBlocked
Load == INSTANCE StandingLoad WITH waiting <- unconsumed
Statements == INSTANCE Statements WITH Readers <- Projections

retriesVars == <<payments, attempts, consumers, deadRead, channel, handledBy,
    step, fatalSeen, returns>>
replayVars == <<deadLetters, aside, moving, replayed, handlings, replayStage, moved,
    open, settlementsLost>>
codecsVars == <<writes, encoded, decodedAs, unread, messages>>
streamsVars == <<log, firstKept, position, kept, checkpoint, stopping,
    readerStage, parkedCopies, skipped>>
claimcheckVars == <<encodedBody, directory, queueDepth, filedAway, readings,
    queueLives, mishaps>>
rotationVars == <<ring, writesWith, bodies, opened, parkedBodies, hasty, written,
    altered>>
tracingVars == <<headers, publishSpans, tried, place, asks, spans, ambient,
    returned>>
blockedhealthVars == <<alarm, knowsBlocked, published, at, sendAttempts, declare,
    reports, restores, unreported>>
loadVars == <<count, sending, unconsumed, blocked, ended, loaded, reading,
    printed>>
statementsVars == <<entries, held, onTheWay, posting, rejections, refusedList,
    view, fundings, unheard>>
examplesVars == <<program, retriesVars, replayVars, codecsVars, streamsVars,
    claimcheckVars, rotationVars, tracingVars, blockedhealthVars, loadVars,
    statementsVars>>

\* What the examples need of their constants, and their mains give them: sizes
\* and bounds are numbers, a key fits where a document does not, a producer has
\* JSON on offer, transfers are of known holders and have ids of their own.
ASSUME ClaimCheckAssumption ==
    /\ Threshold \in Nat /\ KeySize \in Nat /\ KeySize < Threshold
    /\ \A r \in Reports : r.size \in Nat
ASSUME RetriesAssumption == Policy \in Nat \ {0} /\ Leftovers \cap {"p-1", "p-2"} = {}
ASSUME ReplayAssumption == Invoices \in Seq(Replay!All)
ASSUME CodecsAssumption ==
    /\ Offered \in Seq(Codecs!Codec \ {"bytes"})
    /\ "json" \in {Offered[i] : i \in DOMAIN Offered}
ASSUME StreamsAssumption == Written \in Nat /\ Half \in Nat \ {0}
ASSUME StatementsAssumption ==
    /\ IsFiniteSet(Holders) /\ Limit \in Nat \ {0} /\ Funds \subseteq 0 .. Limit - 1
    /\ \A t \in Asked : /\ t.from \in Holders /\ t.to \in Holders
                         /\ t.amount \in -Limit .. Limit - 1 /\ t.id # "opening"
    /\ \A t, u \in Asked : t.id = u.id => t = u

Programs == {"retries", "replay", "codecs", "streams", "claimcheck", "rotation", "tracing", "blockedhealth", "load", "statements"}

\* The turn of one example: the others keep their state.
Resting(e) ==
    /\ UNCHANGED program
    /\ IF e = "retries" THEN TRUE ELSE UNCHANGED retriesVars
    /\ IF e = "replay" THEN TRUE ELSE UNCHANGED replayVars
    /\ IF e = "codecs" THEN TRUE ELSE UNCHANGED codecsVars
    /\ IF e = "streams" THEN TRUE ELSE UNCHANGED streamsVars
    /\ IF e = "claimcheck" THEN TRUE ELSE UNCHANGED claimcheckVars
    /\ IF e = "rotation" THEN TRUE ELSE UNCHANGED rotationVars
    /\ IF e = "tracing" THEN TRUE ELSE UNCHANGED tracingVars
    /\ IF e = "blockedhealth" THEN TRUE ELSE UNCHANGED blockedhealthVars
    /\ IF e = "load" THEN TRUE ELSE UNCHANGED loadVars
    /\ IF e = "statements" THEN TRUE ELSE UNCHANGED statementsVars

ExamplesInit ==
    /\ program \in Programs
    /\ Retries!Init
    /\ Replay!Init
    /\ Codecs!Init
    /\ Streams!Init
    /\ ClaimCheck!Init
    /\ Rotation!Init
    /\ Tracing!Init
    /\ Blocked!Init
    /\ Load!Init
    /\ Statements!Init

ExamplesNext ==
    \/ program = "retries" /\ Retries!Next /\ Resting("retries")
    \/ program = "replay" /\ Replay!Next /\ Resting("replay")
    \/ program = "codecs" /\ Codecs!Next /\ Resting("codecs")
    \/ program = "streams" /\ Streams!Next /\ Resting("streams")
    \/ program = "claimcheck" /\ ClaimCheck!Next /\ Resting("claimcheck")
    \/ program = "rotation" /\ Rotation!Next /\ Resting("rotation")
    \/ program = "tracing" /\ Tracing!Next /\ Resting("tracing")
    \/ program = "blockedhealth" /\ Blocked!Next /\ Resting("blockedhealth")
    \/ program = "load" /\ Load!Next /\ Resting("load")
    \/ program = "statements" /\ Statements!Next /\ Resting("statements")

ExamplesSpec == ExamplesInit /\ [][ExamplesNext]_examplesVars

\* What keeps going: the program and the broker, not the faults.
ExamplesProgress ==
    \/ program = "retries" /\ Retries!Next /\ Resting("retries")
    \/ program = "replay" /\ Replay!Next /\ Resting("replay")
    \/ program = "streams" /\ Streams!Work /\ Resting("streams")
    \/ program = "rotation" /\ Rotation!Consume /\ Resting("rotation")
    \/ program = "blockedhealth" /\ Blocked!GoesOn /\ Resting("blockedhealth")
    \/ program = "load" /\ Load!Sample /\ Resting("load")
    \/ program = "statements" /\ Statements!Decide /\ Resting("statements")

FairExamplesSpec == ExamplesSpec /\ WF_examplesVars(ExamplesProgress)
-----------------------------------------------------------------------------
\* No message vanishes between two queues, two settlements or two lines: a
\* payment is queued, handled or dead-lettered, a replayed invoice is aside,
\* moved or handled, an offer has one fate and the last line leaves none out, a
\* key in a message can always be redeemed, and through a rotation in its order
\* no body that was left alone is parked.
NoMessageIsLost ==
    /\ Retries!NoPaymentVanishes
    /\ Replay!NothingIsLostOnItsWay
    /\ Load!EachOfferHasOneFate
    /\ Load!LastLineIsComplete
    /\ ClaimCheck!AlwaysRedeemable
    /\ ClaimCheck!KeysPointSomewhere
    /\ Rotation!NobodyIsShutOut

\* A second handling has a cause that is named: a payment is tried as the
\* policy says unless a delivery came back, an invoice is counted twice only
\* for a settlement that was lost, a reader that resumes at its checkpoint and
\* one that retries see every event of the log once.
RepeatsHaveACause ==
    /\ Retries!TriedByPolicy
    /\ Replay!PanicIsARepeat
    /\ Streams!NoGapAndNothingTwice
    /\ Streams!TheLogIsLeftAlone
    /\ Streams!CheckpointIsTheWork

\* What reaches a handler is what was meant for it: a body is decoded by the
\* codec that wrote it or by nobody, an altered one is opened by nobody, a
\* checked one travels as its size says, a fatal mark beats the retry policy,
\* and a filtered replay moves nobody else's invoice.
ReadAsMeant ==
    /\ Codecs!ReadAsWritten
    /\ Codecs!NobodyGuesses
    /\ Rotation!AlteredIsNotOpened
    /\ ClaimCheck!BoundaryIsChecked
    /\ Retries!TheMarkWins
    /\ Replay!OnlyTheFixedTenant

\* What a program reports agrees with what happened behind it, though it is put
\* together while things move: a span joins its own publish and ends as the
\* engine decided, a health answer asked the broker unless it was blocked, the
\* alarm is down when the run ends and before it closes, no line confirms more
\* than it offers, and a projection of the journal agrees with its writer,
\* whose balances are their entries as long as these fit a word.
ReportsAgree ==
    /\ Tracing!JoinedToItsPublish
    /\ Tracing!OutcomeIsTheEngines
    /\ Tracing!NoSpanStaysOpen
    /\ Blocked!AlarmIsCleared
    /\ Blocked!ClosesUnblocked
    /\ Blocked!AskedUnlessBlocked
    /\ Load!ConfirmedWasOffered
    /\ Statements!ProjectionAgrees
    /\ Statements!ReadersDoNotCompete
    /\ Statements!BalancesAreTrue
    /\ Statements!RefusedMovedNothing

\* Both halves of the retries and both stages of the replay end, every reader
\* of a stream gets to its end, every body is opened or parked, the blocked run
\* ends, the last line is printed and every transfer asked for is decided.
EveryProgramEnds ==
    /\ program = "retries" => Retries!BothHalvesEnd
    /\ program = "replay" => Replay!EveryInvoiceIsHandled
    /\ program = "streams" => Streams!EveryReaderEnds
    /\ program = "rotation" => Rotation!EveryBodyIsDone
    /\ program = "blockedhealth" => Blocked!TheRunEnds
    /\ program = "load" => Load!LastLineIsPrinted
    /\ program = "statements" => Statements!EveryRequestIsDecided
-----------------------------------------------------------------------------
\* The instance that is checked: sizes on either side of the threshold, and a
\* transfer of nothing.
MCReports == {[id |-> "below", size |-> 9], [id |-> "at", size |-> 10], [id |-> "above", size |-> 11]}
MCInvoices == <<"inv-1", "inv-2", "inv-3">>
MCOffered == <<"json", "yaml", "avro registered", "protobuf">>
MCAsked == {[id |-> "t1", from |-> "alice", to |-> "bob", amount |-> 3],
            [id |-> "t2", from |-> "bob", to |-> "alice", amount |-> 0]}
=============================================================================
