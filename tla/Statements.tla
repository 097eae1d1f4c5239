----------------------------- MODULE Statements -----------------------------
(***************************************************************************)
(* apps/03-ledger as main.go runs it: the gateway asks for transfers, the  *)
(* writer decides and posts them, and projections read the journal, from   *)
(* its first entry or from now.  What Ledger models of the writer, its     *)
(* attempts, crashes and rebuilds, is left out; what it leaves out is here *)
(* in full: other readers, refusals, and amounts that are machine words.   *)
(***************************************************************************)
EXTENDS Integers, Sequences, Functions

CONSTANTS Holders,      \* accounts
          Funds,        \* amounts Fund may be called with
          Asked,        \* transfers: [id, from, to, amount]
          Readers,      \* projections that may be started
          Limit,        \* amounts are words of -Limit .. Limit - 1
          MaxFunded,    \* bound: calls of Fund
          MaxUnheard    \* bound: posts that take effect and report an error

VARIABLES entries,      \* the journal: [id, account, amount]
          held,         \* the writer's balances
          onTheWay,     \* commands the writer has not seen
          posting,      \* entries of the transfer in hand, still to post
          rejections,   \* refusals on their queue
          refusedList,  \* the gateway's list of them
          view,         \* projection -> where it began, how far it is, its statement
          fundings, unheard

vars == <<entries, held, onTheWay, posting, rejections, refusedList, view, fundings, unheard>>

\* A word of this width.
Word(n) == ((n + Limit) % (2 * Limit)) - Limit

Amounts(s, a) == [i \in DOMAIN s |-> IF s[i].account = a THEN s[i].amount ELSE 0]

\* What the entries come to, had they no limit,
TrueSum(s, a) == SumFunction(Amounts(s, a))

\* and what BalanceOf makes of them, which adds words up: wherever a sum wraps on
\* the way, it ends at the same word.
Sum(s, a) == Word(TrueSum(s, a))

NotStarted == [from |-> 0, to |-> 0, seen |-> <<>>, on |-> FALSE]

Init ==
    /\ entries = <<>> /\ held = [a \in Holders |-> 0]
    /\ onTheWay = Asked /\ posting = <<>> /\ rejections = {} /\ refusedList = {}
    /\ view = [p \in Readers |-> NotStarted]
    /\ fundings = 0 /\ unheard = <<>>

\* Appended, then counted.  A post that reports an error is not counted, whether
\* the journal has it or not, and ends its transfer.
Post(e, rest, failed) ==
    \/ /\ entries' = Append(entries, e) /\ posting' = rest
       /\ held' = [held EXCEPT ![e.account] = Word(@ + e.amount)]
       /\ UNCHANGED unheard
    \/ /\ Len(unheard) < MaxUnheard
       /\ entries' = Append(entries, e) /\ unheard' = Append(unheard, e)
       /\ posting' = failed /\ UNCHANGED held
    \/ posting' = failed /\ UNCHANGED <<entries, held, unheard>>

Fund(a, n) ==
    /\ fundings < MaxFunded /\ fundings' = fundings + 1
    /\ Post([id |-> "opening", account |-> a, amount |-> n], posting, posting)
    /\ UNCHANGED <<onTheWay, rejections, refusedList, view>>

MayMove(t) == t.amount > 0 /\ held[t.from] >= t.amount

Apply(t) ==
    /\ posting = <<>> /\ t \in onTheWay /\ MayMove(t)
    /\ onTheWay' = onTheWay \ {t}
    /\ posting' = <<[id |-> t.id, account |-> t.from, amount |-> Word(-t.amount)],
                    [id |-> t.id, account |-> t.to, amount |-> t.amount]>>
    /\ UNCHANGED <<entries, held, rejections, refusedList, view, fundings, unheard>>

PostNext ==
    /\ posting # <<>> /\ Post(Head(posting), Tail(posting), <<>>)
    /\ UNCHANGED <<onTheWay, rejections, refusedList, view, fundings>>

\* Refused for either reason, and the refusal is announced.
Reject(t) ==
    /\ posting = <<>> /\ t \in onTheWay /\ ~MayMove(t)
    /\ onTheWay' = onTheWay \ {t} /\ rejections' = rejections \cup {t}
    /\ UNCHANGED <<entries, held, posting, refusedList, view, fundings, unheard>>

NoteRefusal(t) ==
    /\ t \in rejections
    /\ rejections' = rejections \ {t} /\ refusedList' = refusedList \cup {t}
    /\ UNCHANGED <<entries, held, onTheWay, posting, view, fundings, unheard>>

\* From first, or from the entry that comes next.
StartReading(p, fromFirst) ==
    /\ ~view[p].on
    /\ LET at == IF fromFirst THEN 0 ELSE Len(entries)
       IN view' = [view EXCEPT ![p] = [from |-> at, to |-> at, seen |-> <<>>, on |-> TRUE]]
    /\ UNCHANGED <<entries, held, onTheWay, posting, rejections, refusedList, fundings, unheard>>

Read(p) ==
    /\ view[p].on /\ view[p].to < Len(entries)
    /\ LET at == view[p].to + 1
       IN view' = [view EXCEPT ![p] = [from |-> view[p].from, to |-> at,
                                       seen |-> Append(view[p].seen, entries[at]), on |-> TRUE]]
    /\ UNCHANGED <<entries, held, onTheWay, posting, rejections, refusedList, fundings, unheard>>

\* withProjection closes it, and what it read is gone.
StopReading(p) ==
    /\ view[p].on
    /\ view' = [view EXCEPT ![p] = NotStarted]
    /\ UNCHANGED <<entries, held, onTheWay, posting, rejections, refusedList, fundings, unheard>>

Decide == (\E t \in Asked : Apply(t) \/ Reject(t) \/ NoteRefusal(t)) \/ PostNext

Next ==
    \/ Decide
    \/ \E a \in Holders, n \in Funds : Fund(a, n)
    \/ \E p \in Readers : StartReading(p, TRUE) \/ StartReading(p, FALSE) \/ Read(p) \/ StopReading(p)

Spec == Init /\ [][Next]_vars

PaidIn == SumFunction([i \in DOMAIN entries |-> IF entries[i].id = "opening" THEN entries[i].amount ELSE 0])

CaughtUp(p) == view[p].on /\ view[p].to = Len(entries)
-----------------------------------------------------------------------------
\* A projection that has read to the end agrees with the writer, and where a post
\* took effect and was reported as an error, with the writer corrected by it.
\* One begun from now agrees once what came before it is added: it has an
\* opening balance of zero for ever.
ProjectionAgrees ==
    \A p \in Readers, a \in Holders : CaughtUp(p) =>
        Word(Sum(view[p].seen, a) + Sum(SubSeq(entries, 1, view[p].from), a))
            = Word(held[a] + Sum(unheard, a))

\* Readers do not compete: whoever reads beside it, a projection has every entry
\* between where it began and where it is.
ReadersDoNotCompete ==
    \A p \in Readers : view[p].seen = SubSeq(entries, view[p].from + 1, view[p].to)

\* While all that was paid in fits a word, every balance is what its entries come
\* to, and nobody is overdrawn by a transfer the writer saw through; beyond that
\* a credit can turn a balance over, and int64 says nothing.
BalancesAreTrue ==
    PaidIn < Limit /\ unheard = <<>>
    => \A a \in Holders : held[a] = TrueSum(entries, a) /\ held[a] >= 0

\* A transfer that was refused moved nothing, ever.
RefusedMovedNothing ==
    \A t \in rejections \cup refusedList : t \notin onTheWay /\
        \A i \in DOMAIN entries : entries[i].id # t.id

\* Every request ends in the journal, in the list of refusals, or, where a post
\* reported an error, with whoever looks after parked commands.
EveryRequestIsDecided ==
    <>(onTheWay = {} /\ posting = <<>> /\ rejections = {})
=============================================================================
