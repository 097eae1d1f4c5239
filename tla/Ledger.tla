------------------------------- MODULE Ledger -------------------------------
(***************************************************************************)
(* apps/03-ledger/ledger: the one writer of the journal.                   *)
(*                                                                         *)
(* apply decides a transfer against balances it keeps in memory, appends a *)
(* debit and a credit to a stream, and parks the command when an append    *)
(* fails.  The balances are rebuilt from the stream on every start: the    *)
(* reader goes to the end, and stops when nothing came for quietPeriod,    *)
(* which a slow broker can make happen before the end.                     *)
(*                                                                         *)
(* post, a publish and then an update of the balances, is one step: only   *)
(* the writer's own decisions read the balances, and a crash in between    *)
(* loses them anyway.  Amounts stay far below the limits of int64.         *)
(***************************************************************************)
EXTENDS Sequences, Integers

CONSTANTS Accounts,
          Transfers,        \* commands that may be requested, each one message
          From, To, Amount, \* their fields
          Opening,          \* what Fund is called with, per account
          MaxAttempts,      \* attempts in all, for the refusals that are retried
          MaxFaults         \* bound: crashes, dropped connections, failed calls

ASSUME LedgerAssumption ==
    /\ Transfers # {}
    /\ From \in [Transfers -> Accounts] /\ To \in [Transfers -> Accounts]
    /\ Amount \in [Transfers -> Int]
    /\ Opening \in [Accounts -> Nat]
    /\ MaxAttempts \in Nat \ {0}
    /\ MaxFaults \in Nat

VARIABLES
    copy, attempt, pc, msg, stale,  \* the consumer of the commands queue
    journal,        \* the entries of the stream
    running,        \* "down", "rebuild" or "taking"
    accounts,       \* the balances in memory
    position,       \* entries of the journal the rebuild has finished with
    posted, refused,    \* the module's counters
    rejectedOut,    \* TransferRejected the broker was given, per transfer
    funded,         \* accounts Fund was called for
    totals,         \* history: the journal's balances after each entry
    unseen,         \* history: what faults since the start keep from the balances in
                    \* memory, per account; negative where they counted too much
    overlooked,     \* history: how much more than it held the writer was ever made
                    \* to believe in an account
    debits, credits,    \* history: entries of each half, per transfer
    torn,           \* history: transfers whose handler died between the halves,
                    \* or whose verdict went to a delivery taken back
    faults

consumerVars == <<copy, attempt, pc, msg, stale>>
logVars      == <<journal, totals>>
memoryVars   == <<accounts, position, posted, refused>>
halfVars     == <<debits, credits>>
missedVars   == <<unseen, overlooked>>
vars == <<consumerVars, logVars, running, memoryVars, rejectedOut, funded,
          halfVars, missedVars, torn, faults>>

Queue == INSTANCE Delivery WITH Copies <- Transfers

Phases == {"idle", "decide", "debit", "credit", "reject", "accept", "retry", "park"}

Fault == faults < MaxFaults /\ faults' = faults + 1

\* A step of apply that leaves the queue alone.
Goto(phase) == pc' = phase /\ UNCHANGED <<copy, attempt, msg, stale>>

Zero == [a \in Accounts |-> 0]

Total == totals[Len(totals)]

Credit(balances, a, n) == [balances EXCEPT ![a] = @ + n]

\* The journal takes an entry.
Write(t, a, n) ==
    /\ journal' = Append(journal, [transfer |-> t, account |-> a, amount |-> n])
    /\ totals' = Append(totals, Credit(Total, a, n))

\* post succeeds: the entry is in the journal and in the balances.
Post(t, a, n) ==
    /\ Write(t, a, n)
    /\ accounts' = Credit(accounts, a, n)
    /\ posted' = posted + 1
    /\ UNCHANGED <<position, refused, missedVars>>

\* post fails and the entry is in the journal all the same.
PostUnconfirmed(t, a, n) ==
    /\ Write(t, a, n)
    /\ unseen' = Credit(unseen, a, n)
    /\ overlooked' = IF n < 0 THEN Credit(overlooked, a, -n) ELSE overlooked
    /\ UNCHANGED memoryVars

NotWritten == UNCHANGED <<logVars, memoryVars, missedVars>>

Init ==
    /\ copy = [t \in Transfers |-> "absent"]
    /\ attempt = [t \in Transfers |-> 1]
    /\ pc = "idle"
    /\ msg = (CHOOSE t \in Transfers : TRUE)
    /\ stale = FALSE
    /\ journal = <<>>
    /\ running = "down"
    /\ accounts = Zero
    /\ position = 0 /\ posted = 0 /\ refused = 0
    /\ rejectedOut = [t \in Transfers |-> 0]
    /\ funded = {}
    /\ totals = <<Zero>>
    /\ unseen = Zero /\ overlooked = Zero
    /\ debits = [t \in Transfers |-> 0] /\ credits = [t \in Transfers |-> 0]
    /\ torn = {}
    /\ faults = 0
-----------------------------------------------------------------------------
\* The process starts: nothing in memory, and the reader at the first entry.
Start ==
    /\ running = "down"
    /\ running' = "rebuild"
    /\ accounts' = Zero
    /\ position' = 0 /\ posted' = 0 /\ refused' = 0
    /\ unseen' = Zero
    /\ UNCHANGED <<consumerVars, logVars, rejectedOut, funded, halfVars, overlooked,
                   torn, faults>>

\* Mutant: the reader is ignored once it caught up, and not closed.
ReadEntryForEver ==
    /\ running \in {"rebuild", "taking"} /\ position < Len(journal)
    /\ LET entry == journal[position + 1]
       IN  accounts' = Credit(accounts, entry.account, entry.amount)
    /\ position' = position + 1
    /\ UNCHANGED <<consumerVars, logVars, running, posted, refused, rejectedOut,
                   funded, halfVars, missedVars, torn, faults>>

ReadEntry ==
    /\ running = "rebuild" /\ position < Len(journal)
    /\ LET entry == journal[position + 1]
       IN  accounts' = Credit(accounts, entry.account, entry.amount)
    /\ position' = position + 1
    /\ UNCHANGED <<consumerVars, logVars, running, posted, refused, rejectedOut,
                   funded, halfVars, missedVars, torn, faults>>

\* The connection drops between the handler and its acknowledgement: the reader
\* carries on from the oldest entry it had not finished, which is that one.
ReadEntryInterrupted ==
    /\ running = "rebuild" /\ position < Len(journal)
    /\ Fault
    /\ LET entry == journal[position + 1]
       IN  /\ accounts' = Credit(accounts, entry.account, entry.amount)
           /\ unseen' = Credit(unseen, entry.account, -entry.amount)
           /\ overlooked' = IF entry.amount > 0
                              THEN Credit(overlooked, entry.account, entry.amount)
                              ELSE overlooked
    /\ UNCHANGED <<consumerVars, logVars, running, position, posted, refused,
                   rejectedOut, funded, halfVars, torn>>

StopReading ==
    /\ running = "rebuild" /\ position = Len(journal)
    /\ running' = "taking"
    /\ UNCHANGED <<consumerVars, logVars, memoryVars, rejectedOut, funded, halfVars,
                   missedVars, torn, faults>>

\* The broker is silent for quietPeriod in the middle of the journal.
StopReadingEarly ==
    /\ running = "rebuild" /\ position < Len(journal)
    /\ Fault
    /\ running' = "taking"
    /\ unseen' = [a \in Accounts |-> Total[a] - accounts[a]]
    /\ overlooked' = [a \in Accounts |->
          IF accounts[a] > Total[a] THEN overlooked[a] + accounts[a] - Total[a]
                                    ELSE overlooked[a]]
    /\ UNCHANGED <<consumerVars, logVars, memoryVars, rejectedOut, funded, halfVars, torn>>

Request(t) ==
    /\ Queue!Arrive(t)
    /\ UNCHANGED <<pc, msg, stale, logVars, running, memoryVars, rejectedOut, funded,
                   halfVars, missedVars, torn, faults>>

FundSteps(a) ==
    /\ running = "taking"
    /\ a \notin funded
    /\ funded' = funded \cup {a}
    /\ UNCHANGED <<consumerVars, running, rejectedOut, halfVars, torn>>

Fund(a) == FundSteps(a) /\ Post("OPENING", a, Opening[a]) /\ UNCHANGED faults

FundFailed(a) == FundSteps(a) /\ Fault /\ NotWritten

FundUnconfirmed(a) == FundSteps(a) /\ Fault /\ PostUnconfirmed("OPENING", a, Opening[a])

Deliver ==
    /\ running = "taking"
    /\ Queue!Deliver("decide")
    /\ UNCHANGED <<logVars, running, memoryVars, rejectedOut, funded, halfVars,
                   missedVars, torn, faults>>

Allowed == Amount[msg] > 0 /\ accounts[From[msg]] >= Amount[msg]

\* Mutant: only the sign of the amount is looked at.
DecideUnchecked ==
    /\ pc = "decide"
    /\ Goto(IF Amount[msg] > 0 THEN "debit" ELSE "reject")
    /\ UNCHANGED <<logVars, running, memoryVars, rejectedOut, funded, halfVars,
                   missedVars, torn, faults>>

\* Mutant: what cannot be paid is put back, to wait for the funds.
DecidePutBack ==
    /\ pc = "decide"
    /\ \/ Allowed /\ Goto("debit")
       \/ ~Allowed /\ Queue!Die
    /\ UNCHANGED <<logVars, running, memoryVars, rejectedOut, funded, halfVars,
                   missedVars, torn, faults>>

Decide ==
    /\ pc = "decide"
    /\ Goto(IF Allowed THEN "debit" ELSE "reject")
    /\ UNCHANGED <<logVars, running, memoryVars, rejectedOut, funded, halfVars,
                   missedVars, torn, faults>>

PostDebit ==
    /\ pc = "debit"
    /\ Post(msg, From[msg], -Amount[msg])
    /\ debits' = [debits EXCEPT ![msg] = @ + 1]
    /\ Goto("credit")
    /\ UNCHANGED <<running, rejectedOut, funded, credits, torn, faults>>

PostCredit ==
    /\ pc = "credit"
    /\ Post(msg, To[msg], Amount[msg])
    /\ credits' = [credits EXCEPT ![msg] = @ + 1]
    /\ Goto("accept")
    /\ UNCHANGED <<running, rejectedOut, funded, debits, torn, faults>>

\* Mutant: an append that failed is retried.
PostFailedRetried ==
    /\ pc \in {"debit", "credit"}
    /\ Fault
    /\ NotWritten
    /\ Goto("retry")
    /\ UNCHANGED <<running, rejectedOut, funded, halfVars, torn>>

PostFailed ==
    /\ pc \in {"debit", "credit"}
    /\ Fault
    /\ NotWritten
    /\ Goto("park")
    /\ UNCHANGED <<running, rejectedOut, funded, halfVars, torn>>

PostDebitUnconfirmed ==
    /\ pc = "debit"
    /\ Fault
    /\ PostUnconfirmed(msg, From[msg], -Amount[msg])
    /\ debits' = [debits EXCEPT ![msg] = @ + 1]
    /\ Goto("park")
    /\ UNCHANGED <<running, rejectedOut, funded, credits, torn>>

PostCreditUnconfirmed ==
    /\ pc = "credit"
    /\ Fault
    /\ PostUnconfirmed(msg, To[msg], Amount[msg])
    /\ credits' = [credits EXCEPT ![msg] = @ + 1]
    /\ Goto("park")
    /\ UNCHANGED <<running, rejectedOut, funded, debits, torn>>

\* Mutant: a refusal is announced and then asked for again.
RejectRetried ==
    /\ pc = "reject"
    /\ rejectedOut' = [rejectedOut EXCEPT ![msg] = @ + 1]
    /\ refused' = refused + 1
    /\ Goto("retry")
    /\ UNCHANGED <<logVars, running, accounts, position, posted, funded, halfVars,
                   missedVars, torn, faults>>

Reject ==
    /\ pc = "reject"
    /\ rejectedOut' = [rejectedOut EXCEPT ![msg] = @ + 1]
    /\ refused' = refused + 1
    /\ Goto("accept")
    /\ UNCHANGED <<logVars, running, accounts, position, posted, funded, halfVars,
                   missedVars, torn, faults>>

RejectFailed ==
    /\ pc = "reject"
    /\ Fault
    /\ Goto("retry")
    /\ UNCHANGED <<logVars, running, memoryVars, rejectedOut, funded, halfVars,
                   missedVars, torn>>

RejectUnconfirmed ==
    /\ pc = "reject"
    /\ Fault
    /\ rejectedOut' = [rejectedOut EXCEPT ![msg] = @ + 1]
    /\ Goto("retry")
    /\ UNCHANGED <<logVars, running, memoryVars, funded, halfVars, missedVars, torn>>

Settle ==
    /\ Queue!Settle
    /\ torn' = IF stale THEN torn \cup {msg} ELSE torn
    /\ UNCHANGED <<logVars, running, memoryVars, rejectedOut, funded, halfVars,
                   missedVars, faults>>

ConnectionDropped ==
    /\ Queue!Drop
    /\ Fault
    /\ UNCHANGED <<logVars, running, memoryVars, rejectedOut, funded, halfVars,
                   missedVars, torn>>

Stopped ==
    /\ running' = "down"
    /\ UNCHANGED <<logVars, memoryVars, rejectedOut, funded, halfVars, missedVars>>

\* Close drains the consumer first: no handler is running when it returns.
Close ==
    /\ running = "taking" /\ pc = "idle"
    /\ Stopped
    /\ UNCHANGED <<consumerVars, torn, faults>>

Crash ==
    /\ running # "down"
    /\ Fault
    /\ Stopped
    /\ \/ pc = "idle" /\ UNCHANGED consumerVars
       \/ Queue!Die
    /\ torn' = IF pc \in {"credit", "park"} THEN torn \cup {msg} ELSE torn
-----------------------------------------------------------------------------
\* What the module does by itself.
Work ==
    \/ Start \/ ReadEntry \/ StopReading
    \/ Deliver \/ Decide \/ PostDebit \/ PostCredit \/ Reject \/ Settle

Failure ==
    \/ ReadEntryInterrupted \/ StopReadingEarly
    \/ PostFailed \/ PostDebitUnconfirmed \/ PostCreditUnconfirmed
    \/ RejectFailed \/ RejectUnconfirmed
    \/ ConnectionDropped \/ Crash
    \/ \E a \in Accounts : FundFailed(a) \/ FundUnconfirmed(a)

Next ==
    \/ \E t \in Transfers : Request(t)
    \/ \E a \in Accounts : Fund(a)
    \/ Work
    \/ Failure
    \/ Close

Spec == Init /\ [][Next]_vars

\* The process is started again when it is down and goes on while it is up.  It
\* has to take commands now and then to settle one: an operator who only ever
\* restarts it would starve them, so a command that waits is strongly fair.
FairSpec == Spec /\ WF_vars(Work) /\ SF_vars(Deliver)
-----------------------------------------------------------------------------
Entries == [transfer : Transfers \cup {"OPENING"}, account : Accounts, amount : Int]

LogType ==
    /\ journal \in Seq(Entries)
    /\ totals \in Seq([Accounts -> Int]) /\ Len(totals) = Len(journal) + 1

TypeOK ==
    /\ copy \in [Transfers -> Queue!CopyStates]
    /\ attempt \in [Transfers -> 1..MaxAttempts]
    /\ pc \in Phases
    /\ msg \in Transfers
    /\ stale \in BOOLEAN
    /\ LogType
    /\ running \in {"down", "rebuild", "taking"}
    /\ accounts \in [Accounts -> Int]
    /\ position \in Nat /\ posted \in Nat /\ refused \in Nat
    /\ rejectedOut \in [Transfers -> Nat]
    /\ funded \subseteq Accounts
    /\ unseen \in [Accounts -> Int] /\ overlooked \in [Accounts -> Nat]
    /\ debits \in [Transfers -> Nat] /\ credits \in [Transfers -> Nat]
    /\ torn \subseteq Transfers
    /\ faults \in 0..MaxFaults

\* The writer's balances are a function of the log, whenever it decides by them:
\* neither counted twice nor short, but for entries whose confirm was lost since
\* the start, entries the rebuild stopped before, and an entry a dropped
\* connection made it read again.
MemoryIsTheLog ==
    running = "taking" =>
        \A a \in Accounts : accounts[a] + unseen[a] = Total[a]

\* No account is overdrawn in the journal by more than the faults made the writer
\* believe it held: debits it was not told of, and credits it counted again.
OverdraftBound ==
    \A a \in Accounts : Total[a] >= -overlooked[a]

\* An unbalanced pair is one in progress, or parked for a human.  The others are
\* those a crash tore apart, and those parked in answer to a delivery the broker
\* had taken back.
UnbalancedIsParked ==
    \A t \in Transfers :
        debits[t] # credits[t] =>
            \/ pc \in {"credit", "park"} /\ msg = t
            \/ copy[t] = "parked"
            \/ t \in torn

\* A transfer is decided once: each time it is applied or refused again is the
\* work of a fault.
DecisionsArePaidFor ==
    \A t \in Transfers : debits[t] + rejectedOut[t] <= 1 + faults

\* Every command is settled, across restarts.
EveryCommandSettles ==
    \A t \in Transfers : copy[t] = "ready" ~> copy[t] \in Queue!Settled
=============================================================================
