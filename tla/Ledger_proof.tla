---------------------------- MODULE Ledger_proof ----------------------------
(***************************************************************************)
(* Proofs about Ledger for every set of accounts and transfers, every      *)
(* opening balance and every number of attempts and faults.  LedgerInv is  *)
(* the inductive invariant: LogInv and BelievedInv relate the balances to  *)
(* the journal, CheckedInv says that what apply checked is still true when *)
(* it posts, DeliveryInv and HalvesInv follow a command through crashes    *)
(* and deliveries taken back.                                              *)
(***************************************************************************)
EXTENDS Ledger, TLAPS

USE DEF consumerVars, logVars, memoryVars, halfVars, missedVars

LEMMA TotalType == LogType => Total \in [Accounts -> Int]
  BY DEF LogType, Total

LEMMA LogKept == LogType /\ UNCHANGED logVars => LogType'
  BY DEF LogType

LEMMA CreditType ==
    ASSUME NEW f \in [Accounts -> Int], NEW a \in Accounts, NEW n \in Int
    PROVE  /\ Credit(f, a, n) \in [Accounts -> Int]
           /\ Credit(f, a, n)[a] = f[a] + n
           /\ \A b \in Accounts \ {a} : Credit(f, a, n)[b] = f[b]
  BY DEF Credit

LEMMA CreditElsewhere ==
    ASSUME NEW f \in [Accounts -> Int], NEW a \in Accounts, NEW n \in Int,
           NEW b \in Accounts, b # a
    PROVE  Credit(f, a, n)[b] = f[b]
  BY DEF Credit

\* What an append does to the journal, and to its balances.
LEMMA WriteType ==
    ASSUME LogType, NEW t \in Transfers \cup {"OPENING"}, NEW a \in Accounts,
           NEW n \in Int, Write(t, a, n)
    PROVE  /\ LogType'
           /\ Len(journal') = Len(journal) + 1
           /\ Total' = Credit(Total, a, n)
           /\ journal'[Len(journal')] = [transfer |-> t, account |-> a, amount |-> n]
           /\ \A i \in 1 .. Len(journal) : journal'[i] = journal[i]
           /\ \A i \in 1 .. Len(totals) : totals'[i] = totals[i]
           /\ totals'[Len(totals')] = Credit(Total, a, n)
<1> DEFINE entry == [transfer |-> t, account |-> a, amount |-> n]
<1>1. entry \in Entries BY DEF Entries
<1>2. Credit(Total, a, n) \in [Accounts -> Int] BY TotalType, CreditType
<1>3. journal' = Append(journal, entry) /\ totals' = Append(totals, Credit(Total, a, n))
  BY DEF Write
<1>4. journal \in Seq(Entries) /\ totals \in Seq([Accounts -> Int])
      /\ Len(totals) = Len(journal) + 1
  BY DEF LogType
<1> HIDE DEF entry
<1>5. /\ journal' \in Seq(Entries) /\ Len(journal') = Len(journal) + 1
      /\ journal'[Len(journal')] = entry
      /\ \A i \in 1 .. Len(journal) : journal'[i] = journal[i]
  BY <1>1, <1>3, <1>4
<1>6. /\ totals' \in Seq([Accounts -> Int]) /\ Len(totals') = Len(totals) + 1
      /\ totals'[Len(totals')] = Credit(Total, a, n)
      /\ \A i \in 1 .. Len(totals) : totals'[i] = totals[i]
  BY <1>2, <1>3, <1>4
<1>7. Total' = Credit(Total, a, n) BY <1>6 DEF Total
<1>8. LogType' BY <1>4, <1>5, <1>6 DEF LogType
<1>9. QED BY <1>4, <1>5, <1>6, <1>7, <1>8 DEF entry

LEMMA LogWritten ==
    ASSUME LogType, NEW t \in Transfers \cup {"OPENING"}, NEW a \in Accounts,
           NEW n \in Int, Write(t, a, n)
    PROVE  LogType'
  BY WriteType
-----------------------------------------------------------------------------
LEMMA PostType ==
    ASSUME TypeOK, NEW t \in Transfers \cup {"OPENING"}, NEW a \in Accounts,
           NEW n \in Int, Post(t, a, n)
    PROVE  /\ LogType'
           /\ accounts' \in [Accounts -> Int]
           /\ posted' \in Nat
           /\ UNCHANGED <<position, refused, missedVars>>
<1>1. Write(t, a, n) /\ accounts' = Credit(accounts, a, n) /\ posted' = posted + 1
      /\ UNCHANGED <<position, refused, missedVars>>
  BY DEF Post
<1>2. LogType /\ accounts \in [Accounts -> Int] /\ posted \in Nat BY DEF TypeOK
<1>3. LogType' BY <1>1, <1>2, LogWritten
<1>4. QED BY <1>1, <1>2, <1>3, CreditType

LEMMA PostUnconfirmedType ==
    ASSUME TypeOK, NEW t \in Transfers \cup {"OPENING"}, NEW a \in Accounts,
           NEW n \in Int, PostUnconfirmed(t, a, n)
    PROVE  /\ LogType'
           /\ unseen' \in [Accounts -> Int] /\ overlooked' \in [Accounts -> Nat]
           /\ UNCHANGED memoryVars
<1>1. /\ Write(t, a, n)
      /\ unseen' = Credit(unseen, a, n)
      /\ overlooked' = IF n < 0 THEN Credit(overlooked, a, -n) ELSE overlooked
      /\ UNCHANGED memoryVars
  BY DEF PostUnconfirmed
<1>2. LogType /\ unseen \in [Accounts -> Int] /\ overlooked \in [Accounts -> Nat] BY DEF TypeOK
<1>3. unseen' \in [Accounts -> Int] BY <1>1, <1>2, CreditType
<1>4. overlooked' \in [Accounts -> Nat] BY <1>1, <1>2 DEF Credit
<1>5. LogType' BY <1>1, <1>2, LogWritten
<1>6. QED BY <1>1, <1>3, <1>4, <1>5

LEMMA Singleton ==
    ASSUME NEW S, NEW x \in S
    PROVE  <<x>> \in Seq(S) /\ Len(<<x>>) = 1
  OBVIOUS

LEMMA InitTypeOK == Init => TypeOK
<1> SUFFICES ASSUME Init PROVE TypeOK
  OBVIOUS
<1>1. Zero \in [Accounts -> Int] /\ Zero \in [Accounts -> Nat]
  BY DEF Zero
<1>2. LogType
  <2>1. journal = <<>> /\ totals = <<Zero>> BY DEF Init
  <2>2. journal \in Seq(Entries) /\ Len(journal) = 0 BY <2>1
  <2>3. totals \in Seq([Accounts -> Int]) /\ Len(totals) = 1
    <3> DEFINE Balances == [Accounts -> Int]  zero == Zero
    <3>1. zero \in Balances BY <1>1
    <3>2. totals = <<zero>> BY <2>1
    <3> HIDE DEF Balances, zero
    <3>3. <<zero>> \in Seq(Balances) /\ Len(<<zero>>) = 1 BY <3>1, Singleton
    <3>4. totals \in Seq(Balances) /\ Len(totals) = 1 BY <3>2, <3>3
    <3>5. QED BY <3>4 DEF Balances
  <2>4. QED BY <2>2, <2>3 DEF LogType
<1>3. msg \in Transfers BY LedgerAssumption DEF Init
<1>4. attempt \in [Transfers -> 1..MaxAttempts] /\ faults \in 0..MaxFaults
  BY LedgerAssumption DEF Init
<1>5. /\ copy \in [Transfers -> Queue!CopyStates] /\ pc \in Phases /\ stale \in BOOLEAN
      /\ rejectedOut \in [Transfers -> Nat]
      /\ debits \in [Transfers -> Nat] /\ credits \in [Transfers -> Nat]
  BY DEF Init, Phases, Queue!CopyStates
<1>6. QED BY <1>1, <1>2, <1>3, <1>4, <1>5 DEF Init, TypeOK

LEMMA NextTypeOK == TypeOK /\ [Next]_vars => TypeOK'
<1> SUFFICES ASSUME TypeOK, [Next]_vars PROVE TypeOK'
  OBVIOUS
<1> USE LedgerAssumption DEF Phases, Queue!CopyStates, Goto, Fault
<1>1. ASSUME NEW t \in Transfers, Request(t) PROVE TypeOK'
  BY <1>1, LogKept DEF TypeOK, Request, Queue!Arrive
<1>2. ASSUME Deliver PROVE TypeOK'
  BY <1>2, LogKept DEF TypeOK, Deliver, Queue!Deliver, Queue!Take
<1>3. ASSUME Decide PROVE TypeOK'
  BY <1>3, LogKept DEF TypeOK, Decide
<1>4. ASSUME Reject PROVE TypeOK'
  BY <1>4, LogKept DEF TypeOK, Reject
<1>5. ASSUME RejectFailed PROVE TypeOK'
  BY <1>5, LogKept DEF TypeOK, RejectFailed
<1>6. ASSUME RejectUnconfirmed PROVE TypeOK'
  BY <1>6, LogKept DEF TypeOK, RejectUnconfirmed
<1>7. ASSUME PostFailed PROVE TypeOK'
  BY <1>7, LogKept DEF TypeOK, PostFailed, NotWritten
<1>8. ASSUME Start PROVE TypeOK'
  BY <1>8, LogKept DEF TypeOK, Start, Zero
<1>9. ASSUME StopReading PROVE TypeOK'
  BY <1>9, LogKept DEF TypeOK, StopReading
<1>10. ASSUME ConnectionDropped PROVE TypeOK'
  BY <1>10, LogKept DEF TypeOK, ConnectionDropped, Queue!Drop, Queue!Requeue
<1>11. ASSUME Close PROVE TypeOK'
  BY <1>11, LogKept DEF TypeOK, Close, Stopped
<1>12. ASSUME NEW a \in Accounts, FundFailed(a) PROVE TypeOK'
  BY <1>12, LogKept DEF TypeOK, FundFailed, FundSteps, NotWritten
<1>13. ASSUME NEW a \in Accounts, Fund(a) PROVE TypeOK'
  <2>1. Post("OPENING", a, Opening[a]) /\ FundSteps(a) /\ UNCHANGED faults
    BY <1>13 DEF Fund
  <2>2. Opening[a] \in Int OBVIOUS
  <2>3. /\ LogType' /\ accounts' \in [Accounts -> Int] /\ posted' \in Nat
        /\ UNCHANGED <<position, refused, missedVars>>
    BY <2>1, <2>2, PostType
  <2>4. QED BY <2>1, <2>3 DEF TypeOK, FundSteps
<1>14. ASSUME NEW a \in Accounts, FundUnconfirmed(a) PROVE TypeOK'
  <2>1. PostUnconfirmed("OPENING", a, Opening[a]) /\ FundSteps(a) /\ Fault
    BY <1>14 DEF FundUnconfirmed
  <2>2. Opening[a] \in Int OBVIOUS
  <2>3. /\ LogType' /\ unseen' \in [Accounts -> Int] /\ overlooked' \in [Accounts -> Nat]
        /\ UNCHANGED memoryVars
    BY <2>1, <2>2, PostUnconfirmedType
  <2>4. QED BY <2>1, <2>3 DEF TypeOK, FundSteps
<1>15. ASSUME PostDebit PROVE TypeOK'
  <2>1. msg \in Transfers /\ From[msg] \in Accounts /\ To[msg] \in Accounts
        /\ Amount[msg] \in Int
    BY DEF TypeOK
  <2>2. Post(msg, From[msg], -Amount[msg]) BY <1>15 DEF PostDebit
  <2>3. QED BY <1>15, <2>1, <2>2, PostType DEF TypeOK, PostDebit
<1>16. ASSUME PostCredit PROVE TypeOK'
  <2>1. msg \in Transfers /\ From[msg] \in Accounts /\ To[msg] \in Accounts
        /\ Amount[msg] \in Int
    BY DEF TypeOK
  <2>2. Post(msg, To[msg], Amount[msg]) BY <1>16 DEF PostCredit
  <2>3. QED BY <1>16, <2>1, <2>2, PostType DEF TypeOK, PostCredit
<1>17. ASSUME PostDebitUnconfirmed PROVE TypeOK'
  <2>1. msg \in Transfers /\ From[msg] \in Accounts /\ To[msg] \in Accounts
        /\ Amount[msg] \in Int
    BY DEF TypeOK
  <2>2. PostUnconfirmed(msg, From[msg], -Amount[msg]) BY <1>17 DEF PostDebitUnconfirmed
  <2>3. QED BY <1>17, <2>1, <2>2, PostUnconfirmedType DEF TypeOK, PostDebitUnconfirmed
<1>18. ASSUME PostCreditUnconfirmed PROVE TypeOK'
  <2>1. msg \in Transfers /\ From[msg] \in Accounts /\ To[msg] \in Accounts
        /\ Amount[msg] \in Int
    BY DEF TypeOK
  <2>2. PostUnconfirmed(msg, To[msg], Amount[msg]) BY <1>18 DEF PostCreditUnconfirmed
  <2>3. QED BY <1>18, <2>1, <2>2, PostUnconfirmedType DEF TypeOK, PostCreditUnconfirmed
<1>19. ASSUME ReadEntry PROVE TypeOK'
  <2>1. LogType /\ position \in Nat BY DEF TypeOK
  <2>2. journal[position + 1] \in Entries BY <1>19, <2>1 DEF LogType, ReadEntry
  <2> DEFINE entry == journal[position + 1]
  <2>3. entry.account \in Accounts /\ entry.amount \in Int BY <2>2 DEF Entries
  <2> HIDE DEF entry
  <2>4. accounts' = Credit(accounts, entry.account, entry.amount)
    BY <1>19 DEF ReadEntry, entry
  <2>5. accounts' \in [Accounts -> Int] BY <2>3, <2>4, CreditType DEF TypeOK
  <2>6. position' \in Nat /\ LogType' BY <1>19, <2>1, LogKept DEF ReadEntry
  <2>7. QED BY <1>19, <2>5, <2>6 DEF TypeOK, ReadEntry
<1>20. ASSUME ReadEntryInterrupted PROVE TypeOK'
  <2>1. LogType /\ position \in Nat BY DEF TypeOK
  <2>2. journal[position + 1] \in Entries BY <1>20, <2>1 DEF LogType, ReadEntryInterrupted
  <2> DEFINE entry == journal[position + 1]
  <2>3. entry.account \in Accounts /\ entry.amount \in Int BY <2>2 DEF Entries
  <2> HIDE DEF entry
  <2>4. /\ accounts' = Credit(accounts, entry.account, entry.amount)
        /\ unseen' = Credit(unseen, entry.account, -entry.amount)
        /\ \/ entry.amount > 0 /\ overlooked' = Credit(overlooked, entry.account, entry.amount)
           \/ overlooked' = overlooked
    BY <1>20 DEF ReadEntryInterrupted, entry
  <2>5. accounts' \in [Accounts -> Int] /\ unseen' \in [Accounts -> Int]
    <3>1. accounts \in [Accounts -> Int] /\ unseen \in [Accounts -> Int]
          /\ -entry.amount \in Int
      BY <2>3 DEF TypeOK
    <3>2. accounts' \in [Accounts -> Int] BY <2>3, <2>4, <3>1, CreditType
    <3>3. unseen' \in [Accounts -> Int] BY <2>3, <2>4, <3>1, CreditType
    <3>4. QED BY <3>2, <3>3
  <2>6. overlooked' \in [Accounts -> Nat]
    BY <2>3, <2>4 DEF TypeOK, Credit
  <2>7. LogType' BY <1>20, <2>1, LogKept DEF ReadEntryInterrupted
  <2>8. /\ faults < MaxFaults /\ faults' = faults + 1
        /\ UNCHANGED <<consumerVars, logVars, running, position, posted, refused,
                       rejectedOut, funded, halfVars, torn>>
    BY <1>20 DEF ReadEntryInterrupted
  <2>9. QED BY <2>5, <2>6, <2>7, <2>8 DEF TypeOK
<1>21. ASSUME StopReadingEarly PROVE TypeOK'
  <2>1. /\ accounts \in [Accounts -> Int] /\ overlooked \in [Accounts -> Nat]
        /\ Total \in [Accounts -> Int]
    BY TotalType DEF TypeOK
  <2>2. /\ unseen' = [a \in Accounts |-> Total[a] - accounts[a]]
        /\ overlooked' = [a \in Accounts |->
              IF accounts[a] > Total[a] THEN overlooked[a] + accounts[a] - Total[a]
                                        ELSE overlooked[a]]
        /\ running' = "taking" /\ faults < MaxFaults /\ faults' = faults + 1
        /\ UNCHANGED <<consumerVars, logVars, memoryVars, rejectedOut, funded,
                       halfVars, torn>>
    BY <1>21 DEF StopReadingEarly
  <2>3. unseen' \in [Accounts -> Int] BY <2>1, <2>2
  <2>4. \A a \in Accounts :
          (IF accounts[a] > Total[a] THEN overlooked[a] + accounts[a] - Total[a]
                                     ELSE overlooked[a]) \in Nat
    BY <2>1
  <2>5. overlooked' \in [Accounts -> Nat] BY <2>2, <2>4
  <2>6. QED BY <2>2, <2>3, <2>5, LogKept DEF TypeOK
<1>22. ASSUME Settle PROVE TypeOK'
  <2>1. CASE stale
    BY <1>22, <2>1, LogKept DEF TypeOK, Settle, Queue!Settle
  <2>2. CASE ~stale /\ pc = "accept"
    BY <1>22, <2>2, LogKept DEF TypeOK, Settle, Queue!Settle, Queue!Accept
  <2>3. CASE ~stale /\ pc = "retry"
    BY <1>22, <2>3, LogKept DEF TypeOK, Settle, Queue!Settle, Queue!Retry
  <2>4. CASE ~stale /\ pc = "park"
    BY <1>22, <2>4, LogKept DEF TypeOK, Settle, Queue!Settle, Queue!Park
  <2>5. QED BY <1>22, <2>1, <2>2, <2>3, <2>4 DEF Settle, Queue!Settle
<1>23. ASSUME Crash PROVE TypeOK'
  <2>1. CASE pc = "idle" /\ UNCHANGED consumerVars
    BY <1>23, <2>1, LogKept DEF TypeOK, Crash, Stopped
  <2>2. CASE Queue!Die
    BY <1>23, <2>2, LogKept DEF TypeOK, Crash, Stopped, Queue!Die, Queue!Requeue
  <2>3. QED BY <1>23, <2>1, <2>2 DEF Crash
<1>24. CASE UNCHANGED vars
  BY <1>24, LogKept DEF vars, TypeOK
<1>25. QED
  BY <1>1, <1>2, <1>3, <1>4, <1>5, <1>6, <1>7, <1>8, <1>9, <1>10, <1>11, <1>12,
     <1>13, <1>14, <1>15, <1>16, <1>17, <1>18, <1>19, <1>20, <1>21, <1>22, <1>23, <1>24
  DEF Next, Work, Failure

\* Every variable of the ledger keeps its type, for any accounts and transfers.
THEOREM TypeCorrect == Spec => []TypeOK
  BY InitTypeOK, NextTypeOK, PTL DEF Spec
-----------------------------------------------------------------------------
\* The history of totals is the journal added up, entry by entry.
LogInv ==
    /\ totals[1] = Zero
    /\ position <= Len(journal)
    /\ \A i \in 1 .. Len(journal) :
           totals[i + 1] = Credit(totals[i], journal[i].account, journal[i].amount)

\* What the writer believes of an account while it rebuilds, and from then on.
BelievedInv ==
    \A a \in Accounts :
        /\ running = "rebuild" => accounts[a] + unseen[a] = totals[position + 1][a]
        /\ running = "taking" => accounts[a] + unseen[a] = Total[a]
        /\ unseen[a] >= -overlooked[a]
        /\ Total[a] >= -overlooked[a]

\* A handler runs only after the rebuild, and what it checked still holds when it
\* appends the debit: nobody else takes money out of the account.
CheckedInv ==
    /\ pc # "idle" => running = "taking"
    /\ pc \in {"debit", "credit"} => Amount[msg] > 0
    /\ pc = "debit" => accounts[From[msg]] >= Amount[msg]

Decisions(t) == debits[t] + rejectedOut[t]

\* Where a command is while it is handled, and how many decisions it may have
\* behind it when one more is coming.
DeliveryInv ==
    /\ \A t \in Transfers :
           /\ Decisions(t) <= 1 + faults
           /\ copy[t] = "absent" => Decisions(t) = 0
           /\ copy[t] = "ready" => Decisions(t) <= faults
           /\ copy[t] = "held" => pc # "idle" /\ msg = t /\ ~stale
    /\ pc # "idle" => copy[msg] = IF stale THEN "ready" ELSE "held"
    /\ pc \in {"decide", "debit", "reject"} =>
           Decisions(msg) <= IF stale THEN faults - 1 ELSE faults
    /\ pc = "retry" => Decisions(msg) <= faults

\* The halves of a transfer.
HalvesInv ==
    /\ UnbalancedIsParked
    /\ pc = "credit" => msg \in torn \/ debits[msg] = credits[msg] + 1

LedgerInv ==
    TypeOK /\ LogInv /\ BelievedInv /\ CheckedInv /\ DeliveryInv /\ HalvesInv

LEMMA InitLedgerInv == Init => LedgerInv
<1> SUFFICES ASSUME Init PROVE LedgerInv
  OBVIOUS
<1>1. TypeOK BY InitTypeOK
<1>2. totals = <<Zero>> /\ journal = <<>> BY DEF Init
<1>3. totals[1] = Zero /\ Len(totals) = 1 /\ Len(journal) = 0
  <2> DEFINE zero == Zero
  <2>1. totals = <<zero>> BY <1>2
  <2> HIDE DEF zero
  <2>2. totals[1] = zero /\ Len(totals) = 1 BY <2>1
  <2>3. QED BY <1>2, <2>2 DEF zero
<1>4. LogInv BY <1>3 DEF LogInv, Init
<1>5. BelievedInv
  <2>1. Total = Zero BY <1>3 DEF Total
  <2>2. running = "down" /\ unseen = Zero /\ overlooked = Zero BY DEF Init
  <2>3. \A a \in Accounts : Zero[a] = 0 BY DEF Zero
  <2>4. ASSUME NEW a \in Accounts
        PROVE  unseen[a] >= -overlooked[a] /\ Total[a] >= -overlooked[a]
    <3>1. unseen[a] = 0 /\ Total[a] = 0 /\ overlooked[a] = 0 BY <2>1, <2>2, <2>3
    <3>2. 0 >= -0 OBVIOUS
    <3>3. QED BY <3>1, <3>2
  <2>5. QED BY <2>2, <2>4 DEF BelievedInv
<1>6. CheckedInv /\ DeliveryInv /\ HalvesInv
  BY DEF Init, CheckedInv, DeliveryInv, Decisions, HalvesInv, UnbalancedIsParked
<1>7. QED BY <1>1, <1>4, <1>5, <1>6 DEF LedgerInv

\* What holds of the balances after each entry still does when one more is appended.
LEMMA LogInvWritten ==
    ASSUME LogType, LogInv, position \in Nat,
           NEW t \in Transfers \cup {"OPENING"}, NEW a \in Accounts,
           NEW n \in Int, Write(t, a, n), UNCHANGED position
    PROVE  LogInv'
<1>1. /\ Len(journal') = Len(journal) + 1
      /\ journal'[Len(journal')] = [transfer |-> t, account |-> a, amount |-> n]
      /\ \A i \in 1 .. Len(journal) : journal'[i] = journal[i]
      /\ \A i \in 1 .. Len(totals) : totals'[i] = totals[i]
      /\ totals'[Len(totals')] = Credit(Total, a, n)
      /\ LogType'
  BY WriteType
<1>2. Len(totals) = Len(journal) + 1 /\ Len(totals') = Len(journal') + 1
      /\ Len(journal) \in Nat
  BY <1>1 DEF LogType
<1>3. totals'[1] = Zero BY <1>1, <1>2 DEF LogInv
<1>4. ASSUME NEW i \in 1 .. Len(journal')
      PROVE  totals'[i + 1] = Credit(totals'[i], journal'[i].account, journal'[i].amount)
  <2>1. CASE i <= Len(journal)
    <3>1. totals'[i + 1] = totals[i + 1] /\ totals'[i] = totals[i] /\ journal'[i] = journal[i]
      BY <1>1, <1>2, <2>1
    <3>2. i \in 1 .. Len(journal) BY <1>1, <1>2, <2>1
    <3>3. QED BY <3>1, <3>2 DEF LogInv
  <2>2. CASE i = Len(journal')
    <3>1. totals'[i + 1] = Credit(Total, a, n) /\ totals'[i] = Total
      BY <1>1, <1>2, <2>2 DEF Total
    <3>2. journal'[i].account = a /\ journal'[i].amount = n BY <1>1, <2>2
    <3>3. QED BY <3>1, <3>2
  <2>3. QED BY <1>1, <1>2, <2>1, <2>2
<1>5. position' <= Len(journal') BY <1>1, <1>2 DEF LogInv
<1>6. QED BY <1>3, <1>4, <1>5 DEF LogInv

\* While nothing is appended the balances after each entry stay what they were.
LEMMA LogInvKept ==
    ASSUME LogInv, UNCHANGED logVars, position' <= Len(journal)
    PROVE  LogInv' /\ Total' = Total
  BY DEF LogInv, Total
-----------------------------------------------------------------------------
\* The steps that touch neither the journal, nor the balances, nor what the
\* writer was led to believe.
LEMMA BelievedInvKept ==
    ASSUME BelievedInv, LogInv, UNCHANGED <<logVars, missedVars, accounts, position, running>>
    PROVE  LogInv' /\ BelievedInv'
<1>1. LogInv' /\ Total' = Total BY LogInvKept DEF LogInv
<1>2. QED BY <1>1 DEF BelievedInv

\* An append that succeeds moves balance and journal together, and takes no more
\* out of an account than the writer believes it holds.
LEMMA BelievedInvPosted ==
    ASSUME TypeOK, LogInv, BelievedInv, running = "taking", running' = "taking",
           NEW t \in Transfers \cup {"OPENING"}, NEW a \in Accounts,
           NEW n \in Int, n >= 0 \/ accounts[a] + n >= 0, Post(t, a, n)
    PROVE  LogInv' /\ BelievedInv'
<1>1. /\ Write(t, a, n) /\ accounts' = Credit(accounts, a, n)
      /\ UNCHANGED <<position, unseen, overlooked>>
  BY DEF Post
<1>2. LogType /\ position \in Nat BY DEF TypeOK
<1>3. LogInv' BY <1>1, <1>2, LogInvWritten
<1>4. Total' = Credit(Total, a, n) BY <1>1, <1>2, WriteType
<1>5. Total \in [Accounts -> Int] BY <1>2, TotalType
<1>6. ASSUME NEW b \in Accounts
      PROVE  accounts'[b] + unseen'[b] = Total'[b] /\ unseen'[b] >= -overlooked'[b]
             /\ Total'[b] >= -overlooked'[b]
  <2>1. /\ accounts[b] + unseen[b] = Total[b] /\ unseen[b] >= -overlooked[b]
        /\ Total[b] >= -overlooked[b]
    BY DEF BelievedInv
  <2>2. accounts[b] \in Int /\ unseen[b] \in Int /\ overlooked[b] \in Nat /\ Total[b] \in Int
    BY <1>5 DEF TypeOK
  <2>3. CASE b = a
    <3>1. accounts'[b] = accounts[b] + n /\ Total'[b] = Total[b] + n
      BY <1>1, <1>4, <1>5, <2>3, CreditType DEF TypeOK
    <3>2. QED BY <1>1, <2>1, <2>2, <2>3, <3>1
  <2>4. CASE b # a
    <3>1. accounts'[b] = accounts[b] BY <1>1, <2>4, CreditElsewhere DEF TypeOK
    <3>2. Total'[b] = Total[b] BY <1>4, <1>5, <2>4, CreditElsewhere
    <3>3. QED BY <1>1, <2>1, <2>2, <3>1, <3>2
  <2>5. QED BY <2>3, <2>4
<1>7. QED BY <1>3, <1>6 DEF BelievedInv

\* An append whose confirm is lost moves the journal alone, and the history says so.
LEMMA BelievedInvUnconfirmed ==
    ASSUME TypeOK, LogInv, BelievedInv, running = "taking", running' = "taking",
           NEW t \in Transfers \cup {"OPENING"}, NEW a \in Accounts,
           NEW n \in Int, PostUnconfirmed(t, a, n)
    PROVE  LogInv' /\ BelievedInv'
<1>1. /\ Write(t, a, n)
      /\ unseen' = Credit(unseen, a, n)
      /\ overlooked' = IF n < 0 THEN Credit(overlooked, a, -n) ELSE overlooked
      /\ UNCHANGED <<accounts, position>>
  BY DEF PostUnconfirmed
<1>2. LogType /\ position \in Nat BY DEF TypeOK
<1>3. LogInv' BY <1>1, <1>2, LogInvWritten
<1>4. Total' = Credit(Total, a, n) BY <1>1, <1>2, WriteType
<1>5. Total \in [Accounts -> Int] /\ unseen \in [Accounts -> Int]
      /\ overlooked \in [Accounts -> Int]
  BY <1>2, TotalType DEF TypeOK
<1>6. ASSUME NEW b \in Accounts
      PROVE  accounts'[b] + unseen'[b] = Total'[b] /\ unseen'[b] >= -overlooked'[b]
             /\ Total'[b] >= -overlooked'[b]
  <2>1. /\ accounts[b] + unseen[b] = Total[b] /\ unseen[b] >= -overlooked[b]
        /\ Total[b] >= -overlooked[b]
    BY DEF BelievedInv
  <2>2. accounts[b] \in Int /\ unseen[b] \in Int /\ overlooked[b] \in Nat /\ Total[b] \in Int
    BY <1>5 DEF TypeOK
  <2>3. CASE b = a
    <3>1. unseen'[b] = unseen[b] + n /\ Total'[b] = Total[b] + n
      BY <1>1, <1>4, <1>5, <2>3, CreditType
    <3>2. n < 0 => overlooked'[b] = overlooked[b] - n
      <4>1. SUFFICES ASSUME n < 0 PROVE overlooked'[b] = overlooked[b] - n
        OBVIOUS
      <4>2. overlooked' = Credit(overlooked, a, -n) /\ -n \in Int BY <1>1, <4>1
      <4>3. overlooked'[b] = overlooked[b] + (-n) BY <1>5, <2>3, <4>2, CreditType
      <4>4. QED BY <2>2, <4>3
    <3>3. ~(n < 0) => overlooked'[b] = overlooked[b] BY <1>1
    <3>4. QED BY <1>1, <2>1, <2>2, <3>1, <3>2, <3>3
  <2>4. CASE b # a
    <3>1. unseen'[b] = unseen[b] BY <1>1, <1>5, <2>4, CreditElsewhere
    <3>2. Total'[b] = Total[b] BY <1>4, <1>5, <2>4, CreditElsewhere
    <3>3. overlooked'[b] = overlooked[b]
      <4>1. CASE n < 0 BY <1>1, <1>5, <2>4, <4>1, CreditElsewhere
      <4>2. CASE ~(n < 0) BY <1>1, <4>2
      <4>3. QED BY <4>1, <4>2
    <3>4. QED BY <1>1, <2>1, <2>2, <3>1, <3>2, <3>3
  <2>5. QED BY <2>3, <2>4
<1>7. QED BY <1>3, <1>6 DEF BelievedInv

LEMMA StartStep == ASSUME TypeOK, LogInv, BelievedInv, Start PROVE LogInv' /\ BelievedInv'
<1>1. /\ running' = "rebuild" /\ accounts' = Zero /\ position' = 0 /\ unseen' = Zero
      /\ UNCHANGED <<logVars, overlooked>>
  BY DEF Start
<1>2. LogType BY DEF TypeOK
<1>3. Len(journal) \in Nat BY <1>2 DEF LogType
<1>4. LogInv' /\ Total' = Total BY <1>1, <1>3, LogInvKept
<1>5. ASSUME NEW a \in Accounts
      PROVE  accounts'[a] + unseen'[a] = totals'[position' + 1][a]
             /\ unseen'[a] >= -overlooked'[a] /\ Total'[a] >= -overlooked'[a]
  <2>1. Zero[a] = 0 BY DEF Zero
  <2>2. totals'[position' + 1] = Zero BY <1>1 DEF LogInv
  <2>3. overlooked[a] \in Nat /\ Total[a] >= -overlooked[a] BY DEF TypeOK, BelievedInv
  <2>4. accounts'[a] = 0 /\ unseen'[a] = 0 /\ overlooked'[a] = overlooked[a] BY <1>1, <2>1
  <2>5. totals'[position' + 1][a] = 0 BY <2>1, <2>2
  <2>6. Total'[a] >= -overlooked'[a] BY <1>4, <2>3, <2>4
  <2>7. 0 >= -overlooked[a] BY <2>3
  <2>8. QED BY <2>4, <2>5, <2>6, <2>7
<1>6. QED BY <1>1, <1>4, <1>5 DEF BelievedInv

\* The entry under the reader is the difference between two balances of the journal.
LEMMA NextEntry ==
    ASSUME LogType, LogInv, position \in Nat, position < Len(journal)
    PROVE  LET entry == journal[position + 1]
           IN  /\ entry.account \in Accounts /\ entry.amount \in Int
               /\ totals[position + 1] \in [Accounts -> Int]
               /\ totals[position + 2] =
                      Credit(totals[position + 1], entry.account, entry.amount)
<1>1. journal \in Seq(Entries) /\ totals \in Seq([Accounts -> Int])
      /\ Len(totals) = Len(journal) + 1 /\ Len(journal) \in Nat
  BY DEF LogType
<1>2. position + 1 \in 1 .. Len(journal) /\ position + 1 \in 1 .. Len(totals)
  BY <1>1
<1>3. journal[position + 1] \in Entries BY <1>1, <1>2
<1>4. totals[position + 1] \in [Accounts -> Int] BY <1>1, <1>2
<1>5. totals[(position + 1) + 1] = Credit(totals[position + 1],
          journal[position + 1].account, journal[position + 1].amount)
  BY <1>2 DEF LogInv
<1>6. (position + 1) + 1 = position + 2 OBVIOUS
<1>7. QED BY <1>3, <1>4, <1>5, <1>6 DEF Entries

LEMMA ReadEntryStep ==
    ASSUME TypeOK, LogInv, BelievedInv, ReadEntry PROVE LogInv' /\ BelievedInv'
<1> DEFINE entry == journal[position + 1]  seen == totals[position + 1]
<1>1. /\ running = "rebuild" /\ position < Len(journal)
      /\ accounts' = Credit(accounts, entry.account, entry.amount)
      /\ position' = position + 1
      /\ UNCHANGED <<logVars, running, unseen, overlooked>>
  BY DEF ReadEntry
<1>2. LogType /\ position \in Nat BY DEF TypeOK
<1>3. /\ entry.account \in Accounts /\ entry.amount \in Int
      /\ seen \in [Accounts -> Int]
      /\ totals[position + 2] = Credit(seen, entry.account, entry.amount)
  BY <1>1, <1>2, NextEntry
<1>4. Len(journal) \in Nat BY <1>2 DEF LogType
<1>5. LogInv' /\ Total' = Total BY <1>1, <1>2, <1>4, LogInvKept
<1>6. totals'[position' + 1] = Credit(seen, entry.account, entry.amount)
  <2>1. position' + 1 = position + 2 BY <1>1, <1>2
  <2>2. totals' = totals BY <1>1
  <2>3. QED BY <1>3, <2>1, <2>2
<1>7. \A a \in Accounts :
        /\ accounts[a] + unseen[a] = seen[a] /\ unseen[a] >= -overlooked[a]
        /\ Total[a] >= -overlooked[a]
  BY <1>1 DEF BelievedInv
<1> HIDE DEF entry, seen
<1>8. ASSUME NEW a \in Accounts
      PROVE  accounts'[a] + unseen'[a] = totals'[position' + 1][a]
  <2>1. accounts[a] + unseen[a] = seen[a] /\ accounts[a] \in Int /\ unseen[a] \in Int
        /\ seen[a] \in Int
    BY <1>3, <1>7 DEF TypeOK
  <2>2. CASE a = entry.account
    <3>1. accounts'[a] = accounts[a] + entry.amount
      BY <1>1, <1>3, <2>2, CreditType DEF TypeOK
    <3>2. totals'[position' + 1][a] = seen[a] + entry.amount
      BY <1>3, <1>6, <2>2, CreditType
    <3>3. QED BY <1>1, <1>3, <2>1, <3>1, <3>2
  <2>3. CASE a # entry.account
    <3>1. accounts'[a] = accounts[a]
      BY <1>1, <1>3, <2>3, CreditElsewhere DEF TypeOK
    <3>2. totals'[position' + 1][a] = seen[a]
      BY <1>3, <1>6, <2>3, CreditElsewhere
    <3>3. QED BY <1>1, <2>1, <3>1, <3>2
  <2>4. QED BY <2>2, <2>3
<1>9. QED BY <1>1, <1>5, <1>7, <1>8 DEF BelievedInv

LEMMA ReadEntryInterruptedStep ==
    ASSUME TypeOK, LogInv, BelievedInv, ReadEntryInterrupted PROVE LogInv' /\ BelievedInv'
<1> DEFINE entry == journal[position + 1]
<1>1. /\ running = "rebuild" /\ position < Len(journal)
      /\ accounts' = Credit(accounts, entry.account, entry.amount)
      /\ unseen' = Credit(unseen, entry.account, -entry.amount)
      /\ entry.amount > 0 => overlooked' = Credit(overlooked, entry.account, entry.amount)
      /\ ~(entry.amount > 0) => overlooked' = overlooked
      /\ UNCHANGED <<logVars, running, position>>
  BY DEF ReadEntryInterrupted
<1>2. LogType /\ position \in Nat BY DEF TypeOK
<1>3. entry.account \in Accounts /\ entry.amount \in Int BY <1>1, <1>2, NextEntry
<1>4. LogInv' /\ Total' = Total BY <1>1, LogInvKept DEF LogInv
<1>5. overlooked \in [Accounts -> Int] /\ unseen \in [Accounts -> Int]
      /\ accounts \in [Accounts -> Int] /\ Total \in [Accounts -> Int]
  BY <1>2, TotalType DEF TypeOK
<1> HIDE DEF entry
<1>6. ASSUME NEW a \in Accounts
      PROVE  /\ accounts'[a] + unseen'[a] = accounts[a] + unseen[a]
             /\ unseen'[a] >= -overlooked'[a] /\ Total'[a] >= -overlooked'[a]
  <2>1. unseen[a] >= -overlooked[a] /\ Total[a] >= -overlooked[a] BY DEF BelievedInv
  <2>2. overlooked[a] \in Int /\ unseen[a] \in Int /\ accounts[a] \in Int /\ Total[a] \in Int
    BY <1>5
  <2>3. CASE a = entry.account
    <3>1. -entry.amount \in Int BY <1>3
    <3>2. accounts'[a] = accounts[a] + entry.amount BY <1>1, <1>3, <1>5, <2>3, CreditType
    <3>3. unseen'[a] = unseen[a] + (-entry.amount)
      BY <1>1, <1>3, <1>5, <2>3, <3>1, CreditType
    <3>4. entry.amount > 0 => overlooked'[a] = overlooked[a] + entry.amount
      <4>1. Credit(overlooked, entry.account, entry.amount)[a] = overlooked[a] + entry.amount
        BY <1>3, <1>5, <2>3, CreditType
      <4>2. QED BY <1>1, <4>1
    <3>5. ~(entry.amount > 0) => overlooked'[a] = overlooked[a] BY <1>1
    <3>6. Total'[a] = Total[a] BY <1>4
    <3>7. QED BY <1>3, <2>1, <2>2, <3>2, <3>3, <3>4, <3>5, <3>6
  <2>4. CASE a # entry.account
    <3>1. -entry.amount \in Int BY <1>3
    <3>2. accounts'[a] = accounts[a] BY <1>1, <1>3, <1>5, <2>4, CreditElsewhere
    <3>3. unseen'[a] = unseen[a] BY <1>1, <1>3, <1>5, <2>4, <3>1, CreditElsewhere
    <3>4. entry.amount > 0 => overlooked'[a] = overlooked[a]
      BY <1>1, <1>3, <1>5, <2>4, CreditElsewhere
    <3>5. ~(entry.amount > 0) => overlooked'[a] = overlooked[a] BY <1>1
    <3>6. QED BY <1>4, <2>1, <3>2, <3>3, <3>4, <3>5
  <2>5. QED BY <2>3, <2>4
<1>7. QED BY <1>1, <1>4, <1>6 DEF BelievedInv

LEMMA StopReadingStep ==
    ASSUME TypeOK, LogInv, BelievedInv, StopReading PROVE LogInv' /\ BelievedInv'
<1>1. /\ running = "rebuild" /\ position = Len(journal) /\ running' = "taking"
      /\ UNCHANGED <<logVars, accounts, position, missedVars>>
  BY DEF StopReading
<1>2. LogType BY DEF TypeOK
<1>3. Total = totals[position + 1] BY <1>1, <1>2 DEF Total, LogType
<1>4. LogInv' /\ Total' = Total BY <1>1, LogInvKept DEF LogInv
<1>5. QED BY <1>1, <1>3, <1>4 DEF BelievedInv

LEMMA StopReadingEarlyStep ==
    ASSUME TypeOK, LogInv, BelievedInv, StopReadingEarly PROVE LogInv' /\ BelievedInv'
<1>1. /\ running' = "taking"
      /\ unseen' = [a \in Accounts |-> Total[a] - accounts[a]]
      /\ overlooked' = [a \in Accounts |->
             IF accounts[a] > Total[a] THEN overlooked[a] + accounts[a] - Total[a]
                                       ELSE overlooked[a]]
      /\ UNCHANGED <<logVars, accounts, position>>
  BY DEF StopReadingEarly
<1>2. LogType BY DEF TypeOK
<1>3. LogInv' /\ Total' = Total BY <1>1, LogInvKept DEF LogInv
<1>4. Total \in [Accounts -> Int] BY <1>2, TotalType
<1>5. ASSUME NEW a \in Accounts
      PROVE  accounts'[a] + unseen'[a] = Total'[a] /\ unseen'[a] >= -overlooked'[a]
             /\ Total'[a] >= -overlooked'[a]
  <2>1. Total[a] >= -overlooked[a] BY DEF BelievedInv
  <2>2. overlooked[a] \in Nat /\ accounts[a] \in Int /\ Total[a] \in Int
    BY <1>4 DEF TypeOK
  <2>3. /\ unseen'[a] = Total[a] - accounts[a]
        /\ overlooked'[a] = IF accounts[a] > Total[a]
                              THEN overlooked[a] + accounts[a] - Total[a]
                              ELSE overlooked[a]
        /\ accounts'[a] = accounts[a] /\ Total'[a] = Total[a]
    BY <1>1, <1>3
  <2>4. QED BY <2>1, <2>2, <2>3
<1>6. QED BY <1>1, <1>3, <1>5 DEF BelievedInv

LEMMA NextBelievedInv == LedgerInv /\ [Next]_vars => LogInv' /\ BelievedInv'
<1> SUFFICES ASSUME LedgerInv, [Next]_vars PROVE LogInv' /\ BelievedInv'
  OBVIOUS
<1>1. TypeOK /\ LogInv /\ BelievedInv /\ CheckedInv BY DEF LedgerInv
<1>2. CASE Start BY <1>1, <1>2, StartStep
<1>3. CASE ReadEntry BY <1>1, <1>3, ReadEntryStep
<1>4. CASE ReadEntryInterrupted BY <1>1, <1>4, ReadEntryInterruptedStep
<1>5. CASE StopReading BY <1>1, <1>5, StopReadingStep
<1>6. CASE StopReadingEarly BY <1>1, <1>6, StopReadingEarlyStep
<1>7. ASSUME NEW a \in Accounts, Fund(a) PROVE LogInv' /\ BelievedInv'
  <2>1. Post("OPENING", a, Opening[a]) /\ running = "taking" /\ running' = "taking"
    BY <1>7 DEF Fund, FundSteps
  <2>2. Opening[a] \in Int /\ Opening[a] >= 0 BY LedgerAssumption
  <2>3. QED BY <1>1, <2>1, <2>2, BelievedInvPosted
<1>8. ASSUME NEW a \in Accounts, FundUnconfirmed(a) PROVE LogInv' /\ BelievedInv'
  <2>1. /\ PostUnconfirmed("OPENING", a, Opening[a])
        /\ running = "taking" /\ running' = "taking"
    BY <1>8 DEF FundUnconfirmed, FundSteps
  <2>2. Opening[a] \in Int BY LedgerAssumption
  <2>3. QED BY <1>1, <2>1, <2>2, BelievedInvUnconfirmed
<1>9. msg \in Transfers /\ From[msg] \in Accounts /\ To[msg] \in Accounts
      /\ Amount[msg] \in Int /\ accounts[From[msg]] \in Int
  BY <1>1, LedgerAssumption DEF TypeOK
<1>10. CASE PostDebit
  <2>1. /\ Post(msg, From[msg], -Amount[msg])
        /\ running = "taking" /\ running' = "taking"
        /\ accounts[From[msg]] >= Amount[msg]
    BY <1>1, <1>10 DEF PostDebit, CheckedInv
  <2>2. -Amount[msg] \in Int /\ accounts[From[msg]] + (-Amount[msg]) >= 0 BY <1>9, <2>1
  <2>3. QED BY <1>1, <1>9, <2>1, <2>2, BelievedInvPosted
<1>11. CASE PostCredit
  <2>1. /\ Post(msg, To[msg], Amount[msg])
        /\ running = "taking" /\ running' = "taking" /\ Amount[msg] > 0
    BY <1>1, <1>11 DEF PostCredit, CheckedInv
  <2>2. Amount[msg] >= 0 BY <1>9, <2>1
  <2>3. QED BY <1>1, <1>9, <2>1, <2>2, BelievedInvPosted
<1>12. CASE PostDebitUnconfirmed
  <2>1. /\ PostUnconfirmed(msg, From[msg], -Amount[msg])
        /\ running = "taking" /\ running' = "taking"
    BY <1>1, <1>12 DEF PostDebitUnconfirmed, CheckedInv
  <2>2. -Amount[msg] \in Int BY <1>9
  <2>3. QED BY <1>1, <1>9, <2>1, <2>2, BelievedInvUnconfirmed
<1>13. CASE PostCreditUnconfirmed
  <2>1. /\ PostUnconfirmed(msg, To[msg], Amount[msg])
        /\ running = "taking" /\ running' = "taking"
    BY <1>1, <1>13 DEF PostCreditUnconfirmed, CheckedInv
  <2>2. QED BY <1>1, <1>9, <2>1, BelievedInvUnconfirmed
<1>14. CASE \/ \E t \in Transfers : Request(t)
            \/ Deliver \/ Decide \/ Reject \/ Settle
            \/ PostFailed \/ RejectFailed \/ RejectUnconfirmed \/ ConnectionDropped
            \/ \E a \in Accounts : FundFailed(a)
            \/ UNCHANGED vars
  <2>1. UNCHANGED <<logVars, missedVars, accounts, position, running>>
    BY <1>14 DEF Request, Deliver, Decide, Reject, Settle, PostFailed, RejectFailed,
       RejectUnconfirmed, ConnectionDropped, FundFailed, FundSteps, NotWritten, vars
  <2>2. QED BY <1>1, <2>1, BelievedInvKept
<1>15. CASE Close \/ Crash
  <2>1. running' = "down" /\ UNCHANGED <<logVars, missedVars, position>>
    BY <1>15 DEF Close, Crash, Stopped
  <2>2. LogInv' /\ Total' = Total BY <1>1, <2>1, LogInvKept DEF LogInv
  <2>3. QED BY <1>1, <2>1, <2>2 DEF BelievedInv
<1>16. QED
  BY <1>2, <1>3, <1>4, <1>5, <1>6, <1>7, <1>8, <1>10, <1>11, <1>12, <1>13, <1>14, <1>15
  DEF Next, Work, Failure

LEMMA NextCheckedInv == LedgerInv /\ [Next]_vars => CheckedInv'
<1> SUFFICES ASSUME LedgerInv, [Next]_vars PROVE CheckedInv'
  OBVIOUS
<1>1. TypeOK /\ CheckedInv BY DEF LedgerInv
<1>2. CASE \/ Start \/ ReadEntry \/ ReadEntryInterrupted \/ StopReading \/ StopReadingEarly
  <2>1. UNCHANGED consumerVars /\ running # "taking" /\ pc = "idle"
    BY <1>1, <1>2 DEF Start, ReadEntry, ReadEntryInterrupted, StopReading, StopReadingEarly,
       CheckedInv
  <2>2. QED BY <2>1 DEF CheckedInv
<1>3. ASSUME NEW a \in Accounts, Fund(a) PROVE CheckedInv'
  <2>1. accounts' = Credit(accounts, a, Opening[a]) /\ running' = running
        /\ UNCHANGED consumerVars
    BY <1>3 DEF Fund, FundSteps, Post
  <2>2. accounts \in [Accounts -> Int] /\ Opening[a] \in Int /\ Opening[a] >= 0
    BY <1>1, LedgerAssumption DEF TypeOK
  <2>3. ASSUME NEW b \in Accounts PROVE accounts'[b] >= accounts[b]
    <3>1. CASE b = a
      <4>1. accounts'[b] = accounts[b] + Opening[a] BY <2>1, <2>2, <3>1, CreditType
      <4>2. QED BY <2>2, <4>1
    <3>2. CASE b # a
      <4>1. accounts'[b] = accounts[b] BY <2>1, <2>2, <3>2, CreditElsewhere
      <4>2. QED BY <2>2, <4>1
    <3>3. QED BY <3>1, <3>2
  <2>4. From[msg] \in Accounts /\ Amount[msg] \in Int /\ accounts[From[msg]] \in Int
        /\ accounts'[From[msg]] \in Int
    BY <1>1, <2>1, <2>2, CreditType, LedgerAssumption DEF TypeOK
  <2>5. accounts[From[msg]] >= Amount[msg] => accounts'[From[msg]] >= Amount[msg]
    BY <2>3, <2>4
  <2>6. QED BY <1>1, <2>1, <2>5 DEF CheckedInv
<1>4. CASE Decide
  BY <1>1, <1>4 DEF CheckedInv, Decide, Allowed, Goto
<1>5. CASE PostDebit
  BY <1>1, <1>5 DEF CheckedInv, PostDebit, Goto
<1>6. CASE \/ PostCredit \/ Reject \/ PostFailed \/ PostDebitUnconfirmed
           \/ PostCreditUnconfirmed \/ RejectFailed \/ RejectUnconfirmed
  <2>1. pc' \notin {"debit", "credit"} /\ pc # "idle" /\ running' = running
    BY <1>6 DEF PostCredit, Reject, PostFailed, PostDebitUnconfirmed,
       PostCreditUnconfirmed, RejectFailed, RejectUnconfirmed, Goto
  <2>2. QED BY <1>1, <2>1 DEF CheckedInv
<1>7. CASE Deliver
  BY <1>1, <1>7 DEF CheckedInv, Deliver, Queue!Deliver
<1>8. CASE Settle
  BY <1>1, <1>8 DEF CheckedInv, Settle, Queue!Settle
<1>9. CASE ConnectionDropped
  <2>1. UNCHANGED <<pc, msg, running, accounts>> BY <1>9 DEF ConnectionDropped, Queue!Drop
  <2>2. QED BY <1>1, <2>1 DEF CheckedInv
<1>10. CASE Close
  BY <1>10 DEF CheckedInv, Close
<1>11. CASE Crash
  BY <1>11 DEF CheckedInv, Crash, Queue!Die
<1>12. CASE \/ \E t \in Transfers : Request(t)
            \/ \E a \in Accounts : FundFailed(a) \/ FundUnconfirmed(a)
            \/ UNCHANGED vars
  <2>1. UNCHANGED <<pc, msg, running, accounts>>
    BY <1>12 DEF Request, FundFailed, FundUnconfirmed, FundSteps, NotWritten,
       PostUnconfirmed, vars
  <2>2. QED BY <1>1, <2>1 DEF CheckedInv
<1>13. QED
  BY <1>2, <1>3, <1>4, <1>5, <1>6, <1>7, <1>8, <1>9, <1>10, <1>11, <1>12
  DEF Next, Work, Failure

LEMMA NextDeliveryInv == LedgerInv /\ [Next]_vars => DeliveryInv'
<1> SUFFICES ASSUME LedgerInv, [Next]_vars PROVE DeliveryInv'
  OBVIOUS
<1>1. TypeOK /\ DeliveryInv BY DEF LedgerInv
<1>2. /\ copy \in [Transfers -> Queue!CopyStates] /\ msg \in Transfers /\ pc \in Phases
      /\ stale \in BOOLEAN /\ faults \in Nat
      /\ debits \in [Transfers -> Nat] /\ rejectedOut \in [Transfers -> Nat]
  BY <1>1, LedgerAssumption DEF TypeOK
<1> USE <1>2 DEF DeliveryInv, Decisions, Phases, Queue!CopyStates, Goto, Fault
<1>3. CASE /\ UNCHANGED <<consumerVars, rejectedOut, debits>>
           /\ faults' \in Nat /\ faults' >= faults
  BY <1>1, <1>3
<1>4. CASE \/ Start \/ ReadEntry \/ ReadEntryInterrupted \/ StopReading \/ StopReadingEarly
           \/ Close
           \/ \E a \in Accounts : Fund(a) \/ FundFailed(a) \/ FundUnconfirmed(a)
           \/ UNCHANGED vars
  <2>1. /\ UNCHANGED <<consumerVars, rejectedOut, debits>>
        /\ faults' \in Nat /\ faults' >= faults
    BY <1>4 DEF Start, ReadEntry, ReadEntryInterrupted, StopReading, StopReadingEarly,
       Close, Stopped, Fund, FundFailed, FundUnconfirmed, FundSteps, vars
  <2>2. QED BY <1>3, <2>1
<1>5. ASSUME NEW t \in Transfers, Request(t) PROVE DeliveryInv'
  BY <1>1, <1>5 DEF Request, Queue!Arrive
<1>6. CASE Deliver
  BY <1>1, <1>6 DEF Deliver, Queue!Deliver, Queue!Take
<1>7. CASE Decide
  BY <1>1, <1>7 DEF Decide
<1>8. CASE PostDebit
  BY <1>1, <1>8 DEF PostDebit
<1>9. CASE PostCredit
  BY <1>1, <1>9 DEF PostCredit
<1>10. CASE PostFailed
  BY <1>1, <1>10 DEF PostFailed
<1>11. CASE PostDebitUnconfirmed
  <2>1. /\ pc = "debit" /\ pc' = "park" /\ faults' = faults + 1
        /\ debits' = [debits EXCEPT ![msg] = @ + 1]
        /\ UNCHANGED <<copy, msg, stale, rejectedOut>>
    BY <1>11 DEF PostDebitUnconfirmed
  <2>2. Decisions(msg)' = Decisions(msg) + 1 /\ Decisions(msg) <= faults
    BY <1>1, <2>1
  <2>3. \A t \in Transfers \ {msg} : Decisions(t)' = Decisions(t) BY <2>1
  <2>4. Decisions(msg) \in Nat /\ (stale => Decisions(msg) <= faults - 1) BY <1>1, <2>1
  <2>5. ASSUME NEW t \in Transfers
        PROVE  /\ Decisions(t)' <= 1 + faults'
               /\ copy'[t] = "absent" => Decisions(t)' = 0
               /\ copy'[t] = "ready" => Decisions(t)' <= faults'
               /\ copy'[t] = "held" => pc' # "idle" /\ msg' = t /\ ~stale'
    <3>1. CASE t = msg
      <4>1. copy[msg] = IF stale THEN "ready" ELSE "held" BY <1>1, <2>1
      <4>2. QED BY <2>1, <2>2, <2>4, <3>1, <4>1
    <3>2. CASE t # msg
      <4>1. Decisions(t)' = Decisions(t) /\ Decisions(t) \in Nat BY <2>3, <3>2
      <4>2. QED BY <1>1, <2>1, <3>2, <4>1
    <3>3. QED BY <3>1, <3>2
  <2>6. copy'[msg'] = IF stale' THEN "ready" ELSE "held" BY <1>1, <2>1
  <2>7. QED BY <2>1, <2>5, <2>6
<1>12. CASE PostCreditUnconfirmed
  BY <1>1, <1>12 DEF PostCreditUnconfirmed
<1>13. CASE Reject
  BY <1>1, <1>13 DEF Reject
<1>14. CASE RejectFailed
  BY <1>1, <1>14 DEF RejectFailed
<1>15. CASE RejectUnconfirmed
  BY <1>1, <1>15 DEF RejectUnconfirmed
<1>16. CASE Settle
  <2>1. CASE stale
    BY <1>1, <1>16, <2>1 DEF Settle, Queue!Settle
  <2>2. CASE ~stale /\ pc = "accept"
    BY <1>1, <1>16, <2>2 DEF Settle, Queue!Settle, Queue!Accept
  <2>3. CASE ~stale /\ pc = "retry"
    BY <1>1, <1>16, <2>3 DEF Settle, Queue!Settle, Queue!Retry
  <2>4. CASE ~stale /\ pc = "park"
    BY <1>1, <1>16, <2>4 DEF Settle, Queue!Settle, Queue!Park
  <2>5. QED BY <1>16, <2>1, <2>2, <2>3, <2>4 DEF Settle, Queue!Settle
<1>17. CASE ConnectionDropped
  BY <1>1, <1>17 DEF ConnectionDropped, Queue!Drop, Queue!Requeue
<1>18. CASE Crash
  <2>1. CASE pc = "idle" /\ UNCHANGED consumerVars
    BY <1>3, <1>18, <2>1 DEF Crash, Stopped
  <2>2. CASE Queue!Die
    BY <1>1, <1>18, <2>2 DEF Crash, Stopped, Queue!Die, Queue!Requeue
  <2>3. QED BY <1>18, <2>1, <2>2 DEF Crash
<1>19. QED
  BY <1>4, <1>5, <1>6, <1>7, <1>8, <1>9, <1>10, <1>11, <1>12, <1>13, <1>14, <1>15,
     <1>16, <1>17, <1>18
  DEF Next, Work, Failure

LEMMA NextHalvesInv == LedgerInv /\ [Next]_vars => HalvesInv'
<1> SUFFICES ASSUME LedgerInv, [Next]_vars PROVE HalvesInv'
  OBVIOUS
<1>1. TypeOK /\ HalvesInv BY DEF LedgerInv
<1>2. /\ copy \in [Transfers -> Queue!CopyStates] /\ msg \in Transfers /\ pc \in Phases
      /\ stale \in BOOLEAN /\ torn \subseteq Transfers
      /\ debits \in [Transfers -> Nat] /\ credits \in [Transfers -> Nat]
  BY <1>1 DEF TypeOK
<1>3. pc # "idle" => copy[msg] # "parked" BY DEF LedgerInv, DeliveryInv
<1> USE <1>2 DEF HalvesInv, UnbalancedIsParked, Phases, Queue!CopyStates, Goto
<1>4. CASE \/ Start \/ ReadEntry \/ ReadEntryInterrupted \/ StopReading \/ StopReadingEarly
           \/ Close
           \/ \E a \in Accounts : Fund(a) \/ FundFailed(a) \/ FundUnconfirmed(a)
           \/ UNCHANGED vars
  <2>1. UNCHANGED <<consumerVars, halfVars, torn>>
    BY <1>4 DEF Start, ReadEntry, ReadEntryInterrupted, StopReading, StopReadingEarly,
       Close, Stopped, Fund, FundFailed, FundUnconfirmed, FundSteps, vars
  <2>2. QED BY <1>1, <2>1
<1>5. ASSUME NEW t \in Transfers, Request(t) PROVE HalvesInv'
  BY <1>1, <1>5 DEF Request, Queue!Arrive
<1>6. CASE Deliver
  BY <1>1, <1>6 DEF Deliver, Queue!Deliver, Queue!Take
<1>7. CASE Decide \/ Reject \/ RejectFailed \/ RejectUnconfirmed
  BY <1>1, <1>7 DEF Decide, Reject, RejectFailed, RejectUnconfirmed
<1>8. CASE PostDebit
  BY <1>1, <1>3, <1>8 DEF PostDebit
<1>9. CASE PostCredit
  BY <1>1, <1>9 DEF PostCredit
<1>10. CASE PostFailed
  BY <1>1, <1>10 DEF PostFailed
<1>11. CASE PostDebitUnconfirmed
  BY <1>1, <1>11 DEF PostDebitUnconfirmed
<1>12. CASE PostCreditUnconfirmed
  BY <1>1, <1>12 DEF PostCreditUnconfirmed
<1>13. CASE Settle
  <2>1. CASE stale
    BY <1>1, <1>13, <2>1 DEF Settle, Queue!Settle
  <2>2. CASE ~stale /\ pc = "accept"
    BY <1>1, <1>3, <1>13, <2>2 DEF Settle, Queue!Settle, Queue!Accept
  <2>3. CASE ~stale /\ pc = "retry"
    BY <1>1, <1>3, <1>13, <2>3 DEF Settle, Queue!Settle, Queue!Retry
  <2>4. CASE ~stale /\ pc = "park"
    BY <1>1, <1>13, <2>4 DEF Settle, Queue!Settle, Queue!Park
  <2>5. QED BY <1>13, <2>1, <2>2, <2>3, <2>4 DEF Settle, Queue!Settle
<1>14. CASE ConnectionDropped
  BY <1>1, <1>3, <1>14 DEF ConnectionDropped, Queue!Drop, Queue!Requeue
<1>15. CASE Crash
  <2>1. CASE pc = "idle" /\ UNCHANGED consumerVars
    BY <1>1, <1>15, <2>1 DEF Crash, Stopped
  <2>2. CASE Queue!Die
    BY <1>1, <1>3, <1>15, <2>2 DEF Crash, Stopped, Queue!Die, Queue!Requeue
  <2>3. QED BY <1>15, <2>1, <2>2 DEF Crash
<1>16. QED
  BY <1>4, <1>5, <1>6, <1>7, <1>8, <1>9, <1>10, <1>11, <1>12, <1>13, <1>14, <1>15
  DEF Next, Work, Failure

\* What makes the four theorems below inductive, all at once.
THEOREM LedgerInvariant == Spec => []LedgerInv
<1>1. LedgerInv /\ [Next]_vars => LedgerInv'
  BY NextTypeOK, NextBelievedInv, NextCheckedInv, NextDeliveryInv, NextHalvesInv DEF LedgerInv
<1>2. QED BY <1>1, InitLedgerInv, PTL DEF Spec

\* The balances are the log, but for what faults are on record to have hidden.
THEOREM BalancesAreTheLog == Spec => []MemoryIsTheLog
<1>1. LedgerInv => MemoryIsTheLog BY DEF LedgerInv, BelievedInv, MemoryIsTheLog
<1>2. QED BY <1>1, LedgerInvariant, PTL

\* An account goes no further below zero than faults made it look fuller.
THEOREM OverdraftsAreBounded == Spec => []OverdraftBound
<1>1. LedgerInv => OverdraftBound BY DEF LedgerInv, BelievedInv, OverdraftBound
<1>2. QED BY <1>1, LedgerInvariant, PTL

\* Half a transfer is in progress, with a human, or torn by a fault.
THEOREM HalvesAreParked == Spec => []UnbalancedIsParked
<1>1. LedgerInv => UnbalancedIsParked BY DEF LedgerInv, HalvesInv
<1>2. QED BY <1>1, LedgerInvariant, PTL

\* A command is decided again only after a fault.
THEOREM PaidDecisions == Spec => []DecisionsArePaidFor
<1>1. LedgerInv => DecisionsArePaidFor
  BY DEF LedgerInv, DeliveryInv, Decisions, DecisionsArePaidFor
<1>2. QED BY <1>1, LedgerInvariant, PTL
=============================================================================
