-------------------------- MODULE Examples_proof ----------------------------
(***************************************************************************)
(* Proofs about the examples of basic/ and advanced/, the readers of       *)
(* apps/03 and the outbox of intermediate/03 and apps/01, for any number   *)
(* of messages, entries, keys, requests and faults.  Every section has an  *)
(* invariant that the initial states have and the steps keep; the last one *)
(* puts the examples together, and proves what MCExamples states of them.  *)
(***************************************************************************)
EXTENDS Outbox, MCExamples, Sums, SequenceTheorems

\* The outbox.  Who may hold the connection, what an open transaction still knows of
\* the committed tables because it holds it, and what a record that is still in the
\* table owes to a fault.
USE DEF tableVars, requestVars, relayVars

ConnInv ==
    /\ \A r \in conn : conn = {r}
    /\ \A r \in Requests : r \in conn <=> pc[r] \in InTransaction
    /\ \A r \in Requests : pc[r] \in {"add", "commit"} => id[r] \notin orders

RelayInv ==
    /\ confirmed \subseteq batch /\ batch \subseteq outbox
    /\ \A o \in Orders : o \in orders <=> o \in outbox \/ announced[o] > 0
    /\ \A o \in confirmed : announced[o] > 0 /\ confirmed = {o}
    /\ \A o \in outbox \ confirmed : announced[o] <= faults
    /\ RepeatsArePaidFor

AnswerInv ==
    /\ \A r \in Requests : answer[r] = "placed" =>
           id[r] \in orders /\ pc[r] = "answered"
    /\ AnswersAreKept

OutboxInv == TypeOK /\ ConnInv /\ RelayInv /\ AnswerInv

LEMMA InitOutboxInv == Init => OutboxInv
  BY OutboxAssumption, FS_EmptySet DEF Init, OutboxInv, TypeOK, Phases, ConnInv, RelayInv,
     AnswerInv, RepeatsArePaidFor, AnswersAreKept, InTransaction

LEMMA StoreType ==
    ASSUME TypeOK, NEW o \in Orders, Store(o)
    PROVE  /\ orders' \subseteq Orders /\ IsFiniteSet(orders')
           /\ outbox' \subseteq Orders
           /\ age' \in [Orders -> Nat]
  BY FS_AddElement, FS_CardinalityType DEF TypeOK, Store

LEMMA NextTypeOK == TypeOK /\ [Next]_vars => TypeOK'
<1> SUFFICES ASSUME TypeOK, [Next]_vars PROVE TypeOK'
  OBVIOUS
<1> USE DEF Phases, Goto, Answer, Fault
<1>1. CASE \E r \in Requests : Call(r) \/ Begin(r) \/ Insert(r) \/ Add(r) \/ Rollback(r)
  BY <1>1 DEF TypeOK, Call, Begin, Insert, Add, Rollback
<1>2. ASSUME NEW r \in Requests, Commit(r) PROVE TypeOK'
  <2>1. id[r] \in Orders /\ Store(id[r]) BY <1>2 DEF TypeOK, Commit
  <2>2. QED BY <1>2, <2>1, StoreType DEF TypeOK, Commit
<1>3. ASSUME NEW r \in Requests, CommitUnconfirmed(r) PROVE TypeOK'
  <2>1. id[r] \in Orders /\ Store(id[r]) BY <1>3 DEF TypeOK, CommitUnconfirmed
  <2>2. QED BY <1>3, <2>1, StoreType, OutboxAssumption DEF TypeOK, CommitUnconfirmed
<1>4. CASE \E r \in Requests : BeginFailed(r) \/ StatementFailed(r)
  BY <1>4, OutboxAssumption DEF TypeOK, BeginFailed, StatementFailed
<1>5. CASE Relay
  <2>1. Pending \subseteq outbox BY DEF Pending
  <2>2. QED BY <1>5, <2>1 DEF TypeOK, Relay, RelayPoll, RelaySend, RelayDelete
<1>6. CASE \E o \in Orders : RelaySendFailed(o) \/ RelaySendUnconfirmed(o) \/ RelayDeleteFailed(o)
  BY <1>6, OutboxAssumption DEF TypeOK, RelaySendFailed, RelaySendUnconfirmed, RelayDeleteFailed
<1>7. CASE Crash
  BY <1>7, OutboxAssumption DEF TypeOK, Crash
<1>8. CASE UNCHANGED vars
  BY <1>8 DEF TypeOK, vars
<1>9. QED
  BY <1>1, <1>2, <1>3, <1>4, <1>5, <1>6, <1>7, <1>8 DEF Next, PlaceOrder, Failure

\* Every variable of the gateway keeps its type.
THEOREM TypeCorrect == Spec => []TypeOK
<1>1. Init => TypeOK BY InitOutboxInv DEF OutboxInv
<1>2. QED BY <1>1, NextTypeOK, PTL DEF Spec

LEMMA RequestStep ==
    ASSUME OutboxInv, NEW r \in Requests,
           Call(r) \/ PlaceOrder(r) \/ BeginFailed(r) \/ StatementFailed(r) \/ CommitUnconfirmed(r)
    PROVE  ConnInv' /\ RelayInv' /\ AnswerInv'
<1> USE DEF OutboxInv, TypeOK, Phases, InTransaction, ConnInv, RelayInv, AnswerInv,
      RepeatsArePaidFor, AnswersAreKept, Goto, Answer, Fault
<1>1. CASE Call(r)
  BY <1>1 DEF Call
<1>2. CASE Begin(r)
  BY <1>2 DEF Begin
<1>3. CASE Insert(r)
  BY <1>3 DEF Insert
<1>4. CASE Add(r)
  BY <1>4 DEF Add
<1>5. CASE Commit(r)
  BY <1>5 DEF Commit, Store
<1>6. CASE Rollback(r)
  BY <1>6 DEF Rollback
<1>7. CASE BeginFailed(r)
  BY <1>7 DEF BeginFailed
<1>8. CASE StatementFailed(r)
  BY <1>8 DEF StatementFailed
<1>9. CASE CommitUnconfirmed(r)
  BY <1>9 DEF CommitUnconfirmed, Store
<1>10. QED
  BY <1>1, <1>2, <1>3, <1>4, <1>5, <1>6, <1>7, <1>8, <1>9 DEF PlaceOrder

LEMMA RelayStep ==
    ASSUME OutboxInv,
           \/ Relay
           \/ \E o \in Orders : \/ RelaySendFailed(o)
                                \/ RelaySendUnconfirmed(o)
                                \/ RelayDeleteFailed(o)
    PROVE  ConnInv' /\ RelayInv' /\ AnswerInv'
<1> USE DEF OutboxInv, TypeOK, ConnInv, RelayInv, AnswerInv, RepeatsArePaidFor,
      AnswersAreKept, Fault
<1>1. CASE RelayPoll
  BY <1>1 DEF RelayPoll, Pending
<1>2. ASSUME NEW o \in Orders, RelaySend(o) PROVE ConnInv' /\ RelayInv' /\ AnswerInv'
  BY <1>2 DEF RelaySend
<1>3. ASSUME NEW o \in Orders, RelayDelete(o) PROVE ConnInv' /\ RelayInv' /\ AnswerInv'
  BY <1>3 DEF RelayDelete
<1>4. ASSUME NEW o \in Orders, RelaySendFailed(o) PROVE ConnInv' /\ RelayInv' /\ AnswerInv'
  BY <1>4 DEF RelaySendFailed
<1>5. ASSUME NEW o \in Orders, RelaySendUnconfirmed(o) PROVE ConnInv' /\ RelayInv' /\ AnswerInv'
  BY <1>5 DEF RelaySendUnconfirmed
<1>6. ASSUME NEW o \in Orders, RelayDeleteFailed(o) PROVE ConnInv' /\ RelayInv' /\ AnswerInv'
  BY <1>6 DEF RelayDeleteFailed
<1>7. QED BY <1>1, <1>2, <1>3, <1>4, <1>5, <1>6 DEF Relay

LEMMA NextOutboxInv == OutboxInv /\ [Next]_vars => OutboxInv'
<1> SUFFICES ASSUME OutboxInv, [Next]_vars PROVE ConnInv' /\ RelayInv' /\ AnswerInv'
  BY NextTypeOK DEF OutboxInv
<1>1. CASE Crash
  BY <1>1 DEF Crash, OutboxInv, TypeOK, Phases, InTransaction, ConnInv, RelayInv, AnswerInv,
     RepeatsArePaidFor, AnswersAreKept, Fault
<1>2. CASE UNCHANGED vars
  BY <1>2 DEF vars, OutboxInv, TypeOK, ConnInv, RelayInv, AnswerInv, RepeatsArePaidFor,
     AnswersAreKept, InTransaction
<1>3. QED BY <1>1, <1>2, RequestStep, RelayStep DEF Next, Failure

LEMMA OutboxInvHolds == Spec => []OutboxInv
  BY InitOutboxInv, NextOutboxInv, PTL DEF Spec

\* Whatever fails, a committed order is announced or waits in the table, and
\* nothing is announced of an order that was not committed.
THEOREM TransactionalOutbox == Spec => []NothingLostOrInvented
<1>1. OutboxInv => NothingLostOrInvented
  BY DEF OutboxInv, RelayInv, NothingLostOrInvented
<1>2. QED BY <1>1, OutboxInvHolds, PTL

\* The id a caller was given is on record, and is nobody else's.
THEOREM KeptAnswers == Spec => []AnswersAreKept
<1>1. OutboxInv => AnswersAreKept BY DEF OutboxInv, AnswerInv
<1>2. QED BY <1>1, OutboxInvHolds, PTL

\* Without faults every order is announced exactly once at most.
THEOREM PaidRepeats == Spec => []RepeatsArePaidFor
<1>1. OutboxInv => RepeatsArePaidFor BY DEF OutboxInv, RelayInv
<1>2. QED BY <1>1, OutboxInvHolds, PTL

LEMMA InitPromise == Init => Promise!Init
  BY DEF Init, Promise!Init

LEMMA StepPromise == OutboxInv /\ [Next]_vars => [Promise!Next]_(Promise!vars)
<1> SUFFICES ASSUME OutboxInv, [Next]_vars
             PROVE  Promise!Next \/ UNCHANGED Promise!vars
  OBVIOUS
<1> USE DEF Promise!vars
<1>1. CASE \E r \in Requests : Commit(r) \/ CommitUnconfirmed(r)
  <2> PICK r \in Requests : Commit(r) \/ CommitUnconfirmed(r) BY <1>1
  <2>1. id[r] \in Orders /\ id[r] \notin orders
    BY DEF OutboxInv, TypeOK, ConnInv, Commit, CommitUnconfirmed
  <2>2. Promise!Place(id[r])
    BY <2>1 DEF Promise!Place, Commit, CommitUnconfirmed, Store
  <2>3. QED BY <2>1, <2>2 DEF Promise!Next
<1>2. CASE \E o \in Orders : RelaySend(o) \/ RelaySendUnconfirmed(o)
  <2> PICK o \in Orders : RelaySend(o) \/ RelaySendUnconfirmed(o) BY <1>2
  <2>1. o \in orders BY DEF OutboxInv, RelayInv, RelaySend, RelaySendUnconfirmed
  <2>2. Promise!Announce(o)
    BY <2>1 DEF Promise!Announce, RelaySend, RelaySendUnconfirmed
  <2>3. QED BY <2>2 DEF Promise!Next
<1>3. CASE \E r \in Requests : Call(r) \/ Begin(r) \/ Insert(r) \/ Add(r) \/ Rollback(r)
                               \/ BeginFailed(r) \/ StatementFailed(r)
  BY <1>3 DEF Call, Begin, Insert, Add, Rollback, BeginFailed, StatementFailed
<1>4. CASE RelayPoll \/ Crash \/ UNCHANGED vars
  BY <1>4 DEF RelayPoll, Crash, vars
<1>5. CASE \E o \in Orders : RelayDelete(o) \/ RelaySendFailed(o) \/ RelayDeleteFailed(o)
  BY <1>5 DEF RelayDelete, RelaySendFailed, RelayDeleteFailed
<1>6. QED BY <1>1, <1>2, <1>3, <1>4, <1>5 DEF Next, PlaceOrder, Relay, Failure

\* The table, the transactions and the relay together implement the promise the
\* rest of the system relies on.
THEOREM Refinement == Spec => Promise!Spec
  BY InitPromise, StepPromise, OutboxInvHolds, PTL DEF Spec, Promise!Spec

HIDE DEF tableVars, requestVars, relayVars
-----------------------------------------------------------------------------
\* basic/02-retries-and-dead-letters.  The payment of the second half is with the
\* second consumer only, at its first attempt; and while nothing came back there is
\* one message of a payment, at the attempt that follows those that were noted.
Letters == [pay : Retries!Pays, no : Nat, attempt : 1..Policy,
            at : {"queue", "retrying", "fatal", "dead"}]

Alone == \A c, d \in payments : c.pay = d.pay => c = d

Noted(c) ==
    /\ c.at = "queue" => Len(attempts[c.pay]) = c.attempt - 1
    /\ c.at = "retrying" => Len(attempts[c.pay]) = c.attempt

SecondHalf(c) ==
    /\ c.pay = "p-1" => step # "send"
    /\ c.pay = "p-2" => step \in {"await fatal", "over"} /\ c.attempt = 1 /\ c.at # "retrying"

RetriesTypes ==
    /\ payments \subseteq Letters /\ returns \in Nat
    /\ attempts \in [Retries!Pays -> Seq(Nat)] /\ deadRead \in Seq(Retries!Pays)
    /\ step \in {"send", "await dead", "close", "send fatal", "await fatal", "over"}
    /\ consumers = IF step \in {"send", "await dead", "close"} THEN {"retrying"} ELSE {"fatal"}

RetriesHalves ==
    /\ \A c \in payments : SecondHalf(c)
    /\ attempts["p-2"] = <<>> /\ (step = "send" => attempts["p-1"] = <<>>)
    /\ [pay |-> "p-2", by |-> "retrying"] \notin handledBy
    /\ Retries!NoPaymentVanishes
    /\ \A p \in Retries!Pays : \A i \in DOMAIN attempts[p] : attempts[p][i] <= Policy

RetriesOrder ==
    returns = 0 =>
        /\ Alone /\ \A c \in payments : Noted(c)
        /\ \A p \in Retries!Pays : \A i \in DOMAIN attempts[p] : attempts[p][i] = i

RetriesInv == RetriesTypes /\ RetriesHalves /\ RetriesOrder

\* What a message is after one or two of its fields changed.
LEMMA LetterFields ==
    ASSUME NEW c \in Letters
    PROVE  /\ c.pay \in Retries!Pays /\ c.no \in Nat /\ c.attempt \in 1..Policy
           /\ c.attempt \in Nat /\ c.attempt <= Policy
           /\ c.at \in {"queue", "retrying", "fatal", "dead"}
  BY RetriesAssumption DEF Letters

LEMMA LetterMoved ==
    ASSUME NEW c \in Letters, NEW x \in {"queue", "retrying", "fatal", "dead"}
    PROVE  LET d == [c EXCEPT !.at = x]
           IN d \in Letters /\ d.pay = c.pay /\ d.attempt = c.attempt /\ d.at = x
  BY DEF Letters

LEMMA LetterReturned ==
    ASSUME NEW c \in Letters, NEW n \in Nat
    PROVE  LET d == [c EXCEPT !.at = "queue", !.no = n]
           IN d \in Letters /\ d.pay = c.pay /\ d.attempt = c.attempt /\ d.at = "queue"
  BY DEF Letters

LEMMA LetterRetried ==
    ASSUME NEW c \in Letters, c.attempt < Policy
    PROVE  LET d == [c EXCEPT !.at = "queue", !.attempt = @ + 1]
           IN d \in Letters /\ d.pay = c.pay /\ d.attempt = c.attempt + 1 /\ d.at = "queue"
<1>1. c.attempt + 1 \in 1..Policy BY LetterFields, RetriesAssumption
<1> QED BY <1>1 DEF Letters

LEMMA NextCopyFields ==
    ASSUME NEW c \in Letters
    PROVE  LET d == Retries!NextCopy(c) IN
           /\ d \in Letters /\ d.pay = c.pay
           /\ \/ d.at = "dead" /\ d.attempt = c.attempt
              \/ d.at = "queue" /\ d.attempt = c.attempt + 1 /\ c.at # "fatal"
<1> HIDE DEF Letters
<1>1. c.attempt \in Nat /\ c.attempt <= Policy /\ Policy \in Nat BY LetterFields, RetriesAssumption
<1>2. CASE Retries!Dies(c) BY <1>2, LetterMoved DEF Retries!NextCopy
<1>3. CASE ~Retries!Dies(c)
  <2>1. c.attempt < Policy /\ c.at # "fatal" BY <1>1, <1>3 DEF Retries!Dies, Retries!LastAttempt
  <2> QED BY <1>3, <2>1, LetterRetried DEF Retries!NextCopy
<1> QED BY <1>2, <1>3

LEMMA FreshLetter ==
    /\ \A p \in Retries!Pays :
          LET d == Retries!Message(p, 0, 1, "queue")
          IN d \in Letters /\ d.pay = p /\ d.attempt = 1 /\ d.at = "queue"
    /\ "p-1" \in Retries!Pays /\ "p-2" \in Retries!Pays
  BY RetriesAssumption DEF Letters, Retries!Message, Retries!Pays

LEMMA RetriesStart == Retries!Init => RetriesInv
<1> SUFFICES ASSUME Retries!Init PROVE RetriesInv
  OBVIOUS
<1>1. \A c \in payments : /\ c \in Letters /\ c.pay \in Leftovers /\ c.attempt = 1 /\ c.at = "queue"
                          /\ c = Retries!Message(c.pay, 0, 1, "queue")
  BY FreshLetter DEF Retries!Init, Retries!Pays
<1>2. \A p \in Leftovers : p \in {c.pay : c \in payments}
  <2> SUFFICES ASSUME NEW p \in Leftovers PROVE \E c \in payments : p = c.pay
    OBVIOUS
  <2>1. Retries!Message(p, 0, 1, "queue") \in payments BY DEF Retries!Init
  <2>2. p \in Retries!Pays BY DEF Retries!Pays
  <2> QED BY <2>1, <2>2, FreshLetter
<1>3. RetriesTypes BY <1>1 DEF Retries!Init, RetriesTypes
<1>4. attempts["p-1"] = <<>> /\ attempts["p-2"] = <<>> BY FreshLetter DEF Retries!Init
<1>5. \A c \in payments : c.pay # "p-1" /\ c.pay # "p-2" BY <1>1, RetriesAssumption
<1>6. RetriesHalves
  BY <1>2, <1>4, <1>5 DEF Retries!Init, RetriesHalves, SecondHalf, Retries!NoPaymentVanishes, Retries!Pays
<1>7. Alone BY <1>1 DEF Alone
<1>8. \A c \in payments : Noted(c) BY <1>1, LetterFields DEF Noted, Retries!Init
<1>9. \A p \in Retries!Pays : attempts[p] = <<>> BY DEF Retries!Init
<1> QED BY <1>3, <1>6, <1>7, <1>8, <1>9 DEF RetriesInv, RetriesOrder

\* One message takes the place of another of the same payment.
LEMMA LetterReplaced ==
    ASSUME RetriesTypes, NEW c \in payments, NEW d, d.pay = c.pay,
           payments' = (payments \ {c}) \cup {d}
    PROVE  /\ Alone => Alone' /\ (\A e \in payments \ {c} : e.pay # c.pay)
           /\ \A p : p \in {e.pay : e \in payments} => p \in {e.pay : e \in payments'}
<1>1. Alone => \A e \in payments \ {c} : e.pay # c.pay BY DEF Alone
<1>2. Alone => Alone' BY DEF Alone
<1>3. ASSUME NEW e \in payments PROVE \E f \in payments' : f.pay = e.pay
  <2>1. CASE e = c BY <2>1
  <2>2. CASE e # c BY <2>2
  <2> QED BY <2>1, <2>2
<1> QED BY <1>1, <1>2, <1>3

LEMMA LetterSettledKept ==
    ASSUME RetriesInv, NEW c \in payments, c.at \in {"retrying", "fatal"},
           NEW d \in Letters, d.pay = c.pay,
           \/ d.at = "dead" /\ d.attempt = c.attempt
           \/ d.at = "queue" /\ d.attempt = c.attempt + 1 /\ c.at # "fatal",
           NEW e \in Letters, e.pay = c.pay, e.attempt = c.attempt, e.at = "queue",
           payments' \in {(payments \ {c}) \cup {d}, (payments \ {c}) \cup {d, e}},
           returns' \in Nat,
           returns' = 0 => returns = 0 /\ payments' = (payments \ {c}) \cup {d},
           UNCHANGED <<attempts, consumers, deadRead, channel, handledBy, step, fatalSeen>>
    PROVE  RetriesInv'
<1>1. RetriesTypes /\ RetriesHalves /\ RetriesOrder BY DEF RetriesInv
<1>2. c \in Letters /\ c.attempt \in Nat /\ c.pay \in Retries!Pays BY <1>1, LetterFields DEF RetriesTypes
<1>3. /\ d.pay = c.pay
      /\ \/ d.at = "dead" /\ d.attempt = c.attempt
         \/ d.at = "queue" /\ d.attempt = c.attempt + 1 /\ c.at # "fatal"
  OBVIOUS
<1>5. e.pay = c.pay /\ e.attempt = c.attempt /\ e.at = "queue"
  OBVIOUS
<1>6. SecondHalf(c) BY <1>1 DEF RetriesHalves
<1>7. /\ payments' \in {(payments \ {c}) \cup {d}, (payments \ {c}) \cup {d, e}}
      /\ returns' = 0 => returns = 0 /\ payments' = (payments \ {c}) \cup {d}
  OBVIOUS
<1>8. UNCHANGED <<attempts, consumers, deadRead, channel, handledBy, step, fatalSeen>> OBVIOUS
<1>9. c.at \in {"retrying", "fatal"} OBVIOUS
<1>10. RetriesTypes' BY <1>1, <1>7, <1>8 DEF RetriesTypes
<1>11. SecondHalf(d)' /\ SecondHalf(e)'
  <2>1. SecondHalf(d)' BY <1>3, <1>6, <1>8, <1>9 DEF SecondHalf
  <2>2. SecondHalf(e)' BY <1>5, <1>6, <1>8, <1>9 DEF SecondHalf
  <2> QED BY <2>1, <2>2
<1>12. \A f \in payments : f.pay \in {g.pay : g \in payments'}
  <2> SUFFICES ASSUME NEW f \in payments PROVE \E g \in payments' : g.pay = f.pay
    OBVIOUS
  <2>1. CASE f = c BY <1>3, <1>7, <2>1
  <2>2. CASE f # c BY <1>7, <2>2
  <2> QED BY <2>1, <2>2
<1>13. Retries!NoPaymentVanishes'
  BY <1>1, <1>8, <1>12 DEF RetriesHalves, Retries!NoPaymentVanishes
<1>14. \A f \in payments' : SecondHalf(f)'
  <2> SUFFICES ASSUME NEW f \in payments' PROVE SecondHalf(f)'
    OBVIOUS
  <2>1. CASE f \in {d, e} BY <1>11, <2>1 DEF SecondHalf
  <2>2. CASE f \in payments BY <1>1, <1>8, <2>2 DEF RetriesHalves, SecondHalf
  <2> QED BY <1>7, <2>1, <2>2
<1>15. RetriesHalves' BY <1>1, <1>8, <1>13, <1>14 DEF RetriesHalves
<1>16. RetriesOrder'
  <2> SUFFICES ASSUME returns' = 0
               PROVE  Alone' /\ (\A f \in payments' : Noted(f)')
    BY <1>1, <1>7, <1>8 DEF RetriesOrder
  <2>1. Alone /\ (\A f \in payments : Noted(f)) /\ payments' = (payments \ {c}) \cup {d}
    BY <1>1, <1>7 DEF RetriesOrder
  <2>2. Alone' BY <1>1, <1>3, <2>1, LetterReplaced
  <2>3. Noted(d)'
    <3>1. d.at = "queue" => c.at = "retrying" /\ d.attempt = c.attempt + 1 BY <1>3, <1>9
    <3>2. c.at = "retrying" => Len(attempts[c.pay]) = c.attempt BY <2>1 DEF Noted
    <3>3. d.at # "retrying" /\ d.pay = c.pay BY <1>3
    <3>4. d.at = "queue" => Len(attempts'[d.pay]) = d.attempt - 1
      BY <1>2, <1>8, <3>1, <3>2, <3>3
    <3> QED BY <3>3, <3>4 DEF Noted
  <2>4. ASSUME NEW f \in payments' PROVE Noted(f)'
    <3>1. CASE f = d BY <2>3, <3>1
    <3>2. CASE f \in payments BY <1>8, <2>1, <3>2 DEF Noted
    <3> QED BY <2>1, <3>1, <3>2
  <2> QED BY <2>2, <2>4
<1> QED BY <1>10, <1>15, <1>16 DEF RetriesInv

LEMMA RetriesSettleKept == ASSUME RetriesInv, NEW c \in payments, Retries!Settle(c) PROVE RetriesInv'
<1>0. returns \in Nat /\ c \in Letters BY DEF RetriesInv, RetriesTypes
<1>1. returns \in Nat /\ returns + 1 \in Nat /\ returns + 1 # 0 /\ c \in Letters BY <1>0
<1>2. \/ payments' = (payments \ {c}) \cup {Retries!NextCopy(c)} /\ returns' = returns
      \/ /\ payments' = (payments \ {c}) \cup
                           {Retries!NextCopy(c), [c EXCEPT !.at = "queue", !.no = returns + 1]}
         /\ returns' = returns + 1
  BY DEF Retries!Settle
<1>3. /\ c.at \in {"retrying", "fatal"}
      /\ UNCHANGED <<attempts, consumers, deadRead, channel, handledBy, step, fatalSeen>>
  BY DEF Retries!Settle
<1>4. PICK d : d = Retries!NextCopy(c) OBVIOUS
<1>5. PICK e : e = [c EXCEPT !.at = "queue", !.no = returns + 1] OBVIOUS
<1>6. /\ d \in Letters /\ d.pay = c.pay
      /\ \/ d.at = "dead" /\ d.attempt = c.attempt
         \/ d.at = "queue" /\ d.attempt = c.attempt + 1 /\ c.at # "fatal"
  BY <1>1, <1>4, NextCopyFields
<1>7. e \in Letters /\ e.pay = c.pay /\ e.attempt = c.attempt /\ e.at = "queue"
  BY <1>1, <1>5, LetterReturned
<1>8. \/ payments' = (payments \ {c}) \cup {d} /\ returns' = returns
      \/ payments' = (payments \ {c}) \cup {d, e} /\ returns' = returns + 1
  BY <1>2, <1>4, <1>5
<1>9. /\ payments' \in {(payments \ {c}) \cup {d}, (payments \ {c}) \cup {d, e}}
      /\ returns' \in Nat
      /\ returns' = 0 => returns = 0 /\ payments' = (payments \ {c}) \cup {d}
  BY <1>1, <1>8
<1> QED BY <1>3, <1>6, <1>7, <1>9, LetterSettledKept

LEMMA LetterTakenKept ==
    ASSUME RetriesInv, NEW c \in payments, NEW by \in consumers, c.at = "queue",
           NEW d \in Letters, d.pay = c.pay, d.attempt = c.attempt, d.at = by,
           payments' = (payments \ {c}) \cup {d},
           attempts' = IF by = "retrying" THEN [attempts EXCEPT ![c.pay] = Append(@, c.attempt)] ELSE attempts,
           handledBy' = handledBy \cup {[pay |-> c.pay, by |-> by]},
           UNCHANGED <<consumers, deadRead, channel, step, returns>>
    PROVE  RetriesInv'
<1>1. RetriesTypes /\ RetriesHalves /\ RetriesOrder BY DEF RetriesInv
<1>2. by \in {"retrying", "fatal"} /\ (by = "retrying" => step \in {"send", "await dead", "close"})
  BY <1>1 DEF RetriesTypes
<1>3. /\ c \in Letters /\ c.attempt \in Nat /\ c.attempt <= Policy /\ c.pay \in Retries!Pays
      /\ d.pay = c.pay /\ d.attempt = c.attempt /\ d.at = by
  BY <1>1, LetterFields DEF RetriesTypes
<1>4. /\ c.at = "queue" /\ payments' = (payments \ {c}) \cup {d}
      /\ attempts' = IF by = "retrying" THEN [attempts EXCEPT ![c.pay] = Append(@, c.attempt)] ELSE attempts
      /\ handledBy' = handledBy \cup {[pay |-> c.pay, by |-> by]}
      /\ UNCHANGED <<consumers, deadRead, channel, step, returns>>
  OBVIOUS
<1>5. SecondHalf(c) BY <1>1 DEF RetriesHalves
<1>6. by = "retrying" => c.pay # "p-2" BY <1>2, <1>5 DEF SecondHalf
<1>7. \A p \in Retries!Pays : attempts[p] \in Seq(Nat) /\ Append(attempts[p], c.attempt) \in Seq(Nat)
  <2>1. \A p \in Retries!Pays : attempts[p] \in Seq(Nat) BY <1>1 DEF RetriesTypes
  <2> QED BY <1>3, <2>1, AppendProperties
<1>8. \A p \in Retries!Pays : attempts'[p] = IF by = "retrying" /\ p = c.pay
                                              THEN Append(attempts[p], c.attempt) ELSE attempts[p]
  BY <1>1, <1>4 DEF RetriesTypes
<1>9. DOMAIN attempts' = Retries!Pays /\ attempts' = [p \in Retries!Pays |-> attempts'[p]]
  BY <1>1, <1>4 DEF RetriesTypes
<1>10. attempts' \in [Retries!Pays -> Seq(Nat)]
  <2>1. \A p \in Retries!Pays : attempts'[p] \in Seq(Nat) BY <1>7, <1>8
  <2> QED BY <1>9, <2>1
<1>11. RetriesTypes' BY <1>1, <1>3, <1>4, <1>10 DEF RetriesTypes
<1>12. SecondHalf(d)' BY <1>2, <1>3, <1>4, <1>5, <1>6 DEF SecondHalf
<1>13. \A f \in payments' : SecondHalf(f)'
  <2> SUFFICES ASSUME NEW f \in payments' PROVE SecondHalf(f)'
    OBVIOUS
  <2>1. CASE f = d BY <1>12, <2>1
  <2>2. CASE f \in payments BY <1>1, <1>4, <2>2 DEF RetriesHalves, SecondHalf
  <2> QED BY <1>4, <2>1, <2>2
<1>14. attempts'["p-2"] = <<>> /\ (step' = "send" => attempts'["p-1"] = <<>>)
  BY <1>1, <1>4, <1>5, <1>6, <1>8, FreshLetter DEF RetriesHalves, SecondHalf
<1>15. [pay |-> "p-2", by |-> "retrying"] \notin handledBy'
  <2>1. [pay |-> "p-2", by |-> "retrying"] # [pay |-> c.pay, by |-> by] BY <1>6
  <2> QED BY <1>1, <1>4, <2>1 DEF RetriesHalves
<1>16. Retries!NoPaymentVanishes'
  BY <1>1, <1>3, <1>4, LetterReplaced DEF RetriesHalves, Retries!NoPaymentVanishes
<1>17. \A p \in Retries!Pays : \A i \in DOMAIN attempts'[p] : attempts'[p][i] <= Policy
  <2> SUFFICES ASSUME NEW p \in Retries!Pays, NEW i \in DOMAIN attempts'[p] PROVE attempts'[p][i] <= Policy
    OBVIOUS
  <2>1. \A j \in DOMAIN attempts[p] : attempts[p][j] <= Policy BY <1>1 DEF RetriesHalves
  <2>2. CASE attempts'[p] = attempts[p] BY <2>1, <2>2
  <2>3. CASE attempts'[p] = Append(attempts[p], c.attempt) BY <1>3, <1>7, <2>1, <2>3
  <2> QED BY <1>8, <2>2, <2>3
<1>18. RetriesHalves' BY <1>13, <1>14, <1>15, <1>16, <1>17 DEF RetriesHalves
<1>19. RetriesOrder'
  <2> SUFFICES ASSUME returns' = 0
               PROVE  /\ Alone' /\ \A f \in payments' : Noted(f)'
                      /\ \A p \in Retries!Pays : \A i \in DOMAIN attempts'[p] : attempts'[p][i] = i
    BY DEF RetriesOrder
  <2>1. /\ Alone /\ \A f \in payments : Noted(f)
        /\ \A p \in Retries!Pays : \A i \in DOMAIN attempts[p] : attempts[p][i] = i
    BY <1>1, <1>4 DEF RetriesOrder
  <2>2. Alone' /\ \A f \in payments \ {c} : f.pay # c.pay BY <1>1, <1>3, <1>4, <2>1, LetterReplaced
  <2>3. Len(attempts[c.pay]) = c.attempt - 1 BY <1>4, <2>1 DEF Noted
  <2>4. attempts[c.pay] \in Seq(Nat) BY <1>3, <1>7
  <2>5. Noted(d)'
    <3>1. d.at # "queue" BY <1>2, <1>3
    <3>2. by = "retrying" => Len(attempts'[d.pay]) = d.attempt
      <4>1. Len(Append(attempts[c.pay], c.attempt)) = Len(attempts[c.pay]) + 1
        BY <1>3, <2>4, AppendProperties
      <4>2. by = "retrying" => attempts'[c.pay] = Append(attempts[c.pay], c.attempt) BY <1>3, <1>8
      <4> QED BY <1>3, <2>3, <4>1, <4>2
    <3> QED BY <1>3, <3>1, <3>2 DEF Noted
  <2>6. ASSUME NEW f \in payments' PROVE Noted(f)'
    <3>1. CASE f = d BY <2>5, <3>1
    <3>2. CASE f \in payments \ {c}
      <4>1. f.pay # c.pay /\ f.pay \in Retries!Pays /\ Noted(f)
        BY <1>1, <2>1, <2>2, <3>2, LetterFields DEF RetriesTypes
      <4>2. attempts'[f.pay] = attempts[f.pay] BY <1>8, <4>1
      <4> QED BY <4>1, <4>2 DEF Noted
    <3> QED BY <1>4, <3>1, <3>2
  <2>7. ASSUME NEW p \in Retries!Pays, NEW i \in DOMAIN attempts'[p] PROVE attempts'[p][i] = i
    <3>1. CASE by = "retrying" /\ p = c.pay
      <4>1. attempts'[p] = Append(attempts[p], c.attempt) BY <1>8, <3>1
      <4> QED BY <1>3, <2>1, <2>3, <2>4, <3>1, <4>1
    <3>2. CASE ~(by = "retrying" /\ p = c.pay) BY <1>8, <2>1, <3>2
    <3> QED BY <3>1, <3>2
  <2> QED BY <2>2, <2>6, <2>7
<1> QED BY <1>11, <1>18, <1>19 DEF RetriesInv

LEMMA RetriesTakeKept ==
    ASSUME RetriesInv, NEW c \in payments, NEW by \in consumers, Retries!Take(c, by) PROVE RetriesInv'
<1>1. c \in Letters /\ by \in {"queue", "retrying", "fatal", "dead"} BY DEF RetriesInv, RetriesTypes
<1>2. PICK d : d = [c EXCEPT !.at = by] OBVIOUS
<1>3. d \in Letters /\ d.pay = c.pay /\ d.attempt = c.attempt /\ d.at = by BY <1>1, <1>2, LetterMoved
<1>4. payments' = (payments \ {c}) \cup {d} BY <1>2 DEF Retries!Take
<1>5. /\ c.at = "queue"
      /\ attempts' = IF by = "retrying" THEN [attempts EXCEPT ![c.pay] = Append(@, c.attempt)] ELSE attempts
      /\ handledBy' = handledBy \cup {[pay |-> c.pay, by |-> by]}
      /\ UNCHANGED <<consumers, deadRead, channel, step, returns>>
  BY DEF Retries!Take
<1> QED BY <1>3, <1>4, <1>5, LetterTakenKept

LEMMA RetriesKept == RetriesInv /\ [Retries!Next]_(Retries!vars) => RetriesInv'
<1> SUFFICES ASSUME RetriesInv, [Retries!Next]_(Retries!vars) PROVE RetriesInv'
  OBVIOUS
<1> USE DEF RetriesInv
<1>1. ASSUME Retries!Send PROVE RetriesInv'
  <2>1. ASSUME NEW p \in {"p-1", "p-2"}, payments' = payments \cup {Retries!Message(p, 0, 1, "queue")},
               p = "p-1" => step = "send" /\ step' = "await dead",
               p = "p-2" => step = "send fatal" /\ step' = "await fatal"
        PROVE  RetriesInv'
    <3> DEFINE new == Retries!Message(p, 0, 1, "queue")
    <3>1. /\ new \in Letters /\ new.pay = p /\ new.attempt = 1 /\ new.at = "queue"
          /\ p \in Retries!Pays /\ payments' = payments \cup {new}
      BY <2>1, FreshLetter
    <3> HIDE DEF new
    <3>2. UNCHANGED <<attempts, consumers, deadRead, channel, handledBy, fatalSeen, returns>>
      BY <1>1 DEF Retries!Send
    <3>3. RetriesTypes' BY <2>1, <3>1, <3>2 DEF RetriesTypes
    <3>4. \A c \in payments : c.pay # p BY <2>1 DEF RetriesHalves, SecondHalf
    <3>5. attempts[p] = <<>> BY <2>1 DEF RetriesHalves
    <3>9. \A c \in payments' : SecondHalf(c)'
      <4>1. SecondHalf(new)' BY <2>1, <3>1 DEF SecondHalf
      <4>2. \A c \in payments : SecondHalf(c)' BY <2>1 DEF RetriesHalves, SecondHalf
      <4> QED BY <3>1, <4>1, <4>2
    <3>10. Retries!NoPaymentVanishes'
      <4>1. \A q \in {c.pay : c \in payments} : q \in {c.pay : c \in payments'} BY <3>1
      <4>2. p \in {c.pay : c \in payments'} BY <3>1
      <4> QED BY <2>1, <3>2, <4>1, <4>2 DEF RetriesHalves, Retries!NoPaymentVanishes
    <3>6. RetriesHalves' BY <2>1, <3>2, <3>9, <3>10 DEF RetriesHalves
    <3>7. Noted(new)' BY <3>1, <3>2, <3>5 DEF Noted
    <3>8. RetriesOrder' BY <3>1, <3>2, <3>4, <3>7 DEF RetriesOrder, Alone, Noted
    <3> QED BY <3>3, <3>6, <3>8
  <2> QED BY <1>1, <2>1 DEF Retries!Send
<1>2. ASSUME NEW c \in payments, Retries!ReadDead(c) PROVE RetriesInv'
  <2>1. /\ payments' = payments \ {c} /\ deadRead' = Append(deadRead, c.pay)
        /\ UNCHANGED <<attempts, consumers, handledBy, step, fatalSeen, returns>>
    BY <1>2 DEF Retries!ReadDead
  <2>2. c.pay \in Retries!Pays /\ deadRead \in Seq(Retries!Pays) BY LetterFields DEF RetriesTypes
  <2>9. deadRead' \in Seq(Retries!Pays) BY <2>1, <2>2, AppendProperties
  <2>3. RetriesTypes' BY <2>1, <2>9 DEF RetriesTypes
  <2>4. /\ \A i \in DOMAIN deadRead : i \in DOMAIN deadRead' /\ deadRead'[i] = deadRead[i]
        /\ Len(deadRead) + 1 \in DOMAIN deadRead' /\ deadRead'[Len(deadRead) + 1] = c.pay
    BY <2>1, <2>2
  <2>5. ASSUME NEW p \in Retries!Pays, p \notin {f.pay : f \in payments'}
        PROVE  \/ \E i \in DOMAIN deadRead' : deadRead'[i] = p
               \/ p = "p-1" /\ step' = "send"
               \/ p = "p-2" /\ step' \notin {"await fatal", "over"}
    <3>1. CASE p = c.pay BY <2>4, <3>1
    <3>2. CASE p # c.pay
      <4>1. p \notin {f.pay : f \in payments} BY <2>1, <2>5, <3>2
      <4> QED BY <2>1, <2>4, <4>1 DEF RetriesHalves, Retries!NoPaymentVanishes
    <3> QED BY <3>1, <3>2
  <2>6. Retries!NoPaymentVanishes' BY <2>5 DEF Retries!NoPaymentVanishes
  <2>7. RetriesHalves' BY <2>1, <2>6 DEF RetriesHalves, SecondHalf
  <2>8. RetriesOrder' BY <2>1 DEF RetriesOrder, Alone, Noted
  <2> QED BY <2>3, <2>7, <2>8
<1>3. CASE Retries!HearDead
  BY <1>3 DEF Retries!HearDead, RetriesTypes, RetriesHalves, RetriesOrder, SecondHalf, Alone, Noted,
     Retries!NoPaymentVanishes
<1>4. CASE Retries!Replace
  BY <1>4 DEF Retries!Replace, RetriesTypes, RetriesHalves, RetriesOrder, SecondHalf, Alone, Noted,
     Retries!NoPaymentVanishes
<1>5. CASE Retries!HearFatal
  BY <1>5 DEF Retries!HearFatal, RetriesTypes, RetriesHalves, RetriesOrder, SecondHalf, Alone, Noted,
     Retries!NoPaymentVanishes
<1>6. CASE UNCHANGED Retries!vars
  BY <1>6 DEF Retries!vars, RetriesTypes, RetriesHalves, RetriesOrder, SecondHalf, Alone, Noted,
     Retries!NoPaymentVanishes
<1> HIDE DEF RetriesInv
<1> QED BY <1>1, <1>2, <1>3, <1>4, <1>5, <1>6, RetriesSettleKept, RetriesTakeKept DEF Retries!Next

\* No payment vanishes, it is tried as the policy says unless a delivery came back,
\* and the mark of the second half is not the work of the first consumer.
THEOREM RetriesByPolicy ==
    Retries!Spec => [](/\ Retries!NoPaymentVanishes /\ Retries!TriedByPolicy /\ Retries!TheMarkWins)
<1>1. RetriesInv => /\ Retries!NoPaymentVanishes /\ Retries!TriedByPolicy /\ Retries!TheMarkWins
  <2> SUFFICES ASSUME RetriesInv
               PROVE  Retries!NoPaymentVanishes /\ Retries!TriedByPolicy /\ Retries!TheMarkWins
    OBVIOUS
  <2> USE DEF RetriesInv
  <2>1. ASSUME NEW p \in Retries!Pays
        PROVE  /\ \A i \in DOMAIN attempts[p] : attempts[p][i] <= Policy
               /\ returns = 0 => \A i \in DOMAIN attempts[p] : attempts[p][i] = i
    <3> QED BY DEF RetriesHalves, RetriesOrder
  <2>2. Retries!TriedByPolicy BY <2>1 DEF Retries!TriedByPolicy
  <2> QED BY <2>2 DEF RetriesHalves, SecondHalf, Retries!TheMarkWins
<1> QED BY RetriesStart, RetriesKept, <1>1, PTL DEF Retries!Spec
-----------------------------------------------------------------------------
\* basic/04-replay.  An invoice is counted where it is, and once more for every
\* settlement that was lost; the wait groups say how many handlings there were.
LEMMA IsIn == ASSUME NEW S, NEW t \in Seq(S), NEW y
              PROVE  y \in Replay!ToSet(t) <=> \E i \in 1..Len(t) : t[i] = y
  BY DEF Replay!ToSet

LEMMA Appended ==
    ASSUME NEW S, NEW s \in Seq(S), NEW x \in S
    PROVE  /\ Append(s, x) \in Seq(S) /\ Len(Append(s, x)) = Len(s) + 1
           /\ Replay!ToSet(Append(s, x)) = Replay!ToSet(s) \cup {x}
<1>1. /\ Append(s, x) \in Seq(S) /\ Len(Append(s, x)) = Len(s) + 1 /\ Len(s) \in Nat
      /\ \A i \in 1..Len(s) : Append(s, x)[i] = s[i]
      /\ Append(s, x)[Len(s) + 1] = x
  BY AppendProperties
<1>2. /\ \A y : y \in Replay!ToSet(s) <=> \E i \in 1..Len(s) : s[i] = y
      /\ \A y : y \in Replay!ToSet(Append(s, x)) <=> \E i \in 1..Len(s) + 1 : Append(s, x)[i] = y
  <2>1. \A y : y \in Replay!ToSet(s) <=> \E i \in 1..Len(s) : s[i] = y BY IsIn
  <2> DEFINE t == Append(s, x)
  <2>2. t \in Seq(S) /\ Len(t) = Len(s) + 1 BY <1>1
  <2> HIDE DEF t
  <2>3. \A y : y \in Replay!ToSet(t) <=> \E i \in 1..Len(t) : t[i] = y BY <2>2, IsIn
  <2> QED BY <2>1, <2>2, <2>3 DEF t
<1>3. \A i \in 1..Len(s) + 1 : (i \in 1..Len(s)) \/ (i = Len(s) + 1) BY <1>1
<1>4. Len(s) + 1 \in 1..Len(s) + 1 /\ \A i \in 1..Len(s) : i \in 1..Len(s) + 1 BY <1>1
<1>5. \A y : y \in Replay!ToSet(Append(s, x)) <=> y \in Replay!ToSet(s) \/ y = x
  BY <1>1, <1>2, <1>3, <1>4
<1> QED BY <1>1, <1>5

LEMMA Joined ==
    ASSUME NEW S, NEW t \in Seq(S), NEW u \in Seq(S)
    PROVE  /\ t \o u \in Seq(S) /\ Len(t \o u) = Len(t) + Len(u)
           /\ Replay!ToSet(t \o u) = Replay!ToSet(t) \cup Replay!ToSet(u)
<1>1. /\ t \o u \in Seq(S) /\ Len(t \o u) = Len(t) + Len(u) /\ Len(t) \in Nat /\ Len(u) \in Nat
      /\ \A i \in 1..Len(t) + Len(u) : (t \o u)[i] = IF i <= Len(t) THEN t[i] ELSE u[i - Len(t)]
  BY ConcatProperties
<1>2. \A i \in 1..Len(u) : Len(t) + i \in 1..Len(t) + Len(u) /\ (t \o u)[Len(t) + i] = u[i]
  <2> SUFFICES ASSUME NEW i \in 1..Len(u)
               PROVE  Len(t) + i \in 1..Len(t) + Len(u) /\ (t \o u)[Len(t) + i] = u[i]
    OBVIOUS
  <2>1. /\ Len(t) + i \in 1..Len(t) + Len(u) /\ ~(Len(t) + i <= Len(t)) /\ (Len(t) + i) - Len(t) = i
    BY <1>1
  <2> QED BY <1>1, <2>1
<1>3. \A i \in 1..Len(t) : i \in 1..Len(t) + Len(u) /\ (t \o u)[i] = t[i] BY <1>1
<1>4. \A i \in 1..Len(t) + Len(u) : \/ (i \in 1..Len(t) /\ (t \o u)[i] = t[i])
                                      \/ (i - Len(t) \in 1..Len(u) /\ (t \o u)[i] = u[i - Len(t)])
  <2> SUFFICES ASSUME NEW i \in 1..Len(t) + Len(u)
               PROVE  \/ (i \in 1..Len(t) /\ (t \o u)[i] = t[i])
                      \/ (i - Len(t) \in 1..Len(u) /\ (t \o u)[i] = u[i - Len(t)])
    OBVIOUS
  <2>1. CASE i <= Len(t) BY <1>1, <2>1
  <2>2. CASE ~(i <= Len(t))
    <3>1. i - Len(t) \in 1..Len(u) BY <1>1, <2>2
    <3> QED BY <1>1, <2>2, <3>1
  <2> QED BY <2>1, <2>2
<1>5. /\ \A y : y \in Replay!ToSet(t) <=> \E i \in 1..Len(t) : t[i] = y
      /\ \A y : y \in Replay!ToSet(u) <=> \E i \in 1..Len(u) : u[i] = y
      /\ \A y : y \in Replay!ToSet(t \o u) <=> \E i \in 1..Len(t) + Len(u) : (t \o u)[i] = y
  BY <1>1, IsIn
<1>6. \A y : y \in Replay!ToSet(t) => y \in Replay!ToSet(t \o u) BY <1>3, <1>5
<1>7. \A y : y \in Replay!ToSet(u) => y \in Replay!ToSet(t \o u) BY <1>2, <1>5
<1>8. ASSUME NEW y \in Replay!ToSet(t \o u) PROVE y \in Replay!ToSet(t) \/ y \in Replay!ToSet(u)
  <2>1. PICK i \in 1..Len(t) + Len(u) : (t \o u)[i] = y BY <1>5
  <2>2. CASE i \in 1..Len(t) /\ (t \o u)[i] = t[i] BY <1>5, <2>1, <2>2
  <2>3. CASE i - Len(t) \in 1..Len(u) /\ (t \o u)[i] = u[i - Len(t)] BY <1>5, <2>1, <2>3
  <2> QED BY <1>4, <2>2, <2>3
<1> QED BY <1>1, <1>6, <1>7, <1>8

LEMMA Preceded ==
    ASSUME NEW S, NEW s \in Seq(S), NEW x \in S
    PROVE  /\ <<x>> \o s \in Seq(S) /\ Len(<<x>> \o s) = Len(s) + 1
           /\ Replay!ToSet(<<x>> \o s) = Replay!ToSet(s) \cup {x}
<1>1. <<x>> \in Seq(S) /\ Len(<<x>>) = 1 /\ <<x>>[1] = x /\ Len(s) \in Nat OBVIOUS
<1>2. \A y : y \in Replay!ToSet(<<x>>) <=> y = x
  <2>1. \A y : y \in Replay!ToSet(<<x>>) <=> \E i \in 1..1 : <<x>>[i] = y BY <1>1, IsIn
  <2>2. 1..1 = {1} OBVIOUS
  <2> QED BY <1>1, <2>1, <2>2
<1>3. Replay!ToSet(<<x>>) = {x} BY <1>2
<1> DEFINE t == <<x>>
<1>4. t \in Seq(S) /\ Len(t) = 1 /\ Replay!ToSet(t) = {x} BY <1>1, <1>3
<1> HIDE DEF t
<1>5. Len(t \o s) = Len(t) + Len(s) /\ t \o s \in Seq(S)
      /\ Replay!ToSet(t \o s) = Replay!ToSet(t) \cup Replay!ToSet(s)
  BY <1>4, Joined, ZenonT(60)
<1>6. Len(t \o s) = Len(s) + 1 /\ t \o s \in Seq(S) /\ Replay!ToSet(t \o s) = Replay!ToSet(s) \cup {x}
  BY <1>1, <1>4, <1>5
<1> QED BY <1>6 DEF t

LEMMA Headed ==
    ASSUME NEW S, NEW s \in Seq(S), s # <<>>
    PROVE  /\ Head(s) \in S /\ Tail(s) \in Seq(S) /\ Len(Tail(s)) = Len(s) - 1 /\ Len(s) >= 1
           /\ Replay!ToSet(s) = {Head(s)} \cup Replay!ToSet(Tail(s))
<1>1. /\ Head(s) \in S /\ Tail(s) \in Seq(S) /\ Len(Tail(s)) = Len(s) - 1 /\ Len(s) >= 1
      /\ Len(s) \in Nat
      /\ Head(s) = s[1] /\ \A i \in 1..Len(s) - 1 : Tail(s)[i] = s[i + 1]
  OBVIOUS
<1>2. \A i \in 1..Len(s) : i = 1 \/ (i - 1 \in 1..Len(s) - 1 /\ Tail(s)[i - 1] = s[i]) BY <1>1
<1>3. 1 \in 1..Len(s) /\ \A i \in 1..Len(s) - 1 : i + 1 \in 1..Len(s) /\ Tail(s)[i] = s[i + 1]
  BY <1>1
<1>4. /\ \A y : y \in Replay!ToSet(s) <=> \E i \in 1..Len(s) : s[i] = y
      /\ \A y : y \in Replay!ToSet(Tail(s)) <=> \E i \in 1..Len(s) - 1 : Tail(s)[i] = y
  <2>1. \A y : y \in Replay!ToSet(s) <=> \E i \in 1..Len(s) : s[i] = y BY IsIn
  <2> DEFINE t == Tail(s)
  <2>2. t \in Seq(S) /\ Len(t) = Len(s) - 1 BY <1>1
  <2> HIDE DEF t
  <2>3. \A y : y \in Replay!ToSet(t) <=> \E i \in 1..Len(t) : t[i] = y BY <2>2, IsIn
  <2> QED BY <2>1, <2>2, <2>3 DEF t
<1>5. \A y : y \in Replay!ToSet(s) <=> y = Head(s) \/ y \in Replay!ToSet(Tail(s))
  BY <1>1, <1>2, <1>3, <1>4
<1> QED BY <1>1, <1>5

LEMMA FixedOnesType ==
    Replay!FixedOnes \in Nat /\ Len(Invoices) \in Nat /\ Replay!FixedOnes <= Len(Invoices)
<1>1. Replay!Cardinality({n \in DOMAIN Invoices : Invoices[n] \in Fixed})
         = Cardinality({n \in DOMAIN Invoices : Invoices[n] \in Fixed})
  BY DEF Replay!Cardinality, Cardinality
<1>2. DOMAIN Invoices = 1..Len(Invoices) /\ Len(Invoices) \in Nat BY ReplayAssumption
<1>3. IsFiniteSet(1..Len(Invoices)) /\ Cardinality(1..Len(Invoices)) = Len(Invoices)
  <2>1. /\ IsFiniteSet(1..Len(Invoices))
        /\ Cardinality(1..Len(Invoices)) = IF 1 > Len(Invoices) THEN 0 ELSE Len(Invoices) - 1 + 1
    BY <1>2, FS_Interval, SMTT(20)
  <2> QED BY <1>2, <2>1
<1> DEFINE F == {n \in DOMAIN Invoices : Invoices[n] \in Fixed}
<1>4. F \subseteq 1..Len(Invoices) BY <1>2
<1> HIDE DEF F
<1>5. IsFiniteSet(F) /\ Cardinality(F) <= Len(Invoices) BY <1>3, <1>4, FS_Subset
<1>6. Cardinality(F) \in Nat BY <1>5, FS_CardinalityType
<1> QED BY <1>1, <1>2, <1>5, <1>6 DEF Replay!FixedOnes, F

Everywhere == Replay!ToSet(deadLetters) \cup Replay!ToSet(aside) \cup Replay!ToSet(replayed)
                \cup Replay!ToSet(handlings)

ReplayTypes ==
    /\ deadLetters \in Seq(Replay!All) /\ aside \in Seq(Replay!All)
    /\ replayed \in Seq(Replay!All) /\ handlings \in Seq(Replay!All)
    /\ moving \in Replay!All \cup {Replay!None}
    /\ replayStage \in {"first", "wait acme", "second", "wait rest", "over", "panicked"}
    /\ settlementsLost \in Nat

ReplayPlaces ==
    /\ Replay!All \subseteq Everywhere
    /\ replayStage \in {"first", "wait acme"} =>
          Replay!ToSet(replayed) \cup Replay!ToSet(handlings) \subseteq Fixed

ReplayCounts ==
    /\ DOMAIN open = {"acme", "rest"}
    /\ IF replayStage = "panicked" THEN settlementsLost > 0 /\ Len(handlings) > Len(Invoices)
       ELSE /\ Len(deadLetters) + Len(aside) + Len(replayed) + Len(handlings)
                  <= Len(Invoices) + settlementsLost
            /\ Len(handlings) <= Len(Invoices)
            /\ open["acme"] = IF Len(handlings) <= Replay!FixedOnes THEN Replay!FixedOnes - Len(handlings) ELSE 0
            /\ open["rest"] = IF Len(handlings) <= Replay!FixedOnes THEN Len(Invoices) - Replay!FixedOnes
                              ELSE Len(Invoices) - Len(handlings)

ReplayInv == ReplayTypes /\ ReplayPlaces /\ ReplayCounts

LEMMA ReplayLengths ==
    ASSUME ReplayTypes
    PROVE  /\ Len(deadLetters) \in Nat /\ Len(aside) \in Nat /\ Len(replayed) \in Nat
           /\ Len(handlings) \in Nat /\ settlementsLost \in Nat
<1>1. /\ deadLetters \in Seq(Replay!All) /\ aside \in Seq(Replay!All)
      /\ replayed \in Seq(Replay!All) /\ handlings \in Seq(Replay!All) /\ settlementsLost \in Nat
  BY DEF ReplayTypes
<1> QED BY <1>1, LenProperties

LEMMA ReplayStarts == Replay!Init => ReplayInv
<1> SUFFICES ASSUME Replay!Init PROVE ReplayInv
  OBVIOUS
<1>1. /\ deadLetters = Invoices /\ aside = <<>> /\ replayed = <<>> /\ handlings = <<>>
      /\ replayStage = "first" /\ settlementsLost = 0 /\ moving = Replay!None
      /\ open = [g \in {"acme", "rest"} |-> IF g = "acme" THEN Replay!FixedOnes
                                             ELSE Len(Invoices) - Replay!FixedOnes]
  BY DEF Replay!Init, Replay!InOrder
<1>2. ReplayTypes BY <1>1, ReplayAssumption DEF ReplayTypes
<1>3. Replay!ToSet(<<>>) = {} BY DEF Replay!ToSet
<1>4. Replay!ToSet(Invoices) = Replay!All BY DEF Replay!ToSet, Replay!All
<1>5. ReplayPlaces BY <1>1, <1>3, <1>4 DEF ReplayPlaces, Everywhere
<1>6. Len(<<>>) = 0 OBVIOUS
<1>7. ReplayCounts BY <1>1, <1>6, FixedOnesType DEF ReplayCounts
<1> QED BY <1>2, <1>5, <1>7 DEF ReplayInv

LEMMA ReplayKept == ReplayInv /\ [Replay!Next]_(Replay!vars) => ReplayInv'
<1> SUFFICES ASSUME ReplayInv, [Replay!Next]_(Replay!vars) PROVE ReplayInv'
  OBVIOUS
<1>1. ReplayTypes /\ ReplayPlaces /\ ReplayCounts BY DEF ReplayInv
<1>2. /\ Len(deadLetters) \in Nat /\ Len(aside) \in Nat /\ Len(replayed) \in Nat
      /\ Len(handlings) \in Nat /\ settlementsLost \in Nat
  BY <1>1, ReplayLengths
<1>3. CASE Replay!Move
  <2>1. /\ deadLetters # <<>> /\ deadLetters' = Tail(deadLetters) /\ moving' = Head(deadLetters)
        /\ replayed' = Append(replayed, Head(deadLetters))
        /\ replayStage = "first" => Head(deadLetters) \in Fixed
        /\ UNCHANGED <<aside, handlings, replayStage, open, settlementsLost>>
    BY <1>3 DEF Replay!Move, Replay!Filter
  <2>2. deadLetters \in Seq(Replay!All) /\ replayed \in Seq(Replay!All) BY <1>1 DEF ReplayTypes
  <2>3. /\ Head(deadLetters) \in Replay!All /\ Tail(deadLetters) \in Seq(Replay!All)
        /\ Len(deadLetters') = Len(deadLetters) - 1
        /\ Replay!ToSet(deadLetters) = {Head(deadLetters)} \cup Replay!ToSet(deadLetters')
    BY <2>1, <2>2, Headed
  <2>4. /\ replayed' \in Seq(Replay!All) /\ Len(replayed') = Len(replayed) + 1
        /\ Replay!ToSet(replayed') = Replay!ToSet(replayed) \cup {Head(deadLetters)}
    BY <2>1, <2>2, <2>3, Appended
  <2>5. ReplayTypes' BY <1>1, <2>1, <2>3, <2>4 DEF ReplayTypes
  <2>6. replayStage \in {"first", "second"} BY <1>3 DEF Replay!Move, Replay!Replaying
  <2>7. ReplayPlaces' BY <1>1, <2>1, <2>3, <2>4, <2>6 DEF ReplayPlaces, Everywhere
  <2>8. ReplayCounts' BY <1>1, <1>2, <2>1, <2>3, <2>4, FixedOnesType DEF ReplayCounts
  <2> QED BY <2>5, <2>7, <2>8 DEF ReplayInv
<1>4. CASE Replay!SettleMoved
  <2>1. /\ moving # Replay!None /\ moving' = Replay!None
        /\ \/ UNCHANGED <<deadLetters, settlementsLost>>
           \/ settlementsLost' = settlementsLost + 1 /\ deadLetters' = <<moving>> \o deadLetters
        /\ UNCHANGED <<aside, replayed, handlings, replayStage, open>>
    BY <1>4 DEF Replay!SettleMoved
  <2>2. CASE UNCHANGED <<deadLetters, settlementsLost>>
    BY <1>1, <2>1, <2>2 DEF ReplayInv, ReplayTypes, ReplayPlaces, ReplayCounts, Everywhere
  <2>3. CASE settlementsLost' = settlementsLost + 1 /\ deadLetters' = <<moving>> \o deadLetters
    <3>1. moving \in Replay!All /\ deadLetters \in Seq(Replay!All) BY <1>1, <2>1 DEF ReplayTypes
    <3>2. /\ deadLetters' \in Seq(Replay!All) /\ Len(deadLetters') = Len(deadLetters) + 1
          /\ Replay!ToSet(deadLetters') = Replay!ToSet(deadLetters) \cup {moving}
      BY <2>3, <3>1, Preceded
    <3>6. settlementsLost' \in Nat BY <1>2, <2>3
    <3>3. ReplayTypes' BY <1>1, <2>1, <3>2, <3>6 DEF ReplayTypes
    <3>4. ReplayPlaces' BY <1>1, <2>1, <3>2 DEF ReplayPlaces, Everywhere
    <3>5. ReplayCounts' BY <1>1, <1>2, <2>1, <2>3, <3>2, FixedOnesType DEF ReplayCounts
    <3> QED BY <3>3, <3>4, <3>5 DEF ReplayInv
  <2> QED BY <2>1, <2>2, <2>3
<1>5. CASE Replay!Decline
  <2>1. /\ deadLetters # <<>> /\ deadLetters' = Tail(deadLetters)
        /\ aside' = Append(aside, Head(deadLetters))
        /\ UNCHANGED <<moving, replayed, handlings, replayStage, open, settlementsLost>>
    BY <1>5 DEF Replay!Decline
  <2>2. deadLetters \in Seq(Replay!All) /\ aside \in Seq(Replay!All) BY <1>1 DEF ReplayTypes
  <2>3. /\ Head(deadLetters) \in Replay!All /\ Tail(deadLetters) \in Seq(Replay!All)
        /\ Len(deadLetters') = Len(deadLetters) - 1
        /\ Replay!ToSet(deadLetters) = {Head(deadLetters)} \cup Replay!ToSet(deadLetters')
    BY <2>1, <2>2, Headed
  <2>4. /\ aside' \in Seq(Replay!All) /\ Len(aside') = Len(aside) + 1
        /\ Replay!ToSet(aside') = Replay!ToSet(aside) \cup {Head(deadLetters)}
    BY <2>1, <2>2, <2>3, Appended
  <2>5. ReplayTypes' BY <1>1, <2>1, <2>3, <2>4 DEF ReplayTypes
  <2>6. ReplayPlaces' BY <1>1, <2>1, <2>3, <2>4 DEF ReplayPlaces, Everywhere
  <2>7. ReplayCounts' BY <1>1, <1>2, <2>1, <2>3, <2>4, FixedOnesType DEF ReplayCounts
  <2> QED BY <2>5, <2>6, <2>7 DEF ReplayInv
<1>6. CASE Replay!EndReplay
  <2>1. /\ deadLetters' = aside \o deadLetters /\ aside' = <<>>
        /\ replayStage \in {"first", "second"}
        /\ replayStage' = IF replayStage = "first" THEN "wait acme" ELSE "wait rest"
        /\ UNCHANGED <<moving, replayed, handlings, open, settlementsLost>>
    BY <1>6 DEF Replay!EndReplay, Replay!Replaying
  <2>2. deadLetters \in Seq(Replay!All) /\ aside \in Seq(Replay!All) BY <1>1 DEF ReplayTypes
  <2>12. /\ aside \o deadLetters \in Seq(Replay!All)
        /\ Len(aside \o deadLetters) = Len(aside) + Len(deadLetters)
        /\ Replay!ToSet(aside \o deadLetters) = Replay!ToSet(aside) \cup Replay!ToSet(deadLetters)
    BY <2>2, Joined, ZenonT(60)
  <2>3. /\ deadLetters' \in Seq(Replay!All) /\ Len(deadLetters') = Len(aside) + Len(deadLetters)
        /\ Replay!ToSet(deadLetters') = Replay!ToSet(aside) \cup Replay!ToSet(deadLetters)
    BY <2>1, <2>2, <2>12
  <2>4. Replay!ToSet(<<>>) = {} /\ Len(<<>>) = 0 /\ <<>> \in Seq(Replay!All) BY DEF Replay!ToSet
  <2>5. ReplayTypes' BY <1>1, <2>1, <2>3, <2>4 DEF ReplayTypes
  <2>6. ReplayPlaces' BY <1>1, <2>1, <2>3, <2>4 DEF ReplayPlaces, Everywhere
  <2>10. Len(aside') = 0 BY <2>1, <2>4
  <2>11. Len(deadLetters') = Len(aside) + Len(deadLetters) BY <2>3
  <2>8. Len(deadLetters') + Len(aside') = Len(deadLetters) + Len(aside)
    BY <1>2, <2>10, <2>11
  <2>9. Len(deadLetters') + Len(aside') + Len(replayed') + Len(handlings')
           = Len(deadLetters) + Len(aside) + Len(replayed) + Len(handlings)
    BY <2>1, <2>8
  <2>7. ReplayCounts' BY <1>1, <2>1, <2>9 DEF ReplayCounts
  <2> QED BY <2>5, <2>6, <2>7 DEF ReplayInv
<1>7. CASE Replay!Waited
  <2>1. /\ replayStage \in {"wait acme", "wait rest"} /\ replayStage' \in {"second", "over"}
        /\ UNCHANGED <<deadLetters, aside, moving, replayed, handlings, open, settlementsLost>>
    BY <1>7 DEF Replay!Waited
  <2> QED BY <1>1, <2>1 DEF ReplayInv, ReplayTypes, ReplayPlaces, ReplayCounts, Everywhere
<1>8. CASE Replay!HandleInvoice
  <2>1. /\ replayed # <<>> /\ replayStage # "panicked"
        /\ handlings' = Append(handlings, Head(replayed))
        /\ UNCHANGED <<deadLetters, aside, moving>>
    BY <1>8 DEF Replay!HandleInvoice
  <2>2. replayed \in Seq(Replay!All) /\ handlings \in Seq(Replay!All) BY <1>1 DEF ReplayTypes
  <2>3. /\ Head(replayed) \in Replay!All /\ Tail(replayed) \in Seq(Replay!All)
        /\ Len(Tail(replayed)) = Len(replayed) - 1 /\ Len(replayed) >= 1
        /\ Replay!ToSet(replayed) = {Head(replayed)} \cup Replay!ToSet(Tail(replayed))
    BY <2>1, <2>2, Headed
  <2>4. /\ handlings' \in Seq(Replay!All) /\ Len(handlings') = Len(handlings) + 1
        /\ Replay!ToSet(handlings') = Replay!ToSet(handlings) \cup {Head(replayed)}
    BY <2>1, <2>2, <2>3, Appended
  <2>5. Replay!Group = IF Len(handlings) + 1 <= Replay!FixedOnes THEN "acme" ELSE "rest"
    BY DEF Replay!Group
  <2>6. /\ Len(handlings) <= Len(Invoices) /\ DOMAIN open = {"acme", "rest"}
        /\ open["acme"] = IF Len(handlings) <= Replay!FixedOnes THEN Replay!FixedOnes - Len(handlings) ELSE 0
        /\ open["rest"] = IF Len(handlings) <= Replay!FixedOnes THEN Len(Invoices) - Replay!FixedOnes
                          ELSE Len(Invoices) - Len(handlings)
        /\ Len(deadLetters) + Len(aside) + Len(replayed) + Len(handlings) <= Len(Invoices) + settlementsLost
    BY <1>1, <2>1 DEF ReplayCounts
  <2>7. CASE open[Replay!Group] = 0
    <3>1. replayStage' = "panicked" /\ UNCHANGED <<open, replayed, settlementsLost>>
      BY <1>8, <2>7 DEF Replay!HandleInvoice
    <3>2. Len(handlings) = Len(Invoices)
      BY <1>2, <2>5, <2>6, <2>7, FixedOnesType
    <3>3. settlementsLost > 0 BY <1>2, <2>3, <2>6, <3>2, FixedOnesType
    <3>4. ReplayTypes' BY <1>1, <2>1, <2>4, <3>1 DEF ReplayTypes
    <3>5. ReplayPlaces' BY <1>1, <2>1, <2>4, <3>1 DEF ReplayPlaces, Everywhere
    <3>6. ReplayCounts' BY <1>2, <2>4, <2>6, <3>1, <3>2, <3>3, FixedOnesType DEF ReplayCounts
    <3> QED BY <3>4, <3>5, <3>6 DEF ReplayInv
  <2>8. CASE open[Replay!Group] # 0
    <3>1. /\ open' = [open EXCEPT ![Replay!Group] = @ - 1] /\ replayStage' = replayStage
          /\ \/ replayed' = Tail(replayed) /\ settlementsLost' = settlementsLost
             \/ settlementsLost' = settlementsLost + 1 /\ replayed' = replayed
      BY <1>8, <2>8 DEF Replay!HandleInvoice
    <3>2. /\ replayed' \in Seq(Replay!All) /\ settlementsLost' \in Nat
          /\ Replay!ToSet(replayed') \subseteq Replay!ToSet(replayed)
          /\ Replay!ToSet(replayed) \subseteq Replay!ToSet(replayed') \cup {Head(replayed)}
          /\ Head(replayed) \in Replay!ToSet(replayed)
      <4>1. CASE replayed' = Tail(replayed) /\ settlementsLost' = settlementsLost
        BY <1>2, <2>3, <4>1
      <4>2. CASE settlementsLost' = settlementsLost + 1 /\ replayed' = replayed
        <5>1. settlementsLost' \in Nat BY <1>2, <4>2
        <5> QED BY <2>2, <2>3, <4>2, <5>1
      <4> QED BY <3>1, <4>1, <4>2
    <3>3. ReplayTypes' BY <1>1, <2>1, <2>4, <3>1, <3>2 DEF ReplayTypes
    <3>4. ReplayPlaces' BY <1>1, <2>1, <2>4, <3>1, <3>2 DEF ReplayPlaces, Everywhere
    <3>5. DOMAIN open' = {"acme", "rest"}
          /\ \A g \in {"acme", "rest"} : open'[g] = IF g = Replay!Group THEN open[g] - 1 ELSE open[g]
      BY <2>5, <2>6, <3>1
    <3>6. Len(handlings') <= Len(Invoices)
      BY <1>2, <2>4, <2>5, <2>6, <2>8, FixedOnesType
    <3>7. open'["acme"] = IF Len(handlings') <= Replay!FixedOnes THEN Replay!FixedOnes - Len(handlings') ELSE 0
      BY <1>2, <2>4, <2>5, <2>6, <3>5, FixedOnesType
    <3>8. open'["rest"] = IF Len(handlings') <= Replay!FixedOnes THEN Len(Invoices) - Replay!FixedOnes
                          ELSE Len(Invoices) - Len(handlings')
      BY <1>2, <2>4, <2>5, <2>6, <3>5, FixedOnesType
    <3>9. Len(deadLetters') + Len(aside') + Len(replayed') + Len(handlings') <= Len(Invoices) + settlementsLost'
      <4>1. deadLetters' = deadLetters /\ aside' = aside BY <2>1
      <4>2. CASE replayed' = Tail(replayed) /\ settlementsLost' = settlementsLost
        BY <1>2, <2>3, <2>4, <2>6, <4>1, <4>2, FixedOnesType
      <4>3. CASE settlementsLost' = settlementsLost + 1 /\ replayed' = replayed
        BY <1>2, <2>3, <2>4, <2>6, <4>1, <4>3, FixedOnesType
      <4> QED BY <3>1, <4>2, <4>3
    <3>10. ReplayCounts' BY <2>1, <3>1, <3>5, <3>6, <3>7, <3>8, <3>9 DEF ReplayCounts
    <3> QED BY <3>3, <3>4, <3>10 DEF ReplayInv
  <2> QED BY <2>7, <2>8
<1>9. CASE UNCHANGED Replay!vars
  BY <1>1, <1>9 DEF Replay!vars, ReplayInv, ReplayTypes, ReplayPlaces, ReplayCounts, Everywhere
<1> QED BY <1>3, <1>4, <1>5, <1>6, <1>7, <1>8, <1>9 DEF Replay!Next

\* Nothing is lost on its way back, a filtered replay moves nobody else's invoice,
\* and a wait group that falls below zero has seen an invoice twice.
THEOREM ReplayInStages ==
    Replay!Spec => [](/\ Replay!NothingIsLostOnItsWay /\ Replay!OnlyTheFixedTenant /\ Replay!PanicIsARepeat)
<1>1. ReplayInv => /\ Replay!NothingIsLostOnItsWay /\ Replay!OnlyTheFixedTenant /\ Replay!PanicIsARepeat
  BY DEF ReplayInv, ReplayPlaces, ReplayCounts, Everywhere, Replay!NothingIsLostOnItsWay,
     Replay!OnlyTheFixedTenant, Replay!PanicIsARepeat
<1> QED BY ReplayStarts, ReplayKept, <1>1, PTL DEF Replay!Spec
-----------------------------------------------------------------------------
\* basic/05-codecs.  No codec of the composite answers for every type, so that the
\* one that claims a body is the one its type names, and every type that is written
\* here is claimed.
OfferedCodecs == {Offered[i] : i \in DOMAIN Offered}

WrittenAsOffered(m) == m.with \in Codecs!Codec => m.type = m.with /\ m.with \in OfferedCodecs

CodecsInv ==
    /\ \A p \in Producers : writes[p] \in OfferedCodecs
    /\ DOMAIN writes = Producers
    /\ \A m \in encoded : WrittenAsOffered(m)
    /\ Codecs!ReadAsWritten /\ Codecs!NobodyGuesses

LEMMA CodecsOffered ==
    /\ OfferedCodecs \subseteq Codecs!Codec /\ "json" \in OfferedCodecs
    /\ \A type : \A i \in Codecs!Claims(type) :
          /\ Offered[i] \in OfferedCodecs
          /\ type = Offered[i] \/ (Offered[i] = "json" /\ type = Codecs!NoType)
    /\ \A c \in OfferedCodecs : Codecs!Claims(c) # {}
<1>1. \A i \in DOMAIN Offered : Offered[i] \in Codecs!Codec /\ Offered[i] # "bytes"
  BY CodecsAssumption
<1> QED
  BY <1>1, CodecsAssumption DEF OfferedCodecs, Codecs!Claims, Codecs!CanDecode, Codecs!TypeOf

LEMMA CodecsStart == Codecs!Init => CodecsInv
  BY CodecsOffered DEF Codecs!Init, CodecsInv, Codecs!ReadAsWritten, Codecs!NobodyGuesses

LEMMA CodecsKept == CodecsInv /\ [Codecs!Next]_(Codecs!vars) => CodecsInv'
<1> SUFFICES ASSUME CodecsInv, [Codecs!Next]_(Codecs!vars) PROVE CodecsInv'
  OBVIOUS
<1> USE DEF CodecsInv, Codecs!ReadAsWritten, Codecs!NobodyGuesses
<1>1. ASSUME NEW with, NEW type, Codecs!Put(with, type), with \in Codecs!Codec => type = with /\ with \in OfferedCodecs
      PROVE  CodecsInv'
  <2> DEFINE new == [no |-> messages', with |-> with, type |-> type]
  <2>1. encoded' = encoded \cup {new} /\ WrittenAsOffered(new)
    BY <1>1 DEF Codecs!Put, WrittenAsOffered
  <2> HIDE DEF new
  <2> QED BY <1>1, <2>1 DEF Codecs!Put
<1>2. ASSUME NEW p \in Producers, Codecs!Send(p) PROVE CodecsInv'
  <2>1. writes[p] \in OfferedCodecs OBVIOUS
  <2> QED BY <1>1, <1>2, <2>1 DEF Codecs!Send, Codecs!TypeOf
<1>3. ASSUME NEW type, Codecs!SendForeign(type) PROVE CodecsInv'
  <2>1. "somebody else's" \notin Codecs!Codec BY DEF Codecs!Codec
  <2> QED BY <1>1, <1>3, <2>1 DEF Codecs!SendForeign
<1>4. ASSUME NEW p \in Producers, NEW c \in Codecs!Codec, Codecs!Change(p, c) PROVE CodecsInv'
  <2>1. c \in OfferedCodecs BY <1>4 DEF Codecs!Change, Codecs!ToSet, OfferedCodecs
  <2> QED BY <1>4, <2>1 DEF Codecs!Change
<1>5. ASSUME NEW m \in encoded, Codecs!ReadByType(m) PROVE CodecsInv'
  <2>1. PICK i \in Codecs!Claims(m.type) :
             decodedAs' = decodedAs \cup {[message |-> m, by |-> Offered[i]]}
    BY <1>5 DEF Codecs!ReadByType
  <2> DEFINE new == [message |-> m, by |-> Offered[i]]
  <2>2. /\ decodedAs' = decodedAs \cup {new} /\ new.message = m
        /\ new.by \in OfferedCodecs
        /\ m.type = new.by \/ (new.by = "json" /\ m.type = Codecs!NoType)
    BY <2>1, CodecsOffered
  <2> HIDE DEF new
  <2>3. "none" \notin Codecs!Codec BY DEF Codecs!Codec
  <2>4. m.with \in Codecs!Codec => new.by = m.with
    BY <2>2, <2>3 DEF WrittenAsOffered, Codecs!NoType
  <2>5. m.type \in {new.by, Codecs!NoType} /\ (m.type = Codecs!NoType => new.by = "json")
    BY <2>2, <2>3, CodecsOffered DEF Codecs!NoType
  <2> QED BY <1>5, <2>2, <2>4, <2>5 DEF Codecs!ReadByType
<1>6. ASSUME NEW m \in encoded, Codecs!ParkUnclaimed(m) PROVE CodecsInv'
  <2>1. m.with \notin Codecs!Codec BY <1>6, CodecsOffered DEF Codecs!ParkUnclaimed, WrittenAsOffered
  <2> QED BY <1>6, <2>1 DEF Codecs!ParkUnclaimed
<1>7. CASE UNCHANGED Codecs!vars BY <1>7 DEF Codecs!vars
<1> QED BY <1>2, <1>3, <1>4, <1>5, <1>6, <1>7 DEF Codecs!Next

\* A message is read by the codec that wrote it, or by the one its type names.
THEOREM CodecsReadAsWritten == Codecs!Spec => [](Codecs!ReadAsWritten /\ Codecs!NobodyGuesses)
<1>1. CodecsInv => Codecs!ReadAsWritten /\ Codecs!NobodyGuesses BY DEF CodecsInv
<1> QED BY CodecsStart, CodecsKept, <1>1, PTL DEF Codecs!Spec
-----------------------------------------------------------------------------
\* basic/06-streams.  A reader has each entry once and in order, all before the one it is
\* given next; and what it has no entry of retention took.  The checkpoint is where
\* the projection's work stops, and the reader that resumes has only what comes after.
Elems(r) == {kept[r][i] : i \in DOMAIN kept[r]}

StreamsType ==
    /\ log = [i \in 1 .. Written |-> i - 1] /\ firstKept \in Nat
    /\ position \in [Streams!Readers -> Nat] /\ kept \in [Streams!Readers -> Seq(Nat)]
    /\ checkpoint \in Nat /\ stopping \in BOOLEAN
    /\ readerStage \in [Streams!Readers -> {"idle", "reading", "closed"}]

Reads(r) ==
    /\ Streams!Ascending(kept[r])
    /\ \A o \in Elems(r) : o < position[r]
    /\ readerStage[r] = "idle" => kept[r] = <<>>
    /\ readerStage[r] = "reading" => firstKept <= position[r]

Projected ==
    /\ \A o \in Elems("projection") : o <= checkpoint
    /\ kept["projection"] # <<>> =>
         /\ checkpoint = kept["projection"][Len(kept["projection"])]
         /\ 0 .. checkpoint \subseteq Elems("projection") \cup skipped
    /\ IF stopping THEN Len(kept["projection"]) = Half ELSE Len(kept["projection"]) < Half
    /\ readerStage["projection"] = "closed" => stopping
    /\ readerStage["projection"] = "reading" /\ ~stopping =>
         0 .. position["projection"] - 1 \subseteq Elems("projection") \cup skipped

Resumed ==
    readerStage["resumed"] # "idle" =>
        /\ readerStage["projection"] = "closed"
        /\ \A o \in Elems("resumed") : o > checkpoint
        /\ checkpoint < position["resumed"]
        /\ 0 .. position["resumed"] - 1 \subseteq Elems("projection") \cup Elems("resumed") \cup skipped

Reread(r) ==
    readerStage[r] # "idle" => 0 .. position[r] - 1 \subseteq Elems(r) \cup skipped

StreamsInv ==
    /\ StreamsType /\ \A r \in Streams!Readers : Reads(r)
    /\ Projected /\ Resumed /\ Reread("retrier") /\ Reread("auditor")

LEMMA StreamsStarts == Streams!Init => StreamsInv
<1> SUFFICES ASSUME Streams!Init PROVE StreamsInv
  OBVIOUS
<1> USE DEF Streams!Init, Streams!Readers
<1>1. StreamsType
  <2>1. <<>> \in Seq(Nat) OBVIOUS
  <2>2. kept \in [Streams!Readers -> Seq(Nat)] BY <2>1
  <2>3. position \in [Streams!Readers -> Nat] OBVIOUS
  <2>4. readerStage \in [Streams!Readers -> {"idle", "reading", "closed"}] OBVIOUS
  <2> QED BY <2>2, <2>3, <2>4 DEF StreamsType
<1>2. \A r \in Streams!Readers : /\ kept[r] = <<>> /\ Elems(r) = {} /\ readerStage[r] = "idle"
                                 /\ Len(kept[r]) = 0 /\ DOMAIN kept[r] = {}
  BY DEF Elems
<1>3. \A r \in Streams!Readers : Reads(r) BY <1>2 DEF Reads, Streams!Ascending
<1>4. Projected BY <1>2, StreamsAssumption DEF Projected
<1> QED BY <1>1, <1>2, <1>3, <1>4 DEF StreamsInv, Resumed, Reread

\* One more at the end of an ascending sequence.
LEMMA AscendingOn ==
    ASSUME NEW s \in Seq(Nat), Streams!Ascending(s), NEW e \in Nat, \A i \in DOMAIN s : s[i] < e
    PROVE  /\ Append(s, e) \in Seq(Nat) /\ Streams!Ascending(Append(s, e))
           /\ {Append(s, e)[i] : i \in DOMAIN Append(s, e)} = {s[i] : i \in DOMAIN s} \cup {e}
           /\ Len(Append(s, e)) = Len(s) + 1 /\ Append(s, e)[Len(s) + 1] = e
<1> DEFINE t == Append(s, e)
<1>1. /\ t \in Seq(Nat) /\ Len(t) = Len(s) + 1 /\ t[Len(s) + 1] = e
      /\ \A i \in 1 .. Len(s) : t[i] = s[i]
  BY AppendProperties
<1>2. DOMAIN s = 1 .. Len(s) /\ DOMAIN t = 1 .. Len(t) /\ Len(s) \in Nat BY <1>1, LenProperties
<1>3. \A i \in DOMAIN s : s[i] \in Nat BY <1>2, ElementOfSeq
<1> HIDE DEF t
<1>4. Streams!Ascending(t)
  <2> SUFFICES ASSUME NEW i \in DOMAIN t, NEW j \in DOMAIN t, i < j PROVE t[i] < t[j]
    BY DEF Streams!Ascending
  <2>1. i \in DOMAIN s /\ t[i] = s[i] BY <1>1, <1>2
  <2>2. CASE j = Len(s) + 1 BY <1>1, <2>1, <2>2
  <2>3. CASE j \in DOMAIN s
    <3>1. t[j] = s[j] BY <1>1, <1>2, <2>3
    <3> QED BY <2>1, <2>3, <3>1 DEF Streams!Ascending
  <2> QED BY <1>1, <1>2, <2>2, <2>3
<1>5. {t[i] : i \in DOMAIN t} = {s[i] : i \in DOMAIN s} \cup {e}
  <2>1. \A i \in DOMAIN t : i \in DOMAIN s \/ i = Len(s) + 1 BY <1>1, <1>2
  <2>2. Len(s) + 1 \in DOMAIN t /\ \A i \in DOMAIN s : i \in DOMAIN t /\ t[i] = s[i]
    BY <1>1, <1>2
  <2> QED BY <1>1, <2>1, <2>2
<1> QED BY <1>1, <1>4, <1>5 DEF t

\* A reader that is given an entry and keeps it.
LEMMA EntryKept ==
    ASSUME StreamsInv, NEW r \in Streams!Readers, Streams!Given(r),
           kept' = [kept EXCEPT ![r] = Append(@, log[position[r] + 1])],
           UNCHANGED <<firstKept, readerStage>>
    PROVE  /\ position' \in [Streams!Readers -> Nat] /\ kept' \in [Streams!Readers -> Seq(Nat)]
           /\ \A q \in Streams!Readers : Reads(q)'
           /\ Elems(r)' = Elems(r) \cup {position[r]} /\ position'[r] = position[r] + 1
           /\ \A q \in Streams!Readers : q # r =>
                Elems(q)' = Elems(q) /\ kept'[q] = kept[q] /\ position'[q] = position[q]
           /\ Len(kept'[r]) = Len(kept[r]) + 1 /\ kept'[r][Len(kept'[r])] = position[r]
           /\ kept'[r] # <<>> /\ position[r] \in Nat /\ Len(kept[r]) \in Nat
<1>1. StreamsType /\ Reads(r) BY DEF StreamsInv
<1>2. /\ readerStage[r] = "reading" /\ position[r] < Len(log)
      /\ position' = [position EXCEPT ![r] = @ + 1]
  BY DEF Streams!Given
<1>3. log \in Seq(Nat) /\ Len(log) = Written /\ position[r] \in Nat
  BY <1>1, StreamsAssumption DEF StreamsType
<1>4. log[position[r] + 1] = position[r]
  BY <1>1, <1>2, <1>3, StreamsAssumption DEF StreamsType
<1> DEFINE s == kept[r] t == Append(s, position[r])
<1>5. kept' = [kept EXCEPT ![r] = t] BY <1>4
<1>6. s \in Seq(Nat) /\ Streams!Ascending(s) /\ \A i \in DOMAIN s : s[i] < position[r]
  BY <1>1 DEF StreamsType, Reads, Elems
<1> HIDE DEF s
<1>7. /\ t \in Seq(Nat) /\ Streams!Ascending(t)
      /\ {t[i] : i \in DOMAIN t} = {s[i] : i \in DOMAIN s} \cup {position[r]}
      /\ Len(t) = Len(s) + 1 /\ t[Len(s) + 1] = position[r]
  BY <1>3, <1>6, AscendingOn
<1>8. Len(s) \in Nat BY <1>6, LenProperties
<1> HIDE DEF t
<1>9. t # <<>> BY <1>7, <1>8
<1>10. kept'[r] = t /\ \A q \in Streams!Readers : q # r => kept'[q] = kept[q]
  BY <1>1, <1>5 DEF StreamsType
<1>11. position'[r] = position[r] + 1 /\ \A q \in Streams!Readers : q # r => position'[q] = position[q]
  BY <1>1, <1>2 DEF StreamsType
<1>12. Elems(r)' = Elems(r) \cup {position[r]} BY <1>7, <1>10 DEF Elems, s
<1>13. \A q \in Streams!Readers : q # r => Elems(q)' = Elems(q) BY <1>10 DEF Elems
<1>14. Reads(r)'
  <2>1. \A o \in Elems(r) : o \in Nat /\ o < position[r]
    BY <1>1, <1>6, ElementOfSeq, LenProperties DEF Reads, Elems, s
  <2>2. firstKept <= position[r] /\ firstKept \in Nat BY <1>1, <1>2 DEF Reads, StreamsType
  <2>3. \A o \in Elems(r)' : o < position'[r] BY <1>3, <1>11, <1>12, <2>1
  <2>4. Streams!Ascending(kept[r])' BY <1>7, <1>10 DEF Streams!Ascending
  <2>5. readerStage'[r] = "reading" BY <1>2
  <2>6. firstKept' <= position'[r] BY <1>3, <1>11, <2>2
  <2> QED BY <2>3, <2>4, <2>5, <2>6 DEF Reads
<1>15. \A q \in Streams!Readers : q # r => Reads(q)'
  BY <1>10, <1>11, <1>13 DEF StreamsInv, Reads
<1>16. position' \in [Streams!Readers -> Nat] /\ kept' \in [Streams!Readers -> Seq(Nat)]
  BY <1>1, <1>2, <1>5, <1>7 DEF StreamsType
<1>17. Len(s) = Len(kept[r]) BY DEF s
<1> QED
  BY <1>3, <1>7, <1>8, <1>9, <1>10, <1>11, <1>12, <1>13, <1>14, <1>15, <1>16, <1>17

LEMMA StreamsKept == StreamsInv /\ [Streams!Next]_(Streams!vars) => StreamsInv'
<1> SUFFICES ASSUME StreamsInv, [Streams!Next]_(Streams!vars) PROVE StreamsInv'
  OBVIOUS
<1>1. StreamsType /\ Projected /\ Resumed /\ Reread("retrier") /\ Reread("auditor")
      /\ \A r \in Streams!Readers : Reads(r)
  BY DEF StreamsInv
<1>2. Streams!Readers = {"projection", "resumed", "retrier", "auditor"} BY DEF Streams!Readers
<1>3. checkpoint \in Nat /\ firstKept \in Nat /\ \A r \in Streams!Readers : position[r] \in Nat
  BY <1>1 DEF StreamsType
<1>4. ASSUME NEW r \in Streams!Readers, Streams!Start(r) PROVE StreamsInv'
  <2> DEFINE from == Streams!OffsetOf(r)
             start == IF from < firstKept THEN firstKept ELSE from
  <2>1. /\ readerStage[r] = "idle" /\ readerStage' = [readerStage EXCEPT ![r] = "reading"]
        /\ position' = [position EXCEPT ![r] = start]
        /\ skipped' = skipped \cup (from .. start - 1)
        /\ UNCHANGED <<log, firstKept, kept, checkpoint, stopping>>
    BY <1>4 DEF Streams!Start
  <2>2. from = IF r = "resumed" THEN checkpoint + 1 ELSE 0 BY DEF Streams!OffsetOf
  <2>3. from \in Nat /\ start \in Nat /\ from <= start /\ firstKept <= start BY <1>3, <2>2
  <2>4. from .. start - 1 \subseteq skipped' /\ skipped \subseteq skipped' BY <2>1
  <2> HIDE DEF start, from
  <2>5. /\ position'[r] = start /\ readerStage'[r] = "reading"
        /\ \A q \in Streams!Readers : q # r => position'[q] = position[q] /\ readerStage'[q] = readerStage[q]
    BY <1>1, <2>1 DEF StreamsType
  <2>6. \A q \in Streams!Readers : Elems(q)' = Elems(q) /\ kept'[q] = kept[q] BY <2>1 DEF Elems
  <2>7. StreamsType' BY <1>1, <2>1, <2>3 DEF StreamsType
  <2>8. kept[r] = <<>> /\ Elems(r) = {} BY <1>1, <2>1 DEF Reads, Elems
  <2>9. \A q \in Streams!Readers : Reads(q)'
    <3> TAKE q \in Streams!Readers
    <3>1. CASE q = r
      <4>1. Streams!Ascending(kept[q])' BY <2>6, <2>8, <3>1 DEF Streams!Ascending
      <4> QED BY <2>1, <2>3, <2>5, <2>6, <2>8, <3>1, <4>1 DEF Reads
    <3>2. CASE q # r
      <4>1. Reads(q) BY <1>1
      <4> QED BY <2>1, <2>5, <2>6, <3>2, <4>1 DEF Reads
    <3> QED BY <3>1, <3>2
  <2>10. Projected'
    <3>1. CASE r = "projection"
      <4>1. ~stopping BY <1>1, <2>8, <3>1, StreamsAssumption DEF Projected, StreamsType
      <4>2. 0 .. start - 1 \subseteq skipped' BY <2>2, <2>4, <3>1
      <4> QED BY <1>1, <2>1, <2>5, <2>6, <2>8, <3>1, <4>1, <4>2 DEF Projected
    <3>2. CASE r # "projection"
      <4>1. position'["projection"] = position["projection"]
            /\ readerStage'["projection"] = readerStage["projection"]
        BY <1>2, <2>5, <3>2
      <4> QED BY <1>1, <1>2, <2>1, <2>4, <2>6, <4>1 DEF Projected
    <3> QED BY <3>1, <3>2
  <2>11. Resumed'
    <3>1. CASE r = "resumed"
      <4>1. readerStage["projection"] = "closed" /\ readerStage'["projection"] = "closed"
        <5>1. readerStage[Streams!Before(r)] = "closed" BY <1>4, <3>1 DEF Streams!Start
        <5> QED BY <1>2, <2>5, <3>1, <5>1 DEF Streams!Before
      <4>2. 0 .. checkpoint \subseteq Elems("projection") \cup skipped
        <5>1. kept["projection"] # <<>>
          <6>1. Len(kept["projection"]) = Half BY <1>1, <4>1 DEF Projected
          <6> QED BY <6>1, StreamsAssumption
        <5> QED BY <1>1, <5>1 DEF Projected
      <4>3. checkpoint + 1 .. start - 1 \subseteq skipped' /\ checkpoint < start
        BY <1>3, <2>2, <2>3, <2>4, <3>1
      <4>4. 0 .. start - 1 \subseteq Elems("projection") \cup skipped'
        <5> SUFFICES ASSUME NEW o \in 0 .. start - 1 PROVE o \in Elems("projection") \cup skipped'
          OBVIOUS
        <5>1. o \in 0 .. checkpoint \/ o \in checkpoint + 1 .. start - 1 BY <1>3, <2>3
        <5> QED BY <2>4, <4>2, <4>3, <5>1
      <4>5. Elems("projection")' = Elems("projection") /\ Elems("resumed")' = {}
        BY <1>2, <2>6, <2>8, <3>1
      <4> QED BY <2>1, <2>5, <3>1, <4>1, <4>3, <4>4, <4>5 DEF Resumed
    <3>2. CASE r # "resumed"
      <4>1. /\ position'["resumed"] = position["resumed"] /\ readerStage'["resumed"] = readerStage["resumed"]
            /\ Elems("resumed")' = Elems("resumed") /\ Elems("projection")' = Elems("projection")
        BY <1>2, <2>5, <2>6, <3>2
      <4>2. readerStage["projection"] = "closed" => readerStage'["projection"] = "closed"
        BY <1>2, <2>1, <2>5
      <4> QED BY <1>1, <2>1, <2>4, <4>1, <4>2 DEF Resumed
    <3> QED BY <3>1, <3>2
  <2>12. ASSUME NEW q \in {"retrier", "auditor"} PROVE Reread(q)'
    <3>1. CASE r = q
      <4>1. 0 .. start - 1 \subseteq skipped' BY <2>2, <2>4, <3>1
      <4> QED BY <2>5, <3>1, <4>1 DEF Reread
    <3>2. CASE r # q
      <4>1. position'[q] = position[q] /\ readerStage'[q] = readerStage[q] /\ Elems(q)' = Elems(q)
        BY <1>2, <2>5, <2>6, <3>2
      <4>2. Reread(q) BY <1>1
      <4> QED BY <2>4, <4>1, <4>2 DEF Reread
    <3> QED BY <3>1, <3>2
  <2> QED BY <2>7, <2>9, <2>10, <2>11, <2>12 DEF StreamsInv
<1>5. CASE Streams!Project
  <2>1. Streams!Given("projection") /\ UNCHANGED <<log, firstKept, readerStage, skipped>>
    BY <1>5 DEF Streams!Project
  <2>2. /\ readerStage["projection"] = "reading"
        /\ position' = [position EXCEPT !["projection"] = @ + 1]
    BY <2>1 DEF Streams!Given
  <2>3. CASE stopping
    <3>1. UNCHANGED <<kept, checkpoint, stopping>> BY <1>5, <2>3 DEF Streams!Project
    <3>2. \A r \in Streams!Readers : Elems(r)' = Elems(r) BY <3>1 DEF Elems
    <3>3. \A r \in Streams!Readers : position'[r] \in Nat /\ position[r] <= position'[r]
            /\ (r # "projection" => position'[r] = position[r])
      BY <1>1, <2>2 DEF StreamsType
    <3>4. StreamsType'
      <4>1. position' \in [Streams!Readers -> Nat] BY <1>1, <1>2, <1>3, <2>2 DEF StreamsType
      <4> QED BY <1>1, <2>1, <3>1, <4>1 DEF StreamsType
    <3>5. \A r \in Streams!Readers : Reads(r)'
      <4> TAKE r \in Streams!Readers
      <4>1. Reads(r) BY <1>1
      <4>2. \A o \in Elems(r) : o \in Nat
        BY <1>1, ElementOfSeq, LenProperties DEF Elems, StreamsType
      <4>3. \A o \in Elems(r)' : o < position'[r] BY <1>3, <3>2, <3>3, <4>1, <4>2 DEF Reads
      <4>4. readerStage'[r] = "reading" => firstKept' <= position'[r]
        BY <1>3, <2>1, <3>3, <4>1 DEF Reads
      <4> QED BY <2>1, <3>1, <4>1, <4>3, <4>4 DEF Reads
    <3>6. Projected' BY <1>1, <1>2, <2>1, <2>2, <2>3, <3>1, <3>2 DEF Projected
    <3>7. Resumed' /\ Reread("retrier")' /\ Reread("auditor")'
      BY <1>1, <1>2, <2>1, <3>1, <3>2, <3>3 DEF Resumed, Reread
    <3> QED BY <3>4, <3>5, <3>6, <3>7 DEF StreamsInv
  <2>4. CASE ~stopping
    <3>1. /\ kept' = [kept EXCEPT !["projection"] = Append(@, log[position["projection"] + 1])]
          /\ checkpoint' = position["projection"] /\ stopping' = (Len(kept'["projection"]) = Half)
      BY <1>5, <2>4 DEF Streams!Project
    <3>2. "projection" \in Streams!Readers BY <1>2
    <3>3. /\ position' \in [Streams!Readers -> Nat] /\ kept' \in [Streams!Readers -> Seq(Nat)]
          /\ \A q \in Streams!Readers : Reads(q)'
          /\ Elems("projection")' = Elems("projection") \cup {position["projection"]}
          /\ position'["projection"] = position["projection"] + 1
          /\ \A q \in Streams!Readers : q # "projection" =>
               Elems(q)' = Elems(q) /\ kept'[q] = kept[q] /\ position'[q] = position[q]
          /\ Len(kept'["projection"]) = Len(kept["projection"]) + 1
          /\ kept'["projection"][Len(kept'["projection"])] = position["projection"]
          /\ kept'["projection"] # <<>> /\ position["projection"] \in Nat /\ Len(kept["projection"]) \in Nat
      BY <2>1, <3>1, <3>2, EntryKept
    <3>4. StreamsType' BY <1>1, <2>1, <3>1, <3>3 DEF StreamsType
    <3>5. 0 .. position["projection"] \subseteq Elems("projection")' \cup skipped
      <4>1. 0 .. position["projection"] - 1 \subseteq Elems("projection") \cup skipped
        BY <1>1, <2>2, <2>4 DEF Projected
      <4>2. \A o \in 0 .. position["projection"] :
               o \in 0 .. position["projection"] - 1 \/ o = position["projection"]
        BY <3>3
      <4> QED BY <3>3, <4>1, <4>2
    <3>6. \A o \in Elems("projection")' : o <= checkpoint'
      <4>1. \A o \in Elems("projection") : o \in Nat /\ o < position["projection"]
        BY <1>1, <3>2, ElementOfSeq, LenProperties DEF Elems, StreamsType, Reads
      <4> QED BY <3>1, <3>3, <4>1, SMTT(20)
    <3>7. IF stopping' THEN Len(kept'["projection"]) = Half ELSE Len(kept'["projection"]) < Half
      <4>1. Len(kept["projection"]) < Half BY <1>1, <2>4 DEF Projected
      <4>2. Len(kept'["projection"]) <= Half /\ Len(kept'["projection"]) \in Nat
        BY <3>3, <4>1, StreamsAssumption
      <4>3. stopping' <=> Len(kept'["projection"]) = Half BY <3>1
      <4> QED BY <4>2, <4>3, StreamsAssumption
    <3>8. position'["projection"] - 1 = position["projection"] BY <3>3
    <3>9. Projected' BY <2>1, <2>2, <3>1, <3>3, <3>5, <3>6, <3>7, <3>8 DEF Projected
    <3>10. readerStage["resumed"] = "idle" BY <1>1, <2>2 DEF Resumed
    <3>11. Resumed' BY <2>1, <3>10 DEF Resumed
    <3>12. Reread("retrier")' /\ Reread("auditor")'
      BY <1>1, <1>2, <2>1, <3>3 DEF Reread
    <3> QED BY <3>3, <3>4, <3>9, <3>11, <3>12 DEF StreamsInv
  <2> QED BY <2>3, <2>4
<1>6. ASSUME NEW r \in Streams!Readers, r # "projection", Streams!Given(r),
             kept' = [kept EXCEPT ![r] = Append(@, log[position[r] + 1])],
             UNCHANGED <<log, firstKept, checkpoint, stopping, readerStage, skipped>>
      PROVE  StreamsInv'
  <2>1. /\ position' \in [Streams!Readers -> Nat] /\ kept' \in [Streams!Readers -> Seq(Nat)]
        /\ \A q \in Streams!Readers : Reads(q)'
        /\ Elems(r)' = Elems(r) \cup {position[r]} /\ position'[r] = position[r] + 1
        /\ \A q \in Streams!Readers : q # r =>
             Elems(q)' = Elems(q) /\ kept'[q] = kept[q] /\ position'[q] = position[q]
        /\ position[r] \in Nat
    BY <1>6, EntryKept
  <2>2. StreamsType' BY <1>1, <1>6, <2>1 DEF StreamsType
  <2>3. Projected' BY <1>1, <1>2, <1>6, <2>1 DEF Projected
  <2>4. readerStage[r] = "reading" BY <1>6 DEF Streams!Given
  <2>5. \A o \in 0 .. position'[r] - 1 : o \in 0 .. position[r] - 1 \/ o = position[r] BY <2>1
  <2>6. Resumed'
    <3>1. CASE r = "resumed"
      <4>1. /\ readerStage["projection"] = "closed" /\ checkpoint < position["resumed"]
            /\ \A o \in Elems("resumed") : o > checkpoint
            /\ 0 .. position["resumed"] - 1 \subseteq Elems("projection") \cup Elems("resumed") \cup skipped
        BY <1>1, <2>4, <3>1 DEF Resumed
      <4>2. Elems("projection")' = Elems("projection") BY <1>2, <2>1, <3>1
      <4>3. \A o \in Elems("resumed")' : o > checkpoint BY <1>3, <2>1, <3>1, <4>1
      <4>4. 0 .. position'["resumed"] - 1 \subseteq Elems("projection")' \cup Elems("resumed")' \cup skipped
        BY <2>1, <2>5, <3>1, <4>1, <4>2
      <4>5. checkpoint < position'["resumed"] BY <1>3, <2>1, <3>1, <4>1
      <4> QED BY <1>6, <4>1, <4>3, <4>4, <4>5 DEF Resumed
    <3>2. CASE r # "resumed"
      <4>1. /\ position'["resumed"] = position["resumed"] /\ Elems("resumed")' = Elems("resumed")
            /\ Elems("projection")' = Elems("projection")
        BY <1>2, <1>6, <2>1, <3>2
      <4> QED BY <1>1, <1>6, <4>1 DEF Resumed
    <3> QED BY <3>1, <3>2
  <2>7. ASSUME NEW q \in {"retrier", "auditor"} PROVE Reread(q)'
    <3>1. Reread(q) /\ q \in Streams!Readers BY <1>1, <1>2
    <3>2. CASE r = q
      <4>1. 0 .. position[q] - 1 \subseteq Elems(q) \cup skipped BY <2>4, <3>1, <3>2 DEF Reread
      <4> QED BY <1>6, <2>1, <2>5, <3>2, <4>1 DEF Reread
    <3>3. CASE r # q
      <4>1. position'[q] = position[q] /\ Elems(q)' = Elems(q) BY <2>1, <3>1, <3>3
      <4> QED BY <1>6, <3>1, <4>1 DEF Reread
    <3> QED BY <3>2, <3>3
  <2> QED BY <2>1, <2>2, <2>3, <2>6, <2>7 DEF StreamsInv
<1>7. CASE Streams!Retry
  <2>1. "retrier" \in Streams!Readers BY <1>2
  <2>2. /\ Streams!Given("retrier")
        /\ kept' = [kept EXCEPT !["retrier"] = Append(@, log[position["retrier"] + 1])]
        /\ UNCHANGED <<log, firstKept, checkpoint, stopping, readerStage, skipped>>
    BY <1>7 DEF Streams!Retry
  <2> QED BY <1>6, <2>1, <2>2
<1>8. ASSUME NEW r \in Streams!Readers, Streams!ReadOn(r) PROVE StreamsInv'
  <2>1. /\ Streams!Given(r) /\ r # "projection"
        /\ kept' = [kept EXCEPT ![r] = Append(@, log[position[r] + 1])]
        /\ UNCHANGED <<log, firstKept, checkpoint, stopping, readerStage, skipped>>
    BY <1>8 DEF Streams!ReadOn
  <2> QED BY <1>6, <2>1
<1>9. ASSUME NEW r \in Streams!Readers, Streams!Close(r) PROVE StreamsInv'
  <2>1. /\ readerStage[r] = "reading" /\ Len(kept[r]) >= Streams!Awaited(r)
        /\ readerStage' = [readerStage EXCEPT ![r] = "closed"]
        /\ UNCHANGED <<log, firstKept, position, kept, checkpoint, stopping, skipped>>
    BY <1>9 DEF Streams!Close
  <2>2. readerStage'[r] = "closed" /\ \A q \in Streams!Readers : q # r => readerStage'[q] = readerStage[q]
    BY <1>1, <2>1 DEF StreamsType
  <2>3. \A q \in Streams!Readers : Elems(q)' = Elems(q) BY <2>1 DEF Elems
  <2>4. StreamsType' BY <1>1, <2>1 DEF StreamsType
  <2>5. \A q \in Streams!Readers : Reads(q)'
    <3> TAKE q \in Streams!Readers
    <3>1. Reads(q) BY <1>1
    <3> QED BY <2>1, <2>2, <2>3, <3>1 DEF Reads
  <2>6. Projected'
    <3>1. CASE r = "projection"
      <4>1. Len(kept["projection"]) >= Half BY <2>1, <3>1 DEF Streams!Awaited
      <4>2. kept["projection"] \in Seq(Nat) BY <1>1, <1>2 DEF StreamsType
      <4>3. Len(kept["projection"]) \in Nat BY <4>2, LenProperties
      <4>4. stopping BY <1>1, <4>1, <4>3, StreamsAssumption DEF Projected
      <4> QED BY <1>1, <1>2, <2>1, <2>2, <2>3, <3>1, <4>4 DEF Projected
    <3>2. CASE r # "projection" BY <1>1, <1>2, <2>1, <2>2, <2>3, <3>2 DEF Projected
    <3> QED BY <3>1, <3>2
  <2>7. Resumed' BY <1>1, <1>2, <2>1, <2>2, <2>3 DEF Resumed
  <2>8. Reread("retrier")' /\ Reread("auditor")' BY <1>1, <1>2, <2>1, <2>2, <2>3 DEF Reread
  <2> QED BY <2>4, <2>5, <2>6, <2>7, <2>8 DEF StreamsInv
<1>10. CASE Streams!Retain
  <2> DEFINE caught(r) == readerStage[r] = "reading" /\ position[r] < firstKept + 1
  <2>1. /\ firstKept' = firstKept + 1
        /\ position' = [r \in Streams!Readers |-> IF caught(r) THEN firstKept + 1 ELSE position[r]]
        /\ skipped' = skipped \cup (IF \E r \in Streams!Readers : caught(r) THEN {firstKept} ELSE {})
        /\ UNCHANGED <<log, kept, checkpoint, stopping, readerStage>>
    BY <1>10 DEF Streams!Retain
  <2>2. \A r \in Streams!Readers : Elems(r)' = Elems(r) BY <2>1 DEF Elems
  <2>3. ASSUME NEW r \in Streams!Readers
        PROVE  /\ position[r] <= position'[r] /\ position'[r] \in Nat
               /\ readerStage[r] = "reading" => firstKept' <= position'[r]
               /\ readerStage[r] # "reading" => position'[r] = position[r]
               /\ position'[r] = position[r] \/ (position'[r] = position[r] + 1 /\ position[r] \in skipped')
    <3>1. readerStage[r] = "reading" => firstKept <= position[r] BY <1>1 DEF Reads
    <3>2. position'[r] = IF caught(r) THEN firstKept + 1 ELSE position[r] BY <2>1
    <3>3. CASE caught(r)
      <4>1. position[r] = firstKept BY <1>3, <3>1, <3>3
      <4>2. firstKept \in skipped' BY <2>1, <3>3
      <4> QED BY <1>3, <2>1, <3>2, <3>3, <4>1, <4>2
    <3>4. CASE ~caught(r) BY <1>3, <2>1, <3>2, <3>4
    <3> QED BY <3>3, <3>4
  <2>4. skipped \subseteq skipped' BY <2>1
  <2> HIDE DEF caught
  <2>5. \A r \in Streams!Readers : \A o \in 0 .. position'[r] - 1 :
           o \in 0 .. position[r] - 1 \/ o \in skipped'
    BY <1>3, <2>3
  <2>6. position' \in [Streams!Readers -> Nat] BY <2>1, <2>3
  <2>7. StreamsType' BY <1>1, <2>1, <2>6 DEF StreamsType
  <2>8. \A r \in Streams!Readers : Reads(r)'
    <3> TAKE r \in Streams!Readers
    <3>1. Reads(r) BY <1>1
    <3>2. \A o \in Elems(r) : o \in Nat BY <1>1, ElementOfSeq, LenProperties DEF Elems, StreamsType
    <3>3. \A o \in Elems(r)' : o < position'[r] BY <1>3, <2>2, <2>3, <3>1, <3>2 DEF Reads
    <3> QED BY <2>1, <2>3, <3>1, <3>3 DEF Reads
  <2>9. Projected'
    <3>1. readerStage["projection"] = "reading" /\ ~stopping =>
            0 .. position'["projection"] - 1 \subseteq Elems("projection") \cup skipped'
      BY <1>1, <1>2, <2>4, <2>5 DEF Projected
    <3>2. Elems("projection")' = Elems("projection") BY <1>2, <2>2
    <3> QED BY <1>1, <2>1, <2>4, <3>1, <3>2 DEF Projected
  <2>10. Resumed'
    <3>1. checkpoint < position["resumed"] => checkpoint < position'["resumed"]
      BY <1>2, <1>3, <2>3
    <3>2. Elems("projection")' = Elems("projection") /\ Elems("resumed")' = Elems("resumed")
      BY <1>2, <2>2
    <3>3. readerStage["resumed"] # "idle" =>
            0 .. position'["resumed"] - 1 \subseteq Elems("projection") \cup Elems("resumed") \cup skipped'
      BY <1>1, <1>2, <2>4, <2>5 DEF Resumed
    <3> QED BY <1>1, <2>1, <3>1, <3>2, <3>3 DEF Resumed
  <2>11. Reread("retrier")' /\ Reread("auditor")'
    BY <1>1, <1>2, <2>1, <2>2, <2>4, <2>5 DEF Reread
  <2> QED BY <2>7, <2>8, <2>9, <2>10, <2>11 DEF StreamsInv
<1>11. CASE UNCHANGED Streams!vars
  <2>1. \A r \in Streams!Readers : Elems(r)' = Elems(r) BY <1>11 DEF Elems, Streams!vars
  <2>2. \A r \in Streams!Readers : Reads(r)' BY <1>1, <1>11, <2>1 DEF Reads, Streams!vars
  <2>3. StreamsType' BY <1>1, <1>11 DEF StreamsType, Streams!vars
  <2>4. Projected' /\ Resumed' BY <1>1, <1>2, <1>11, <2>1 DEF Projected, Resumed, Streams!vars
  <2>5. Reread("retrier")' /\ Reread("auditor")' BY <1>1, <1>2, <1>11, <2>1 DEF Reread, Streams!vars
  <2> QED BY <2>2, <2>3, <2>4, <2>5 DEF StreamsInv
<1> QED
  BY <1>4, <1>5, <1>7, <1>8, <1>9, <1>10, <1>11 DEF Streams!Next, Streams!Work

\* Two readers one after the other leave no gap and repeat nothing, and the log is
\* the same for those that read it again.
THEOREM StreamReadOnce ==
    Streams!Spec => [](/\ Streams!NoGapAndNothingTwice /\ Streams!TheLogIsLeftAlone
                       /\ Streams!CheckpointIsTheWork)
<1>1. StreamsInv => /\ Streams!NoGapAndNothingTwice /\ Streams!TheLogIsLeftAlone
                    /\ Streams!CheckpointIsTheWork
  <2> SUFFICES ASSUME StreamsInv
               PROVE  /\ Streams!NoGapAndNothingTwice /\ Streams!TheLogIsLeftAlone
                      /\ Streams!CheckpointIsTheWork
    OBVIOUS
  <2>1. StreamsType /\ Projected /\ Resumed /\ Reread("retrier") /\ Reread("auditor")
        /\ \A r \in Streams!Readers : Reads(r)
    BY DEF StreamsInv
  <2>2. Streams!Readers = {"projection", "resumed", "retrier", "auditor"} BY DEF Streams!Readers
  <2>3. \A r \in Streams!Readers : Streams!ToSet(kept[r]) = Elems(r) BY DEF Streams!ToSet, Elems
  <2> DEFINE p == kept["projection"] q == kept["resumed"] both == p \o q
  <2>4. p \in Seq(Nat) /\ q \in Seq(Nat) BY <2>1, <2>2 DEF StreamsType
  <2>5. /\ \A i \in DOMAIN p : p[i] \in Elems("projection")
        /\ \A i \in DOMAIN q : q[i] \in Elems("resumed")
        /\ \A o \in Elems("projection") : \E i \in DOMAIN p : o = p[i]
        /\ \A o \in Elems("resumed") : \E i \in DOMAIN q : o = q[i]
    BY DEF Elems
  <2>6. Streams!Ascending(p) /\ Streams!Ascending(q) BY <2>1, <2>2 DEF Reads
  <2>7. \A i \in DOMAIN p, j \in DOMAIN q : p[i] < q[j]
    <3> SUFFICES ASSUME NEW i \in DOMAIN p, NEW j \in DOMAIN q PROVE p[i] < q[j]
      OBVIOUS
    <3>1. q # <<>> BY <2>4, LenProperties
    <3>2. readerStage["resumed"] # "idle" BY <2>1, <2>2, <3>1 DEF Reads
    <3>3. p[i] <= checkpoint /\ q[j] > checkpoint BY <2>1, <2>5, <3>2 DEF Projected, Resumed
    <3>4. p[i] \in Nat /\ q[j] \in Nat /\ checkpoint \in Nat
      BY <2>1, <2>4, ElementOfSeq, LenProperties DEF StreamsType
    <3> QED BY <3>3, <3>4
  <2>8. kept["projection"] \o kept["resumed"] = both OBVIOUS
  <2>9. q = kept["resumed"] /\ p = kept["projection"] OBVIOUS
  <2> HIDE DEF p, q
  <2>10. /\ both \in Seq(Nat) /\ Len(both) = Len(p) + Len(q)
         /\ \A i \in 1 .. Len(p) + Len(q) : both[i] = IF i <= Len(p) THEN p[i] ELSE q[i - Len(p)]
    BY <2>4, ConcatProperties
  <2>11. /\ DOMAIN both = 1 .. Len(both) /\ DOMAIN p = 1 .. Len(p) /\ DOMAIN q = 1 .. Len(q)
         /\ Len(p) \in Nat /\ Len(q) \in Nat
    BY <2>4, <2>10, LenProperties
  <2> HIDE DEF both
  <2>12. Streams!Ascending(both)
    <3> SUFFICES ASSUME NEW i \in DOMAIN both, NEW j \in DOMAIN both, i < j PROVE both[i] < both[j]
      BY DEF Streams!Ascending
    <3>1. CASE j <= Len(p)
      <4>1. i \in DOMAIN p /\ j \in DOMAIN p /\ both[i] = p[i] /\ both[j] = p[j]
        BY <2>10, <2>11, <3>1
      <4> QED BY <2>6, <4>1 DEF Streams!Ascending
    <3>2. CASE i <= Len(p) /\ j > Len(p)
      <4>1. i \in DOMAIN p /\ j - Len(p) \in DOMAIN q /\ both[i] = p[i] /\ both[j] = q[j - Len(p)]
        BY <2>10, <2>11, <3>2
      <4> QED BY <2>7, <4>1
    <3>3. CASE i > Len(p)
      <4>1. i \in 1 .. Len(p) + Len(q) /\ j \in 1 .. Len(p) + Len(q) BY <2>10, <2>11
      <4>2. i - Len(p) \in DOMAIN q /\ j - Len(p) \in DOMAIN q /\ i - Len(p) < j - Len(p)
        BY <2>11, <3>3, <4>1
      <4>3. ~(i <= Len(p)) /\ ~(j <= Len(p)) BY <2>11, <3>3, <4>1
      <4>4. both[i] = q[i - Len(p)] /\ both[j] = q[j - Len(p)] BY <2>10, <4>1, <4>3
      <4> QED BY <2>6, <4>2, <4>4 DEF Streams!Ascending
    <3> QED BY <2>11, <3>1, <3>2, <3>3
  <2>13. Elems("projection") \cup Elems("resumed") \subseteq Streams!ToSet(both)
    <3>1. \A i \in DOMAIN p : i \in DOMAIN both /\ both[i] = p[i] BY <2>10, <2>11
    <3>2. \A j \in DOMAIN q : j + Len(p) \in DOMAIN both /\ both[j + Len(p)] = q[j] BY <2>10, <2>11, SMTT(20)
    <3> QED BY <2>5, <2>9, <3>1, <3>2 DEF Streams!ToSet
  <2>14. readerStage["resumed"] # "idle" =>
           0 .. position["resumed"] - 1 \subseteq Streams!ToSet(both) \cup skipped
    BY <2>1, <2>13 DEF Resumed
  <2>15. Streams!NoGapAndNothingTwice
    BY <2>8, <2>12, <2>14 DEF Streams!NoGapAndNothingTwice
  <2>16. Streams!TheLogIsLeftAlone
    <3>1. Len(log) = Written BY <2>1, StreamsAssumption DEF StreamsType
    <3>2. \A r \in {"retrier", "auditor"} : Streams!Ascending(kept[r]) BY <2>1, <2>2 DEF Reads
    <3>3. \A r \in {"retrier", "auditor"} : readerStage[r] # "idle" =>
             0 .. position[r] - 1 \subseteq Streams!ToSet(kept[r]) \cup skipped
      BY <2>1, <2>2, <2>3 DEF Reread
    <3> QED BY <3>1, <3>2, <3>3 DEF Streams!TheLogIsLeftAlone
  <2>17. Streams!CheckpointIsTheWork
    <3>1. Len(p) <= Half BY <2>1, <2>9, <2>11, StreamsAssumption DEF Projected, StreamsType
    <3> QED BY <2>1, <2>9, <3>1 DEF Projected, Streams!CheckpointIsTheWork, Streams!Last
  <2> QED BY <2>15, <2>16, <2>17
<1> QED BY StreamsStarts, StreamsKept, <1>1, PTL DEF Streams!Spec
-----------------------------------------------------------------------------
\* advanced/03-claim-check.  A body is as its report's size says, a checked one
\* has its payload in the directory, and what is on a queue has a body.
ClaimCheckInv ==
    /\ \A r \in Reports : encodedBody[r] =
          (IF ClaimCheck!Checks(r.size) THEN [kind |-> "checked", bytes |-> ClaimCheck!Framing + KeySize]
           ELSE [kind |-> "inline", bytes |-> ClaimCheck!Framing + r.size])
          \/ encodedBody[r] = ClaimCheck!NoBody
    /\ DOMAIN encodedBody = Reports
    /\ ClaimCheck!KeysPointSomewhere /\ ClaimCheck!AlwaysRedeemable
    /\ \A r \in queueDepth \cup filedAway : r \in Reports /\ encodedBody[r] # ClaimCheck!NoBody
    /\ \A r \in directory : r.size >= Threshold

LEMMA ClaimCheckStarts == ClaimCheck!Init => ClaimCheckInv
  BY DEF ClaimCheck!Init, ClaimCheckInv, ClaimCheck!KeysPointSomewhere, ClaimCheck!NoBody,
     ClaimCheck!AlwaysRedeemable

LEMMA ClaimCheckKept == ClaimCheckInv /\ [ClaimCheck!Next]_(ClaimCheck!vars) => ClaimCheckInv'
<1> SUFFICES ASSUME ClaimCheckInv, [ClaimCheck!Next]_(ClaimCheck!vars) PROVE ClaimCheckInv'
  OBVIOUS
<1> USE ClaimCheckAssumption DEF ClaimCheckInv, ClaimCheck!KeysPointSomewhere, ClaimCheck!NoBody,
     ClaimCheck!AlwaysRedeemable, ClaimCheck!Checks, ClaimCheck!Framing
<1>1. ASSUME NEW r \in Reports, ClaimCheck!Encode(r) PROVE ClaimCheckInv'
  BY <1>1 DEF ClaimCheck!Encode
<1>2. ASSUME NEW r \in Reports, ClaimCheck!Offload(r) PROVE ClaimCheckInv'
  BY <1>2 DEF ClaimCheck!Offload
<1>3. ASSUME NEW r \in Reports, ClaimCheck!ReplayFiled(r) PROVE ClaimCheckInv'
  BY <1>3 DEF ClaimCheck!ReplayFiled
<1>4. ASSUME NEW r \in Reports, NEW rejected \in BOOLEAN, ClaimCheck!Redeem(r, rejected)
      PROVE  ClaimCheckInv'
  <2>1. encodedBody[r].kind = "inline" \/ r \in directory
    <3>1. encodedBody[r] # ClaimCheck!NoBody BY <1>4 DEF ClaimCheck!Redeem
    <3> QED BY <3>1
  <2>2. ClaimCheck!Decoded(r) = "document"
    BY <2>1 DEF ClaimCheck!Decoded, ClaimCheck!StoreSeen
  <2> QED BY <1>4, <2>2 DEF ClaimCheck!Redeem
<1>5. CASE ClaimCheck!DeleteQueues BY <1>5 DEF ClaimCheck!DeleteQueues
<1>6. CASE UNCHANGED ClaimCheck!vars BY <1>6 DEF ClaimCheck!vars
<1> QED BY <1>1, <1>2, <1>3, <1>4, <1>5, <1>6 DEF ClaimCheck!Next

\* Every reading gives the document, a key names a payload that is there, and what
\* is checked is what could not travel inline.
THEOREM ClaimsAreRedeemed ==
    ClaimCheck!Spec => [](/\ ClaimCheck!AlwaysRedeemable /\ ClaimCheck!KeysPointSomewhere
                          /\ ClaimCheck!BoundaryIsChecked)
<1>1. ClaimCheckInv => /\ ClaimCheck!AlwaysRedeemable /\ ClaimCheck!KeysPointSomewhere
                       /\ ClaimCheck!BoundaryIsChecked
  BY ClaimCheckAssumption DEF ClaimCheckInv, ClaimCheck!BoundaryIsChecked, ClaimCheck!NoBody,
     ClaimCheck!Checks, ClaimCheck!Framing
<1> QED BY ClaimCheckStarts, ClaimCheckKept, <1>1, PTL DEF ClaimCheck!Spec
-----------------------------------------------------------------------------
\* advanced/04-encrypting-payloads.  A key somebody writes with, or a body left
\* alone names, is on every ring, or was used or dropped out of the order.
RotationInv ==
    /\ DOMAIN ring = Processes /\ DOMAIN writesWith = Processes
    /\ \A p \in Processes : writesWith[p] \in hasty \/ Rotation!HeldByAll(writesWith[p])
    /\ \A b \in bodies : b.intact => b.key \in hasty \/ Rotation!HeldByAll(b.key)
    /\ Rotation!NobodyIsShutOut /\ Rotation!AlteredIsNotOpened

LEMMA RotationStarts == Rotation!Init => RotationInv
<1> SUFFICES ASSUME Rotation!Init PROVE RotationInv
  OBVIOUS
<1>1. PICK k \in Keys : ring = [p \in Processes |-> {k}] /\ writesWith = [p \in Processes |-> k]
  BY DEF Rotation!Init
<1>2. bodies = {} /\ opened = {} /\ parkedBodies = {} BY DEF Rotation!Init
<1> QED
  BY <1>1, <1>2 DEF RotationInv, Rotation!HeldByAll, Rotation!NobodyIsShutOut,
     Rotation!AlteredIsNotOpened

LEMMA RotationKept == RotationInv /\ [Rotation!Next]_(Rotation!vars) => RotationInv'
<1> SUFFICES ASSUME RotationInv, [Rotation!Next]_(Rotation!vars) PROVE RotationInv'
  OBVIOUS
<1> USE DEF RotationInv, Rotation!HeldByAll, Rotation!NobodyIsShutOut, Rotation!AlteredIsNotOpened
<1>1. ASSUME NEW p \in Processes, NEW k, Rotation!AddKey(p, k) PROVE RotationInv'
  <2>1. DOMAIN ring' = Processes /\ \A q \in Processes : ring[q] \subseteq ring'[q]
    BY <1>1 DEF Rotation!AddKey
  <2> QED BY <1>1, <2>1 DEF Rotation!AddKey
<1>2. ASSUME NEW p \in Processes, NEW k, Rotation!Use(p, k) PROVE RotationInv'
  <2>1. /\ DOMAIN writesWith' = Processes /\ writesWith'[p] = k
        /\ \A q \in Processes : q # p => writesWith'[q] = writesWith[q]
        /\ hasty \subseteq hasty' /\ (k \in hasty' \/ Rotation!HeldByAll(k))
    BY <1>2 DEF Rotation!Use
  <2> QED BY <1>2, <2>1 DEF Rotation!Use
<1>3. ASSUME NEW p \in Processes, Rotation!Seal(p) PROVE RotationInv'
  <2> DEFINE b == [no |-> written', key |-> writesWith[p], intact |-> TRUE]
  <2>1. b.key = writesWith[p] /\ bodies' = bodies \cup {b}
    BY <1>3 DEF Rotation!Seal
  <2> HIDE DEF b
  <2> QED BY <1>3, <2>1 DEF Rotation!Seal
<1>4. ASSUME NEW b, NEW k, Rotation!Alter(b, k) PROVE RotationInv'
  <2> DEFINE c == [no |-> written', key |-> k, intact |-> FALSE]
  <2>1. ~c.intact /\ bodies' = bodies \cup {c}
    BY <1>4 DEF Rotation!Alter
  <2> HIDE DEF c
  <2> QED BY <1>4, <2>1 DEF Rotation!Alter
<1>5. ASSUME NEW p \in Processes, NEW b \in bodies, Rotation!Open(p, b) PROVE RotationInv'
  BY <1>5 DEF Rotation!Open, Rotation!Decodes
<1>6. ASSUME NEW p \in Processes, NEW b \in bodies, Rotation!ParkBody(p, b) PROVE RotationInv'
  <2>1. b.key \notin ring[p] \/ ~b.intact BY <1>6 DEF Rotation!ParkBody, Rotation!Decodes
  <2>2. b.intact => b.key \in hasty BY <2>1
  <2> QED BY <1>6, <2>2 DEF Rotation!ParkBody
<1>7. ASSUME NEW p \in Processes, NEW k, Rotation!DropKey(p, k) PROVE RotationInv'
  <2>1. /\ DOMAIN ring' = Processes /\ hasty \subseteq hasty'
        /\ \A j : j # k => \A q \in Processes : j \in ring[q] => j \in ring'[q]
    BY <1>7 DEF Rotation!DropKey
  <2>2. \A j : Rotation!HeldByAll(j) /\ j # k => Rotation!HeldByAll(j)'
    BY <2>1
  <2>3. k \in hasty' \/ Rotation!OutOfUse(k) BY <1>7 DEF Rotation!DropKey
  <2>4. UNCHANGED <<writesWith, bodies, opened, parkedBodies>> BY <1>7 DEF Rotation!DropKey
  <2> QED BY <2>1, <2>2, <2>3, <2>4 DEF Rotation!OutOfUse
<1>8. CASE UNCHANGED Rotation!vars BY <1>8 DEF Rotation!vars
<1> QED BY <1>1, <1>2, <1>3, <1>4, <1>5, <1>6, <1>7, <1>8 DEF Rotation!Next, Rotation!Consume

\* A rotation without an outage: no body that was left alone is parked, whoever
\* reads it and whenever it was written, unless its key was used or dropped out of
\* the order, and no altered one is opened.
THEOREM RotationWithoutOutage ==
    Rotation!Spec => [](Rotation!NobodyIsShutOut /\ Rotation!AlteredIsNotOpened)
<1>1. RotationInv => Rotation!NobodyIsShutOut /\ Rotation!AlteredIsNotOpened
  BY DEF RotationInv
<1> QED BY RotationStarts, RotationKept, <1>1, PTL DEF Rotation!Spec
-----------------------------------------------------------------------------
\* advanced/06-tracing.  A message that is being handled has one open span, any other
\* none, so that the one a settlement ends is its own.
Opens(m) == {s \in spans : s.of = m /\ s.outcome = "open"}

Spans == [of : Sent, try : Nat, no : Nat, parent : Sent \cup {Tracing!NoTrace},
          outcome : {"open", "acked", "retried", "dead-lettered", "failed"}]

TracingInv ==
    /\ headers \in [Sent -> Sent \cup {Tracing!NoTrace}]
    /\ tried \in [Sent -> Nat]
    /\ place \in [Sent -> {"new", "queue", "handler", "asked", "done", "dead"}]
    /\ spans \subseteq Spans /\ IsFiniteSet(spans)
    /\ \A m \in Sent : headers[m] = IF m \in publishSpans THEN m ELSE Tracing!NoTrace
    /\ \A s \in spans : place[s.of] # "new" /\ s.try <= tried[s.of]
    /\ \A m \in Sent : place[m] = "new" => m \notin publishSpans
    /\ \A m \in Sent : IF place[m] \in {"handler", "asked"} THEN \E s : Opens(m) = {s}
                       ELSE Opens(m) = {}
    /\ Tracing!JoinedToItsPublish
    /\ Tracing!OutcomeIsTheEngines

LEMMA TracingStarts == Tracing!Init => TracingInv
<1> SUFFICES ASSUME Tracing!Init PROVE TracingInv
  OBVIOUS
<1>1. IsFiniteSet(spans) BY FS_EmptySet DEF Tracing!Init
<1> QED
  BY <1>1 DEF Tracing!Init, TracingInv, Opens, Spans, Tracing!JoinedToItsPublish, Tracing!OutcomeIsTheEngines

\* A message gets its span with its delivery.
LEMMA SpanOpens == ASSUME TracingInv, NEW m \in Sent, Tracing!Deliver(m) PROVE TracingInv'
<1> USE DEF TracingInv
<1> DEFINE x == [of |-> m, try |-> tried[m], no |-> Tracing!Cardinality(spans),
                 parent |-> headers[m], outcome |-> "open"]
<1>1. /\ place[m] = "queue" /\ place' = [place EXCEPT ![m] = "handler"]
      /\ UNCHANGED <<headers, publishSpans, tried>> /\ spans' = spans \cup {x}
  BY DEF Tracing!Deliver, Tracing!Open
<1>2. Tracing!Cardinality(spans) \in Nat
  <2>1. Tracing!Cardinality(spans) = Cardinality(spans) BY DEF Tracing!Cardinality, Cardinality
  <2> QED BY <2>1, FS_CardinalityType
<1>3. x \in Spans BY <1>2 DEF Spans
<1>4. x.of = m /\ x.try = tried[m] /\ x.parent = headers[m] /\ x.outcome = "open" OBVIOUS
<1> HIDE DEF x
<1>5. spans' \subseteq Spans /\ IsFiniteSet(spans') BY <1>1, <1>3, FS_AddElement
<1>6. \A s \in spans : s.of \in Sent /\ s.try \in Nat BY DEF Spans
<1>7. \A s \in spans' : place'[s.of] # "new" /\ s.try <= tried'[s.of]
  BY <1>1, <1>4, <1>6
<1>8. \A n \in Sent : IF place'[n] \in {"handler", "asked"} THEN \E s : Opens(n)' = {s}
                      ELSE Opens(n)' = {}
  <2> TAKE n \in Sent
  <2>1. CASE n = m
    <3>1. Opens(m) = {} /\ place'[m] = "handler" BY <1>1
    <3>2. Opens(m)' = {x} BY <1>1, <1>4, <3>1 DEF Opens
    <3> QED BY <2>1, <3>1, <3>2
  <2>2. CASE n # m
    <3>1. Opens(n)' = Opens(n) /\ place'[n] = place[n] BY <1>1, <1>4, <2>2 DEF Opens
    <3> QED BY <3>1
  <2> QED BY <2>1, <2>2
<1>9. Tracing!JoinedToItsPublish' BY <1>1, <1>4 DEF Tracing!JoinedToItsPublish
<1>10. Tracing!OutcomeIsTheEngines'
  <2>1. \A n \in Sent : place'[n] = "dead" <=> place[n] = "dead" BY <1>1
  <2>2. \A s \in spans' : s \in spans \/ (s.outcome # "dead-lettered" /\ s.outcome # "retried")
    BY <1>1, <1>4
  <2>3. spans \subseteq spans' /\ tried' = tried BY <1>1
  <2> QED BY <2>1, <2>2, <2>3 DEF Tracing!OutcomeIsTheEngines
<1> QED BY <1>1, <1>5, <1>7, <1>8, <1>9, <1>10

\* The span of a delivery is ended with an outcome, and the message goes on.
LEMMA SpanEnds ==
    ASSUME TracingInv, NEW m \in Sent, place[m] = "asked",
           NEW outcome \in {"acked", "retried", "dead-lettered", "failed"}, Tracing!Ended(m, outcome),
           NEW to \in {"queue", "done", "dead"}, place' = [place EXCEPT ![m] = to],
           to = "dead" <=> outcome = "dead-lettered",
           IF outcome = "retried" THEN tried' = [tried EXCEPT ![m] = @ + 1] ELSE tried' = tried,
           UNCHANGED <<headers, publishSpans>>
    PROVE  TracingInv'
<1> USE DEF TracingInv
<1>1. PICK x : Opens(m) = {x} OBVIOUS
<1>2. x \in spans /\ x.of = m /\ x.outcome = "open" /\ x \in Spans BY <1>1 DEF Opens
<1>3. Tracing!OpenOf(m) = x
  <2>1. \A s : s \in spans /\ s.of = m /\ s.outcome = "open" <=> s = x BY <1>1 DEF Opens
  <2> QED BY <2>1 DEF Tracing!OpenOf
<1> DEFINE y == [x EXCEPT !.outcome = outcome]
<1>4. spans' = (spans \ {x}) \cup {y} BY <1>3 DEF Tracing!Ended
<1>5. /\ y.of = x.of /\ y.try = x.try /\ y.parent = x.parent /\ y.outcome = outcome
      /\ y \in Spans
  BY <1>2 DEF Spans
<1> HIDE DEF y
<1>6. spans' \subseteq Spans /\ IsFiniteSet(spans')
  <2>1. IsFiniteSet(spans \ {x}) BY FS_Subset
  <2> QED BY <1>4, <1>5, <2>1, FS_AddElement
<1>7. \A s \in spans : s.of \in Sent /\ s.try \in Nat BY DEF Spans
<1>8. tried' \in [Sent -> Nat] /\ \A n \in Sent : tried[n] <= tried'[n] OBVIOUS
<1>9. \A s \in spans' : place'[s.of] # "new" /\ s.try <= tried'[s.of]
  <2>1. ASSUME NEW s \in spans PROVE place'[s.of] # "new" /\ s.try <= tried'[s.of]
    <3>1. s.of \in Sent /\ s.try \in Nat /\ s.try <= tried[s.of] /\ place[s.of] # "new" BY <1>7
    <3>2. tried[s.of] \in Nat /\ tried'[s.of] \in Nat /\ tried[s.of] <= tried'[s.of] BY <1>8, <3>1
    <3> QED BY <3>1, <3>2
  <2>2. place'[y.of] # "new" /\ y.try <= tried'[y.of] BY <1>2, <1>5, <2>1
  <2> QED BY <1>4, <2>1, <2>2
<1>10. \A n \in Sent : IF place'[n] \in {"handler", "asked"} THEN \E s : Opens(n)' = {s}
                       ELSE Opens(n)' = {}
  <2> TAKE n \in Sent
  <2>1. CASE n = m
    <3>1. place'[m] \notin {"handler", "asked"} OBVIOUS
    <3>2. Opens(m)' = {} BY <1>1, <1>4, <1>5 DEF Opens
    <3> QED BY <2>1, <3>1, <3>2
  <2>2. CASE n # m
    <3>1. Opens(n)' = Opens(n) /\ place'[n] = place[n] BY <1>2, <1>4, <1>5, <2>2 DEF Opens
    <3> QED BY <3>1
  <2> QED BY <2>1, <2>2
<1>11. Tracing!JoinedToItsPublish'
  BY <1>2, <1>4, <1>5 DEF Tracing!JoinedToItsPublish
<1>12. Tracing!OutcomeIsTheEngines'
  <2> SUFFICES ASSUME NEW n \in Sent
               PROVE  /\ (place'[n] = "dead") <=> \E s \in spans' : s.of = n /\ s.outcome = "dead-lettered"
                      /\ \A s \in spans' : s.of = n /\ s.outcome = "retried" => tried'[n] > s.try
    BY DEF Tracing!OutcomeIsTheEngines
  <2>1. /\ (place[n] = "dead") <=> \E s \in spans : s.of = n /\ s.outcome = "dead-lettered"
        /\ \A s \in spans : s.of = n /\ s.outcome = "retried" => tried[n] > s.try
    BY DEF Tracing!OutcomeIsTheEngines
  <2>2. (place'[n] = "dead") <=> \E s \in spans' : s.of = n /\ s.outcome = "dead-lettered"
    <3>1. CASE n = m /\ outcome = "dead-lettered" BY <1>2, <1>4, <1>5, <3>1
    <3>2. CASE n = m /\ outcome # "dead-lettered"
      <4>1. place'[n] # "dead" /\ place[n] # "dead" BY <3>2
      <4>2. ~ \E s \in spans : s.of = n /\ s.outcome = "dead-lettered" BY <2>1, <4>1
      <4> QED BY <1>4, <1>5, <3>2, <4>1, <4>2
    <3>3. CASE n # m
      <4>1. place'[n] = place[n] BY <3>3
      <4> QED BY <1>2, <1>4, <1>5, <2>1, <3>3, <4>1
    <3> QED BY <3>1, <3>2, <3>3
  <2>3. ASSUME NEW s \in spans', s.of = n, s.outcome = "retried" PROVE tried'[n] > s.try
    <3>1. CASE s = y
      <4>1. outcome = "retried" /\ n = m /\ s.try = x.try BY <1>2, <1>5, <2>3, <3>1
      <4>2. tried'[n] = tried[n] + 1 /\ x.try <= tried[n] /\ x.try \in Nat /\ tried[n] \in Nat
        BY <1>2, <1>7, <4>1
      <4> QED BY <4>1, <4>2
    <3>2. CASE s \in spans
      <4>1. tried[n] > s.try /\ s.try \in Nat BY <1>7, <2>1, <2>3, <3>2
      <4>2. tried[n] \in Nat /\ tried'[n] \in Nat /\ tried[n] <= tried'[n] BY <1>8
      <4> QED BY <4>1, <4>2
    <3> QED BY <1>4, <3>1, <3>2
  <2> QED BY <2>2, <2>3
<1> QED BY <1>6, <1>8, <1>9, <1>10, <1>11, <1>12

LEMMA TracingKept == TracingInv /\ [Tracing!Next]_(Tracing!vars) => TracingInv'
<1> SUFFICES ASSUME TracingInv, [Tracing!Next]_(Tracing!vars) PROVE TracingInv'
  OBVIOUS
<1>1. ASSUME NEW m \in Sent, Tracing!Publish(m) PROVE TracingInv'
  <2> USE DEF TracingInv
  <2>1. /\ place[m] = "new" /\ place' = [place EXCEPT ![m] = "queue"] /\ UNCHANGED <<tried, spans>>
        /\ headers' = [headers EXCEPT ![m] = IF m \in Traced THEN m ELSE Tracing!NoTrace]
        /\ publishSpans' = IF m \in Traced THEN publishSpans \cup {m} ELSE publishSpans
    BY <1>1 DEF Tracing!Publish, Tracing!Intercept
  <2>2. m \notin publishSpans /\ \A s \in spans : s.of # m BY <2>1
  <2>3. \A n \in Sent : (n \in publishSpans' <=> (n \in publishSpans \/ (n = m /\ m \in Traced)))
    BY <2>1
  <2>4. \A n \in Sent : headers'[n] = IF n \in publishSpans' THEN n ELSE Tracing!NoTrace
    BY <2>1, <2>2, <2>3
  <2>5. \A n \in Sent : n # m => place'[n] = place[n] BY <2>1
  <2>6. \A n \in Sent : Opens(n)' = Opens(n) BY <2>1 DEF Opens
  <2>7. \A n \in Sent : IF place'[n] \in {"handler", "asked"} THEN \E s : Opens(n)' = {s}
                        ELSE Opens(n)' = {}
    BY <2>1, <2>6
  <2>8. \A s \in spans : s.of \in Sent BY DEF Spans
  <2>9. Tracing!JoinedToItsPublish' BY <2>1, <2>2, <2>3, <2>8 DEF Tracing!JoinedToItsPublish
  <2>10. Tracing!OutcomeIsTheEngines' BY <2>1, <2>5 DEF Tracing!OutcomeIsTheEngines
  <2>11. \A s \in spans : place'[s.of] # "new" BY <2>1, <2>8
  <2>12. \A n \in Sent : place'[n] = "new" => n \notin publishSpans' BY <2>1, <2>3
  <2> QED BY <2>1, <2>4, <2>7, <2>9, <2>10, <2>11, <2>12
<1>2. ASSUME NEW m \in Sent, Tracing!Deliver(m) PROVE TracingInv'
  BY <1>2, SpanOpens
<1>3. ASSUME NEW m \in Sent, NEW a \in {"accept", "retry"}, Tracing!Return(m, a) PROVE TracingInv'
  <2> USE DEF TracingInv
  <2>1. /\ place[m] = "handler" /\ place' = [place EXCEPT ![m] = "asked"]
        /\ UNCHANGED <<headers, publishSpans, tried, spans>>
    BY <1>3 DEF Tracing!Return
  <2>2. \A n \in Sent : /\ place'[n] = "new" <=> place[n] = "new"
                        /\ place'[n] = "dead" <=> place[n] = "dead"
                        /\ place'[n] \in {"handler", "asked"} <=> place[n] \in {"handler", "asked"}
    BY <2>1
  <2>3. \A n \in Sent : Opens(n)' = Opens(n) BY <2>1 DEF Opens
  <2>4. Tracing!JoinedToItsPublish' BY <2>1 DEF Tracing!JoinedToItsPublish
  <2>5. Tracing!OutcomeIsTheEngines' BY <2>1, <2>2 DEF Tracing!OutcomeIsTheEngines
  <2>6. \A s \in spans : s.of \in Sent BY DEF Spans
  <2>7. place' \in [Sent -> {"new", "queue", "handler", "asked", "done", "dead"}] BY <2>1
  <2>8. \A s \in spans : place'[s.of] # "new" /\ s.try <= tried[s.of] BY <2>2, <2>6
  <2>9. \A n \in Sent : place'[n] = "new" => n \notin publishSpans BY <2>2
  <2>10. \A n \in Sent : IF place'[n] \in {"handler", "asked"} THEN \E s : Opens(n)' = {s}
                         ELSE Opens(n)' = {}
    <3> TAKE n \in Sent
    <3>1. IF place[n] \in {"handler", "asked"} THEN \E s : Opens(n) = {s} ELSE Opens(n) = {}
      OBVIOUS
    <3> QED BY <2>2, <2>3, <3>1
  <2> QED BY <2>1, <2>4, <2>5, <2>7, <2>8, <2>9, <2>10
<1>4. ASSUME NEW m \in Sent, Tracing!Settle(m) PROVE TracingInv'
  <2>1. place[m] = "asked" /\ UNCHANGED <<headers, publishSpans>> BY <1>4 DEF Tracing!Settle
  <2>2. CASE Tracing!Ended(m, "acked") /\ place' = [place EXCEPT ![m] = "done"] /\ UNCHANGED tried
    BY <2>1, <2>2, SpanEnds
  <2>3. CASE /\ Tracing!Ended(m, "retried") /\ place' = [place EXCEPT ![m] = "queue"]
             /\ tried' = [tried EXCEPT ![m] = @ + 1]
    BY <2>1, <2>3, SpanEnds
  <2>4. CASE /\ Tracing!Ended(m, "dead-lettered") /\ place' = [place EXCEPT ![m] = "dead"]
             /\ UNCHANGED tried
    BY <2>1, <2>4, SpanEnds
  <2> QED BY <1>4, <2>2, <2>3, <2>4 DEF Tracing!Settle
<1>5. ASSUME NEW m \in Sent, Tracing!Lose(m) PROVE TracingInv'
  <2>1. /\ place[m] = "asked" /\ UNCHANGED <<headers, publishSpans, tried>>
        /\ Tracing!Ended(m, "failed") /\ place' = [place EXCEPT ![m] = "queue"]
    BY <1>5 DEF Tracing!Lose
  <2> QED BY <2>1, SpanEnds
<1>6. CASE UNCHANGED Tracing!vars
  BY <1>6 DEF TracingInv, Tracing!vars, Opens, Tracing!JoinedToItsPublish, Tracing!OutcomeIsTheEngines
<1> QED BY <1>1, <1>2, <1>3, <1>4, <1>5, <1>6 DEF Tracing!Next, Tracing!Engine

\* A trace tells what happened to its message.
THEOREM TracingAgrees ==
    Tracing!Spec => [](/\ Tracing!JoinedToItsPublish /\ Tracing!OutcomeIsTheEngines
                       /\ Tracing!NoSpanStaysOpen)
<1>1. TracingInv => Tracing!NoSpanStaysOpen
  <2> SUFFICES ASSUME TracingInv, NEW m \in Sent
               PROVE  Tracing!Cardinality(Opens(m)) = IF place[m] \in {"handler", "asked"} THEN 1 ELSE 0
    BY DEF Tracing!NoSpanStaysOpen, Opens
  <2>1. Tracing!Cardinality(Opens(m)) = Cardinality(Opens(m)) BY DEF Tracing!Cardinality, Cardinality
  <2>2. CASE place[m] \in {"handler", "asked"}
    <3>1. PICK s : Opens(m) = {s} BY <2>2 DEF TracingInv
    <3> QED BY <2>1, <2>2, <3>1, FS_Singleton
  <2>3. CASE place[m] \notin {"handler", "asked"}
    <3>1. Opens(m) = {} BY <2>3 DEF TracingInv
    <3> QED BY <2>1, <2>3, <3>1, FS_EmptySet
  <2> QED BY <2>2, <2>3
<1>2. TracingInv => Tracing!JoinedToItsPublish /\ Tracing!OutcomeIsTheEngines BY DEF TracingInv
<1> QED BY TracingStarts, TracingKept, <1>1, <1>2, PTL DEF Tracing!Spec
-----------------------------------------------------------------------------
\* advanced/07-health-when-the-broker-blocks.  A node is in alarm only where the
\* restore is deferred or a command failed, and the connection is told only of an
\* alarm it published under.
BlockedInv ==
    /\ alarm => restores \/ unreported
    /\ knowsBlocked => published
    /\ published => restores
    /\ at \in {"before", "drop"} => ~alarm /\ ~restores
    /\ at \in {"publish", "during", "control", "clear"} => alarm
    /\ at \in {"publish", "during", "control", "clear", "wait", "after", "refused",
             "return", "settle"} => restores
    /\ at = "during" => knowsBlocked
    /\ at \in {"wait", "after", "settle"} => ~alarm
    /\ at = "after" => ~knowsBlocked
    /\ at \in {"close", "closed"} /\ (alarm \/ (at = "close" /\ knowsBlocked)) => unreported
    /\ Blocked!AskedUnlessBlocked
    /\ alarm \in BOOLEAN /\ knowsBlocked \in BOOLEAN /\ published \in BOOLEAN
    /\ restores \in BOOLEAN /\ unreported \in BOOLEAN

LEMMA BlockedStarts == Blocked!Init => BlockedInv
  BY DEF Blocked!Init, BlockedInv, Blocked!AskedUnlessBlocked

\* What Health reports is what the connection knows where it is asked.
LEMMA HealthKept ==
    ASSUME BlockedInv, at \in {"before", "during", "after"}, NEW next \in {"drop", "control", "return"},
           at = "before" => next = "drop", at = "during" => next = "control",
           at = "after" => next = "return", Blocked!Health(next),
           UNCHANGED <<alarm, knowsBlocked, published, sendAttempts, declare, restores, unreported>>
    PROVE  BlockedInv'
<1> DEFINE new == [at |-> at, up |-> TRUE, blocked |-> knowsBlocked, asked |-> ~knowsBlocked]
<1>1. /\ reports' = reports \cup {new} /\ new.at = at /\ new.up /\ new.blocked = knowsBlocked
      /\ new.asked = (~knowsBlocked) /\ at' = next
  BY DEF Blocked!Health
<1> HIDE DEF new
<1>2. (at = "during" => knowsBlocked) /\ (at \in {"before", "after"} => ~knowsBlocked) BY DEF BlockedInv
<1>3. knowsBlocked \in BOOLEAN BY DEF BlockedInv
<1>4. Blocked!AskedUnlessBlocked'
  <2>1. Blocked!AskedUnlessBlocked BY DEF BlockedInv
  <2>2. /\ new.up /\ new.asked = (~new.blocked)
        /\ new.at = "during" => new.blocked
        /\ new.at \in {"before", "after"} => ~new.blocked
    BY <1>1, <1>2, <1>3
  <2> QED BY <1>1, <2>1, <2>2 DEF Blocked!AskedUnlessBlocked
<1> QED BY <1>1, <1>4 DEF BlockedInv

LEMMA BlockedKept == BlockedInv /\ [Blocked!Next]_(Blocked!vars) => BlockedInv'
<1> SUFFICES ASSUME BlockedInv, [Blocked!Next]_(Blocked!vars) PROVE BlockedInv'
  OBVIOUS
<1>1. CASE Blocked!HealthBefore BY <1>1, HealthKept DEF Blocked!HealthBefore
<1>2. CASE Blocked!HealthDuring BY <1>2, HealthKept DEF Blocked!HealthDuring
<1>3. CASE Blocked!HealthAfter BY <1>3, HealthKept DEF Blocked!HealthAfter
<1>4. CASE ~(Blocked!HealthBefore \/ Blocked!HealthDuring \/ Blocked!HealthAfter)
  <2> USE DEF BlockedInv
  <2>1. reports' = reports
    BY <1>4 DEF Blocked!Next, Blocked!Broker, Blocked!Program, Blocked!Tell, Blocked!Untell,
       Blocked!Answer, Blocked!Drop, Blocked!PublishUntilBlocked, Blocked!Refused,
       Blocked!DeclareOnItsOwnGoroutine, Blocked!Control, Blocked!Clear, Blocked!Released,
       Blocked!Return, Blocked!Settle, Blocked!Close, Blocked!Fail, Blocked!Kill, Blocked!vars
  <2>2. Blocked!AskedUnlessBlocked' BY <2>1 DEF Blocked!AskedUnlessBlocked
  <2>3. CASE Blocked!Tell BY <2>2, <2>3 DEF Blocked!Tell
  <2>4. CASE Blocked!Untell BY <2>2, <2>4 DEF Blocked!Untell
  <2>5. CASE Blocked!Answer BY <2>2, <2>5 DEF Blocked!Answer
  <2>6. CASE Blocked!Drop
    <3>1. ~alarm /\ ~restores /\ ~published /\ ~knowsBlocked BY <2>6 DEF Blocked!Drop
    <3>2. UNCHANGED <<knowsBlocked, published>> /\ at = "drop" BY <2>6 DEF Blocked!Drop
    <3>3. CASE alarm' = TRUE /\ at' = "publish" /\ restores' = TRUE /\ UNCHANGED unreported
      BY <2>2, <3>1, <3>2, <3>3
    <3>4. CASE at' = "close" /\ UNCHANGED <<alarm, restores, unreported>>
      BY <2>2, <3>1, <3>2, <3>4
    <3>5. CASE alarm' = TRUE /\ at' = "close" /\ unreported' = TRUE /\ UNCHANGED restores
      BY <2>2, <3>1, <3>2, <3>5
    <3> QED BY <2>6, <3>3, <3>4, <3>5 DEF Blocked!Drop
  <2>7. CASE Blocked!PublishUntilBlocked BY <2>2, <2>7 DEF Blocked!PublishUntilBlocked
  <2>8. CASE Blocked!Refused BY <2>2, <2>8 DEF Blocked!Refused
  <2>9. CASE Blocked!DeclareOnItsOwnGoroutine BY <2>2, <2>9 DEF Blocked!DeclareOnItsOwnGoroutine
  <2>10. CASE Blocked!Control BY <2>2, <2>10 DEF Blocked!Control
  <2>11. CASE Blocked!Clear BY <2>2, <2>11 DEF Blocked!Clear
  <2>12. CASE Blocked!Released BY <2>2, <2>12 DEF Blocked!Released
  <2>13. CASE Blocked!Return BY <2>2, <2>13 DEF Blocked!Return
  <2>14. CASE Blocked!Settle BY <2>2, <2>14 DEF Blocked!Settle
  <2>15. CASE Blocked!Close BY <2>2, <2>15 DEF Blocked!Close
  <2>16. CASE Blocked!Fail BY <2>2, <2>16 DEF Blocked!Fail, Blocked!Running
  <2>17. CASE Blocked!Kill BY <2>2, <2>17 DEF Blocked!Kill
  <2>18. CASE UNCHANGED Blocked!vars BY <2>2, <2>18 DEF Blocked!vars
  <2> QED
    BY <1>4, <2>3, <2>4, <2>5, <2>6, <2>7, <2>8, <2>9, <2>10, <2>11, <2>12, <2>13, <2>14, <2>15,
       <2>16, <2>17, <2>18 DEF Blocked!Next, Blocked!Broker, Blocked!Program
<1> QED BY <1>1, <1>2, <1>3, <1>4

\* The alarm is down when the run ends, the connection is not closed while it is
\* blocked, and a health answer asked the broker unless it was.
THEOREM BlockedRunClears ==
    Blocked!Spec => [](Blocked!AlarmIsCleared /\ Blocked!ClosesUnblocked /\ Blocked!AskedUnlessBlocked)
<1>1. BlockedInv => Blocked!AlarmIsCleared /\ Blocked!ClosesUnblocked /\ Blocked!AskedUnlessBlocked
  BY DEF BlockedInv, Blocked!AlarmIsCleared, Blocked!ClosesUnblocked
<1> QED BY BlockedStarts, BlockedKept, <1>1, PTL DEF Blocked!Spec
-----------------------------------------------------------------------------
\* advanced/08-a-standing-load-something-else-can-watch.  What a reading holds was
\* true of a moment before: of what is only counted up, the counters have at least
\* as much now.  The last reading begins with what was confirmed, after the end,
\* when one message at most is still to be confirmed; hence the two at the end.
Late(c, i) == IF loaded >= i THEN reading[c] ELSE count[c]

LoadInv ==
    /\ count \in [Load!Counters -> Nat] /\ reading \in [Load!Counters -> Nat]
    /\ loaded \in 0 .. 5
    /\ printed \in [lines : Nat, closing : BOOLEAN, last : BOOLEAN]
    /\ sending \in {"none", "sent", "taken", "late", "ended"}
    /\ sending = "none" => count["offered"] = Load!Settled(count)
    /\ sending \in {"sent", "taken", "late"} => count["offered"] = Load!Settled(count) + 1
    /\ sending = "late" => ended
    /\ sending = "ended" => /\ ended
                            /\ \/ count["offered"] = Load!Settled(count)
                               \/ count["offered"] = Load!Settled(count) + 1
    /\ loaded >= 1 => reading["confirmed"] <= count["confirmed"]
    /\ loaded >= 3 => reading["confirmed"] <= reading["offered"]
    /\ printed.closing => ended
    /\ printed.closing /\ loaded = 0 => printed.last
    /\ printed.closing /\ loaded >= 1 =>
         count["confirmed"] + (IF sending \in {"sent", "taken"} THEN 1 ELSE 0) <= reading["confirmed"] + 1
    /\ printed.closing /\ loaded >= 3 =>
         reading["offered"] <= reading["confirmed"] + Late("failed", 4) + Late("refused", 5) + 2

CountersAre == Load!Counters = {"confirmed", "consumed", "offered", "failed", "refused"}
LEMMA CountersKnown == CountersAre
<1>1. DOMAIN Load!Loads = 1 .. 5 BY DEF Load!Loads
<1>2. 1 .. 5 = {1, 2, 3, 4, 5} OBVIOUS
<1> QED BY <1>1, <1>2 DEF CountersAre, Load!Counters, Load!Loads

LEMMA LoadStarts == Load!Init => LoadInv
  BY CountersKnown DEF CountersAre, Load!Init, Load!Nothing, LoadInv, Load!Settled, Late

\* A counter that counts one up.
LEMMA OneMore ==
    ASSUME count \in [Load!Counters -> Nat], NEW c \in Load!Counters, Load!One(c)
    PROVE  /\ count' \in [Load!Counters -> Nat] /\ count'[c] = count[c] + 1
           /\ \A d \in Load!Counters : d # c => count'[d] = count[d]
  BY DEF Load!One

\* One counter may go up beside a sampler, unless it is the one in hand after the
\* end; what it does to the publisher is of no concern to a reading.
LEMMA LoadCounts ==
    ASSUME LoadInv, NEW c \in Load!Counters, Load!One(c), UNCHANGED <<loaded, reading, printed>>,
           c = "confirmed" => sending = "taken", sending' \in {"none", "sent", "taken", "late", "ended"},
           printed.closing /\ sending' \in {"sent", "taken"} =>
             sending \in {"sent", "taken"} /\ c # "confirmed"
    PROVE  /\ count' \in [Load!Counters -> Nat] /\ reading' \in [Load!Counters -> Nat]
           /\ loaded' >= 1 => reading'["confirmed"] <= count'["confirmed"]
           /\ printed'.closing /\ loaded' >= 1 =>
                count'["confirmed"] + (IF sending' \in {"sent", "taken"} THEN 1 ELSE 0) <= reading'["confirmed"] + 1
           /\ printed'.closing /\ loaded' >= 3 =>
                reading'["offered"] <= reading'["confirmed"] + Late("failed", 4)' + Late("refused", 5)' + 2
<1> USE CountersKnown DEF CountersAre
<1>1. /\ count' \in [Load!Counters -> Nat] /\ count'[c] = count[c] + 1
      /\ \A d \in Load!Counters : d # c => count'[d] = count[d]
  BY OneMore DEF LoadInv
<1>2. count \in [Load!Counters -> Nat] /\ reading \in [Load!Counters -> Nat] /\ loaded \in 0 .. 5
  BY DEF LoadInv
<1>3. \A d \in Load!Counters : count'[d] \in Nat /\ count[d] \in Nat /\ reading[d] \in Nat
                               /\ count[d] <= count'[d]
  BY <1>1, <1>2
<1>4. "confirmed" \in Load!Counters /\ "failed" \in Load!Counters /\ "refused" \in Load!Counters
      /\ "offered" \in Load!Counters
  OBVIOUS
<1>5. loaded >= 1 => reading["confirmed"] <= count'["confirmed"]
  BY <1>2, <1>3, <1>4 DEF LoadInv
<1>6. printed.closing /\ loaded >= 1 =>
                count'["confirmed"] + (IF sending' \in {"sent", "taken"} THEN 1 ELSE 0) <= reading["confirmed"] + 1
  <2>1. SUFFICES ASSUME printed.closing, loaded >= 1
                 PROVE  count'["confirmed"] + (IF sending' \in {"sent", "taken"} THEN 1 ELSE 0) <= reading["confirmed"] + 1
    OBVIOUS
  <2>2. count["confirmed"] + (IF sending \in {"sent", "taken"} THEN 1 ELSE 0) <= reading["confirmed"] + 1
    BY <2>1 DEF LoadInv
  <2>3. CASE c = "confirmed"
    <3>1. count'[c] = count[c] + 1 BY <1>1
    <3>2. count'["confirmed"] = count["confirmed"] + 1 BY <2>3, <3>1, Zenon
    <3>3. sending = "taken" /\ ~(sending' \in {"sent", "taken"}) BY <2>1, <2>3
    <3>4. count["confirmed"] + 1 <= reading["confirmed"] + 1 BY <2>2, <3>3
    <3>5. count'["confirmed"] <= reading["confirmed"] + 1 BY <3>2, <3>4
    <3>6. (IF sending' \in {"sent", "taken"} THEN 1 ELSE 0) = 0 BY <3>3
    <3>7. count'["confirmed"] \in Nat BY <1>3, <1>4
    <3> QED BY <3>5, <3>6, <3>7
  <2>4. CASE c # "confirmed"
    <3>1. count'["confirmed"] = count["confirmed"] BY <1>1, <1>4, <2>4
    <3>2. sending' \in {"sent", "taken"} => sending \in {"sent", "taken"} BY <2>1
    <3> QED BY <1>3, <1>4, <2>2, <3>1, <3>2
  <2> QED BY <2>3, <2>4
<1>7. printed.closing /\ loaded >= 3 =>
        reading["offered"] <= reading["confirmed"] + Late("failed", 4)' + Late("refused", 5)' + 2
  <2>1. Late("failed", 4) <= Late("failed", 4)' /\ Late("failed", 4) \in Nat /\ Late("failed", 4)' \in Nat
    BY <1>3, <1>4 DEF Late
  <2>2. Late("refused", 5) <= Late("refused", 5)' /\ Late("refused", 5) \in Nat /\ Late("refused", 5)' \in Nat
    BY <1>3, <1>4 DEF Late
  <2>3. printed.closing /\ loaded >= 3 =>
          reading["offered"] <= reading["confirmed"] + Late("failed", 4) + Late("refused", 5) + 2
    BY DEF LoadInv
  <2> QED BY <1>3, <1>4, <2>1, <2>2, <2>3
<1> QED BY <1>1, <1>2, <1>5, <1>6, <1>7

\* What a send ends with is what is between what was offered and what has a fate.
LEMMA FatesCount ==
    ASSUME LoadInv, NEW c \in {"confirmed", "failed", "refused"}, Load!One(c)
    PROVE  /\ count'["offered"] = count["offered"] /\ count["offered"] \in Nat
           /\ Load!Settled(count) \in Nat /\ Load!Settled(count)' = Load!Settled(count) + 1
<1> USE CountersKnown DEF CountersAre
<1>1. /\ count' \in [Load!Counters -> Nat] /\ count'[c] = count[c] + 1
      /\ \A d \in Load!Counters : d # c => count'[d] = count[d]
  BY OneMore DEF LoadInv
<1>2. count \in [Load!Counters -> Nat] BY DEF LoadInv
<1>3. CASE c = "confirmed" BY <1>1, <1>2, <1>3 DEF Load!Settled
<1>4. CASE c = "failed" BY <1>1, <1>2, <1>4 DEF Load!Settled
<1>5. CASE c = "refused" BY <1>1, <1>2, <1>5 DEF Load!Settled
<1> QED BY <1>3, <1>4, <1>5

\* The sampler's next load.
LEMMA LoadNextKept ==
    ASSUME LoadInv, Load!LoadNext, loaded <= 4,
           printed' \in [lines : Nat, closing : BOOLEAN, last : BOOLEAN],
           printed'.closing => ended, loaded > 0 => printed' = printed
    PROVE  LoadInv'
<1> USE CountersKnown DEF CountersAre
<1>1. /\ count \in [Load!Counters -> Nat] /\ reading \in [Load!Counters -> Nat] /\ loaded \in 0 .. 4
      /\ sending \in {"none", "sent", "taken", "late", "ended"}
  BY DEF LoadInv
<1>2. UNCHANGED <<count, sending, unconsumed, blocked, ended>> /\ loaded' = loaded + 1
  BY DEF Load!LoadNext
<1>3. Load!Settled(count)' = Load!Settled(count) BY <1>2 DEF Load!Settled
<1> DEFINE c == Load!Loads[loaded + 1]
<1>4. reading' = [reading EXCEPT ![c] = count[c]] BY DEF Load!LoadNext
<1>5. c \in Load!Counters /\ (loaded = 0 => c = "confirmed") /\ (loaded = 1 => c = "consumed")
      /\ (loaded = 2 => c = "offered") /\ (loaded = 3 => c = "failed") /\ (loaded = 4 => c = "refused")
  BY <1>1 DEF Load!Loads
<1> HIDE DEF c
<1>6. /\ reading' \in [Load!Counters -> Nat] /\ reading'[c] = count[c]
      /\ \A d \in Load!Counters : d # c => reading'[d] = reading[d]
  BY <1>1, <1>4, <1>5
<1>7. \A d \in Load!Counters : reading'[d] \in Nat /\ count[d] \in Nat /\ reading[d] \in Nat
  BY <1>1, <1>6
<1>8. loaded' >= 1 => reading'["confirmed"] <= count["confirmed"]
  <2>1. CASE loaded = 0 BY <1>5, <1>6, <1>7, <2>1
  <2>2. CASE loaded > 0
    <3>1. reading'["confirmed"] = reading["confirmed"] BY <1>1, <1>5, <1>6, <2>2
    <3> QED BY <1>1, <2>2, <3>1 DEF LoadInv
  <2> QED BY <1>1, <2>1, <2>2
<1>9. loaded' >= 3 => reading'["confirmed"] <= reading'["offered"]
  <2>1. CASE loaded = 2
    <3>1. reading'["confirmed"] = reading["confirmed"] /\ reading'["offered"] = count["offered"]
      BY <1>5, <1>6, <2>1
    <3>2. reading["confirmed"] <= count["confirmed"] BY <2>1 DEF LoadInv
    <3>3. count["confirmed"] <= count["offered"]
      <4>1. count["offered"] = Load!Settled(count) \/ count["offered"] = Load!Settled(count) + 1
        BY DEF LoadInv
      <4> QED BY <1>7, <4>1 DEF Load!Settled
    <3> QED BY <1>7, <3>1, <3>2, <3>3
  <2>2. CASE loaded > 2
    <3>1. reading'["confirmed"] = reading["confirmed"] /\ reading'["offered"] = reading["offered"]
      BY <1>1, <1>5, <1>6, <2>2
    <3> QED BY <1>1, <2>2, <3>1 DEF LoadInv
  <2> QED BY <1>1, <1>2, <2>1, <2>2
<1>10. printed'.closing /\ loaded' >= 1 =>
         count["confirmed"] + (IF sending \in {"sent", "taken"} THEN 1 ELSE 0) <= reading'["confirmed"] + 1
  <2>1. CASE loaded = 0
    <3>1. reading'["confirmed"] = count["confirmed"] BY <1>5, <1>6, <2>1
    <3> QED BY <1>7, <3>1
  <2>2. CASE loaded > 0
    <3>1. reading'["confirmed"] = reading["confirmed"] BY <1>1, <1>5, <1>6, <2>2
    <3> QED BY <1>1, <2>2, <3>1 DEF LoadInv
  <2> QED BY <1>1, <2>1, <2>2
<1>11. printed'.closing /\ loaded' >= 3 =>
         reading'["offered"] <= reading'["confirmed"] + Late("failed", 4)' + Late("refused", 5)' + 2
  <2>1. SUFFICES ASSUME printed'.closing, loaded' >= 3
        PROVE reading'["offered"] <= reading'["confirmed"] + Late("failed", 4)' + Late("refused", 5)' + 2
    OBVIOUS
  <2>2. printed.closing BY <1>1, <1>2, <2>1
  <2>3. CASE loaded = 2
    <3>1. reading'["confirmed"] = reading["confirmed"] /\ reading'["offered"] = count["offered"]
      BY <1>5, <1>6, <2>3
    <3>2. Late("failed", 4)' = count["failed"] /\ Late("refused", 5)' = count["refused"]
      BY <1>2, <2>3 DEF Late
    <3>3. count["offered"] <= Load!Settled(count) + 1
      <4>1. count["offered"] = Load!Settled(count) \/ count["offered"] = Load!Settled(count) + 1
        BY DEF LoadInv
      <4> QED BY <1>7, <4>1 DEF Load!Settled
    <3>4. count["confirmed"] <= reading["confirmed"] + 1
      BY <1>7, <2>2, <2>3 DEF LoadInv
    <3> QED BY <1>7, <3>1, <3>2, <3>3, <3>4 DEF Load!Settled
  <2>4. CASE loaded > 2
    <3>1. reading'["confirmed"] = reading["confirmed"] /\ reading'["offered"] = reading["offered"]
      BY <1>1, <1>5, <1>6, <2>4
    <3>2. Late("failed", 4)' = Late("failed", 4)
      BY <1>1, <1>2, <1>5, <1>6, <2>4 DEF Late
    <3>3. Late("refused", 5)' = Late("refused", 5)
      BY <1>1, <1>2, <1>5, <1>6, <2>4 DEF Late
    <3>4. reading["offered"] <= reading["confirmed"] + Late("failed", 4) + Late("refused", 5) + 2
      BY <1>1, <2>2, <2>4 DEF LoadInv
    <3> QED BY <3>1, <3>2, <3>3, <3>4
  <2> QED BY <1>1, <1>2, <2>1, <2>3, <2>4
<1>12. printed'.closing /\ loaded' = 0 => printed'.last BY <1>1, <1>2
<1> QED
  BY <1>1, <1>2, <1>3, <1>6, <1>8, <1>9, <1>10, <1>11, <1>12 DEF LoadInv

LEMMA LoadKept == LoadInv /\ [Load!Next]_(Load!vars) => LoadInv'
<1> SUFFICES ASSUME LoadInv, [Load!Next]_(Load!vars) PROVE LoadInv'
  OBVIOUS
<1> USE CountersKnown DEF CountersAre
<1>1. /\ count \in [Load!Counters -> Nat] /\ reading \in [Load!Counters -> Nat] /\ loaded \in 0 .. 5
      /\ sending \in {"none", "sent", "taken", "late", "ended"}
      /\ printed \in [lines : Nat, closing : BOOLEAN, last : BOOLEAN]
  BY DEF LoadInv
<1>2. /\ count["offered"] \in Nat /\ count["confirmed"] \in Nat /\ count["failed"] \in Nat
      /\ count["refused"] \in Nat
  BY <1>1
<1>3. CASE Load!Offer
  <2>1. /\ sending = "none" /\ sending' = (IF ended THEN "late" ELSE "sent") /\ Load!One("offered")
        /\ UNCHANGED <<ended, loaded, reading, printed>>
    BY <1>3 DEF Load!Offer
  <2>0. printed.closing => sending' = "late" BY <2>1 DEF LoadInv
  <2>2. count'["offered"] = count["offered"] + 1 /\ Load!Settled(count)' = Load!Settled(count)
    <3>1. /\ count'["offered"] = count["offered"] + 1
          /\ \A d \in Load!Counters : d # "offered" => count'[d] = count[d]
      BY <1>1, <2>1, OneMore
    <3> QED BY <3>1 DEF Load!Settled
  <2>3. count["offered"] = Load!Settled(count) BY <2>1 DEF LoadInv
  <2>4. "offered" \in Load!Counters OBVIOUS
  <2>5. /\ count' \in [Load!Counters -> Nat] /\ reading' \in [Load!Counters -> Nat]
        /\ loaded' >= 1 => reading'["confirmed"] <= count'["confirmed"]
        /\ printed'.closing /\ loaded' >= 1 =>
             count'["confirmed"] + (IF sending' \in {"sent", "taken"} THEN 1 ELSE 0) <= reading'["confirmed"] + 1
        /\ printed'.closing /\ loaded' >= 3 =>
             reading'["offered"] <= reading'["confirmed"] + Late("failed", 4)' + Late("refused", 5)' + 2
    BY <2>0, <2>1, <2>4, LoadCounts
  <2> QED BY <2>1, <2>2, <2>3, <2>5 DEF LoadInv
<1>4. CASE Load!Take
  <2>1. /\ sending = "sent" /\ sending' = "taken"
        /\ UNCHANGED <<count, ended, loaded, reading, printed>>
    BY <1>4 DEF Load!Take
  <2>2. Load!Settled(count)' = Load!Settled(count) /\ Late("failed", 4)' = Late("failed", 4)
        /\ Late("refused", 5)' = Late("refused", 5)
    BY <2>1 DEF Load!Settled, Late
  <2> QED BY <2>1, <2>2 DEF LoadInv
<1>5. ASSUME NEW c \in {"confirmed", "failed", "refused"}, Load!One(c), sending' = "none",
             sending \in {"sent", "taken", "late"}, c = "confirmed" => sending = "taken",
             UNCHANGED <<blocked, ended, loaded, reading, printed>>
      PROVE  LoadInv'
  <2>1. c \in Load!Counters OBVIOUS
  <2>2. /\ count' \in [Load!Counters -> Nat] /\ reading' \in [Load!Counters -> Nat]
        /\ loaded' >= 1 => reading'["confirmed"] <= count'["confirmed"]
        /\ printed'.closing /\ loaded' >= 1 =>
             count'["confirmed"] + (IF sending' \in {"sent", "taken"} THEN 1 ELSE 0) <= reading'["confirmed"] + 1
        /\ printed'.closing /\ loaded' >= 3 =>
             reading'["offered"] <= reading'["confirmed"] + Late("failed", 4)' + Late("refused", 5)' + 2
    BY <1>5, <2>1, LoadCounts
  <2>3. /\ count'["offered"] = count["offered"] /\ Load!Settled(count) \in Nat
        /\ Load!Settled(count)' = Load!Settled(count) + 1
    BY <1>5, FatesCount
  <2>4. count["offered"] = Load!Settled(count) + 1 BY <1>5 DEF LoadInv
  <2> QED BY <1>5, <2>2, <2>3, <2>4 DEF LoadInv
<1>6. CASE Load!Outcome
  <2>1. UNCHANGED <<blocked, ended, loaded, reading, printed>> BY <1>6 DEF Load!Outcome
  <2>2. CASE Load!Confirmed BY <1>5, <2>1, <2>2 DEF Load!Confirmed
  <2>3. CASE Load!Paused BY <1>5, <2>1, <2>3 DEF Load!Paused
  <2>4. CASE Load!GiveUp /\ ~ended /\ Load!One("failed") /\ sending' = "none"
    BY <1>5, <2>1, <2>4 DEF Load!GiveUp
  <2>5. CASE Load!GiveUp /\ ended /\ sending' = "ended" /\ UNCHANGED count
    <3> USE DEF Load!GiveUp
    <3>1. Load!Settled(count)' = Load!Settled(count) /\ Late("failed", 4)' = Late("failed", 4)
          /\ Late("refused", 5)' = Late("refused", 5)
      BY <2>1, <2>5 DEF Load!Settled, Late
    <3>2. reading["confirmed"] \in Nat BY <1>1
    <3>3. printed'.closing /\ loaded' >= 1 =>
             count'["confirmed"] + (IF sending' \in {"sent", "taken"} THEN 1 ELSE 0) <= reading'["confirmed"] + 1
      BY <1>2, <2>1, <2>5, <3>2 DEF LoadInv
    <3> QED BY <2>1, <2>5, <3>1, <3>3 DEF LoadInv
  <2> QED BY <1>6, <2>2, <2>3, <2>4, <2>5 DEF Load!Outcome
<1>7. CASE Load!StopPublishing
  <2>1. /\ sending = "none" /\ sending' = "ended" /\ ended
        /\ UNCHANGED <<count, ended, loaded, reading, printed>>
    BY <1>7 DEF Load!StopPublishing
  <2>2. Load!Settled(count)' = Load!Settled(count) /\ Late("failed", 4)' = Late("failed", 4)
        /\ Late("refused", 5)' = Late("refused", 5)
    BY <2>1 DEF Load!Settled, Late
  <2> QED BY <2>1, <2>2 DEF LoadInv
<1>8. CASE Load!Consume
  <2>1. Load!One("consumed") /\ UNCHANGED <<sending, ended, loaded, reading, printed>>
    BY <1>8 DEF Load!Consume
  <2>2. count'["offered"] = count["offered"] /\ Load!Settled(count)' = Load!Settled(count)
    <3>1. \A d \in Load!Counters : d # "consumed" => count'[d] = count[d]
      BY <1>1, <2>1, OneMore
    <3> QED BY <3>1 DEF Load!Settled
  <2>3. "consumed" \in Load!Counters OBVIOUS
  <2>4. /\ count' \in [Load!Counters -> Nat] /\ reading' \in [Load!Counters -> Nat]
        /\ loaded' >= 1 => reading'["confirmed"] <= count'["confirmed"]
        /\ printed'.closing /\ loaded' >= 1 =>
             count'["confirmed"] + (IF sending' \in {"sent", "taken"} THEN 1 ELSE 0) <= reading'["confirmed"] + 1
        /\ printed'.closing /\ loaded' >= 3 =>
             reading'["offered"] <= reading'["confirmed"] + Late("failed", 4)' + Late("refused", 5)' + 2
    BY <1>1, <2>1, <2>3, LoadCounts
  <2> QED BY <2>1, <2>2, <2>4 DEF LoadInv
<1>9. CASE Load!End \/ Load!BlockOrUnblock \/ UNCHANGED Load!vars
  <2>1. UNCHANGED <<count, sending, loaded, reading, printed>> /\ (ended => ended')
    BY <1>9 DEF Load!End, Load!BlockOrUnblock, Load!vars
  <2>2. Load!Settled(count)' = Load!Settled(count) /\ Late("failed", 4)' = Late("failed", 4)
        /\ Late("refused", 5)' = Late("refused", 5)
    BY <2>1 DEF Load!Settled, Late
  <2> QED BY <2>1, <2>2 DEF LoadInv
<1>10. CASE Load!Tick
  <2>1. loaded = 0 /\ ~printed.last /\ printed' = printed BY <1>10 DEF Load!Tick
  <2>2. printed.closing => ended BY DEF LoadInv
  <2> QED BY <1>1, <1>10, <2>1, <2>2, LoadNextKept DEF Load!Tick
<1>11. CASE Load!Closing
  <2>1. loaded = 0 /\ ~printed.last /\ ended BY <1>11 DEF Load!Closing
  <2>2. printed' = [printed EXCEPT !.closing = TRUE] BY <1>11 DEF Load!Closing
  <2>3. printed' \in [lines : Nat, closing : BOOLEAN, last : BOOLEAN] BY <2>2, <1>1
  <2> QED BY <1>11, <2>1, <2>3, LoadNextKept DEF Load!Closing
<1>12. CASE Load!Load
  <2>1. Len(Load!Loads) = 5 BY DEF Load!Loads
  <2>2. loaded \in 1 .. 4 /\ printed' = printed /\ Load!LoadNext BY <1>12, <2>1 DEF Load!Load
  <2>3. printed.closing => ended BY DEF LoadInv
  <2> QED BY <1>1, <2>2, <2>3, LoadNextKept
<1>13. CASE Load!PrintLine
  <2>1. /\ loaded' = 0 /\ reading' = Load!Nothing /\ UNCHANGED <<count, sending, ended>>
        /\ printed' = IF printed.closing THEN [printed EXCEPT !.last = TRUE]
                      ELSE [printed EXCEPT !.lines = @ + 1]
    BY <1>13 DEF Load!PrintLine
  <2>2. Load!Settled(count)' = Load!Settled(count) /\ reading' \in [Load!Counters -> Nat]
    BY <2>1 DEF Load!Settled, Load!Nothing
  <2>3. /\ printed' \in [lines : Nat, closing : BOOLEAN, last : BOOLEAN]
        /\ printed'.closing <=> printed.closing
        /\ printed.closing => printed'.last
    <3>1. CASE printed.closing
      <4>1. printed' = [printed EXCEPT !.last = TRUE] BY <2>1, <3>1
      <4> QED BY <1>1, <3>1, <4>1
    <3>2. CASE ~printed.closing
      <4>1. printed' = [printed EXCEPT !.lines = @ + 1] BY <2>1, <3>2
      <4> QED BY <1>1, <3>2, <4>1
    <3> QED BY <3>1, <3>2
  <2> QED BY <2>1, <2>2, <2>3 DEF LoadInv
<1> QED
  BY <1>3, <1>4, <1>6, <1>7, <1>8, <1>9, <1>10, <1>11, <1>12, <1>13 DEF Load!Next, Load!Sample

\* What a standing load reports can be believed of any moment.
THEOREM LoadCanBeWatched ==
    Load!Spec => [](/\ Load!EachOfferHasOneFate /\ Load!LastLineIsComplete
                    /\ Load!ConfirmedWasOffered)
<1>1. LoadInv => /\ Load!EachOfferHasOneFate /\ Load!LastLineIsComplete
                 /\ Load!ConfirmedWasOffered
  <2> SUFFICES ASSUME LoadInv
               PROVE  Load!EachOfferHasOneFate /\ Load!LastLineIsComplete /\ Load!ConfirmedWasOffered
    OBVIOUS
  <2> USE CountersKnown DEF CountersAre
  <2>1. count \in [Load!Counters -> Nat] /\ reading \in [Load!Counters -> Nat] BY DEF LoadInv
  <2>2. count["offered"] \in Nat /\ Load!Settled(count) \in Nat BY <2>1 DEF Load!Settled
  <2>3. Load!EachOfferHasOneFate
    <3>1. sending \in {"none", "sent", "taken", "late", "ended"} /\
          (IF sending = "none" THEN count["offered"] = Load!Settled(count)
           ELSE count["offered"] = Load!Settled(count) \/ count["offered"] = Load!Settled(count) + 1)
      BY DEF LoadInv
    <3> QED BY <2>2, <3>1 DEF Load!EachOfferHasOneFate
  <2>4. Len(Load!Loads) = 5 BY DEF Load!Loads
  <2>5. Load!ConfirmedWasOffered BY <2>4 DEF LoadInv, Load!ConfirmedWasOffered, Load!Complete
  <2>6. Load!LastLineIsComplete
    BY <2>1, <2>4 DEF LoadInv, Load!LastLineIsComplete, Load!Complete, Load!Settled, Late
  <2> QED BY <2>3, <2>5, <2>6
<1> QED BY LoadStarts, LoadKept, <1>1, PTL DEF Load!Spec
-----------------------------------------------------------------------------
\* apps/03-ledger, the readers of the journal.  First, words: division leaves one
\* remainder only, so that a sum may be wrapped on the way or at the end.
LEMMA ModType == ASSUME NEW m \in Nat \ {0}, NEW x \in Int PROVE x % m \in 0 .. m - 1
  OBVIOUS

LEMMA ModDiv == ASSUME NEW m \in Nat \ {0}, NEW x \in Int PROVE \E k \in Int : x = m * k + (x % m)
<1>1. x = m * (x \div m) + (x % m) OBVIOUS
<1>2. x \div m \in Int OBVIOUS
<1> QED BY <1>1, <1>2

LEMMA ModUnique ==
    ASSUME NEW m \in Nat \ {0}, NEW j \in Int, NEW k \in Int, NEW r \in 0 .. m - 1, NEW s \in 0 .. m - 1,
           m * j + r = m * k + s
    PROVE  r = s
<1>1. CASE j = k BY <1>1
<1>2. CASE j >= k + 1
  <2>1. m * j >= m * (k + 1) BY <1>2
  <2>2. m * (k + 1) = m * k + m OBVIOUS
  <2>3. m * j \in Int /\ m * k \in Int OBVIOUS
  <2> QED BY <2>1, <2>2, <2>3
<1>3. CASE k >= j + 1
  <2>1. m * k >= m * (j + 1) BY <1>3
  <2>2. m * (j + 1) = m * j + m OBVIOUS
  <2>3. m * j \in Int /\ m * k \in Int OBVIOUS
  <2> QED BY <2>1, <2>2, <2>3
<1> QED BY <1>1, <1>2, <1>3

Wrap(L, n) == ((n + L) % (2 * L)) - L

LEMMA WrapIs ==
    ASSUME NEW L \in Nat \ {0}, NEW n \in Int
    PROVE  /\ Wrap(L, n) \in -L .. L - 1
           /\ \E k \in Int : n = (2 * L) * k + Wrap(L, n)
<1>1. 2 * L \in Nat \ {0} /\ n + L \in Int OBVIOUS
<1>2. PICK k \in Int : n + L = (2 * L) * k + ((n + L) % (2 * L)) BY <1>1, ModDiv
<1>3. (n + L) % (2 * L) \in 0 .. (2 * L) - 1 BY <1>1, ModType
<1> DEFINE r == (n + L) % (2 * L)
<1>4. r \in 0 .. (2 * L) - 1 /\ Wrap(L, n) = r - L BY <1>3 DEF Wrap
<1>5. n + L = (2 * L) * k + r BY <1>2
<1>6. (2 * L) * k \in Int OBVIOUS
<1> HIDE DEF r
<1>7. Wrap(L, n) \in -L .. L - 1 BY <1>4
<1>8. n = (2 * L) * k + Wrap(L, n) BY <1>4, <1>5, <1>6
<1> QED BY <1>7, <1>8

LEMMA WrapUnique ==
    ASSUME NEW L \in Nat \ {0}, NEW n \in Int, NEW w \in -L .. L - 1, NEW k \in Int,
           n = (2 * L) * k + w
    PROVE  Wrap(L, n) = w
<1>1. PICK j \in Int : n = (2 * L) * j + Wrap(L, n) BY WrapIs
<1> DEFINE m == 2 * L v == Wrap(L, n)
<1>2. v \in -L .. L - 1 BY WrapIs
<1>3. m \in Nat \ {0} /\ v + L \in 0 .. m - 1 /\ w + L \in 0 .. m - 1 BY <1>2
<1>4. m * j + v = m * k + w BY <1>1
<1>5. m * j \in Int /\ m * k \in Int OBVIOUS
<1> DEFINE p == v + L q == w + L
<1>6. m * j + p = m * k + q
  <2> HIDE DEF m, v
  <2> QED BY <1>2, <1>4, <1>5
<1>7. p \in 0 .. m - 1 /\ q \in 0 .. m - 1 /\ m \in Nat \ {0} BY <1>3
<1>8. p = q
  <2> HIDE DEF m, v, p, q
  <2> QED BY <1>6, <1>7, ModUnique
<1>9. v = w
  <2> HIDE DEF v
  <2> QED BY <1>2, <1>8
<1> QED BY <1>9

\* Wrapping on the way makes no difference to the end.
LEMMA WrapAdds ==
    ASSUME NEW L \in Nat \ {0}, NEW x \in Int, NEW y \in Int
    PROVE  Wrap(L, Wrap(L, x) + y) = Wrap(L, x + y)
<1> DEFINE m == 2 * L v == Wrap(L, x) w == Wrap(L, v + y)
<1>1. v \in Int /\ w \in -L .. L - 1 /\ v + y \in Int BY WrapIs
<1>2. PICK j \in Int : x = m * j + v BY WrapIs
<1>3. PICK k \in Int : v + y = m * k + w BY <1>1, WrapIs
<1>4. m * j \in Int /\ m * k \in Int /\ m * (j + k) = m * j + m * k OBVIOUS
<1>5. m = 2 * L OBVIOUS
<1> HIDE DEF m
<1>6. x + y = m * (j + k) + w
  <2> HIDE DEF v, w
  <2> QED BY <1>1, <1>2, <1>3, <1>4
<1>7. j + k \in Int /\ x + y \in Int OBVIOUS
<1>8. Wrap(L, x + y) = w
  <2> HIDE DEF w
  <2> QED BY <1>1, <1>5, <1>6, <1>7, WrapUnique
<1> QED BY <1>8

LEMMA WordIsWrap == \A n : Statements!Word(n) = Wrap(Limit, n)
  BY DEF Statements!Word, Wrap

\* What there is to know of words: they are integers, a number that fits is one,
\* and wrapping on the way makes no difference.
LEMMA Words ==
    /\ \A x \in Int : Statements!Word(x) \in Int
    /\ \A x \in -Limit .. Limit - 1 : Statements!Word(x) = x
    /\ \A x, y \in Int : Statements!Word(Statements!Word(x) + y) = Statements!Word(x + y)
<1>1. Limit \in Nat \ {0} BY StatementsAssumption
<1>2. \A x \in Int : Statements!Word(x) \in Int BY <1>1, WordIsWrap, WrapIs
<1>3. ASSUME NEW x \in -Limit .. Limit - 1 PROVE Statements!Word(x) = x
  <2>1. PICK k \in Int : k = 0 OBVIOUS
  <2>2. x = (2 * Limit) * k + x /\ x \in Int BY <1>1, <2>1
  <2>3. Wrap(Limit, x) = x BY <1>1, <2>2, WrapUnique
  <2> QED BY <2>3, WordIsWrap
<1>4. ASSUME NEW x \in Int, NEW y \in Int
      PROVE  Statements!Word(Statements!Word(x) + y) = Statements!Word(x + y)
  BY <1>1, WordIsWrap, WrapAdds
<1> QED BY <1>2, <1>3, <1>4

\* A sum along a sequence, and one more at its end.
LEMMA SumOneMore ==
    ASSUME NEW n \in Nat, NEW f, NEW g, \A i \in 1 .. n : f[i] \in Int /\ g[i] = f[i],
           g[n + 1] \in Int
    PROVE  SumFunctionOnSet(g, 1 .. n + 1) = SumFunctionOnSet(f, 1 .. n) + g[n + 1]
<1>1. IsFiniteSet(1 .. n) /\ IsFiniteSet(1 .. n + 1) BY FS_Interval
<1>2. \A i \in 1 .. n + 1 : g[i] \in Int
  <2>1. \A i \in 1 .. n + 1 : i \in 1 .. n \/ i = n + 1 OBVIOUS
  <2> QED BY <2>1
<1>3. n + 1 \in 1 .. n + 1 /\ (1 .. n + 1) \ {n + 1} = 1 .. n OBVIOUS
<1>4. SumFunctionOnSet(g, 1 .. n + 1) = g[n + 1] + SumFunctionOnSet(g, 1 .. n)
  BY <1>1, <1>2, <1>3, SumWithout
<1>5. SumFunctionOnSet(f, 1 .. n) = SumFunctionOnSet(g, 1 .. n) BY <1>1, SumSame
<1>6. SumFunctionOnSet(f, 1 .. n) \in Int BY <1>1, SumType
<1> QED BY <1>4, <1>5, <1>6

TransferIds == {t.id : t \in Asked} \cup {"opening"}
Entry == [id : TransferIds, account : Holders, amount : Int]

Upto(s, a, k) == SumFunctionOnSet(Statements!Amounts(s, a), 1 .. k)

LEMMA StatementsSum == \A f : Statements!SumFunction(f) = SumFunctionOnSet(f, DOMAIN f)
  BY DEF Statements!SumFunction, Statements!SumFunctionOnSet, Statements!FoldFunctionOnSet,
         Statements!MapThenFoldSet, SumFunctionOnSet, FoldFunctionOnSet, MapThenFoldSet

\* The sum of the entries of an account, and of the first of them.
LEMMA SumOf ==
    ASSUME NEW s \in Seq(Entry), NEW a
    PROVE  /\ Statements!TrueSum(s, a) = Upto(s, a, Len(s)) /\ Statements!TrueSum(s, a) \in Int
           /\ \A k \in 0 .. Len(s) : Upto(s, a, k) \in Int
           /\ Upto(s, a, 0) = 0
<1> DEFINE f == Statements!Amounts(s, a)
<1>1. DOMAIN s = 1 .. Len(s) /\ Len(s) \in Nat BY LenProperties
<1>2. \A i \in 1 .. Len(s) : s[i] \in Entry BY ElementOfSeq
<1>3. DOMAIN f = 1 .. Len(s) /\ \A i \in 1 .. Len(s) : f[i] \in Int
  BY <1>1, <1>2 DEF Statements!Amounts, Entry
<1>4. Statements!TrueSum(s, a) = SumFunctionOnSet(f, DOMAIN f)
  BY StatementsSum DEF Statements!TrueSum
<1> HIDE DEF f
<1>5. ASSUME NEW k \in 0 .. Len(s) PROVE SumFunctionOnSet(f, 1 .. k) \in Int
  <2>1. IsFiniteSet(1 .. k) BY <1>1, FS_Interval
  <2>2. \A i \in 1 .. k : f[i] \in Int BY <1>1, <1>3
  <2> QED BY <2>1, <2>2, SumType
<1>6. SumFunctionOnSet(f, 1 .. 0) = 0
  <2>1. 1 .. 0 = {} OBVIOUS
  <2> QED BY <2>1, SumEmpty
<1>7. Len(s) \in 0 .. Len(s) BY <1>1
<1>8. /\ SumFunctionOnSet(f, DOMAIN f) = SumFunctionOnSet(f, 1 .. Len(s))
      /\ SumFunctionOnSet(f, 1 .. Len(s)) \in Int
  BY <1>3, <1>5, <1>7
<1> QED BY <1>4, <1>5, <1>6, <1>8 DEF Upto, f

Share(e, a) == IF e.account = a THEN e.amount ELSE 0
Paid(e) == IF e.id = "opening" THEN e.amount ELSE 0

\* A sequence with the same entries up to k has the same sum up to k, and each entry
\* adds its share.
LEMMA SumPrefix ==
    ASSUME NEW s \in Seq(Entry), NEW t \in Seq(Entry), NEW a, NEW k \in Nat,
           k <= Len(s), k <= Len(t), \A i \in 1 .. k : s[i] = t[i]
    PROVE  /\ Upto(s, a, k) = Upto(t, a, k)
           /\ k < Len(t) => Upto(t, a, k + 1) = Upto(s, a, k) + Share(t[k + 1], a)
<1> DEFINE f == Statements!Amounts(s, a) g == Statements!Amounts(t, a)
<1>1. /\ DOMAIN s = 1 .. Len(s) /\ Len(s) \in Nat /\ DOMAIN t = 1 .. Len(t) /\ Len(t) \in Nat
  BY LenProperties
<1>2. (\A i \in 1 .. Len(s) : s[i] \in Entry) /\ (\A i \in 1 .. Len(t) : t[i] \in Entry)
  BY ElementOfSeq
<1>3. \A i \in 1 .. k : f[i] = g[i] /\ f[i] \in Int
  BY <1>1, <1>2 DEF Statements!Amounts, Entry
<1>4. k < Len(t) => g[k + 1] = Share(t[k + 1], a) /\ g[k + 1] \in Int
  BY <1>1, <1>2 DEF Statements!Amounts, Entry, Share
<1> HIDE DEF f, g
<1>5. IsFiniteSet(1 .. k) BY FS_Interval
<1>6. SumFunctionOnSet(f, 1 .. k) = SumFunctionOnSet(g, 1 .. k) BY <1>3, <1>5, SumSame
<1>7. k < Len(t) => SumFunctionOnSet(g, 1 .. k + 1) = SumFunctionOnSet(f, 1 .. k) + g[k + 1]
  BY <1>3, <1>4, SumOneMore
<1> QED BY <1>4, <1>6, <1>7 DEF Upto, f, g

LEMMA SumAppended ==
    ASSUME NEW s \in Seq(Entry), NEW e \in Entry, NEW a
    PROVE  /\ Append(s, e) \in Seq(Entry) /\ Len(Append(s, e)) = Len(s) + 1
           /\ Statements!TrueSum(Append(s, e), a) = Statements!TrueSum(s, a) + Share(e, a)
           /\ \A k \in 0 .. Len(s) : Upto(Append(s, e), a, k) = Upto(s, a, k)
<1> DEFINE t == Append(s, e)
<1>1. /\ t \in Seq(Entry) /\ Len(t) = Len(s) + 1 /\ t[Len(s) + 1] = e
      /\ \A i \in 1 .. Len(s) : t[i] = s[i]
  BY AppendProperties
<1>2. Len(s) \in Nat BY LenProperties
<1> HIDE DEF t
<1>3. \A k \in 0 .. Len(s) : Upto(t, a, k) = Upto(s, a, k) BY <1>1, <1>2, SumPrefix
<1>4. Upto(t, a, Len(s) + 1) = Upto(s, a, Len(s)) + Share(e, a) BY <1>1, <1>2, SumPrefix
<1>5. Statements!TrueSum(t, a) = Statements!TrueSum(s, a) + Share(e, a) BY <1>1, <1>4, SumOf
<1> QED BY <1>1, <1>3, <1>5 DEF t

LEMMA PaidInType == ASSUME entries \in Seq(Entry) PROVE Statements!PaidIn \in Int
<1> DEFINE f == [i \in DOMAIN entries |-> IF entries[i].id = "opening" THEN entries[i].amount ELSE 0]
<1>1. DOMAIN entries = 1 .. Len(entries) /\ Len(entries) \in Nat BY LenProperties
<1>2. \A i \in 1 .. Len(entries) : entries[i] \in Entry BY ElementOfSeq
<1>3. DOMAIN f = 1 .. Len(entries) /\ \A i \in 1 .. Len(entries) : f[i] \in Int
  BY <1>1, <1>2 DEF Entry
<1>4. IsFiniteSet(1 .. Len(entries)) BY <1>1, FS_Interval
<1> HIDE DEF f
<1>5. SumFunctionOnSet(f, DOMAIN f) \in Int BY <1>3, <1>4, SumType
<1> QED BY <1>5, StatementsSum DEF Statements!PaidIn, f

\* What was paid in grows with an opening entry and with no other.
LEMMA PaidInAppended ==
    ASSUME entries \in Seq(Entry), NEW e \in Entry, entries' = Append(entries, e)
    PROVE  /\ Statements!PaidIn \in Int /\ Paid(e) \in Int
           /\ Statements!PaidIn' = Statements!PaidIn + Paid(e)
<1> DEFINE of(s) == [i \in DOMAIN s |-> IF s[i].id = "opening" THEN s[i].amount ELSE 0]
<1>1. ASSUME NEW s \in Seq(Entry)
      PROVE  /\ DOMAIN of(s) = 1 .. Len(s) /\ Len(s) \in Nat
             /\ \A i \in 1 .. Len(s) : of(s)[i] = Paid(s[i]) /\ of(s)[i] \in Int
  <2>1. DOMAIN s = 1 .. Len(s) /\ Len(s) \in Nat BY LenProperties
  <2>2. \A i \in 1 .. Len(s) : s[i] \in Entry BY ElementOfSeq
  <2> QED BY <2>1, <2>2 DEF Paid, Entry
<1> DEFINE t == Append(entries, e) f == of(entries) g == of(t)
<1>2. /\ t \in Seq(Entry) /\ Len(t) = Len(entries) + 1 /\ t[Len(entries) + 1] = e
      /\ \A i \in 1 .. Len(entries) : t[i] = entries[i]
  BY AppendProperties
<1>3. Statements!PaidIn = SumFunctionOnSet(f, DOMAIN f) BY StatementsSum DEF Statements!PaidIn
<1>4. Statements!PaidIn' = SumFunctionOnSet(g, DOMAIN g)
  <2>1. Statements!PaidIn' = Statements!SumFunction(of(entries')) BY DEF Statements!PaidIn
  <2> QED BY <2>1, StatementsSum
<1>5. /\ DOMAIN f = 1 .. Len(entries) /\ Len(entries) \in Nat
      /\ \A i \in 1 .. Len(entries) : f[i] = Paid(entries[i]) /\ f[i] \in Int
  BY <1>1
<1> HIDE DEF t
<1>6. /\ DOMAIN g = 1 .. Len(t) /\ \A i \in 1 .. Len(t) : g[i] = Paid(t[i]) /\ g[i] \in Int
  BY <1>1, <1>2
<1> HIDE DEF f, g, of
<1>7. IsFiniteSet(1 .. Len(entries)) BY <1>5, FS_Interval
<1>8. SumFunctionOnSet(f, 1 .. Len(entries)) \in Int BY <1>5, <1>7, SumType
<1>9. \A i \in 1 .. Len(entries) : i \in 1 .. Len(t) /\ g[i] = f[i] BY <1>2, <1>5, <1>6
<1>10. Len(entries) + 1 \in 1 .. Len(t) BY <1>2, <1>5
<1>11. g[Len(entries) + 1] = Paid(e) /\ Paid(e) \in Int BY <1>2, <1>6, <1>10
<1>12. SumFunctionOnSet(g, 1 .. Len(t)) = SumFunctionOnSet(f, 1 .. Len(entries)) + Paid(e)
  <2>1. /\ Len(entries) \in Nat /\ \A i \in 1 .. Len(entries) : f[i] \in Int /\ g[i] = f[i]
        /\ g[Len(entries) + 1] \in Int
    BY <1>5, <1>9, <1>11
  <2>2. SumFunctionOnSet(g, 1 .. Len(entries) + 1)
          = SumFunctionOnSet(f, 1 .. Len(entries)) + g[Len(entries) + 1]
    BY <2>1, SumOneMore, ZenonT(60)
  <2> QED BY <1>2, <1>11, <2>2
<1> QED BY <1>3, <1>4, <1>5, <1>6, <1>8, <1>11, <1>12

View == [from : Nat, to : Nat, seen : Seq(Entry), on : BOOLEAN]

StatementsType ==
    /\ entries \in Seq(Entry) /\ posting \in Seq(Entry) /\ unheard \in Seq(Entry)
    /\ held \in [Holders -> Int] /\ view \in [Projections -> View]
    /\ onTheWay \subseteq Asked /\ rejections \subseteq Asked /\ refusedList \subseteq Asked

\* A projection has what lies between where it began and where it is,
HasRead(v) ==
    /\ v.from <= v.to /\ v.to <= Len(entries) /\ Len(v.seen) = v.to - v.from
    /\ \A i \in 1 .. v.to - v.from : v.seen[i] = entries[v.from + i]
    /\ \A a \in Holders :
         Statements!TrueSum(v.seen, a) + Upto(entries, a, v.from) = Upto(entries, a, v.to)

\* the writer has what the journal has, but for what it did not hear of,
Agreed ==
    \A a \in Holders :
        Statements!Word(held[a] + Statements!TrueSum(unheard, a))
            = Statements!Word(Statements!TrueSum(entries, a))

\* a transfer moves something only once it was accepted,
Untouched == onTheWay \cup rejections \cup refusedList

Moves(s, t) == \E i \in 1 .. Len(s) : s[i].id = t.id

NothingMoved ==
    /\ onTheWay \cap (rejections \cup refusedList) = {}
    /\ \A t \in Untouched : ~Moves(entries, t) /\ ~Moves(posting, t)

\* what is in hand is a transfer or its second half,
InHand ==
    \/ posting = <<>>
    \/ Len(posting) = 1 /\ posting[1].amount \in 1 .. Limit - 1 /\ posting[1].id # "opening"
    \/ /\ Len(posting) = 2 /\ posting[2].amount \in 1 .. Limit - 1
       /\ posting[1].amount = -posting[2].amount
       /\ posting[1].id # "opening" /\ posting[2].id # "opening"

\* and as long as what was paid in fits a word, the balances come to no more, less
\* what is between two accounts: none of them can wrap, and what is in hand is
\* covered.  A credit that failed leaves them with less for good.
Due == IF Len(posting) = 1 THEN posting[1].amount ELSE 0

Covered ==
    Statements!PaidIn < Limit /\ unheard = <<>> =>
        /\ \A a \in Holders : held[a] = Statements!TrueSum(entries, a) /\ held[a] >= 0
        /\ SumFunctionOnSet(held, Holders) <= Statements!PaidIn - Due
        /\ Len(posting) = 2 => held[posting[1].account] >= posting[2].amount

StatementsInv ==
    /\ StatementsType /\ \A p \in Projections : HasRead(view[p])
    /\ Agreed /\ NothingMoved /\ InHand /\ Covered

LEMMA StatementsStarts == Statements!Init => StatementsInv
<1> SUFFICES ASSUME Statements!Init PROVE StatementsInv
  OBVIOUS
<1> USE DEF Statements!Init
<1>1. <<>> \in Seq(Entry) /\ Len(<<>>) = 0 OBVIOUS
<1>2. StatementsType
  <2>1. Statements!NotStarted \in View BY <1>1 DEF Statements!NotStarted, View
  <2> QED BY <1>1, <2>1 DEF StatementsType
<1>3. \A a : Statements!TrueSum(<<>>, a) = 0 /\ Upto(entries, a, 0) = 0
  BY <1>1, SumOf
<1>4. \A p \in Projections : HasRead(view[p])
  <2> SUFFICES ASSUME NEW p \in Projections PROVE HasRead(view[p])
    OBVIOUS
  <2>1. view[p].from = 0 /\ view[p].to = 0 /\ view[p].seen = <<>> BY DEF Statements!NotStarted
  <2> QED BY <1>1, <1>3, <2>1 DEF HasRead
<1>5. Agreed
  <2> SUFFICES ASSUME NEW a \in Holders
               PROVE  Statements!Word(held[a] + Statements!TrueSum(unheard, a))
                        = Statements!Word(Statements!TrueSum(entries, a))
    BY DEF Agreed
  <2>1. held[a] = 0 /\ Statements!TrueSum(unheard, a) = 0 /\ Statements!TrueSum(entries, a) = 0
    BY <1>3
  <2> QED BY <2>1
<1>6. NothingMoved BY <1>1 DEF NothingMoved, Moves, Untouched
<1>7. Statements!PaidIn = 0
  <2> DEFINE f == [i \in DOMAIN entries |-> IF entries[i].id = "opening" THEN entries[i].amount ELSE 0]
  <2>1. DOMAIN f = {} OBVIOUS
  <2> HIDE DEF f
  <2>2. SumFunctionOnSet(f, DOMAIN f) = 0 BY <2>1, SumEmpty
  <2> QED BY <2>2, StatementsSum DEF Statements!PaidIn, f
<1>8. SumFunctionOnSet(held, Holders) = 0 BY StatementsAssumption, SumZero
<1>9. Covered BY <1>1, <1>3, <1>7, <1>8 DEF Covered, Due
<1> QED BY <1>2, <1>4, <1>5, <1>6, <1>9 DEF StatementsInv, InHand

\* The journal has one entry more: the projections have what they had.
LEMMA ReadersUnmoved ==
    ASSUME StatementsType, NEW e \in Entry, entries' = Append(entries, e),
           NEW v \in View, HasRead(v)
    PROVE  HasRead(v)'
<1>1. /\ entries' \in Seq(Entry) /\ Len(entries') = Len(entries) + 1
      /\ \A a : \A k \in 0 .. Len(entries) : Upto(entries', a, k) = Upto(entries, a, k)
  BY SumAppended DEF StatementsType
<1>2. \A i \in 1 .. Len(entries) : entries'[i] = entries[i]
  BY AppendProperties DEF StatementsType
<1>3. /\ v.from \in Nat /\ v.to \in Nat /\ Len(entries) \in Nat
      /\ v.from <= v.to /\ v.to <= Len(entries) /\ Len(v.seen) = v.to - v.from
  BY LenProperties DEF StatementsType, HasRead, View
<1>4. ASSUME NEW i \in 1 .. v.to - v.from PROVE v.seen[i] = entries'[v.from + i]
  <2>1. v.from + i \in 1 .. Len(entries) BY <1>3
  <2> QED BY <1>2, <2>1 DEF HasRead
<1>5. ASSUME NEW a \in Holders
      PROVE  Statements!TrueSum(v.seen, a) + Upto(entries', a, v.from) = Upto(entries', a, v.to)
  <2>1. v.from \in 0 .. Len(entries) /\ v.to \in 0 .. Len(entries) BY <1>3
  <2>2. Upto(entries', a, v.from) = Upto(entries, a, v.from) /\ Upto(entries', a, v.to) = Upto(entries, a, v.to)
    BY <1>1, <2>1
  <2> QED BY <2>2 DEF HasRead
<1>6. v.to <= Len(entries') BY <1>1, <1>3
<1> QED BY <1>3, <1>4, <1>5, <1>6 DEF HasRead

\* An entry is counted by the writer, or it is one more that it did not hear of.
LEMMA PostAgreed ==
    ASSUME StatementsType, Agreed, NEW e \in Entry, entries' = Append(entries, e),
           \/ held' = [held EXCEPT ![e.account] = Statements!Word(@ + e.amount)] /\ unheard' = unheard
           \/ held' = held /\ unheard' = Append(unheard, e)
    PROVE  Agreed' /\ held' \in [Holders -> Int] /\ unheard' \in Seq(Entry)
<1> DEFINE W(x) == Statements!Word(x)
<1>1. /\ \A x \in Int : W(x) \in Int
      /\ \A x, y \in Int : W(W(x) + y) = W(x + y)
  BY Words
<1> HIDE DEF W
<1>2. held \in [Holders -> Int] /\ e.account \in Holders /\ e.amount \in Int /\ held[e.account] \in Int
  BY DEF StatementsType, Entry
<1>3. held' \in [Holders -> Int]
  <2>1. CASE held' = [held EXCEPT ![e.account] = Statements!Word(@ + e.amount)]
    <3>1. W(held[e.account] + e.amount) \in Int
      <4>1. held[e.account] + e.amount \in Int BY <1>2
      <4> QED BY <1>1, <4>1
    <3>2. held' = [held EXCEPT ![e.account] = W(held[e.account] + e.amount)] BY <2>1 DEF W
    <3> QED BY <1>2, <3>1, <3>2
  <2>2. CASE held' = held BY <1>2, <2>2
  <2> QED BY <2>1, <2>2
<1>4. unheard' \in Seq(Entry) BY SumAppended DEF StatementsType
<1>5. ASSUME NEW a \in Holders
      PROVE  W(held'[a] + Statements!TrueSum(unheard', a)) = W(Statements!TrueSum(entries', a))
  <2> DEFINE h == held[a] u == Statements!TrueSum(unheard, a) c == Statements!TrueSum(entries, a)
             x == Share(e, a)
  <2>1. h \in Int /\ u \in Int /\ c \in Int /\ x \in Int
    BY <1>2, SumOf DEF StatementsType, Share
  <2>2. W(h + u) = W(c) BY DEF Agreed, W
  <2>3. Statements!TrueSum(entries', a) = c + x BY SumAppended DEF StatementsType
  <2>4. \/ (held'[a] = h \/ held'[a] = W(h + x)) /\ (x = 0 \/ held'[a] = W(h + x)) /\ Statements!TrueSum(unheard', a) = u
        \/ held'[a] = h /\ Statements!TrueSum(unheard', a) = u + x
    <3>1. CASE held' = [held EXCEPT ![e.account] = Statements!Word(@ + e.amount)] /\ unheard' = unheard
      <4>1. CASE e.account = a
        <5>1. x = e.amount /\ held'[a] = Statements!Word(held[a] + e.amount) BY <1>2, <3>1, <4>1 DEF Share
        <5> QED BY <3>1, <5>1 DEF W
      <4>2. CASE e.account # a
        <5>1. x = 0 /\ held'[a] = h BY <1>2, <3>1, <4>2 DEF Share
        <5> QED BY <3>1, <5>1
      <4> QED BY <4>1, <4>2
    <3>2. CASE held' = held /\ unheard' = Append(unheard, e)
      <4>1. Statements!TrueSum(unheard', a) = u + x BY <3>2, SumAppended DEF StatementsType
      <4> QED BY <3>2, <4>1
    <3> QED BY <3>1, <3>2
  <2> DEFINE h2 == held'[a] u2 == Statements!TrueSum(unheard', a)
  <2>5. W(h2 + u2) = W(c + x)
    <3>1. \/ h2 = W(h + x) /\ u2 = u
          \/ h2 = h /\ x = 0 /\ u2 = u
          \/ h2 = h /\ u2 = u + x
      BY <2>4
    <3> HIDE DEF h, u, c, x, h2, u2
    <3>2. W(h + u) \in Int /\ h + u \in Int /\ h + x \in Int BY <1>1, <2>1
    <3>3. W(W(h + u) + x) = W((h + u) + x) BY <1>1, <2>1, <3>2
    <3>4. W(W(c) + x) = W(c + x) BY <1>1, <2>1
    <3>5. W((h + u) + x) = W(c + x) BY <2>2, <3>3, <3>4
    <3>6. CASE h2 = W(h + x) /\ u2 = u
      <4>1. W(W(h + x) + u) = W((h + x) + u) BY <1>1, <2>1, <3>2
      <4>2. (h + x) + u = (h + u) + x BY <2>1
      <4> QED BY <3>5, <3>6, <4>1, <4>2
    <3>7. CASE h2 = h /\ x = 0 /\ u2 = u
      <4>1. (h + u) + x = h + u BY <2>1, <3>7
      <4> QED BY <3>5, <3>7, <4>1
    <3>8. CASE h2 = h /\ u2 = u + x
      <4>1. h + (u + x) = (h + u) + x BY <2>1
      <4> QED BY <3>5, <3>8, <4>1
    <3> QED BY <3>1, <3>6, <3>7, <3>8
  <2> QED BY <2>3, <2>5
<1>6. Agreed' BY <1>5 DEF Agreed, W
<1> QED BY <1>3, <1>4, <1>6

\* Where no sum can wrap, a post is what it says: the balance of the account and the
\* sum of all change by the amount.
LEMMA PostAdds ==
    ASSUME StatementsType, NEW e \in Entry,
           held' = [held EXCEPT ![e.account] = Statements!Word(@ + e.amount)],
           held[e.account] + e.amount \in -Limit .. Limit - 1
    PROVE  /\ held'[e.account] = held[e.account] + e.amount
           /\ \A a \in Holders : a # e.account => held'[a] = held[a]
           /\ SumFunctionOnSet(held', Holders) = SumFunctionOnSet(held, Holders) + e.amount
           /\ SumFunctionOnSet(held, Holders) \in Int
<1>1. IsFiniteSet(Holders) BY StatementsAssumption
<1>2. held \in [Holders -> Int] /\ e.account \in Holders /\ e.amount \in Int /\ held[e.account] \in Int
  BY DEF StatementsType, Entry
<1> DEFINE n == held[e.account] + e.amount
<1>3. Statements!Word(n) = n BY Words
<1>4. held' = [held EXCEPT ![e.account] = n] BY <1>3
<1>5. n \in Int BY <1>2
<1>6. held'[e.account] = n /\ \A a \in Holders : a # e.account => held'[a] = held[a]
  BY <1>2, <1>4
<1> HIDE DEF n
<1>7. \A a \in Holders : held[a] \in Int /\ held'[a] \in Int BY <1>2, <1>5, <1>6
<1>8. SumFunctionOnSet(held, Holders) \in Int BY <1>1, <1>7, SumType
<1>9. SumFunctionOnSet(held', Holders) = SumFunctionOnSet(held, Holders) + (n - held[e.account])
  <2>1. \A a \in Holders \ {e.account} : held[a] = held'[a] BY <1>6
  <2> DEFINE acc == e.account
  <2>2. acc \in Holders BY <1>2
  <2>3. \A a \in Holders \ {acc} : held[a] = held'[a] BY <2>1
  <2>4. held'[acc] = n BY <1>6
  <2> DEFINE old == held new == held'
  <2>5. SumFunctionOnSet(new, Holders) = SumFunctionOnSet(old, Holders) + (new[acc] - old[acc])
    <3>1. \A a \in Holders : old[a] \in Int /\ new[a] \in Int BY <1>7
    <3>2. \A a \in Holders \ {acc} : old[a] = new[a] BY <2>3
    <3> HIDE DEF acc, old, new
    <3> QED BY <1>1, <2>2, <3>1, <3>2, SumMoved
  <2> QED BY <2>4, <2>5
<1>10. n - held[e.account] = e.amount BY <1>2 DEF n
<1> QED BY <1>6, <1>8, <1>9, <1>10 DEF n

\* No balance is more than all of them.
LEMMA BalanceIsPart ==
    ASSUME StatementsType, \A a \in Holders : held[a] >= 0, NEW a \in Holders
    PROVE  held[a] \in Nat /\ held[a] <= SumFunctionOnSet(held, Holders)
           /\ SumFunctionOnSet(held, Holders) \in Nat
<1>1. \A b \in Holders : held[b] \in Nat BY DEF StatementsType
<1> QED BY <1>1, SumNat, StatementsAssumption

LEMMA MovesAppended ==
    ASSUME NEW s \in Seq(Entry), NEW e \in Entry, NEW t, ~Moves(s, t), e.id # t.id
    PROVE  ~Moves(Append(s, e), t)
<1> DEFINE u == Append(s, e)
<1>1. /\ Len(u) = Len(s) + 1 /\ u[Len(s) + 1] = e /\ \A i \in 1 .. Len(s) : u[i] = s[i]
  BY AppendProperties
<1>2. Len(s) \in Nat BY LenProperties
<1> HIDE DEF u
<1>3. \A i \in 1 .. Len(u) : i \in 1 .. Len(s) \/ i = Len(s) + 1 BY <1>1, <1>2
<1>4. ~Moves(u, t) BY <1>1, <1>3 DEF Moves
<1> QED BY <1>4 DEF u

\* Nothing of it moves.
LEMMA StatementsStand ==
    ASSUME StatementsInv,
           UNCHANGED <<entries, held, onTheWay, posting, rejections, refusedList, view, unheard>>
    PROVE  StatementsInv'
<1>1. StatementsType /\ \A p \in Projections : HasRead(view[p]) BY DEF StatementsInv
<1>2. Statements!PaidIn' = Statements!PaidIn /\ Due' = Due BY DEF Statements!PaidIn, Due
<1>3. Covered' BY <1>2 DEF StatementsInv, Covered
<1>4. \A p \in Projections : HasRead(view[p])' BY <1>1 DEF HasRead, Upto
<1>5. StatementsType' /\ Agreed' /\ NothingMoved' /\ InHand'
  BY DEF StatementsInv, StatementsType, Agreed, NothingMoved, Untouched, Moves, InHand
<1> QED BY <1>3, <1>4, <1>5 DEF StatementsInv

\* A post that failed for good left the journal and the writer as they were.
LEMMA PostFails ==
    ASSUME NEW e, NEW rest, NEW failed, Statements!Post(e, rest, failed)
    PROVE  \/ entries' = Append(entries, e)
           \/ posting' = failed /\ UNCHANGED <<entries, held, unheard>>
  BY DEF Statements!Post

\* What every post keeps that the journal has, counted or not.
LEMMA PostKeeps ==
    ASSUME StatementsInv, NEW e \in Entry, NEW rest \in Seq(Entry), NEW failed \in Seq(Entry),
           Statements!Post(e, rest, failed), entries' = Append(entries, e), UNCHANGED <<onTheWay, rejections, refusedList, view>>,
           \A t \in Untouched : e.id # t.id /\ ~Moves(rest, t) /\ ~Moves(failed, t)
    PROVE  /\ StatementsType' /\ Agreed' /\ NothingMoved'
           /\ \A p \in Projections : HasRead(view[p])'
           /\ entries' = Append(entries, e)
           /\ \/ /\ posting' = rest /\ unheard' = unheard
                 /\ held' = [held EXCEPT ![e.account] = Statements!Word(@ + e.amount)]
              \/ posting' = failed /\ unheard' # <<>> /\ held' = held
<1>1. StatementsType /\ Agreed /\ NothingMoved /\ \A p \in Projections : HasRead(view[p])
  BY DEF StatementsInv
<1>2. /\ entries' = Append(entries, e)
      /\ \/ /\ posting' = rest /\ unheard' = unheard
            /\ held' = [held EXCEPT ![e.account] = Statements!Word(@ + e.amount)]
         \/ posting' = failed /\ unheard' = Append(unheard, e) /\ held' = held
  <2>1. entries' # entries
    <3> DEFINE t == Append(entries, e)
    <3>1. Len(t) = Len(entries) + 1 /\ Len(entries) \in Nat
      BY <1>1, AppendProperties, LenProperties DEF StatementsType
    <3> HIDE DEF t
    <3>2. t # entries BY <3>1
    <3> QED BY <3>2 DEF t
  <2> QED BY <2>1 DEF Statements!Post
<1>3. Agreed' /\ held' \in [Holders -> Int] /\ unheard' \in Seq(Entry) BY <1>1, <1>2, PostAgreed
<1>4. entries' \in Seq(Entry) BY <1>1, <1>2, SumAppended DEF StatementsType
<1>5. StatementsType' BY <1>1, <1>2, <1>3, <1>4 DEF StatementsType
<1>6. \A p \in Projections : HasRead(view[p])'
  <2> SUFFICES ASSUME NEW p \in Projections PROVE HasRead(view[p])'
    OBVIOUS
  <2> DEFINE v == view[p]
  <2>1. v \in View /\ HasRead(v) BY <1>1 DEF StatementsType
  <2>2. view' = view OBVIOUS
  <2> SUFFICES HasRead(v)'
    BY <2>2
  <2> QED BY <1>1, <1>2, <2>1, <2>2, ReadersUnmoved
<1>7. NothingMoved'
  <2>1. Untouched' = Untouched BY DEF Untouched
  <2>2. \A t \in Untouched : ~Moves(entries', t)
    BY <1>1, <1>2, MovesAppended DEF NothingMoved, StatementsType
  <2>3. \A t \in Untouched : ~Moves(posting', t) BY <1>2
  <2> QED BY <1>1, <2>1, <2>2, <2>3 DEF NothingMoved
<1>8. Append(unheard, e) # <<>>
  <2> DEFINE t == Append(unheard, e)
  <2>1. Len(t) = Len(unheard) + 1 /\ Len(unheard) \in Nat
    BY <1>1, AppendProperties, LenProperties DEF StatementsType
  <2> HIDE DEF t
  <2>2. t # <<>> BY <2>1
  <2> QED BY <2>2 DEF t
<1> QED BY <1>2, <1>3, <1>5, <1>6, <1>7, <1>8

LEMMA FundKept ==
    ASSUME StatementsInv, NEW a \in Holders, NEW n \in Funds, Statements!Fund(a, n)
    PROVE  StatementsInv'
<1> DEFINE e == [id |-> "opening", account |-> a, amount |-> n]
<1>1. StatementsType /\ NothingMoved /\ InHand /\ Covered BY DEF StatementsInv
<1>2. n \in 0 .. Limit - 1 /\ Limit \in Nat \ {0} /\ n \in Int BY StatementsAssumption
<1>3. e \in Entry /\ e.id = "opening" /\ e.account = a /\ e.amount = n
  BY <1>2 DEF Entry, TransferIds
<1>4. Statements!Post(e, posting, posting) /\ UNCHANGED <<onTheWay, rejections, refusedList, view>>
  BY DEF Statements!Fund
<1> HIDE DEF e
<1>5. \A t \in Untouched : e.id # t.id /\ ~Moves(posting, t)
  BY <1>1, <1>3, StatementsAssumption DEF Untouched, StatementsType, NothingMoved
<1>a. CASE UNCHANGED <<entries, held, unheard, posting>> BY <1>4, <1>a, StatementsStand
<1> SUFFICES ASSUME entries' = Append(entries, e) PROVE StatementsInv'
  BY <1>4, <1>a, PostFails
<1>6. posting \in Seq(Entry) /\ entries \in Seq(Entry) /\ held \in [Holders -> Int]
  BY <1>1 DEF StatementsType
<1>7. /\ StatementsType' /\ Agreed' /\ NothingMoved'
      /\ \A p \in Projections : HasRead(view[p])'
      /\ entries' = Append(entries, e)
      /\ posting' = posting
      /\ \/ /\ unheard' = unheard
            /\ held' = [held EXCEPT ![e.account] = Statements!Word(@ + e.amount)]
         \/ unheard' # <<>>
  BY <1>3, <1>4, <1>5, <1>6, PostKeeps
<1>8. InHand' BY <1>1, <1>7 DEF InHand
<1>9. Covered'
  <2> SUFFICES ASSUME Statements!PaidIn' < Limit, unheard' = <<>> PROVE Covered'
    BY DEF Covered
  <2>1. unheard = <<>> /\ held' = [held EXCEPT ![e.account] = Statements!Word(@ + e.amount)]
    BY <1>7
  <2>2. Statements!PaidIn \in Int /\ Statements!PaidIn' = Statements!PaidIn + n
    BY <1>3, <1>6, <1>7, PaidInAppended DEF Paid
  <2>3. Statements!PaidIn < Limit BY <1>2, <2>2
  <2>4. /\ \A b \in Holders : held[b] = Statements!TrueSum(entries, b) /\ held[b] >= 0
        /\ SumFunctionOnSet(held, Holders) <= Statements!PaidIn - Due
        /\ Len(posting) = 2 => held[posting[1].account] >= posting[2].amount
    BY <1>1, <2>1, <2>3 DEF Covered
  <2>5. Due \in Nat /\ Due' = Due BY <1>1, <1>2, <1>7 DEF Due, InHand
  <2>6. held[a] \in Nat /\ held[a] <= Statements!PaidIn - Due
    <3> DEFINE sum == SumFunctionOnSet(held, Holders)
    <3>1. held[a] \in Nat /\ held[a] <= sum /\ sum \in Nat BY <1>1, <2>4, BalanceIsPart
    <3>2. sum <= Statements!PaidIn - Due BY <2>4
    <3> HIDE DEF sum
    <3> QED BY <2>2, <2>5, <3>1, <3>2
  <2>7. held[a] + n \in -Limit .. Limit - 1 /\ held[a] + n >= held[a]
    BY <1>2, <2>2, <2>5, <2>6
  <2>8. /\ held'[a] = held[a] + n
        /\ \A b \in Holders : b # a => held'[b] = held[b]
        /\ SumFunctionOnSet(held', Holders) = SumFunctionOnSet(held, Holders) + n
    BY <1>1, <1>3, <2>1, <2>7, PostAdds
  <2>9. ASSUME NEW b \in Holders
        PROVE  held'[b] = Statements!TrueSum(entries', b) /\ held'[b] >= 0 /\ held'[b] >= held[b]
    <3>1. Statements!TrueSum(entries', b) = Statements!TrueSum(entries, b) + Share(e, b)
      BY <1>3, <1>6, <1>7, SumAppended
    <3>2. held[b] \in Int BY <1>6
    <3>3. CASE b = a BY <1>2, <1>3, <2>4, <2>7, <2>8, <3>1, <3>2, <3>3 DEF Share
    <3>4. CASE b # a
      <4>1. Share(e, b) = 0 /\ held'[b] = held[b] BY <1>3, <2>8, <3>4 DEF Share
      <4> QED BY <2>4, <3>1, <3>2, <4>1
    <3> QED BY <3>3, <3>4
  <2>10. SumFunctionOnSet(held', Holders) <= Statements!PaidIn' - Due'
    <3> DEFINE sum == SumFunctionOnSet(held, Holders)
    <3>1. sum \in Nat /\ sum <= Statements!PaidIn - Due BY <1>1, <2>4, BalanceIsPart
    <3>2. SumFunctionOnSet(held', Holders) = sum + n BY <2>8
    <3> HIDE DEF sum
    <3>3. sum + n <= (Statements!PaidIn + n) - Due BY <1>2, <2>2, <2>5, <3>1
    <3> QED BY <2>2, <2>5, <3>2, <3>3
  <2>11. Len(posting') = 2 => held'[posting'[1].account] >= posting'[2].amount
    <3> SUFFICES ASSUME Len(posting) = 2 PROVE held'[posting[1].account] >= posting[2].amount
      BY <1>7
    <3>1. posting[1] \in Entry /\ posting[2] \in Entry
      <4>1. 1 \in 1 .. Len(posting) /\ 2 \in 1 .. Len(posting) OBVIOUS
      <4> QED BY <1>6, <4>1, ElementOfSeq
    <3> DEFINE b == posting[1].account
    <3>2. b \in Holders /\ posting[2].amount \in Int BY <3>1 DEF Entry
    <3>3. held[b] >= posting[2].amount BY <2>4
    <3>4. held'[b] >= held[b] /\ held[b] \in Int /\ held'[b] \in Int BY <1>6, <1>7, <2>9, <3>2 DEF StatementsType
    <3> HIDE DEF b
    <3>5. held'[b] >= posting[2].amount BY <3>2, <3>3, <3>4
    <3> QED BY <3>5 DEF b
  <2> QED BY <2>9, <2>10, <2>11 DEF Covered
<1> QED BY <1>7, <1>8, <1>9 DEF StatementsInv

LEMMA PostNextKept == ASSUME StatementsInv, Statements!PostNext PROVE StatementsInv'
<1> DEFINE e == posting[1]
<1>1. StatementsType /\ NothingMoved /\ InHand /\ Covered BY DEF StatementsInv
<1>2. posting \in Seq(Entry) /\ entries \in Seq(Entry) /\ held \in [Holders -> Int] /\ Limit \in Nat \ {0}
  BY <1>1, StatementsAssumption DEF StatementsType
<1>3. posting # <<>> /\ UNCHANGED <<onTheWay, rejections, refusedList, view>>
  BY DEF Statements!PostNext
<1>4. Head(posting) = e /\ e \in Entry BY <1>2, <1>3, HeadTailProperties
<1>5. Statements!Post(e, Tail(posting), <<>>) BY <1>4 DEF Statements!PostNext
<1>6. /\ Tail(posting) \in Seq(Entry) /\ Len(Tail(posting)) = Len(posting) - 1
      /\ \A i \in 1 .. Len(Tail(posting)) : Tail(posting)[i] = posting[i + 1]
  BY <1>2, <1>3, HeadTailProperties
<1>7. Len(posting) = 1 \/ Len(posting) = 2 BY <1>1, <1>3 DEF InHand
<1>8. \A t \in Untouched : e.id # t.id /\ ~Moves(Tail(posting), t) /\ ~Moves(<<>>, t)
  <2> TAKE t \in Untouched
  <2>1. ~Moves(posting, t) BY <1>1 DEF NothingMoved
  <2>2. 1 \in 1 .. Len(posting) BY <1>7
  <2>3. \A i \in 1 .. Len(Tail(posting)) : i + 1 \in 1 .. Len(posting) BY <1>6, <1>7
  <2> QED BY <1>6, <2>1, <2>2, <2>3 DEF Moves
<1>9. <<>> \in Seq(Entry) OBVIOUS
<1>a. CASE posting' = <<>> /\ UNCHANGED <<entries, held, unheard>>
  <2>1. Statements!PaidIn' = Statements!PaidIn BY <1>a DEF Statements!PaidIn
  <2>2. Due' = 0 BY <1>a DEF Due
  <2>3. Statements!PaidIn < Limit /\ unheard = <<>>
           => SumFunctionOnSet(held, Holders) <= Statements!PaidIn
    <3> SUFFICES ASSUME Statements!PaidIn < Limit, unheard = <<>>
                 PROVE  SumFunctionOnSet(held, Holders) <= Statements!PaidIn
      OBVIOUS
    <3> DEFINE sum == SumFunctionOnSet(held, Holders)
    <3>1. (\A b \in Holders : held[b] >= 0) /\ sum <= Statements!PaidIn - Due
      BY <1>1 DEF Covered
    <3>2. sum \in Nat /\ Statements!PaidIn \in Int
      <4>1. e.account \in Holders BY <1>4 DEF Entry
      <4>2. sum \in Nat BY <1>1, <3>1, <4>1, BalanceIsPart
      <4>3. Statements!PaidIn \in Int BY <1>2, PaidInType
      <4> QED BY <4>2, <4>3
    <3>3. Due \in Nat BY <1>1, <1>2 DEF Due, InHand
    <3> HIDE DEF sum
    <3>4. sum <= Statements!PaidIn BY <3>1, <3>2, <3>3
    <3> QED BY <3>4 DEF sum
  <2>4. Covered'
    <3>1. SumFunctionOnSet(held', Holders) = SumFunctionOnSet(held, Holders) BY <1>a
    <3>2. Len(posting') # 2 BY <1>a
    <3>3. Statements!PaidIn \in Int BY <1>2, PaidInType
    <3>4. Statements!PaidIn - 0 = Statements!PaidIn BY <3>3
    <3> QED BY <1>1, <1>a, <2>1, <2>2, <2>3, <3>1, <3>2, <3>4 DEF Covered
  <2>5. NothingMoved'
    <3>1. Untouched' = Untouched BY <1>3 DEF Untouched
    <3> QED BY <1>1, <1>3, <1>8, <1>a, <3>1 DEF NothingMoved
  <2>6. \A p \in Projections : HasRead(view[p])' BY <1>3, <1>a DEF StatementsInv, HasRead, Upto
  <2>7. StatementsType' /\ Agreed' /\ InHand'
    BY <1>1, <1>3, <1>9, <1>a DEF StatementsInv, StatementsType, Agreed, InHand
  <2> QED BY <2>4, <2>5, <2>6, <2>7 DEF StatementsInv
<1> SUFFICES ASSUME entries' = Append(entries, e) PROVE StatementsInv'
  BY <1>5, <1>a, PostFails
<1>10. /\ StatementsType' /\ Agreed' /\ NothingMoved'
       /\ \A p \in Projections : HasRead(view[p])'
       /\ entries' = Append(entries, e)
       /\ \/ /\ posting' = Tail(posting) /\ unheard' = unheard
             /\ held' = [held EXCEPT ![e.account] = Statements!Word(@ + e.amount)]
          \/ posting' = <<>> /\ unheard' # <<>>
  <2> HIDE DEF e
  <2> QED BY <1>3, <1>4, <1>5, <1>6, <1>8, <1>9, PostKeeps
<1>11. CASE unheard' # <<>> /\ posting' = <<>>
  <2>1. Covered' BY <1>11 DEF Covered
  <2> QED BY <1>10, <1>11, <2>1 DEF StatementsInv, InHand
<1>12. CASE /\ posting' = Tail(posting) /\ unheard' = unheard
            /\ held' = [held EXCEPT ![e.account] = Statements!Word(@ + e.amount)]
  <2>1. Len(posting) = 2 => posting'[1] = posting[2] /\ Len(posting') = 1
    <3> SUFFICES ASSUME Len(posting) = 2 PROVE posting'[1] = posting[2] /\ Len(posting') = 1
      OBVIOUS
    <3>1. Len(Tail(posting)) = 1 BY <1>6
    <3>2. 1 \in 1 .. Len(Tail(posting)) BY <3>1
    <3>3. Tail(posting)[1] = posting[1 + 1] BY <1>6, <3>2
    <3>4. posting[1 + 1] = posting[2] OBVIOUS
    <3> QED BY <1>12, <3>1, <3>3, <3>4
  <2>2. Len(posting) = 1 => Len(posting') = 0 /\ posting' = <<>>
    <3> DEFINE t == Tail(posting)
    <3>1. t \in Seq(Entry) /\ (Len(posting) = 1 => Len(t) = 0) BY <1>6
    <3> HIDE DEF t
    <3>2. Len(posting) = 1 => t = <<>> BY <3>1
    <3> QED BY <1>12, <3>1, <3>2 DEF t
  <2>3. InHand' BY <1>1, <1>3, <1>7, <2>1, <2>2 DEF InHand
  <2>4. e.id # "opening" /\ e.amount \in Int /\ e.account \in Holders
    BY <1>1, <1>3, <1>4 DEF InHand, Entry
  <2>5. Statements!PaidIn \in Int /\ Statements!PaidIn' = Statements!PaidIn
    <3> HIDE DEF e
    <3>1. Paid(e) = 0 BY <2>4 DEF Paid
    <3> QED BY <1>2, <1>4, <1>10, <3>1, PaidInAppended
  <2>6. Covered'
    <3> SUFFICES ASSUME Statements!PaidIn' < Limit, unheard' = <<>> PROVE Covered'
      BY DEF Covered
    <3>1. /\ \A b \in Holders : held[b] = Statements!TrueSum(entries, b) /\ held[b] >= 0
          /\ SumFunctionOnSet(held, Holders) <= Statements!PaidIn - Due
          /\ Len(posting) = 2 => held[posting[1].account] >= posting[2].amount
      BY <1>1, <1>12, <2>5 DEF Covered
    <3> DEFINE h == held[e.account] x == e.amount sum == SumFunctionOnSet(held, Holders)
    <3>2. h \in Nat /\ h <= sum /\ sum \in Nat BY <1>1, <2>4, <3>1, BalanceIsPart
    <3>3. h + x \in 0 .. Limit - 1 /\ sum + x <= Statements!PaidIn - Due'
      <4>1. CASE Len(posting) = 2
        <5>1. x = -posting[2].amount /\ posting[2].amount \in 1 .. Limit - 1 /\ h >= posting[2].amount
          BY <1>1, <1>3, <3>1, <4>1 DEF InHand
        <5> DEFINE n == posting[2].amount
        <5>2. Due' = n BY <2>1, <4>1 DEF Due
        <5>3. Due = 0 BY <4>1 DEF Due
        <5>4. sum <= Statements!PaidIn BY <2>5, <3>1, <5>3
        <5>5. x = -n /\ n \in 1 .. Limit - 1 /\ h >= n BY <5>1
        <5> HIDE DEF h, x, sum, n
        <5>6. h + x \in 0 .. Limit - 1 BY <1>2, <2>5, <3>2, <5>4, <5>5
        <5>7. sum + x <= Statements!PaidIn - n BY <2>5, <3>2, <5>4, <5>5
        <5> QED BY <5>2, <5>6, <5>7
      <4>2. CASE Len(posting) = 1
        <5>1. x \in 1 .. Limit - 1 BY <1>1, <1>3, <4>2 DEF InHand
        <5>2. sum <= Statements!PaidIn - x /\ Due' = 0 BY <2>2, <3>1, <4>2 DEF Due
        <5> HIDE DEF h, x, sum
        <5> QED BY <1>2, <2>5, <3>2, <5>1, <5>2
      <4> QED BY <1>7, <4>1, <4>2
    <3>4. /\ held'[e.account] = h + x
          /\ \A b \in Holders : b # e.account => held'[b] = held[b]
          /\ SumFunctionOnSet(held', Holders) = sum + x
      <4>1. h + x \in -Limit .. Limit - 1 BY <1>2, <3>3
      <4> HIDE DEF e
      <4> QED BY <1>1, <1>4, <1>12, <4>1, PostAdds
    <3>5. ASSUME NEW b \in Holders
          PROVE  held'[b] = Statements!TrueSum(entries', b) /\ held'[b] >= 0
      <4> HIDE DEF e
      <4>1. Statements!TrueSum(entries', b) = Statements!TrueSum(entries, b) + Share(e, b)
        BY <1>2, <1>4, <1>10, SumAppended
      <4>2. held[b] \in Int BY <1>2
      <4>3. CASE b = e.account
        <5>1. Share(e, b) = x /\ held'[b] = h + x /\ h = Statements!TrueSum(entries, b)
          BY <3>1, <3>4, <4>3 DEF Share
        <5>2. h + x >= 0 BY <1>2, <3>3
        <5> QED BY <4>1, <5>1, <5>2
      <4>4. CASE b # e.account
        <5>1. Share(e, b) = 0 /\ held'[b] = held[b] BY <3>4, <4>4 DEF Share
        <5> QED BY <3>1, <4>1, <4>2, <5>1
      <4> QED BY <4>3, <4>4
    <3>6. Len(posting') # 2 BY <1>7, <2>1, <2>2
    <3> QED BY <2>5, <3>3, <3>4, <3>5, <3>6 DEF Covered
  <2> QED BY <1>10, <2>3, <2>6 DEF StatementsInv
<1> QED BY <1>10, <1>11, <1>12

LEMMA ApplyKept == ASSUME StatementsInv, NEW t \in Asked, Statements!Apply(t) PROVE StatementsInv'
<1> DEFINE debit == [id |-> t.id, account |-> t.from, amount |-> Statements!Word(-t.amount)]
           credit == [id |-> t.id, account |-> t.to, amount |-> t.amount]
<1>1. StatementsType /\ NothingMoved /\ Covered /\ Agreed /\ \A p \in Projections : HasRead(view[p])
  BY DEF StatementsInv
<1>2. /\ posting = <<>> /\ t \in onTheWay /\ t.amount > 0 /\ held[t.from] >= t.amount
      /\ onTheWay' = onTheWay \ {t} /\ posting' = <<debit, credit>>
      /\ UNCHANGED <<entries, held, rejections, refusedList, view, unheard>>
  BY DEF Statements!Apply, Statements!MayMove
<1>3. /\ t.from \in Holders /\ t.to \in Holders /\ t.amount \in 1 .. Limit - 1 /\ t.amount \in Int
      /\ t.id # "opening" /\ t.id \in TransferIds /\ Limit \in Nat \ {0}
  BY <1>2, StatementsAssumption DEF TransferIds
<1>4. Statements!Word(-t.amount) = -t.amount
  <2>1. -t.amount \in -Limit .. Limit - 1 BY <1>3
  <2> QED BY <2>1, Words
<1>5. /\ debit \in Entry /\ debit.id = t.id /\ debit.account = t.from /\ debit.amount = -t.amount
      /\ credit \in Entry /\ credit.id = t.id /\ credit.account = t.to /\ credit.amount = t.amount
  BY <1>3, <1>4 DEF Entry
<1> HIDE DEF debit, credit
<1>6. posting' \in Seq(Entry) /\ Len(posting') = 2 /\ posting'[1] = debit /\ posting'[2] = credit
  BY <1>2, <1>5
<1>7. StatementsType'
  <2>1. onTheWay' \subseteq Asked BY <1>1, <1>2 DEF StatementsType
  <2> QED BY <1>1, <1>2, <1>6, <2>1 DEF StatementsType
<1>8. \A p \in Projections : HasRead(view[p])' BY <1>1, <1>2 DEF HasRead, Upto
<1>9. Agreed' BY <1>1, <1>2 DEF Agreed
<1>10. InHand' BY <1>3, <1>5, <1>6 DEF InHand
<1>11. Covered'
  <2>1. Statements!PaidIn' = Statements!PaidIn BY <1>2 DEF Statements!PaidIn
  <2>2. Len(posting) = 0 BY <1>2
  <2>3. Due' = 0 /\ Due = 0 BY <1>6, <2>2 DEF Due
  <2> QED BY <1>1, <1>2, <1>5, <1>6, <2>1, <2>3 DEF Covered
<1>12. NothingMoved'
  <2>1. onTheWay' \cap (rejections' \cup refusedList') = {} BY <1>1, <1>2 DEF NothingMoved
  <2>2. ASSUME NEW u \in Untouched' PROVE ~Moves(entries', u) /\ ~Moves(posting', u)
    <3>1. u \in Untouched BY <1>2, <2>2 DEF Untouched
    <3>2. u # t BY <1>1, <1>2, <2>2 DEF Untouched, NothingMoved
    <3>3. u \in Asked BY <1>1, <3>1 DEF Untouched, StatementsType
    <3>4. u.id # t.id BY <3>2, <3>3, StatementsAssumption
    <3>5. ~Moves(entries, u) BY <1>1, <3>1 DEF NothingMoved
    <3>6. ~Moves(posting', u)
      <4>1. \A i \in 1 .. Len(posting') : i = 1 \/ i = 2 BY <1>6
      <4> QED BY <1>5, <1>6, <3>4, <4>1 DEF Moves
    <3> QED BY <1>2, <3>5, <3>6
  <2> QED BY <2>1, <2>2 DEF NothingMoved
<1> QED BY <1>7, <1>8, <1>9, <1>10, <1>11, <1>12 DEF StatementsInv

\* A refusal changes the place of a request that is refused.
LEMMA RefusalKept ==
    ASSUME StatementsInv, NEW t \in Asked, Statements!Reject(t) \/ Statements!NoteRefusal(t)
    PROVE  StatementsInv'
<1>1. StatementsType /\ NothingMoved /\ Covered /\ Agreed /\ InHand /\ \A p \in Projections : HasRead(view[p])
  BY DEF StatementsInv
<1>2. UNCHANGED <<entries, held, posting, view, unheard>>
  BY DEF Statements!Reject, Statements!NoteRefusal
<1>3. /\ onTheWay' \subseteq Asked /\ rejections' \subseteq Asked /\ refusedList' \subseteq Asked
      /\ onTheWay' \cap (rejections' \cup refusedList') = {}
      /\ onTheWay' \cup rejections' \cup refusedList' \subseteq Untouched
  BY <1>1 DEF Statements!Reject, Statements!NoteRefusal, StatementsType, NothingMoved, Untouched
<1>4. StatementsType' BY <1>1, <1>2, <1>3 DEF StatementsType
<1>5. \A p \in Projections : HasRead(view[p])' BY <1>1, <1>2 DEF HasRead, Upto
<1>6. Agreed' /\ InHand' BY <1>1, <1>2 DEF Agreed, InHand
<1>7. NothingMoved'
  <2>1. Untouched' \subseteq Untouched BY <1>3 DEF Untouched
  <2> QED BY <1>1, <1>2, <1>3, <2>1 DEF NothingMoved
<1>8. Covered'
  <2>1. Statements!PaidIn' = Statements!PaidIn /\ Due' = Due BY <1>2 DEF Statements!PaidIn, Due
  <2> QED BY <1>1, <1>2, <2>1 DEF Covered
<1> QED BY <1>4, <1>5, <1>6, <1>7, <1>8 DEF StatementsInv

\* What a projection does is its own.
LEMMA ViewKept ==
    ASSUME StatementsInv, NEW p \in Projections, NEW v \in View, view' = [view EXCEPT ![p] = v], HasRead(v),
           UNCHANGED <<entries, held, onTheWay, posting, rejections, refusedList, unheard>>
    PROVE  StatementsInv'
<1>1. StatementsType /\ NothingMoved /\ Covered /\ Agreed /\ InHand /\ \A q \in Projections : HasRead(view[q])
  BY DEF StatementsInv
<1>2. StatementsType' BY <1>1 DEF StatementsType
<1>3. ASSUME NEW q \in Projections PROVE HasRead(view[q])'
  <2>1. view'[q] = IF q = p THEN v ELSE view[q] BY <1>1 DEF StatementsType
  <2>2. HasRead(view'[q]) BY <1>1, <2>1
  <2> QED BY <2>2 DEF HasRead, Upto
<1>4. NothingMoved' /\ Agreed' /\ InHand' BY <1>1 DEF NothingMoved, Untouched, Moves, Agreed, InHand
<1>5. Covered'
  <2>1. Statements!PaidIn' = Statements!PaidIn /\ Due' = Due BY DEF Statements!PaidIn, Due
  <2> QED BY <1>1, <2>1 DEF Covered
<1> QED BY <1>2, <1>3, <1>4, <1>5 DEF StatementsInv

\* A projection that has read nothing yet, wherever it begins.
LEMMA BegunHasRead ==
    ASSUME entries \in Seq(Entry), NEW from \in 0 .. Len(entries), NEW flag \in BOOLEAN
    PROVE  /\ [from |-> from, to |-> from, seen |-> <<>>, on |-> flag] \in View
           /\ HasRead([from |-> from, to |-> from, seen |-> <<>>, on |-> flag])
<1> DEFINE v == [from |-> from, to |-> from, seen |-> <<>>, on |-> flag]
<1>1. <<>> \in Seq(Entry) /\ Len(<<>>) = 0 /\ Len(entries) \in Nat BY LenProperties
<1>2. v \in View /\ v.from = from /\ v.to = from /\ v.seen = <<>> BY <1>1 DEF View
<1> HIDE DEF v
<1>3. \A a : Statements!TrueSum(<<>>, a) = 0 BY <1>1, SumOf
<1>4. \A a : Upto(entries, a, from) \in Int BY SumOf
<1>5. \A a : 0 + Upto(entries, a, from) = Upto(entries, a, from) BY <1>4
<1>6. from \in Nat /\ from <= Len(entries) /\ from - from = 0 BY <1>1
<1>7. HasRead(v) BY <1>1, <1>2, <1>3, <1>5, <1>6 DEF HasRead
<1> QED BY <1>2, <1>7 DEF v

\* And one that reads the entry it has come to.
LEMMA OneMoreRead ==
    ASSUME entries \in Seq(Entry), NEW v \in View, HasRead(v), v.to < Len(entries),
           NEW w \in View, w.from = v.from, w.to = v.to + 1, w.seen = Append(v.seen, entries[v.to + 1])
    PROVE  HasRead(w)
<1> DEFINE e == entries[v.to + 1]
<1>1. /\ v.from \in Nat /\ v.to \in Nat /\ v.seen \in Seq(Entry) /\ Len(entries) \in Nat
      /\ v.from <= v.to /\ Len(v.seen) = v.to - v.from
  BY LenProperties DEF View, HasRead
<1>2. e \in Entry
  <2>1. v.to + 1 \in 1 .. Len(entries) BY <1>1
  <2> QED BY <2>1, ElementOfSeq
<1> HIDE DEF e
<1>3. w.seen = Append(v.seen, e) BY DEF e
<1>4. /\ Len(w.seen) = Len(v.seen) + 1 /\ w.seen[Len(v.seen) + 1] = e
      /\ \A i \in 1 .. Len(v.seen) : w.seen[i] = v.seen[i]
  BY <1>1, <1>2, <1>3, AppendProperties
<1>5. ASSUME NEW i \in 1 .. w.to - w.from PROVE w.seen[i] = entries[w.from + i]
  <2>1. CASE i \in 1 .. Len(v.seen)
    <3>1. v.seen[i] = entries[v.from + i] BY <1>1, <2>1 DEF HasRead
    <3> QED BY <1>4, <2>1, <3>1
  <2>2. CASE i = Len(v.seen) + 1
    <3>1. w.from + i = v.to + 1 BY <1>1, <2>2
    <3> QED BY <1>4, <2>2, <3>1 DEF e
  <2>3. i \in 1 .. Len(v.seen) \/ i = Len(v.seen) + 1 BY <1>1
  <2> QED BY <2>1, <2>2, <2>3
<1>6. ASSUME NEW a \in Holders
      PROVE  Statements!TrueSum(w.seen, a) + Upto(entries, a, w.from) = Upto(entries, a, w.to)
  <2>1. Statements!TrueSum(v.seen, a) + Upto(entries, a, v.from) = Upto(entries, a, v.to)
    BY DEF HasRead
  <2>2. Statements!TrueSum(w.seen, a) = Statements!TrueSum(v.seen, a) + Share(e, a)
    BY <1>1, <1>2, <1>3, SumAppended
  <2>3. Upto(entries, a, v.to + 1) = Upto(entries, a, v.to) + Share(e, a)
    BY <1>1, SumPrefix DEF e
  <2>4. /\ Statements!TrueSum(v.seen, a) \in Int /\ Upto(entries, a, v.from) \in Int
        /\ Upto(entries, a, v.to) \in Int /\ Share(e, a) \in Int
    <3>1. v.from \in 0 .. Len(entries) /\ v.to \in 0 .. Len(entries) BY <1>1
    <3>2. Upto(entries, a, v.from) \in Int /\ Upto(entries, a, v.to) \in Int BY <3>1, SumOf
    <3>3. Statements!TrueSum(v.seen, a) \in Int BY <1>1, SumOf
    <3>4. Share(e, a) \in Int BY <1>2 DEF Share, Entry
    <3> QED BY <3>2, <3>3, <3>4
  <2> QED BY <2>1, <2>2, <2>3, <2>4
<1>7. w.from <= w.to /\ w.to <= Len(entries) /\ Len(w.seen) = w.to - w.from BY <1>1, <1>4
<1> QED BY <1>5, <1>6, <1>7 DEF HasRead

LEMMA StatementsKept == StatementsInv /\ [Statements!Next]_(Statements!vars) => StatementsInv'
<1> SUFFICES ASSUME StatementsInv, [Statements!Next]_(Statements!vars) PROVE StatementsInv'
  OBVIOUS
<1>1. StatementsType /\ \A p \in Projections : HasRead(view[p]) BY DEF StatementsInv
<1>2. entries \in Seq(Entry) /\ Len(entries) \in Nat BY <1>1, LenProperties DEF StatementsType
<1>3. ASSUME NEW p \in Projections, NEW first \in BOOLEAN, Statements!StartReading(p, first)
      PROVE  StatementsInv'
  <2> DEFINE from == IF first THEN 0 ELSE Len(entries)
             v == [from |-> from, to |-> from, seen |-> <<>>, on |-> TRUE]
  <2>1. view' = [view EXCEPT ![p] = v]
        /\ UNCHANGED <<entries, held, onTheWay, posting, rejections, refusedList, unheard>>
    BY <1>3 DEF Statements!StartReading
  <2>2. from \in 0 .. Len(entries) BY <1>2
  <2>3. v \in View /\ HasRead(v)
    <3> HIDE DEF from
    <3> QED BY <1>2, <2>2, BegunHasRead
  <2> HIDE DEF v
  <2> QED BY <2>1, <2>3, ViewKept
<1>4. ASSUME NEW p \in Projections, Statements!Read(p) PROVE StatementsInv'
  <2> DEFINE v == view[p] next == v.to + 1
             w == [from |-> v.from, to |-> next, seen |-> Append(v.seen, entries[next]), on |-> TRUE]
  <2>1. /\ v.to < Len(entries) /\ view' = [view EXCEPT ![p] = w]
        /\ UNCHANGED <<entries, held, onTheWay, posting, rejections, refusedList, unheard>>
    BY <1>4 DEF Statements!Read
  <2>2. v \in View /\ HasRead(v) BY <1>1 DEF StatementsType
  <2>3. next \in 1 .. Len(entries) BY <1>2, <2>1, <2>2 DEF View
  <2>4. entries[next] \in Entry BY <1>2, <2>3, ElementOfSeq
  <2>5. Append(v.seen, entries[next]) \in Seq(Entry)
    <3>1. v.seen \in Seq(Entry) BY <2>2 DEF View
    <3> QED BY <2>4, <3>1, AppendProperties
  <2>6. w \in View /\ w.from = v.from /\ w.to = v.to + 1 /\ w.seen = Append(v.seen, entries[v.to + 1])
    <3> HIDE DEF v
    <3> QED BY <2>2, <2>3, <2>5 DEF View
  <2> HIDE DEF w, v
  <2>7. HasRead(w) BY <1>2, <2>1, <2>2, <2>6, OneMoreRead
  <2> QED BY <2>1, <2>6, <2>7, ViewKept
<1>5. ASSUME NEW p \in Projections, Statements!StopReading(p) PROVE StatementsInv'
  <2>1. view' = [view EXCEPT ![p] = Statements!NotStarted]
        /\ UNCHANGED <<entries, held, onTheWay, posting, rejections, refusedList, unheard>>
    BY <1>5 DEF Statements!StopReading
  <2>2. 0 \in 0 .. Len(entries) BY <1>2
  <2>3. Statements!NotStarted \in View /\ HasRead(Statements!NotStarted)
    BY <1>2, <2>2, BegunHasRead DEF Statements!NotStarted
  <2> QED BY <2>1, <2>3, ViewKept
<1>6. CASE UNCHANGED Statements!vars BY <1>6, StatementsStand DEF Statements!vars
<1> QED
  BY <1>3, <1>4, <1>5, <1>6, FundKept, PostNextKept, ApplyKept, RefusalKept
     DEF Statements!Next, Statements!Decide

\* What lies between two places of a sequence.
LEMMA Between ==
    ASSUME NEW s \in Seq(Entry), NEW m \in Nat, NEW n \in Nat, m <= n, n <= Len(s)
    PROVE  /\ SubSeq(s, m + 1, n) \in Seq(Entry) /\ Len(SubSeq(s, m + 1, n)) = n - m
           /\ \A i \in 1 .. n - m : SubSeq(s, m + 1, n)[i] = s[m + i]
<1> DEFINE k == m + 1
<1>1. k \in Int /\ n \in Int /\ Len(s) \in Nat /\ k >= 1 BY LenProperties
<1>2. n - k + 1 = n - m /\ (k <= n <=> n - m > 0) OBVIOUS
<1>3. \A i \in 1 .. n - m : k + i - 1 = m + i OBVIOUS
<1> DEFINE t == SubSeq(s, k, n)
<1>4. \A i \in k .. n : i \in 1 .. Len(s) BY <1>1
<1>5. \A i \in k .. n : s[i] \in Entry BY <1>4, ElementOfSeq
<1>6. /\ t \in Seq(Entry) /\ Len(t) = IF k <= n THEN n - k + 1 ELSE 0
      /\ \A i \in 1 .. n - k + 1 : t[i] = s[k + i - 1]
  <2> HIDE DEF k
  <2> QED BY <1>1, <1>5, SubSeqProperties
<1>7. Len(t) = n - m BY <1>2, <1>6
<1>8. \A i \in 1 .. n - m : t[i] = s[m + i] BY <1>2, <1>3, <1>6
<1> QED BY <1>6, <1>7, <1>8

\* A projection agrees with the writer, and the writer's balances with their entries.
THEOREM StatementsAgree ==
    Statements!Spec => [](/\ Statements!ProjectionAgrees /\ Statements!ReadersDoNotCompete
                          /\ Statements!BalancesAreTrue /\ Statements!RefusedMovedNothing)
<1>1. ASSUME StatementsInv
      PROVE  /\ Statements!ProjectionAgrees /\ Statements!ReadersDoNotCompete
             /\ Statements!BalancesAreTrue /\ Statements!RefusedMovedNothing
  <2>1. /\ StatementsType /\ NothingMoved /\ Covered /\ Agreed
        /\ \A p \in Projections : HasRead(view[p])
    BY <1>1 DEF StatementsInv
  <2>2. entries \in Seq(Entry) /\ unheard \in Seq(Entry) /\ Len(entries) \in Nat /\ held \in [Holders -> Int]
    BY <2>1, LenProperties DEF StatementsType
  <2>3. ASSUME NEW p \in Projections
        PROVE  /\ view[p] \in View /\ HasRead(view[p]) /\ view[p].from \in Nat /\ view[p].to \in Nat
               /\ view[p].seen \in Seq(Entry)
    BY <2>1 DEF StatementsType, View
  <2>4. ASSUME NEW p \in Projections PROVE view[p].seen = SubSeq(entries, view[p].from + 1, view[p].to)
    <3> DEFINE v == view[p] s == SubSeq(entries, v.from + 1, v.to)
    <3>1. /\ v.from \in Nat /\ v.to \in Nat /\ v.seen \in Seq(Entry) /\ v.from <= v.to
          /\ v.to <= Len(entries) /\ Len(v.seen) = v.to - v.from
          /\ \A i \in 1 .. v.to - v.from : v.seen[i] = entries[v.from + i]
      BY <2>3 DEF HasRead
    <3> HIDE DEF v
    <3>2. /\ s \in Seq(Entry) /\ Len(s) = v.to - v.from
          /\ \A i \in 1 .. v.to - v.from : s[i] = entries[v.from + i]
      BY <2>2, <3>1, Between
    <3> HIDE DEF s
    <3>3. v.seen = s
      <4> DEFINE x == v.seen
      <4>1. x \in Seq(Entry) /\ Len(x) = Len(s) /\ \A i \in 1 .. Len(x) : x[i] = s[i]
        BY <3>1, <3>2
      <4> HIDE DEF x
      <4>2. x = s BY <3>2, <4>1, SeqEqual
      <4> QED BY <4>2 DEF x
    <3> QED BY <3>3 DEF s, v
  <2>5. Statements!ReadersDoNotCompete BY <2>4 DEF Statements!ReadersDoNotCompete
  <2>6. Statements!RefusedMovedNothing
    <3> SUFFICES ASSUME NEW t \in rejections \cup refusedList
                 PROVE  t \notin onTheWay /\ \A i \in DOMAIN entries : entries[i].id # t.id
      BY DEF Statements!RefusedMovedNothing
    <3>1. t \in Untouched /\ t \notin onTheWay BY <2>1 DEF Untouched, NothingMoved
    <3>2. DOMAIN entries = 1 .. Len(entries) BY <2>2, LenProperties
    <3>3. ~Moves(entries, t) BY <2>1, <3>1 DEF NothingMoved
    <3> QED BY <3>1, <3>2, <3>3 DEF Moves
  <2>7. Statements!BalancesAreTrue BY <2>1 DEF Covered, Statements!BalancesAreTrue
  <2>8. Statements!ProjectionAgrees
    <3> SUFFICES ASSUME NEW p \in Projections, NEW a \in Holders, Statements!CaughtUp(p)
                 PROVE  Statements!Word(Statements!Sum(view[p].seen, a)
                            + Statements!Sum(SubSeq(entries, 1, view[p].from), a))
                          = Statements!Word(held[a] + Statements!Sum(unheard, a))
      BY DEF Statements!ProjectionAgrees
    <3> DEFINE v == view[p] before == SubSeq(entries, 1, v.from)
               s == Statements!TrueSum(v.seen, a) b == Statements!TrueSum(before, a)
               u == Statements!TrueSum(unheard, a) c == Statements!TrueSum(entries, a) h == held[a]
               W(x) == Statements!Word(x)
    <3>1. v.to = Len(entries) /\ v.from \in Nat /\ v.from <= v.to /\ v.seen \in Seq(Entry)
      BY <2>3 DEF Statements!CaughtUp, HasRead
    <3>2. v.from \in 0 .. Len(entries) BY <2>2, <3>1
    <3>3. /\ before \in Seq(Entry) /\ Len(before) = v.from
          /\ \A i \in 1 .. v.from : before[i] = entries[i]
      <4> DEFINE n == v.from
      <4>1. n \in 0 .. Len(entries) BY <3>2
      <4> HIDE DEF n
      <4>2. /\ SubSeq(entries, 1, n) \in Seq(Entry) /\ Len(SubSeq(entries, 1, n)) = n
            /\ \A i \in 1 .. n : SubSeq(entries, 1, n)[i] = entries[i]
        BY <2>2, <4>1, SubSeqProperties
      <4> QED BY <4>2 DEF n
    <3>4. b = Upto(entries, a, v.from) /\ b \in Int
      <4> HIDE DEF before, v
      <4>1. b = Upto(before, a, v.from) /\ b \in Int BY <3>3, SumOf
      <4>2. Upto(before, a, v.from) = Upto(entries, a, v.from)
        BY <2>2, <3>1, <3>3, SumPrefix
      <4> QED BY <4>1, <4>2
    <3>5. s + b = c
      <4>1. Statements!TrueSum(v.seen, a) + Upto(entries, a, v.from) = Upto(entries, a, v.to)
        BY <2>3 DEF HasRead
      <4>2. c = Upto(entries, a, v.to) BY <2>2, <3>1, SumOf
      <4> QED BY <3>4, <4>1, <4>2
    <3>6. s \in Int /\ u \in Int /\ c \in Int /\ h \in Int
      <4>1. h \in Int BY <2>2
      <4>2. u \in Int /\ c \in Int BY <2>2, SumOf
      <4>3. s \in Int
        <5> HIDE DEF v
        <5> QED BY <3>1, SumOf
      <4> QED BY <4>1, <4>2, <4>3
    <3>7. W(h + u) = W(c) BY <2>1 DEF Agreed
    <3>8. (\A x \in Int : W(x) \in Int) /\ \A x, y \in Int : W(W(x) + y) = W(x + y) BY Words
    <3>9. /\ Statements!Sum(view[p].seen, a) = W(s)
          /\ Statements!Sum(SubSeq(entries, 1, view[p].from), a) = W(b)
          /\ Statements!Sum(unheard, a) = W(u)
      BY DEF Statements!Sum
    <3> SUFFICES W(W(s) + W(b)) = W(h + W(u))
      BY <3>9
    <3> HIDE DEF v, before, s, b, u, c, h, W
    <3>10. W(s) \in Int /\ W(b) \in Int /\ W(u) \in Int BY <3>4, <3>6, <3>8
    <3>11. W(W(s) + W(b)) = W(s + W(b)) BY <3>6, <3>8, <3>10
    <3>12. s + W(b) = W(b) + s BY <3>6, <3>10
    <3>13. W(W(b) + s) = W(b + s) BY <3>4, <3>6, <3>8
    <3>14. b + s = c BY <3>4, <3>5, <3>6
    <3>15. h + W(u) = W(u) + h /\ u + h = h + u BY <3>6, <3>10
    <3>16. W(W(u) + h) = W(u + h) BY <3>6, <3>8
    <3> QED BY <3>7, <3>11, <3>12, <3>13, <3>14, <3>15, <3>16
  <2> QED BY <2>5, <2>6, <2>7, <2>8
<1>2. StatementsInv => /\ Statements!ProjectionAgrees /\ Statements!ReadersDoNotCompete
                       /\ Statements!BalancesAreTrue /\ Statements!RefusedMovedNothing
  BY <1>1
<1> QED BY StatementsStarts, StatementsKept, <1>2, PTL DEF Statements!Spec
-----------------------------------------------------------------------------
\* The examples of basic/ and advanced/ together, with the readers of apps/03: a step
\* of one of them leaves the others as they are, so that a behaviour of the run is a
\* behaviour of every example.
LEMMA ExamplesRun ==
    ExamplesSpec => /\ Retries!Spec /\ Replay!Spec /\ Codecs!Spec /\ Streams!Spec /\ ClaimCheck!Spec
                    /\ Rotation!Spec /\ Tracing!Spec /\ Blocked!Spec /\ Load!Spec /\ Statements!Spec
<1>1. ExamplesInit => /\ Retries!Init /\ Replay!Init /\ Codecs!Init /\ Streams!Init /\ ClaimCheck!Init
                      /\ Rotation!Init /\ Tracing!Init /\ Blocked!Init /\ Load!Init /\ Statements!Init
  BY DEF ExamplesInit
<1>2. [ExamplesNext]_examplesVars => [Retries!Next]_(Retries!vars)
  BY DEF ExamplesNext, Resting, examplesVars, retriesVars, Retries!vars
<1>3. [ExamplesNext]_examplesVars => [Replay!Next]_(Replay!vars)
  BY DEF ExamplesNext, Resting, examplesVars, replayVars, Replay!vars
<1>4. [ExamplesNext]_examplesVars => [Codecs!Next]_(Codecs!vars)
  BY DEF ExamplesNext, Resting, examplesVars, codecsVars, Codecs!vars
<1>5. [ExamplesNext]_examplesVars => [Streams!Next]_(Streams!vars)
  BY DEF ExamplesNext, Resting, examplesVars, streamsVars, Streams!vars
<1>6. [ExamplesNext]_examplesVars => [ClaimCheck!Next]_(ClaimCheck!vars)
  BY DEF ExamplesNext, Resting, examplesVars, claimcheckVars, ClaimCheck!vars
<1>7. [ExamplesNext]_examplesVars => [Rotation!Next]_(Rotation!vars)
  BY DEF ExamplesNext, Resting, examplesVars, rotationVars, Rotation!vars
<1>8. [ExamplesNext]_examplesVars => [Tracing!Next]_(Tracing!vars)
  BY DEF ExamplesNext, Resting, examplesVars, tracingVars, Tracing!vars
<1>9. [ExamplesNext]_examplesVars => [Blocked!Next]_(Blocked!vars)
  BY DEF ExamplesNext, Resting, examplesVars, blockedhealthVars, Blocked!vars
<1>10. [ExamplesNext]_examplesVars => [Load!Next]_(Load!vars)
  BY DEF ExamplesNext, Resting, examplesVars, loadVars, Load!vars
<1>11. [ExamplesNext]_examplesVars => [Statements!Next]_(Statements!vars)
  BY DEF ExamplesNext, Resting, examplesVars, statementsVars, Statements!vars
<1> QED
  BY <1>1, <1>2, <1>3, <1>4, <1>5, <1>6, <1>7, <1>8, <1>9, <1>10, <1>11, PTL
     DEF ExamplesSpec, Retries!Spec, Replay!Spec, Codecs!Spec, Streams!Spec, ClaimCheck!Spec,
         Rotation!Spec, Tracing!Spec, Blocked!Spec, Load!Spec, Statements!Spec

\* No message of the examples disappears between two queues, two settlements or two
\* lines, whatever the policy, the invoices, the threshold and the keys.
THEOREM ExamplesLoseNoMessage == ExamplesSpec => []NoMessageIsLost
<1>1. /\ Retries!NoPaymentVanishes /\ Replay!NothingIsLostOnItsWay /\ Load!EachOfferHasOneFate
      /\ Load!LastLineIsComplete /\ ClaimCheck!AlwaysRedeemable /\ ClaimCheck!KeysPointSomewhere
      /\ Rotation!NobodyIsShutOut
      => NoMessageIsLost
  BY DEF NoMessageIsLost
<1> QED
  BY ExamplesRun, RetriesByPolicy, ReplayInStages, LoadCanBeWatched, ClaimsAreRedeemed,
     RotationWithoutOutage, <1>1, PTL

\* What they do a second time has its cause, however many messages a log has and
\* wherever its projection stops.
THEOREM ExamplesRepeatForACause == ExamplesSpec => []RepeatsHaveACause
<1>1. /\ Retries!TriedByPolicy /\ Replay!PanicIsARepeat /\ Streams!NoGapAndNothingTwice
      /\ Streams!TheLogIsLeftAlone /\ Streams!CheckpointIsTheWork
      => RepeatsHaveACause
  BY DEF RepeatsHaveACause
<1> QED BY ExamplesRun, RetriesByPolicy, ReplayInStages, StreamReadOnce, <1>1, PTL

\* What reaches a handler is what was meant for it, whatever codecs are offered,
\* keys are in the ring and sizes the reports have.
THEOREM ExamplesReadAsMeant == ExamplesSpec => []ReadAsMeant
<1>1. /\ Codecs!ReadAsWritten /\ Codecs!NobodyGuesses /\ Rotation!AlteredIsNotOpened
      /\ ClaimCheck!BoundaryIsChecked /\ Retries!TheMarkWins /\ Replay!OnlyTheFixedTenant
      => ReadAsMeant
  BY DEF ReadAsMeant
<1> QED
  BY ExamplesRun, CodecsReadAsWritten, RotationWithoutOutage, ClaimsAreRedeemed, RetriesByPolicy,
     ReplayInStages, <1>1, PTL

\* What they report of themselves agrees with what happened, whatever moves while
\* it is put together.
THEOREM ExamplesReportTruly == ExamplesSpec => []ReportsAgree
<1>1. /\ Tracing!JoinedToItsPublish /\ Tracing!OutcomeIsTheEngines /\ Tracing!NoSpanStaysOpen
      /\ Blocked!AlarmIsCleared /\ Blocked!ClosesUnblocked /\ Blocked!AskedUnlessBlocked
      /\ Load!ConfirmedWasOffered /\ Statements!ProjectionAgrees /\ Statements!ReadersDoNotCompete
      /\ Statements!BalancesAreTrue /\ Statements!RefusedMovedNothing
      => ReportsAgree
  BY DEF ReportsAgree
<1> QED
  BY ExamplesRun, TracingAgrees, BlockedRunClears, LoadCanBeWatched, StatementsAgree, <1>1, PTL
=============================================================================
