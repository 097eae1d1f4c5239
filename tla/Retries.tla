------------------------------- MODULE Retries -------------------------------
(***************************************************************************)
(* basic/02-retries-and-dead-letters: one consumer retries its payment     *)
(* until the policy ends it, another marks its own as fatal.  Both read    *)
(* the queue "payments", one after the other, and a third reads the dead   *)
(* letters into a channel of one.                                          *)
(***************************************************************************)
EXTENDS Naturals, FiniteSets, Sequences

CONSTANTS Policy,       \* attempts in all
          MaxReturns,   \* bound: deliveries that come back unsettled
          Leftovers     \* messages an earlier run left on the durable queue

VARIABLES copies,       \* messages: [pay, no, attempt, at]
          attempts,     \* what the first consumer noted, per payment
          consumers,    \* which of "retrying" and "fatal" are attached
          deadRead,     \* payments read off the dead-letter queue, in order
          channel,      \* of them, those main has not taken
          handledBy,    \* [pay, by]
          step,         \* "send", "await dead", "close", "send fatal", "await fatal", "over"
          fatalSeen,    \* the second consumer told main
          returns

vars == <<copies, attempts, consumers, deadRead, channel, handledBy, step, fatalSeen, returns>>

Pays == {"p-1", "p-2"} \cup Leftovers
Message(p, n, a, at) == [pay |-> p, no |-> n, attempt |-> a, at |-> at]

Init ==
    /\ copies = {Message(p, 0, 1, "queue") : p \in Leftovers}
    /\ attempts = [p \in Pays |-> <<>>] /\ consumers = {"retrying"}
    /\ deadRead = <<>> /\ channel = <<>> /\ handledBy = {}
    /\ step = "send" /\ fatalSeen = FALSE /\ returns = 0

Send ==
    /\ \/ step = "send" /\ step' = "await dead" /\ copies' = copies \cup {Message("p-1", 0, 1, "queue")}
       \/ step = "send fatal" /\ step' = "await fatal" /\ copies' = copies \cup {Message("p-2", 0, 1, "queue")}
    /\ UNCHANGED <<attempts, consumers, deadRead, channel, handledBy, fatalSeen, returns>>

\* A consumer of the queue takes a message.
Take(c, by) ==
    /\ by \in consumers /\ c \in copies /\ c.at = "queue"
    /\ copies' = (copies \ {c}) \cup {[c EXCEPT !.at = by]}
    /\ attempts' = IF by = "retrying" THEN [attempts EXCEPT ![c.pay] = Append(@, c.attempt)] ELSE attempts
    /\ handledBy' = handledBy \cup {[pay |-> c.pay, by |-> by]}
    /\ fatalSeen' = (fatalSeen \/ by = "fatal")
    /\ UNCHANGED <<consumers, deadRead, channel, step, returns>>

LastAttempt(c) == c.attempt >= Policy

\* Given up: the attempts are used up, or the error says they would not help.
Dies(c) == LastAttempt(c) \/ c.at = "fatal"

NextCopy(c) == IF Dies(c) THEN [c EXCEPT !.at = "dead"]
               ELSE [c EXCEPT !.at = "queue", !.attempt = @ + 1]

\* Both handlers ask for a retry.  The successor is published and the delivery
\* settled; where the settlement is lost the delivery comes back beside it.
Settle(c) ==
    /\ c \in copies /\ c.at \in {"retrying", "fatal"}
    /\ \/ copies' = (copies \ {c}) \cup {NextCopy(c)} /\ UNCHANGED returns
       \/ /\ returns < MaxReturns /\ returns' = returns + 1
          /\ copies' = (copies \ {c}) \cup
                 {NextCopy(c), [c EXCEPT !.at = "queue", !.no = returns']}
    /\ UNCHANGED <<attempts, consumers, deadRead, channel, handledBy, step, fatalSeen>>

\* The reader's handler gives it to main, or waits to, and accepts it.
ReadDead(c) ==
    /\ c \in copies /\ c.at = "dead" /\ Len(channel) < 1
    /\ copies' = copies \ {c}
    /\ deadRead' = Append(deadRead, c.pay) /\ channel' = Append(channel, c.pay)
    /\ UNCHANGED <<attempts, consumers, handledBy, step, fatalSeen, returns>>

HearDead ==
    /\ step = "await dead" /\ channel # <<>>
    /\ channel' = <<>> /\ step' = "close"
    /\ UNCHANGED <<copies, attempts, consumers, deadRead, handledBy, fatalSeen, returns>>

\* The first consumer is closed, once its handler has settled, before the second
\* one starts: two on a queue compete.
Replace ==
    /\ step = "close" /\ \A c \in copies : c.at # "retrying"
    /\ step' = "send fatal" /\ consumers' = {"fatal"}
    /\ UNCHANGED <<copies, attempts, deadRead, channel, handledBy, fatalSeen, returns>>

HearFatal ==
    /\ step = "await fatal" /\ fatalSeen /\ step' = "over"
    /\ UNCHANGED <<copies, attempts, consumers, deadRead, channel, handledBy, fatalSeen, returns>>

Next ==
    \/ Send \/ HearDead \/ Replace \/ HearFatal
    \/ \E c \in copies : Settle(c) \/ ReadDead(c) \/ \E by \in consumers : Take(c, by)

Spec == Init /\ [][Next]_vars
-----------------------------------------------------------------------------
\* No payment vanishes between two attempts or on its way to the dead letters:
\* it is on a queue, with a handler, or was read off the dead letters.
NoPaymentVanishes ==
    \A p \in Pays : p \notin {c.pay : c \in copies} =>
        \/ \E i \in DOMAIN deadRead : deadRead[i] = p
        \/ p = "p-1" /\ step = "send"
        \/ p = "p-2" /\ step \notin {"await fatal", "over"}

\* A payment is tried as often as the policy says and no more, in ascending
\* attempts, unless a delivery came back.
TriedByPolicy ==
    \A p \in Pays :
        /\ \A i \in DOMAIN attempts[p] : attempts[p][i] <= Policy
        /\ returns = 0 => \A i \in DOMAIN attempts[p] : attempts[p][i] = i

\* What the second half shows is the mark and not the competition: the fatal
\* payment is handled by the second consumer alone, and, with nothing returned,
\* leaves it for the dead letters at its first attempt.
TheMarkWins ==
    /\ [pay |-> "p-2", by |-> "retrying"] \notin handledBy
    /\ returns = 0 => \A c \in copies : c.pay = "p-2" => c.attempt = 1

\* The program comes to its end, though the dead letter it hears of first may be
\* one that an earlier run left.
BothHalvesEnd == <>(step = "over")
=============================================================================
