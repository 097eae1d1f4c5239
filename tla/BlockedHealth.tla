---------------------------- MODULE BlockedHealth ----------------------------
(***************************************************************************)
(* advanced/07-health-when-the-broker-blocks: a program puts its broker    *)
(* into a memory alarm, finds out by publishing, asks for its own health,  *)
(* and clears the alarm before it closes.  A broker in alarm reads nothing *)
(* from a connection that published: a declare, or a close, waits.         *)
(***************************************************************************)
EXTENDS Naturals

CONSTANT MaxAttempts    \* bound: the sends of publishUntilBlocked, 30 in the code

VARIABLES alarm,        \* the node is out of memory
          told,         \* connection.blocked arrived, and no unblocked since
          published,    \* this connection published under the alarm
          at,           \* where run is
          sendAttempts,
          declare,      \* the declare on its own goroutine: "no", "asked", "answered"
          reports,      \* what Health said: [at, up, blocked, asked]
          restores,     \* the deferred restore is registered
          unreported    \* a command took effect and reported an error, the restoring
                        \* one failed, or its effect did not show in time

vars == <<alarm, told, published, at, sendAttempts, declare, reports, restores, unreported>>

Running == {"before", "drop", "publish", "refused", "during", "control", "clear", "wait", "after"}

Init ==
    /\ alarm = FALSE /\ told = FALSE /\ published = FALSE
    /\ at = "before" /\ sendAttempts = 0 /\ declare = "no"
    /\ reports = {} /\ restores = FALSE /\ unreported = FALSE

\* The broker tells a connection that publishes, in its own time.
Tell ==
    /\ alarm /\ published /\ ~told
    /\ told' = TRUE
    /\ UNCHANGED <<alarm, published, at, sendAttempts, declare, reports, restores, unreported>>

Untell ==
    /\ ~alarm /\ told
    /\ told' = FALSE /\ published' = FALSE
    /\ UNCHANGED <<alarm, at, sendAttempts, declare, reports, restores, unreported>>

\* The broker reads this connection.
Reads == ~alarm \/ ~published

\* A connection that knows it is blocked answers from what it knows; another
\* asks the broker, and waits for it.
Health(next) ==
    /\ told \/ Reads
    /\ reports' = reports \cup {[at |-> at, up |-> TRUE, blocked |-> told, asked |-> ~told]}
    /\ at' = next

HealthBefore ==
    /\ at = "before" /\ Health("drop")
    /\ UNCHANGED <<alarm, told, published, sendAttempts, declare, restores, unreported>>

\* The watermark is dropped and the restore deferred.  The command can fail, or
\* take effect and report a failure, and then nothing was deferred.
Drop ==
    /\ at = "drop"
    /\ \/ alarm' = TRUE /\ at' = "publish" /\ restores' = TRUE /\ UNCHANGED unreported
       \/ at' = "close" /\ UNCHANGED <<alarm, restores, unreported>>
       \/ alarm' = TRUE /\ at' = "close" /\ unreported' = TRUE /\ UNCHANGED restores
    /\ UNCHANGED <<told, published, sendAttempts, declare, reports>>

\* One send with its own deadline: confirmed or not, the loop goes round.
PublishUntilBlocked ==
    /\ at = "publish" /\ ~told
    /\ \/ sendAttempts < MaxAttempts /\ published' = TRUE /\ sendAttempts' = sendAttempts + 1 /\ UNCHANGED at
       \/ sendAttempts = MaxAttempts /\ at' = "return" /\ UNCHANGED <<published, sendAttempts>>
    /\ UNCHANGED <<alarm, told, declare, reports, restores, unreported>>

\* The send that is refused at once, with the broker's reason.
Refused ==
    /\ at = "publish" /\ told
    /\ at' = "during"
    /\ UNCHANGED <<alarm, told, published, sendAttempts, declare, reports, restores, unreported>>

HealthDuring ==
    /\ at = "during" /\ Health("control")
    /\ UNCHANGED <<alarm, told, published, sendAttempts, declare, restores, unreported>>

DeclareOnItsOwnGoroutine ==
    /\ at = "control" /\ declare = "no"
    /\ declare' = "asked"
    /\ UNCHANGED <<alarm, told, published, at, sendAttempts, reports, restores, unreported>>

Answer ==
    /\ declare = "asked" /\ Reads
    /\ declare' = "answered"
    /\ UNCHANGED <<alarm, told, published, at, sendAttempts, reports, restores, unreported>>

\* Five seconds without an answer are what the run wants to see.
Control ==
    /\ at = "control" /\ declare # "no"
    /\ at' = IF declare = "asked" THEN "clear" ELSE "return"
    /\ UNCHANGED <<alarm, told, published, sendAttempts, declare, reports, restores, unreported>>

\* The watermark goes back; as with Drop, the command can fail either way.
Clear ==
    /\ at = "clear"
    /\ \/ alarm' = FALSE /\ at' = "wait" /\ UNCHANGED unreported
       \/ at' = "return" /\ UNCHANGED <<alarm, unreported>>
       \/ alarm' = FALSE /\ at' = "return" /\ UNCHANGED unreported
    /\ UNCHANGED <<told, published, sendAttempts, declare, reports, restores>>

\* BlockedReason is empty and the declare has been answered.
Released ==
    /\ at = "wait" /\ ~told /\ declare = "answered"
    /\ at' = "after"
    /\ UNCHANGED <<alarm, told, published, sendAttempts, declare, reports, restores, unreported>>

HealthAfter ==
    /\ at = "after" /\ Health("return")
    /\ UNCHANGED <<alarm, told, published, sendAttempts, declare, restores, unreported>>

\* Any check, deadline or error before that ends the run early.
Fail ==
    /\ at \in Running \ {"before", "drop"}
    /\ at' = "return"
    /\ UNCHANGED <<alarm, told, published, sendAttempts, declare, reports, restores, unreported>>

\* Mutant: the connection's close is deferred last, and so runs first.
ReturnClosingFirst ==
    /\ at = "return"
    /\ at' = "close"
    /\ UNCHANGED <<alarm, told, published, sendAttempts, declare, reports, restores, unreported>>

\* The deferred calls, latest first: the alarm is cleared, unless the command
\* fails, and the connection closed only once it knows it is not blocked.
Return ==
    /\ at = "return"
    /\ IF restores
         THEN \/ alarm' = FALSE /\ at' = "settle" /\ UNCHANGED unreported
              \/ at' = "close" /\ unreported' = TRUE /\ UNCHANGED alarm
         ELSE at' = "close" /\ UNCHANGED <<alarm, unreported>>
    /\ UNCHANGED <<told, published, sendAttempts, declare, reports, restores>>

\* restore waits for that, and not for ever.
Settle ==
    /\ at = "settle" /\ at' = "close"
    /\ \/ ~told /\ UNCHANGED unreported
       \/ told /\ unreported' = TRUE
    /\ UNCHANGED <<alarm, told, published, sendAttempts, declare, reports, restores>>

Close ==
    /\ at = "close" /\ Reads
    /\ at' = "closed"
    /\ UNCHANGED <<alarm, told, published, sendAttempts, declare, reports, restores, unreported>>

\* A signal ends the process where it stands: no deferred call runs, and nobody
\* puts the watermark back.
Kill ==
    /\ at \notin {"closed", "killed"}
    /\ at' = "killed" /\ told' = FALSE /\ published' = FALSE /\ declare' = "no"
    /\ UNCHANGED <<alarm, sendAttempts, reports, restores, unreported>>

Broker == Tell \/ Untell \/ Answer

Program ==
    \/ HealthBefore \/ Drop \/ PublishUntilBlocked \/ Refused \/ HealthDuring
    \/ DeclareOnItsOwnGoroutine \/ Control \/ Clear \/ Released \/ HealthAfter
    \/ Return \/ Settle \/ Close

Next == Broker \/ Program \/ Fail \/ Kill

Spec == Init /\ [][Next]_vars

\* The broker and the program both go on; nobody has to fail or be killed.
GoesOn == Broker \/ Program
-----------------------------------------------------------------------------
\* However run returns, the broker it leaves is not in alarm, unless a command to
\* the node failed: what touches this broker next does not find it blocked.  A
\* run that is killed does not return, and can leave the alarm.
AlarmIsCleared == at \in {"close", "closed"} /\ alarm => unreported

\* A connection is never closed while it believes it is blocked, with the same
\* exception: that close would wait for a broker that reads nothing.
ClosesUnblocked == at = "close" /\ told => unreported

\* A health answer that was given while blocked asked the broker nothing, and one
\* given when it was not did ask: the round trip tells the two apart.
AskedUnlessBlocked ==
    \A r \in reports : /\ r.up
                       /\ r.asked = ~r.blocked
                       /\ r.at = "during" => r.blocked
                       /\ r.at \in {"before", "after"} => ~r.blocked

\* Health is answered in the middle of the alarm, and the declare that waited
\* through it is answered after: a run that is let alone ends.
TheRunEnds == <>(at \in {"closed", "killed"} \/ unreported)
=============================================================================
