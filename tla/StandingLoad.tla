----------------------------- MODULE StandingLoad -----------------------------
(***************************************************************************)
(* advanced/08-a-standing-load-something-else-can-watch: a publisher, a    *)
(* consumer and a sampler share counters and no lock.  The sampler loads   *)
(* the counters one at a time, so a reading is no snapshot; a watcher must *)
(* be able to believe it all the same.                                     *)
(***************************************************************************)
EXTENDS Naturals, Sequences

CONSTANTS MaxOffered,   \* bound: messages offered
          MaxReadings   \* bound: readings before the last

VARIABLES count,        \* the counters
          sending,      \* the publisher's message: "none", "sent", "taken" by the
                        \* broker, "late" if offered after the end; or "ended"
          waiting,      \* messages on the queue
          blocked,      \* BlockedReason is not empty
          ended,        \* a signal came, or the time is up
          loaded,       \* how much of a reading the sampler has loaded
          reading,      \* what it loaded
          printed       \* readings printed, and whether the last is begun and out

vars == <<count, sending, waiting, blocked, ended, loaded, reading, printed>>

Loads == <<"confirmed", "consumed", "offered", "failed", "refused">>
Counters == {Loads[i] : i \in DOMAIN Loads}

Nothing == [c \in Counters |-> 0]

Init ==
    /\ count = Nothing /\ reading = Nothing
    /\ sending = "none" /\ waiting = 0 /\ blocked = FALSE /\ ended = FALSE
    /\ loaded = 0 /\ printed = [lines |-> 0, closing |-> FALSE, last |-> FALSE]

One(c) == count' = [count EXCEPT ![c] = @ + 1]

\* A tick, counted before it is sent.  When the end and a tick are both there,
\* select takes either; what is sent with the end behind it waits for no confirm.
Offer ==
    /\ sending = "none" /\ count["offered"] < MaxOffered /\ ~printed.last
    /\ One("offered") /\ sending' = IF ended THEN "late" ELSE "sent"
    /\ UNCHANGED <<waiting, blocked, ended, loaded, reading, printed>>

\* The broker has the message before anybody is told so, the end come or not.
Take ==
    /\ sending = "sent" /\ ~blocked
    /\ sending' = "taken" /\ waiting' = waiting + 1
    /\ UNCHANGED <<count, blocked, ended, loaded, reading, printed>>

Confirmed == sending = "taken" /\ One("confirmed") /\ sending' = "none"

\* Back-pressure, and not a failure.
Paused == sending \in {"sent", "late"} /\ blocked /\ One("refused") /\ sending' = "none"

\* Nobody waits for the message any longer: if the broker did not have it, it may
\* have it all the same.
GiveUp ==
    /\ sending \in {"sent", "taken", "late"}
    /\ waiting' \in IF sending = "taken" THEN {waiting} ELSE {waiting, waiting + 1}

\* What became of the send: confirmed, declined for back-pressure, overtaken by
\* the end, or failed at its own deadline.
Outcome ==
    /\ \/ (Confirmed \/ Paused) /\ UNCHANGED waiting
       \/ GiveUp /\ ~ended /\ One("failed") /\ sending' = "none"
       \/ GiveUp /\ ended /\ sending' = "ended" /\ UNCHANGED count
    /\ UNCHANGED <<blocked, ended, loaded, reading, printed>>

StopPublishing ==
    /\ sending = "none" /\ ended
    /\ sending' = "ended"
    /\ UNCHANGED <<count, waiting, blocked, ended, loaded, reading, printed>>

Consume ==
    /\ waiting > 0 /\ ~printed.last
    /\ waiting' = waiting - 1 /\ One("consumed")
    /\ UNCHANGED <<sending, blocked, ended, loaded, reading, printed>>

BlockOrUnblock ==
    /\ ~printed.last /\ blocked' = ~blocked
    /\ UNCHANGED <<count, sending, waiting, ended, loaded, reading, printed>>

End ==
    /\ ~ended /\ ended' = TRUE
    /\ UNCHANGED <<count, sending, waiting, blocked, loaded, reading, printed>>

LoadNext ==
    /\ loaded' = loaded + 1
    /\ reading' = [reading EXCEPT ![Loads[loaded + 1]] = count[Loads[loaded + 1]]]
    /\ UNCHANGED <<count, sending, waiting, blocked, ended>>

\* The first load of emit, when the ticker says so.
Tick ==
    /\ loaded = 0 /\ ~printed.last /\ printed.lines < MaxReadings
    /\ LoadNext /\ UNCHANGED printed

\* Mutant: the loop ends with the context, and leaves the last interval out.
ClosingSilently ==
    /\ loaded = 0 /\ ~printed.last /\ ended
    /\ printed' = [printed EXCEPT !.lines = MaxReadings]
    /\ UNCHANGED <<count, sending, waiting, blocked, ended, loaded, reading>>

\* And when the end does; with a tick there as well, select takes either.
Closing ==
    /\ loaded = 0 /\ ~printed.last /\ ended
    /\ LoadNext /\ printed' = [printed EXCEPT !.closing = TRUE]

Load ==
    /\ loaded \in 1 .. Len(Loads) - 1
    /\ LoadNext /\ UNCHANGED printed

PrintLine ==
    /\ loaded = Len(Loads)
    /\ loaded' = 0 /\ reading' = Nothing
    /\ printed' = IF printed.closing THEN [printed EXCEPT !.last = TRUE]
                  ELSE [printed EXCEPT !.lines = @ + 1]
    /\ UNCHANGED <<count, sending, waiting, blocked, ended>>

Sample == Tick \/ Closing \/ Load \/ PrintLine

Next == Offer \/ Take \/ Outcome \/ StopPublishing \/ Consume \/ BlockOrUnblock \/ End \/ Sample

Spec == Init /\ [][Next]_vars

Complete == loaded = Len(Loads)
Settled(c) == c["confirmed"] + c["failed"] + c["refused"]
-----------------------------------------------------------------------------
\* No line confirms more than it offers, though its numbers are of different
\* moments and the publisher goes on in between.
ConfirmedWasOffered == Complete => reading["confirmed"] <= reading["offered"]

\* What was offered has one fate, or is the one message still under way, or the
\* one the end overtook: back-pressure is never a failure as well.
EachOfferHasOneFate ==
    count["offered"] - Settled(count) \in (IF sending = "none" THEN {0} ELSE {0, 1})

\* The last line leaves no interval to guess about: of what it says was offered
\* two messages at most are without a fate, the one the end overtook and one
\* that was settled while the line was being loaded.
LastLineIsComplete ==
    Complete /\ printed.closing => reading["offered"] <= Settled(reading) + 2

\* Once the end came the last line is printed.
LastLineIsPrinted == ended ~> printed.last
=============================================================================
