------------------------------- MODULE Streams -------------------------------
(***************************************************************************)
(* basic/06-streams: a log that is not emptied by being read.  A           *)
(* projection stops half way and another carries on from its checkpoint; a *)
(* reader whose handler asks for a retry has a copy parked; an auditor     *)
(* reads everything again.  Retention drops the oldest.  That a reader is  *)
(* given an entry again after its connection dropped is Ledger's.          *)
(***************************************************************************)
EXTENDS Naturals, Sequences, SequencesExt

CONSTANTS Written,      \* messages the program writes, offsets 0, 1, ...
          Half,         \* the projection stops after so many
          Refused,      \* the offset whose handler asks for a retry
          MaxDropped    \* bound: messages retention drops

VARIABLES log,          \* payloads: the offset of a message is its place less one
          firstKept,    \* offset of the oldest message retention has left
          position,     \* reader -> the next offset it is given
          kept,         \* reader -> what it read
          checkpoint,   \* the offset of the last message the projection handled
          stopping,     \* the projection has stopped to advance
          readerStage,  \* reader -> "idle", "reading", "closed"
          parkedCopies, \* offsets of which a copy is parked
          skipped       \* offsets retention took before their reader came

vars == <<log, firstKept, position, kept, checkpoint, stopping, readerStage, parkedCopies, skipped>>

Readers == {"projection", "resumed", "retrier", "auditor"}
Before(r) == IF r = "auditor" THEN "retrier" ELSE IF r = "retrier" THEN "resumed" ELSE "projection"

Init ==
    /\ log = [i \in 1..Written |-> i - 1] /\ firstKept = 0
    /\ position = [r \in Readers |-> 0] /\ kept = [r \in Readers |-> <<>>]
    /\ checkpoint = 0 /\ stopping = FALSE
    /\ readerStage = [r \in Readers |-> "idle"]
    /\ parkedCopies = {} /\ skipped = {}

\* Mutant: the resumed reader starts at the checkpoint itself.
OffsetAtCheckpoint(r) == IF r = "resumed" THEN checkpoint ELSE 0

OffsetOf(r) == IF r = "resumed" THEN checkpoint + 1 ELSE 0

\* One reader after the other.  A reader is given what retention has left.
Start(r) ==
    /\ readerStage[r] = "idle"
    /\ r = "projection" \/ readerStage[Before(r)] = "closed"
    /\ readerStage' = [readerStage EXCEPT ![r] = "reading"]
    /\ LET at == IF OffsetOf(r) < firstKept THEN firstKept ELSE OffsetOf(r)
       IN /\ position' = [position EXCEPT ![r] = at]
          /\ skipped' = skipped \cup (OffsetOf(r) .. at - 1)
    /\ UNCHANGED <<log, firstKept, kept, checkpoint, stopping, parkedCopies>>

Given(r) == /\ readerStage[r] = "reading" /\ position[r] < Len(log)
            /\ position' = [position EXCEPT ![r] = @ + 1]

\* Everything that is delivered is accepted; what arrives after the half is not
\* kept, and the checkpoint stays where the work stopped.
Project ==
    /\ Given("projection")
    /\ IF stopping THEN UNCHANGED <<kept, checkpoint, stopping>>
       ELSE /\ kept' = [kept EXCEPT !["projection"] = Append(@, log[position["projection"] + 1])]
            /\ checkpoint' = position["projection"]
            /\ stopping' = (Len(kept'["projection"]) = Half)
    /\ UNCHANGED <<log, firstKept, readerStage, parkedCopies, skipped>>

ReadOn(r) ==
    /\ Given(r) /\ r \in {"resumed", "auditor"}
    /\ kept' = [kept EXCEPT ![r] = Append(@, log[position[r] + 1])]
    /\ UNCHANGED <<log, firstKept, checkpoint, stopping, readerStage, parkedCopies, skipped>>

\* A retry is refused: a copy is parked, the log is left alone, the reader goes on.
Retry ==
    /\ Given("retrier")
    /\ LET o == position["retrier"]
       IN /\ kept' = [kept EXCEPT !["retrier"] = Append(@, log[o + 1])]
          /\ parkedCopies' = IF o = Refused THEN parkedCopies \cup {o} ELSE parkedCopies
    /\ UNCHANGED <<log, firstKept, checkpoint, stopping, readerStage, skipped>>

Awaited(r) == IF r = "projection" THEN Half ELSE IF r = "resumed" THEN Written - Half ELSE Written

\* until has seen enough.
Close(r) ==
    /\ readerStage[r] = "reading" /\ Len(kept[r]) >= Awaited(r)
    /\ readerStage' = [readerStage EXCEPT ![r] = "closed"]
    /\ UNCHANGED <<log, firstKept, position, kept, checkpoint, stopping, parkedCopies, skipped>>

\* Retention discards the oldest, whoever has read it.
Retain ==
    /\ firstKept < MaxDropped
    /\ firstKept' = firstKept + 1
    /\ position' = [r \in Readers |-> IF readerStage[r] = "reading" /\ position[r] < firstKept'
                                        THEN firstKept' ELSE position[r]]
    /\ skipped' = skipped \cup (IF \E r \in Readers : readerStage[r] = "reading" /\ position[r] < firstKept'
                                  THEN {firstKept} ELSE {})
    /\ UNCHANGED <<log, kept, checkpoint, stopping, readerStage, parkedCopies>>

Work == Project \/ Retry \/ (\E r \in Readers : Start(r) \/ ReadOn(r) \/ Close(r))

Next == Work \/ Retain

Spec == Init /\ [][Next]_vars

Ascending(s) == \A i, j \in DOMAIN s : i < j => s[i] < s[j]
-----------------------------------------------------------------------------
\* What the projection and the one that carried on have handled is everything up
\* to where the latter is, once and in order, but for what retention took first.
NoGapAndNothingTwice ==
    LET both == kept["projection"] \o kept["resumed"]
    IN /\ Ascending(both)
       /\ readerStage["resumed"] # "idle" =>
            0 .. position["resumed"] - 1 \subseteq ToSet(both) \cup skipped

\* The log survives being read, and a refused retry adds nothing to it: a reader
\* from the beginning has every message that retention left it, once.
TheLogIsLeftAlone ==
    /\ Len(log) = Written
    /\ \A r \in {"retrier", "auditor"} :
         /\ Ascending(kept[r])
         /\ readerStage[r] # "idle" => 0 .. position[r] - 1 \subseteq ToSet(kept[r]) \cup skipped

\* The checkpoint is the last message the projection handled, however many were
\* delivered to it after that.
CheckpointIsTheWork ==
    kept["projection"] # <<>> =>
        checkpoint = Last(kept["projection"]) /\ Len(kept["projection"]) <= Half

\* Every reader gets to its end, unless retention was quicker.
EveryReaderEnds == <>((\A r \in Readers : readerStage[r] = "closed") \/ firstKept > 0)
=============================================================================
