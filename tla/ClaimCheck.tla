------------------------------ MODULE ClaimCheck ------------------------------
(***************************************************************************)
(* advanced/03-claim-check: a codec that puts a payload at or above a      *)
(* threshold into a store and sends its key.  Reader and writer share a    *)
(* directory and nothing else.  Nothing removes a payload: messages are    *)
(* read again after a lost settlement and replayed from the dead letters.  *)
(***************************************************************************)
EXTENDS Naturals

CONSTANTS Reports,      \* records [id, size]
          Threshold,
          KeySize,      \* bytes of a key
          MaxFaults     \* bound: refused publishes and lost settlements

VARIABLES encodedBody,  \* report -> its body, once the codec has written it
          directory,    \* key -> the report it holds; a key is named by its report
          queueDepth,   \* reports whose message is on the queue
          filedAway,    \* reports whose message was rejected
          readings,     \* [of, got] for every reading
          queueLives,   \* until it is deleted
          mishaps

vars == <<encodedBody, directory, queueDepth, filedAway, readings, queueLives, mishaps>>

Framing == 3
NoBody == [kind |-> "none", bytes |-> 0]

Checks(size) == size >= Threshold

Init ==
    /\ encodedBody = [r \in Reports |-> NoBody]
    /\ directory = {} /\ queueDepth = {} /\ filedAway = {}
    /\ readings = {} /\ queueLives = TRUE /\ mishaps = 0

\* The store has the payload before there is a body that names it.
Encode(r) ==
    /\ encodedBody[r] = NoBody
    /\ encodedBody' = [encodedBody EXCEPT ![r] =
           [kind |-> IF Checks(r.size) THEN "checked" ELSE "inline",
            bytes |-> Framing + IF Checks(r.size) THEN KeySize ELSE r.size]]
    /\ directory' = IF Checks(r.size) THEN directory \cup {r} ELSE directory
    /\ UNCHANGED <<queueDepth, filedAway, readings, queueLives, mishaps>>

\* A publish that is refused leaves its payload behind.
Offload(r) ==
    /\ encodedBody[r] # NoBody /\ r \notin queueDepth \cup filedAway
    /\ \A x \in readings : x.of # r
    /\ queueLives
    /\ queueDepth' = queueDepth \cup {r}
    /\ UNCHANGED <<encodedBody, directory, filedAway, readings, queueLives, mishaps>>

\* The reader's store is another object over the same directory.
StoreSeen == directory

\* A body is itself, or what its key redeems, or a clear failure.
Decoded(r) ==
    IF encodedBody[r].kind = "inline" THEN "document"
    ELSE IF r \in StoreSeen THEN "document" ELSE "not in the store"

\* Read and settled, or read and handed out again; what does not decode, or is
\* rejected, goes to the dead letters.
Redeem(r, rejected) ==
    /\ queueLives /\ r \in queueDepth
    /\ readings' = readings \cup {[of |-> r, got |-> Decoded(r)]}
    /\ \/ /\ queueDepth' = queueDepth \ {r}
          /\ filedAway' = IF rejected THEN filedAway \cup {r} ELSE filedAway
          /\ UNCHANGED mishaps
       \/ mishaps < MaxFaults /\ mishaps' = mishaps + 1 /\ UNCHANGED <<queueDepth, filedAway>>
    /\ UNCHANGED <<encodedBody, directory, queueLives>>

\* The operator's replay by hand.
ReplayFiled(r) ==
    /\ queueLives /\ r \in filedAway
    /\ filedAway' = filedAway \ {r} /\ queueDepth' = queueDepth \cup {r}
    /\ UNCHANGED <<encodedBody, directory, readings, queueLives, mishaps>>

\* The end of the program: the queues go, the payloads do not.
DeleteQueues ==
    /\ queueLives
    /\ queueLives' = FALSE /\ queueDepth' = {} /\ filedAway' = {}
    /\ UNCHANGED <<encodedBody, directory, readings, mishaps>>

Next ==
    \/ \E r \in Reports : Encode(r) \/ Offload(r) \/ ReplayFiled(r)
    \/ \E r \in Reports, rejected \in BOOLEAN : Redeem(r, rejected)
    \/ DeleteQueues

Spec == Init /\ [][Next]_vars
-----------------------------------------------------------------------------
\* Every reading gives the document: the second consumer's, the redelivery's, the
\* replay's.
AlwaysRedeemable == \A x \in readings : x.got = "document"

\* A message that names a key names a payload that is there, wherever the message
\* is, and after the last queue has gone.
KeysPointSomewhere ==
    \A r \in Reports : encodedBody[r].kind = "checked" => r \in directory

\* What goes over the wire is smaller than the threshold and its framing, and
\* what is stored could not have travelled inline.
BoundaryIsChecked ==
    /\ \A r \in queueDepth : encodedBody[r].bytes < Framing + Threshold
    /\ \A r \in directory : r.size >= Threshold
=============================================================================
