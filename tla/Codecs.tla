-------------------------------- MODULE Codecs --------------------------------
(***************************************************************************)
(* basic/05-codecs and intermediate/07-binary-codecs: a queue carries      *)
(* several encodings, and a consumer tells them apart by content type.     *)
(* Producers change what they write one at a time and in no agreed order.  *)
(* A message no codec claims is parked, and one a wrong codec claims would *)
(* be nonsense that looks like a success.                                  *)
(***************************************************************************)
EXTENDS Naturals, Sequences, SequencesExt

CONSTANTS Producers,    \* each writes with one codec at a time
          Offered,      \* the order of codecs in the consumer's composite
          Foreign,      \* content types of messages other systems put on the queue
          MaxMessages   \* bound: messages

VARIABLES writes,       \* producer -> the codec it publishes with
          encoded,      \* messages on the queue: [no, with, type]
          decodedAs,    \* [message, by]
          unread,       \* messages parked because no codec reads them
          messages       \* messages so far

vars == <<writes, encoded, decodedAs, unread, messages>>

Codec == {"json", "yaml", "toml", "xml", "avro fixed", "avro registered", "protobuf", "bytes"}
NoType == "none"

\* The content type a codec writes is its own name here; a codec registered with
\* a schema and one with a fixed schema write two of them.
TypeOf(c) == c

\* A codec answers for its own type.  JSON also answers for a message whose
\* sender set none, and bytes for anything.
CanDecode(c, type) ==
    \/ c = "bytes"
    \/ type = TypeOf(c)
    \/ c = "json" /\ type = NoType

\* Where in the composite the codecs are that claim a type.
Claims(type) == {i \in DOMAIN Offered : CanDecode(Offered[i], type)}

Init ==
    /\ writes = [p \in Producers |-> "json"]
    /\ encoded = {} /\ decodedAs = {} /\ unread = {} /\ messages = 0

\* A producer is redeployed with another codec.
Change(p, c) ==
    /\ c \in ToSet(Offered) \ {"bytes"} /\ c # writes[p]
    /\ writes' = [writes EXCEPT ![p] = c]
    /\ UNCHANGED <<encoded, decodedAs, unread, messages>>

Put(with, type) ==
    /\ messages < MaxMessages /\ messages' = messages + 1
    /\ encoded' = encoded \cup {[no |-> messages', with |-> with, type |-> type]}
    /\ UNCHANGED <<writes, decodedAs, unread>>

Send(p) == Put(writes[p], TypeOf(writes[p]))

SendForeign(type) == Put("somebody else's", type)

\* The first codec that claims it reads it.
ReadByType(m) ==
    /\ m \in encoded /\ encoded' = encoded \ {m}
    /\ \E i \in Claims(m.type) :
          /\ \A j \in Claims(m.type) : i <= j
          /\ decodedAs' = decodedAs \cup {[message |-> m, by |-> Offered[i]]}
    /\ UNCHANGED <<writes, unread, messages>>

ParkUnclaimed(m) ==
    /\ m \in encoded /\ Claims(m.type) = {}
    /\ encoded' = encoded \ {m} /\ unread' = unread \cup {m}
    /\ UNCHANGED <<writes, decodedAs, messages>>

Next ==
    \/ \E p \in Producers : Send(p) \/ \E c \in Codec : Change(p, c)
    \/ \E t \in Foreign : SendForeign(t)
    \/ \E m \in encoded : ReadByType(m) \/ ParkUnclaimed(m)

Spec == Init /\ [][Next]_vars
-----------------------------------------------------------------------------
\* However a migration goes, a message of this system is read by the codec that
\* wrote it, whatever was decided about its producer since, and never parked.
ReadAsWritten ==
    /\ \A d \in decodedAs : d.message.with \in Codec => d.by = d.message.with
    /\ \A m \in unread : m.with \notin Codec

\* A message somebody else put there is read by the codec its type names, as JSON
\* when it names none, or by nobody: there is no third guess.
NobodyGuesses ==
    \A d \in decodedAs : d.message.type \in {d.by, NoType} /\ (d.message.type = NoType => d.by = "json")
=============================================================================
