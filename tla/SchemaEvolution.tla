--------------------------- MODULE SchemaEvolution ---------------------------
(***************************************************************************)
(* intermediate/10-schema-evolution: services on two versions of a schema, *)
(* upgraded in any order while messages are under way.  A message carries  *)
(* the identifier of the schema it was written with; the registry turns it *)
(* back into the schema, and the reader resolves it onto its own.          *)
(***************************************************************************)
EXTENDS Naturals, SequencesExt

CONSTANTS Services,
          MaxSent       \* bound

VARIABLES registry,     \* schemas in the order they were registered: the
                        \* position is the identifier
          deployed,     \* service -> the schema its code was written against
          inFlight,     \* messages: [id, fields] of some service
          decoded,      \* what readers made of them: [as, onto, fields, got]
          sentCount

vars == <<registry, deployed, inFlight, decoded, sentCount>>

Undeployed == "none"
Versions == {"v1", "v2", "v2NoDefault"}

\* What each version's code puts into a message, and fills in when it reads.
FieldsOf(v) == IF v = "v1" THEN {"order_id", "total"} ELSE {"order_id", "total", "currency"}

DefaultsOf(v) == IF v = "v2" THEN {"currency"} ELSE {}

Init ==
    /\ registry = <<>>
    /\ deployed = [s \in Services |-> Undeployed]
    /\ inFlight = {} /\ decoded = {} /\ sentCount = 0

\* The same bytes are the same schema.
Register(v) == registry' = IF Contains(registry, v) THEN registry ELSE Append(registry, v)

IdOf(v) == CHOOSE i \in DOMAIN registry : registry[i] = v

\* A service starts for the first time, again, or on the next version.
Start(s, v) ==
    /\ v \in {"v1", "v2"}
    /\ deployed[s] = "v2" => v = "v2"
    /\ Register(v)
    /\ deployed' = [deployed EXCEPT ![s] = v]
    /\ UNCHANGED <<inFlight, decoded, sentCount>>

Encode(s) ==
    /\ deployed[s] # Undeployed /\ sentCount < MaxSent
    /\ sentCount' = sentCount + 1
    /\ inFlight' = inFlight \cup {[id |-> IdOf(deployed[s]), fields |-> FieldsOf(deployed[s])]}
    /\ UNCHANGED <<registry, deployed, decoded>>

\* Field by field: what was written, the reader's default, or Go's zero value in
\* a struct whose schema nobody resolves onto; a field with none is a refusal.
Resolve(v, writer, onto) ==
    [f \in FieldsOf(v) |->
        IF f \in FieldsOf(writer) THEN "written"
        ELSE IF ~onto THEN "zero"
        ELSE IF f \in DefaultsOf(v) THEN "default"
        ELSE "refused"]

Read(v, m, onto) ==
    decoded' = decoded \cup {[as |-> v, onto |-> onto, fields |-> m.fields,
                              got |-> Resolve(v, registry[m.id], onto)]}

\* The queues hold a message for each service, which may read it again.
Decode(s, m) ==
    /\ deployed[s] # Undeployed
    /\ Read(deployed[s], m, TRUE)
    /\ UNCHANGED <<registry, deployed, inFlight, sentCount>>

\* The two ways to get it wrong: no reader schema, and a field without default.
DecodeWrongly(m, v) ==
    /\ v # "v1" /\ registry[m.id] = "v1"
    /\ Register(v)
    /\ Read(v, m, v = "v2NoDefault")
    /\ UNCHANGED <<deployed, inFlight, sentCount>>

Next ==
    \/ \E s \in Services, v \in Versions : Start(s, v)
    \/ \E s \in Services : Encode(s)
    \/ \E s \in Services, m \in inFlight : Decode(s, m)
    \/ \E m \in inFlight, v \in Versions : DecodeWrongly(m, v)

Spec == Init /\ [][Next]_vars
-----------------------------------------------------------------------------
\* In any order of deployments, a reader gets every field the writer wrote and it
\* knows, the default for one the writer never wrote, and is refused only where
\* there is no default, or handed a zero where it resolves onto nothing.
AnyOrderOfDeployment ==
    \A d \in decoded : \A f \in DOMAIN d.got :
        IF f \in d.fields THEN d.got[f] = "written"
        ELSE d.got[f] = IF ~d.onto THEN "zero"
                        ELSE IF d.as = "v2NoDefault" THEN "refused" ELSE "default"

\* Restarts make no versions, so that the identifiers of what is under way keep
\* their meaning.
VersionsAreSchemas ==
    /\ \A i, j \in DOMAIN registry : i # j => registry[i] # registry[j]
    /\ \A m \in inFlight : FieldsOf(registry[m.id]) = m.fields
=============================================================================
