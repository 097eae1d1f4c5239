----------------------------- MODULE KeyRotation -----------------------------
(***************************************************************************)
(* advanced/04-encrypting-payloads: every process has a keyring and writes *)
(* with one of its keys.  A rotation gives every ring the new key, then a  *)
(* producer writes with it, and the old one is dropped when nothing of it  *)
(* is left: but nothing stops who does it in another order.  A body that   *)
(* was altered, or names a key its reader does not hold, is parked.        *)
(***************************************************************************)
EXTENDS Naturals

CONSTANTS Processes,    \* each produces and consumes
          Keys,
          MaxBodies,    \* bound
          MaxAltered    \* bound: bodies somebody alters on the way

VARIABLES ring,         \* process -> keys on its ring
          writesWith,   \* process -> the key of its new messages
          bodies,       \* ciphertexts on the queue: [no, key, intact]
          opened,       \* bodies a handler saw, with the process that opened them
          parkedBodies,
          hasty,        \* history: keys used or dropped out of that order
          written, altered

vars == <<ring, writesWith, bodies, opened, parkedBodies, hasty, written, altered>>

\* Everybody begins with one key, the same.
Init ==
    /\ \E k \in Keys : ring = [p \in Processes |-> {k}] /\ writesWith = [p \in Processes |-> k]
    /\ bodies = {} /\ opened = {} /\ parkedBodies = {} /\ hasty = {}
    /\ written = 0 /\ altered = 0

\* NewKeyring with one key more: a redeployment of one process.
AddKey(p, k) ==
    /\ k \notin ring[p]
    /\ ring' = [ring EXCEPT ![p] = @ \cup {k}]
    /\ UNCHANGED <<writesWith, bodies, opened, parkedBodies, hasty, written, altered>>

HeldByAll(k) == \A p \in Processes : k \in ring[p]

\* The library lets a process use any key of its ring, whoever else holds it.
Use(p, k) ==
    /\ k \in ring[p] /\ k # writesWith[p]
    /\ writesWith' = [writesWith EXCEPT ![p] = k]
    /\ hasty' = IF HeldByAll(k) THEN hasty ELSE hasty \cup {k}
    /\ UNCHANGED <<ring, bodies, opened, parkedBodies, written, altered>>

\* Nobody writes with the key, and nothing written with it is left.
OutOfUse(k) == (\A p \in Processes : writesWith[p] # k) /\ (\A b \in bodies : b.key # k)

\* NewKeyring with one key less, and not the one it writes with.
DropKey(p, k) ==
    /\ k \in ring[p] /\ k # writesWith[p]
    /\ ring' = [ring EXCEPT ![p] = @ \ {k}]
    /\ hasty' = IF OutOfUse(k) THEN hasty ELSE hasty \cup {k}
    /\ UNCHANGED <<writesWith, bodies, opened, parkedBodies, written, altered>>

Seal(p) ==
    /\ written < MaxBodies
    /\ written' = written + 1
    /\ bodies' = bodies \cup {[no |-> written', key |-> writesWith[p], intact |-> TRUE]}
    /\ UNCHANGED <<ring, writesWith, opened, parkedBodies, hasty, altered>>

\* A copy of a body, opened or not, with one byte changed: of the cipher, or of the
\* key's name, which is authenticated with it.
Alter(b, k) ==
    /\ b.intact /\ altered < MaxAltered /\ written < MaxBodies
    /\ altered' = altered + 1 /\ written' = written + 1
    /\ bodies' = bodies \cup {[no |-> written', key |-> k, intact |-> FALSE]}
    /\ UNCHANGED <<ring, writesWith, opened, parkedBodies, hasty>>

\* Mutant: what does not authenticate is decrypted into something.
DecodesWithKey(p, b) == b.key \in ring[p]

Decodes(p, b) == b.key \in ring[p] /\ b.intact

Open(p, b) ==
    /\ b \in bodies /\ Decodes(p, b)
    /\ bodies' = bodies \ {b}
    /\ opened' = opened \cup {b}
    /\ UNCHANGED <<ring, writesWith, parkedBodies, hasty, written, altered>>

\* A missing key is as fatal as a body that does not decrypt.
ParkBody(p, b) ==
    /\ b \in bodies /\ ~Decodes(p, b)
    /\ bodies' = bodies \ {b}
    /\ parkedBodies' = parkedBodies \cup {b}
    /\ UNCHANGED <<ring, writesWith, opened, hasty, written, altered>>

Consume == \E p \in Processes, b \in bodies : Open(p, b) \/ ParkBody(p, b)

Next ==
    \/ \E p \in Processes, k \in Keys : AddKey(p, k) \/ Use(p, k) \/ DropKey(p, k)
    \/ \E p \in Processes : Seal(p)
    \/ \E b \in bodies \cup opened, k \in Keys : Alter(b, k)
    \/ Consume

Spec == Init /\ [][Next]_vars
-----------------------------------------------------------------------------
\* A rotation without an outage: a key that was on every ring when it came into
\* use, and was dropped from a ring only out of use, never costs a message that
\* was left alone, whoever reads it and in whatever order the processes were
\* redeployed.
NobodyIsShutOut == \A b \in parkedBodies : b.intact => b.key \in hasty

\* An altered body reaches no handler.
AlteredIsNotOpened == \A b \in opened : b.intact

\* Nothing comes round for ever: a body is opened or parked in the end.
EveryBodyIsDone == bodies # {} ~> bodies = {}
=============================================================================
