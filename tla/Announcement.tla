---------------------------- MODULE Announcement ----------------------------
(***************************************************************************)
(* What the gateway promises the rest of the system: an order is announced *)
(* only once it is placed, every order placed is announced in the end, and *)
(* sometimes again.  Outbox implements it with a table and a relay.        *)
(***************************************************************************)
EXTENDS Naturals

CONSTANT Orders

VARIABLES placed,       \* orders on record
          announced     \* how often each order was announced

vars == <<placed, announced>>

Init == placed = {} /\ announced = [o \in Orders |-> 0]

Place(o) ==
    /\ o \notin placed
    /\ placed' = placed \cup {o}
    /\ UNCHANGED announced

Announce(o) ==
    /\ o \in placed
    /\ announced' = [announced EXCEPT ![o] = @ + 1]
    /\ UNCHANGED placed

Next == \E o \in Orders : Place(o) \/ Announce(o)

\* The safety half of the promise.
Spec == Init /\ [][Next]_vars

\* The first announcement of an order placed is not put off for ever.
FirstAnnouncement(o) == announced[o] = 0 /\ Announce(o)

FairSpec == Spec /\ \A o \in Orders : WF_vars(FirstAnnouncement(o))
=============================================================================
