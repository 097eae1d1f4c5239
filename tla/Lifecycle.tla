------------------------------ MODULE Lifecycle ------------------------------
(***************************************************************************)
(* What a system of services promises of each order or application, said   *)
(* without any of the services: a milestone is passed only when those it   *)
(* needs have been, never beside one it excludes, and only by a subject it *)
(* is open to.  Passing it again changes nothing.                          *)
(***************************************************************************)
CONSTANTS Subjects,
          Needs,        \* the milestones that come before each milestone
          Excludes,     \* the milestones each milestone cannot stand beside
          Open          \* the subjects each milestone is open to

VARIABLE passed         \* the milestones each subject has passed

Pass(s, milestone) ==
    /\ s \in Open[milestone]
    /\ Needs[milestone] \subseteq passed[s]
    /\ Excludes[milestone] \cap passed[s] = {}
    /\ passed' = [passed EXCEPT ![s] = @ \cup {milestone}]

Init == passed = [s \in Subjects |-> {}]

Next == \E s \in Subjects, milestone \in DOMAIN Needs : Pass(s, milestone)

Spec == Init /\ [][Next]_passed
=============================================================================
