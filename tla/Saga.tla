--------------------------------- MODULE Saga ---------------------------------
(***************************************************************************)
(* intermediate/04-saga: an order that spans three services.  Each step is *)
(* an announcement and, for all but the last, the opposite announcement.   *)
(* When a step fails those before it are undone, newest first; an undo     *)
(* that fails is reported, not returned as an error, and does not stop the *)
(* others.                                                                 *)
(*                                                                         *)
(* A step is a publish: it may be refused, and it may arrive and report an *)
(* error all the same.  The saga keeps no record outside its process.      *)
(***************************************************************************)
EXTENDS Naturals

CONSTANT Length         \* steps of the saga; all but the last have an Undo

VARIABLES at,           \* the step being done or undone
          mode,         \* forward, back, returned, or dead with its process
          failedAt,     \* the step that failed, 0 when none did
          unresolved,   \* steps whose compensation failed, as Run reports them
          world,        \* what the other services made of each step
          hidden        \* history: steps done although they reported an error

vars == <<at, mode, failedAt, unresolved, world, hidden>>

Steps == 1..Length

Init ==
    /\ at = 1 /\ mode = "forward" /\ failedAt = 0
    /\ unresolved = {} /\ hidden = {}
    /\ world = [s \in Steps |-> "untouched"]

Do ==
    /\ mode = "forward" /\ at \in Steps
    /\ world' = [world EXCEPT ![at] = "done"]
    /\ at' = at + 1
    /\ UNCHANGED <<mode, failedAt, unresolved, hidden>>

\* Refused, or arrived with its confirm lost: Run cannot tell, and does not undo
\* a step that did not succeed.
DoFailed ==
    /\ mode = "forward" /\ at \in Steps
    /\ \/ UNCHANGED <<world, hidden>>
       \/ world' = [world EXCEPT ![at] = "done"] /\ hidden' = hidden \cup {at}
    /\ failedAt' = at
    /\ mode' = "back" /\ at' = at - 1
    /\ UNCHANGED unresolved

\* Mutant: the steps are undone in the order they were done.
UndoOldestFirst ==
    /\ mode = "back"
    /\ LET rest == {s \in Steps : s < failedAt /\ world[s] = "done" /\ s \notin unresolved} IN
       IF rest = {} THEN at' = 0 /\ UNCHANGED world
                    ELSE LET s == CHOOSE x \in rest : \A y \in rest : x <= y IN
                         world' = [world EXCEPT ![s] = "undone"] /\ UNCHANGED at
    /\ UNCHANGED <<mode, failedAt, unresolved, hidden>>

Undo ==
    /\ mode = "back" /\ at \in Steps
    /\ world' = [world EXCEPT ![at] = "undone"]
    /\ at' = at - 1
    /\ UNCHANGED <<mode, failedAt, unresolved, hidden>>

UndoFailed ==
    /\ mode = "back" /\ at \in Steps
    /\ \/ UNCHANGED world
       \/ world' = [world EXCEPT ![at] = "undone"]
    /\ unresolved' = unresolved \cup {at}
    /\ at' = at - 1
    /\ UNCHANGED <<mode, failedAt, hidden>>

Return ==
    /\ mode \in {"forward", "back"} /\ at \notin Steps
    /\ mode' = "returned"
    /\ UNCHANGED <<at, failedAt, unresolved, world, hidden>>

Die ==
    /\ mode \in {"forward", "back"}
    /\ mode' = "dead"
    /\ UNCHANGED <<at, failedAt, unresolved, world, hidden>>

Run == Do \/ DoFailed \/ Undo \/ UndoFailed \/ Return

Next == Run \/ Die

Spec == Init /\ [][Next]_vars
-----------------------------------------------------------------------------
\* Whatever a saga that failed leaves standing is on its list of unresolved
\* steps, or is the step that hid its success; one that completed left nothing
\* out.
NothingLeftSilently ==
    mode = "returned" =>
        IF failedAt = 0
          THEN \A s \in Steps : world[s] = "done"
          ELSE \A s \in Steps : world[s] = "done" => s \in unresolved \cup hidden

\* Nothing is undone while a later step that rests on it still stands, unless
\* that one is beyond undoing.
UndoneBackwards ==
    \A s, t \in Steps :
        s < t /\ world[s] = "undone" /\ world[t] = "done" => t \in unresolved \cup hidden

\* A person is sent to a step only if its compensation was tried.
UnresolvedWasTried ==
    \A s \in unresolved : s < failedAt /\ at < s /\ world[s] # "untouched"

\* Run returns, in a process that lives.
SagaReturns == <>(mode \in {"returned", "dead"})
=============================================================================
