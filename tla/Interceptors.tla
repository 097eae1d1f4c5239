----------------------------- MODULE Interceptors -----------------------------
(***************************************************************************)
(* intermediate/06-interceptors: two publish interceptors that run in the  *)
(* order they were added, on whichever goroutine publishes, and a consume  *)
(* interceptor in front of the handler.  The first error stops a publish;  *)
(* a refused delivery is dead-lettered with its reason.                    *)
(***************************************************************************)
EXTENDS Naturals, Sequences

CONSTANTS Messages,     \* records [tenant, payment]: what the callers' contexts
                        \* carry, and whether the payload is a Payment
          Foreign,      \* records [tenant, text]: put on the queue by other
                        \* programs, text when the header is a string or bytes
          Served,       \* tenants this process is deployed for
          NoTenant,
          MaxRepeats    \* bound: deliveries whose settlement is lost

VARIABLES hook,         \* interceptors a publish has been through
          stamp,        \* the tenant header of its envelope
          card,         \* how the card number stands in its payload
          told,         \* what Send returned
          wire,         \* what left this process: [what, tenant, card]
          waiting,      \* deliveries on the queue: [what, tenant]
          handled, dead, \* deliveries the handler had, and dead letters
          repeats

vars == <<hook, stamp, card, told, wire, waiting, handled, dead, repeats>>

\* A header of another type reads as no tenant.
HeaderString(f) == IF f.text THEN f.tenant ELSE NoTenant

Init ==
    /\ hook = [m \in Messages |-> 0]
    /\ stamp = [m \in Messages |-> NoTenant]
    /\ card = [m \in Messages |-> IF m.payment THEN "clear" ELSE "none"]
    /\ told = [m \in Messages |-> "sending"]
    /\ wire = {}
    /\ waiting = {[what |-> f, tenant |-> HeaderString(f)] : f \in Foreign}
    /\ handled = {} /\ dead = <<>> /\ repeats = 0

Chain == <<"tenant", "card">>

Tenant(m) ==
    IF m.tenant = NoTenant
      THEN told' = [told EXCEPT ![m] = "noTenant"] /\ UNCHANGED <<stamp, hook>>
      ELSE /\ stamp' = [stamp EXCEPT ![m] = m.tenant]
           /\ hook' = [hook EXCEPT ![m] = @ + 1] /\ UNCHANGED told

\* A payload that is no Payment passes as it is.
Redact(m) ==
    IF stamp[m] = NoTenant
      THEN told' = [told EXCEPT ![m] = "notFirst"] /\ UNCHANGED <<card, hook>>
      ELSE /\ card' = IF m.payment THEN [card EXCEPT ![m] = "masked"] ELSE card
           /\ hook' = [hook EXCEPT ![m] = @ + 1] /\ UNCHANGED told

Intercept(m) ==
    /\ told[m] = "sending" /\ hook[m] < Len(Chain)
    /\ IF Chain[hook[m] + 1] = "tenant" THEN Tenant(m) /\ UNCHANGED card
                                        ELSE Redact(m) /\ UNCHANGED stamp
    /\ UNCHANGED <<wire, waiting, handled, dead, repeats>>

\* It reaches the queue, whatever the caller is told of it.
Arrive(m) ==
    /\ wire' = wire \cup {[what |-> m, tenant |-> stamp[m], card |-> card[m]]}
    /\ waiting' = waiting \cup {[what |-> m, tenant |-> stamp[m]]}

\* A Send that fails left the message with the broker or did not.
Publish(m) ==
    /\ told[m] = "sending" /\ hook[m] = Len(Chain)
    /\ \/ told' = [told EXCEPT ![m] = "sent"] /\ Arrive(m)
       \/ told' = [told EXCEPT ![m] = "failed"] /\ Arrive(m)
       \/ told' = [told EXCEPT ![m] = "failed"] /\ UNCHANGED <<wire, waiting>>
    /\ UNCHANGED <<hook, stamp, card, handled, dead, repeats>>

\* Settled, or handed out again because the settlement was lost.
SettleOrRepeat(d) ==
    \/ waiting' = waiting \ {d} /\ UNCHANGED repeats
    \/ repeats < MaxRepeats /\ repeats' = repeats + 1 /\ UNCHANGED waiting

Serves(d) == d.tenant \in Served

Handle(d) ==
    /\ d \in waiting /\ Serves(d)
    /\ handled' = handled \cup {d}
    /\ SettleOrRepeat(d)
    /\ UNCHANGED <<hook, stamp, card, told, wire, dead>>

Refuse(d) ==
    /\ d \in waiting /\ ~Serves(d)
    /\ dead' = Append(dead, d)
    /\ SettleOrRepeat(d)
    /\ UNCHANGED <<hook, stamp, card, told, wire, handled>>

Next ==
    \/ \E m \in Messages : Intercept(m) \/ Publish(m)
    \/ \E d \in waiting : Handle(d) \/ Refuse(d)

Spec == Init /\ [][Next]_vars
-----------------------------------------------------------------------------
\* The chain refuses a publish for want of a tenant and for nothing else, and what
\* was refused did not leave.
RefusedForItsTenant ==
    \A m \in Messages :
        /\ told[m] # "sending" => (told[m] = "noTenant" <=> m.tenant = NoTenant)
        /\ told[m] # "notFirst"
        /\ told[m] \in {"sending", "noTenant"} => \A w \in wire : w.what # m

\* Nothing leaves with a card number in clear, or under another tenant's name.
NothingLeavesInClear ==
    \A w \in wire : w.card # "clear" /\ w.tenant = w.what.tenant

\* The handler works for the tenants this process serves, whoever published.
OnlyServedAreHandled == \A d \in handled : d.what.tenant \in Served

\* A delivery is waiting, handled or dead-lettered, and dead-lettered again only
\* if the refusal was not settled.
NobodyIsDropped ==
    /\ \A m \in Messages : told[m] = "sent" =>
           \E d \in waiting \cup handled \cup {dead[i] : i \in DOMAIN dead} : d.what = m
    /\ \A i \in DOMAIN dead : dead[i].tenant \notin Served
    /\ \A i, j \in DOMAIN dead : i < j /\ dead[i] = dead[j] => repeats > 0
=============================================================================
