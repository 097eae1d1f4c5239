--------------------- MODULE PolicyAdministration_proof ---------------------
(***************************************************************************)
(* Theorems about module PolicyAdministration: the types, what the audit   *)
(* trail says, the bounds on policies, charges and outcomes, what a claim  *)
(* is decided on, and the refinement of Lifecycle.                         *)
(*                                                                         *)
(* Queues and the audit trail are bags.  What a handler does to them is    *)
(* said once, by Turn and Record, in tallies: how many messages of a set a *)
(* bag holds.  Inv is inductive: MessageInv says what every message relies *)
(* on, RepeatInv that the places where an application may still become a   *)
(* policy move along and are not multiplied but by faults, ChargeInv that  *)
(* the claim on a policy stands for its charge.                            *)
(***************************************************************************)
EXTENDS PolicyAdministration, Sums

\* A finite bag.
IsBag(B) == B \in [DOMAIN B -> Nat \ {0}] /\ IsFiniteSet(DOMAIN B)

\* How many of the messages of a bag are in a set.
Tally(B, K) == SumFunctionOnSet(B, DOMAIN B \cap K)

\* One message more.
LEMMA PutOne ==
    ASSUME NEW B, IsBag(B), NEW m
    PROVE  /\ IsBag(B (+) One(m)) /\ DOMAIN (B (+) One(m)) = DOMAIN B \cup {m}
           /\ \A K : Tally(B (+) One(m), K) = Tally(B, K) + IF m \in K THEN 1 ELSE 0
<1> DEFINE C == B (+) One(m)
<1>1. /\ DOMAIN C = DOMAIN B \cup {m}
      /\ C = [e \in DOMAIN B \cup {m} |-> (IF e \in DOMAIN B THEN B[e] ELSE 0)
                                          + (IF e = m THEN 1 ELSE 0)]
  BY DEF One, SetToBag, (+)
<1>2. IsBag(C)
  <2>1. IsFiniteSet(DOMAIN B \cup {m}) BY FS_AddElement DEF IsBag
  <2>2. QED BY <1>1, <2>1 DEF IsBag
<1> HIDE DEF C
<1>3. ASSUME NEW K PROVE Tally(C, K) = Tally(B, K) + IF m \in K THEN 1 ELSE 0
  <2> DEFINE S == DOMAIN B \cap K
             T == DOMAIN C \cap K
  <2>1. IsFiniteSet(S) /\ IsFiniteSet(T)
    BY <1>2, FS_Subset DEF IsBag
  <2>2. \A e \in S \ {m} : C[e] = B[e] /\ B[e] \in Int
    BY <1>1 DEF IsBag
  <2>3. CASE m \in S
    <3>1. T = S BY <1>1, <2>3
    <3>2. \A e \in S : B[e] \in Int /\ C[e] \in Int BY <1>1 DEF IsBag
    <3>3. C[m] = B[m] + 1 BY <1>1, <2>3 DEF IsBag
    <3> HIDE DEF S, T
    <3>4. SumFunctionOnSet(C, S) = SumFunctionOnSet(B, S) + (C[m] - B[m])
      BY <2>1, <2>2, <2>3, <3>2, SumMoved
    <3>5. SumFunctionOnSet(B, S) \in Int BY <2>1, <3>2, SumType
    <3>6. B[m] \in Int BY <2>3, <3>2
    <3>7. SumFunctionOnSet(C, T) = SumFunctionOnSet(B, S) + 1
      BY <3>1, <3>3, <3>4, <3>5, <3>6
    <3>8. m \in K BY <2>3 DEF S
    <3>9. QED BY <3>7, <3>8 DEF Tally, S, T
  <2>4. CASE m \notin S
    <3>1. \A e \in S : C[e] = B[e] /\ B[e] \in Int BY <1>1, <2>4 DEF IsBag
    <3>2. SumFunctionOnSet(C, S) = SumFunctionOnSet(B, S) /\ SumFunctionOnSet(B, S) \in Int
      <4> HIDE DEF S
      <4>1. QED BY <2>1, <3>1, SumSame, SumType
    <3>3. CASE m \notin K
      <4>1. T = S BY <1>1, <3>3
      <4> HIDE DEF S, T
      <4>2. SumFunctionOnSet(C, T) = SumFunctionOnSet(B, S) + 0 BY <3>2, <4>1
      <4>3. QED BY <3>3, <4>2 DEF Tally, S, T
    <3>4. CASE m \in K
      <4>1. T \ {m} = S /\ m \in T BY <1>1, <2>4, <3>4
      <4>2. \A e \in T : C[e] \in Int BY <1>1 DEF IsBag
      <4>3. C[m] = 1 BY <1>1, <2>4, <3>4
      <4> HIDE DEF S, T
      <4>4. SumFunctionOnSet(C, T) = 1 + SumFunctionOnSet(C, S)
        BY <2>1, <4>1, <4>2, <4>3, SumWithout
      <4>5. SumFunctionOnSet(C, T) = SumFunctionOnSet(B, S) + 1
        BY <3>2, <4>4
      <4>6. QED BY <3>4, <4>5 DEF Tally, S, T
    <3>5. QED BY <3>3, <3>4
  <2>5. QED BY <2>3, <2>4
<1>4. QED BY <1>1, <1>2, <1>3 DEF C

\* A tally is a number, and it is positive when the bag has a message of the set.
LEMMA TallyType ==
    ASSUME NEW B, IsBag(B)
    PROVE  \A K : /\ Tally(B, K) \in Nat
                  /\ Tally(B, K) > 0 <=> DOMAIN B \cap K # {}
<1> SUFFICES ASSUME NEW K
             PROVE  Tally(B, K) \in Nat /\ (Tally(B, K) > 0 <=> DOMAIN B \cap K # {})
  OBVIOUS
<1> DEFINE S == DOMAIN B \cap K
<1>1. IsFiniteSet(S) /\ \A e \in S : B[e] \in Nat /\ B[e] > 0
  BY FS_Subset DEF IsBag
<1> HIDE DEF S
<1>2. /\ SumFunctionOnSet(B, S) \in Nat
      /\ \A e \in S : B[e] <= SumFunctionOnSet(B, S)
  BY <1>1, SumNat
<1>3. S = {} => SumFunctionOnSet(B, S) = 0
  BY SumEmpty
<1>4. S # {} => SumFunctionOnSet(B, S) > 0
  <2> SUFFICES ASSUME NEW e \in S PROVE SumFunctionOnSet(B, S) > 0
    OBVIOUS
  <2>1. B[e] > 0 /\ B[e] \in Nat /\ B[e] <= SumFunctionOnSet(B, S) BY <1>1, <1>2
  <2>2. QED BY <1>2, <2>1
<1>5. QED BY <1>2, <1>3, <1>4 DEF Tally, S

\* One message less.
LEMMA TakeOne ==
    ASSUME NEW B, IsBag(B), NEW m \in DOMAIN B
    PROVE  /\ IsBag(B (-) One(m)) /\ DOMAIN (B (-) One(m)) \subseteq DOMAIN B
           /\ \A K : Tally(B (-) One(m), K) = Tally(B, K) - IF m \in K THEN 1 ELSE 0
<1> DEFINE C == B (-) One(m)
<1>1. C = [e \in {d \in DOMAIN B : (IF d = m THEN B[d] - 1 ELSE B[d]) > 0} |->
              IF e = m THEN B[e] - 1 ELSE B[e]]
  BY DEF One, SetToBag, (-)
<1>2. DOMAIN C \subseteq DOMAIN B /\ \A e \in DOMAIN B \ {m} : e \in DOMAIN C /\ C[e] = B[e]
  BY <1>1 DEF IsBag
<1>3. IsBag(C)
  <2>1. IsFiniteSet(DOMAIN C) BY <1>2, FS_Subset DEF IsBag
  <2>2. C \in [DOMAIN C -> Nat \ {0}] BY <1>1 DEF IsBag
  <2>3. QED BY <2>1, <2>2 DEF IsBag
<1>4. m \in DOMAIN C => C[m] = B[m] - 1
  BY <1>1
<1>5. m \notin DOMAIN C => B[m] = 1
  BY <1>1 DEF IsBag
<1> HIDE DEF C
<1>6. ASSUME NEW K PROVE Tally(C, K) = Tally(B, K) - IF m \in K THEN 1 ELSE 0
  <2> DEFINE S == DOMAIN B \cap K
             R == S \ {m}
  <2>1. IsFiniteSet(S) /\ IsFiniteSet(R) /\ IsFiniteSet(DOMAIN C \cap K)
    BY <1>3, FS_Subset DEF IsBag
  <2>2. SumFunctionOnSet(C, R) = SumFunctionOnSet(B, R) /\ SumFunctionOnSet(B, R) \in Int
    <3>1. \A e \in R : C[e] = B[e] /\ B[e] \in Int BY <1>2 DEF IsBag
    <3> HIDE DEF R
    <3>2. QED BY <2>1, <3>1, SumSame, SumType
  <2>3. Tally(B, K) = SumFunctionOnSet(B, R) + IF m \in K THEN B[m] ELSE 0
    <3>1. \A e \in S : B[e] \in Int BY DEF IsBag
    <3>2. CASE m \in K
      <4>1. m \in S BY <3>2
      <4> HIDE DEF S
      <4>2. SumFunctionOnSet(B, S) = B[m] + SumFunctionOnSet(B, R)
        BY <2>1, <3>1, <4>1, SumWithout
      <4>3. B[m] \in Int BY <3>1, <4>1
      <4>4. QED BY <2>2, <3>2, <4>2, <4>3 DEF Tally, S
    <3>3. CASE m \notin K
      <4>1. R = S BY <3>3
      <4>2. QED BY <2>2, <3>3, <4>1 DEF Tally
    <3>4. QED BY <3>2, <3>3
  <2>4. Tally(C, K) = SumFunctionOnSet(C, R) + IF m \in K THEN B[m] - 1 ELSE 0
    <3> DEFINE T == DOMAIN C \cap K
    <3>1. \A e \in T : C[e] \in Int BY <1>3 DEF IsBag
    <3>2. CASE m \in T
      <4>1. T \ {m} = R BY <1>2
      <4>2. IsFiniteSet(T) BY <2>1
      <4>3. m \in K /\ C[m] = B[m] - 1 BY <1>4, <3>2
      <4> HIDE DEF T, R
      <4>4. SumFunctionOnSet(C, T) = C[m] + SumFunctionOnSet(C, R)
        BY <3>1, <3>2, <4>1, <4>2, SumWithout
      <4>5. C[m] \in Int BY <3>1, <3>2
      <4>6. QED BY <2>2, <4>3, <4>4, <4>5 DEF Tally, T
    <3>3. CASE m \notin T
      <4>1. T = R BY <1>2, <3>3
      <4>2. m \in K => B[m] = 1 BY <1>5, <3>3
      <4> HIDE DEF R, T
      <4>3. SumFunctionOnSet(C, T) = SumFunctionOnSet(C, R) + 0 BY <2>2, <4>1
      <4>4. QED BY <4>2, <4>3 DEF Tally, T
    <3>4. QED BY <3>2, <3>3
  <2>5. B[m] \in Int BY DEF IsBag
  <2> HIDE DEF R
  <2>6. QED BY <2>2, <2>3, <2>4, <2>5
<1>7. QED BY <1>2, <1>3, <1>6 DEF C
-----------------------------------------------------------------------------
Kinds == {"submitted", "accepted", "declined", "issued", "charged", "settled",
          "rejected", "stored"}

Premiums == {0} \cup {Premium(a) : a \in Applications}

\* Every message there can be.
Messages ==
    [event : Kinds,
     app : Applications \cup Losses \cup Documents,
     pol : SUBSET (PolicyIds \cup {PolicyOfLoss[i] : i \in Losses}),
     premium : Premiums,
     attempt : 1 .. MaxAttempts]

Bags == {B \in UNION {[S -> Nat \ {0}] : S \in SUBSET Messages} : IsFiniteSet(DOMAIN B)}

\* A set that does not tell the attempts of a message apart.
Blind(K) == \A m \in Messages, k \in 1 .. MaxAttempts :
               m \in K <=> [m EXCEPT !.attempt = k] \in K

LEMMA BagsAre == \A B : B \in Bags <=> IsBag(B) /\ DOMAIN B \subseteq Messages
  BY DEF Bags, IsBag

\* The queues of R have one message more,
Gains(P, Q, R, m) ==
    /\ P \in [Queues -> Bags]
    /\ \A r \in Queues : DOMAIN P[r] = DOMAIN Q[r] \cup (IF r \in R THEN {m} ELSE {})
    /\ \A r \in Queues : \A K : Tally(P[r], K)
                                  = Tally(Q[r], K) + IF r \in R /\ m \in K THEN 1 ELSE 0

\* or one of them has one less.
Loses(P, Q, q, m) ==
    /\ P \in [Queues -> Bags]
    /\ \A r \in Queues : /\ DOMAIN P[r] \subseteq DOMAIN Q[r]
                         /\ r # q => DOMAIN P[r] = DOMAIN Q[r]
    /\ \A r \in Queues : \A K : Tally(P[r], K)
                                  = Tally(Q[r], K) - IF r = q /\ m \in K THEN 1 ELSE 0

\* A function that adds a message to the bags of some queues.
LEMMA AddedIs ==
    ASSUME NEW Q \in [Queues -> Bags], NEW R, NEW m \in Messages, NEW P,
           P = [r \in Queues |-> IF r \in R THEN Q[r] (+) One(m) ELSE Q[r]]
    PROVE  Gains(P, Q, R, m)
<1>1. ASSUME NEW r \in Queues
      PROVE  /\ P[r] \in Bags
             /\ DOMAIN P[r] = DOMAIN Q[r] \cup (IF r \in R THEN {m} ELSE {})
             /\ \A K : Tally(P[r], K) = Tally(Q[r], K) + IF r \in R /\ m \in K THEN 1 ELSE 0
  <2>1. IsBag(Q[r]) /\ DOMAIN Q[r] \subseteq Messages BY BagsAre
  <2>2. CASE r \in R
    <3>1. P[r] = Q[r] (+) One(m) BY <2>2
    <3>2. /\ IsBag(Q[r] (+) One(m)) /\ DOMAIN (Q[r] (+) One(m)) = DOMAIN Q[r] \cup {m}
          /\ \A K : Tally(Q[r] (+) One(m), K) = Tally(Q[r], K) + IF m \in K THEN 1 ELSE 0
      BY <2>1, PutOne
    <3>3. P[r] \in Bags BY <2>1, <3>1, <3>2, BagsAre
    <3>4. QED BY <2>2, <3>1, <3>2, <3>3
  <2>3. CASE r \notin R
    <3>1. P[r] = Q[r] BY <2>3
    <3>2. \A K : Tally(Q[r], K) \in Nat BY <2>1, TallyType
    <3>3. QED BY <2>3, <3>1, <3>2
  <2>4. QED BY <2>2, <2>3
<1>2. P \in [Queues -> Bags] BY <1>1
<1>3. QED BY <1>1, <1>2 DEF Gains

LEMMA WithDoes ==
    ASSUME NEW Q \in [Queues -> Bags], NEW q \in Queues, NEW m \in Messages
    PROVE  Gains(With(Q, q, m), Q, {q}, m)
<1>1. With(Q, q, m) = [r \in Queues |-> IF r \in {q} THEN Q[r] (+) One(m) ELSE Q[r]]
  BY DEF With
<1>2. QED BY <1>1, AddedIs

\* The queues that an event is bound to.
BoundQueues(e) == {r \in Queues : <<r, e.event>> \in Bindings}

LEMMA RoutedDoes ==
    ASSUME NEW Q \in [Queues -> Bags], NEW e \in Messages
    PROVE  Gains(Routed(Q, e), Q, BoundQueues(e), e)
<1>1. Routed(Q, e) = [r \in Queues |-> IF r \in BoundQueues(e) THEN Q[r] (+) One(e) ELSE Q[r]]
  BY DEF Routed, BoundQueues
<1>2. QED BY <1>1, AddedIs

LEMMA WithoutDoes ==
    ASSUME NEW Q \in [Queues -> Bags], NEW q \in Queues, NEW m \in DOMAIN Q[q]
    PROVE  Loses(Without(Q, q, m), Q, q, m)
<1> DEFINE P == Without(Q, q, m)
<1>1. \A r \in Queues : IsBag(Q[r]) /\ DOMAIN Q[r] \subseteq Messages
  BY BagsAre
<1>2. P = [Q EXCEPT ![q] = Q[q] (-) One(m)]
  BY DEF Without
<1> HIDE DEF P
<1>3. \A r \in Queues : P[r] = IF r = q THEN Q[q] (-) One(m) ELSE Q[r]
  BY <1>2
<1>4. /\ IsBag(Q[q] (-) One(m)) /\ DOMAIN (Q[q] (-) One(m)) \subseteq DOMAIN Q[q]
      /\ \A K : Tally(Q[q] (-) One(m), K) = Tally(Q[q], K) - IF m \in K THEN 1 ELSE 0
  BY <1>1, TakeOne
<1>5. Q[q] (-) One(m) \in Bags
  BY <1>1, <1>4, BagsAre
<1>6. P \in [Queues -> Bags]
  BY <1>2, <1>5
<1>7. ASSUME NEW r \in Queues
      PROVE  /\ DOMAIN P[r] \subseteq DOMAIN Q[r]
             /\ r # q => DOMAIN P[r] = DOMAIN Q[r]
             /\ \A K : Tally(P[r], K) = Tally(Q[r], K) - IF r = q /\ m \in K THEN 1 ELSE 0
  <2>1. CASE r = q BY <1>3, <1>4, <2>1
  <2>2. CASE r # q
    <3>1. \A K : Tally(Q[r], K) \in Nat BY <1>1, TallyType
    <3>2. QED BY <1>3, <2>2, <3>1
  <2>3. QED BY <2>1, <2>2
<1>8. QED BY <1>6, <1>7 DEF Loses, P

\* The same message on another attempt.
Again(n, m) == \E k \in 1 .. MaxAttempts : n = [m EXCEPT !.attempt = k]

LEMMA AgainIs ==
    ASSUME NEW m \in Messages, NEW n, Again(n, m)
    PROVE  /\ n \in Messages /\ n.event = m.event /\ n.app = m.app /\ n.pol = m.pol
           /\ n.premium = m.premium
  BY DEF Again, Messages

\* One that is not comes back, on another attempt or on the same, or is dead.
LEMMA BackDoes ==
    ASSUME NEW Q \in [Queues -> Bags], NEW q \in Queues, NEW m \in DOMAIN Q[q],
           dead \in Bags, Retry(Q, q, m) \/ Redeliver(Q)
    PROVE  /\ queue' \in [Queues -> Bags] /\ dead' \in Bags
           /\ \A r \in Queues :
                 /\ \A n \in DOMAIN queue'[r] : n \in DOMAIN Q[r] \/ (r = q /\ Again(n, m))
                 /\ r # q => DOMAIN Q[r] \subseteq DOMAIN queue'[r]
                 /\ \A K : Blind(K) => Tally(queue'[r], K) <= Tally(Q[r], K)
<1>0. /\ m \in Messages
      /\ \A r \in Queues : IsBag(Q[r]) /\ \A K : Tally(Q[r], K) \in Nat
  BY BagsAre, TallyType
<1>1. CASE Redeliver(Q)
  BY <1>0, <1>1 DEF Redeliver
<1> DEFINE R == Without(Q, q, m)
           n == [m EXCEPT !.attempt = @ + 1]
<1>2. Loses(R, Q, q, m)
  BY WithoutDoes
<1> HIDE DEF R
<1>3. CASE Retry(Q, q, m) /\ m.attempt < MaxAttempts
  <2>1. m.attempt + 1 \in 1 .. MaxAttempts
    BY <1>0, <1>3, PolicyAssumption DEF Messages
  <2>2. Again(n, m) /\ n \in Messages
    BY <1>0, <2>1 DEF Again, Messages
  <2>3. \A K : Blind(K) => (m \in K <=> n \in K)
    BY <1>0, <2>1 DEF Blind
  <2>4. queue' = With(R, q, n) /\ dead' = dead
    BY <1>3 DEF Retry, R
  <2> HIDE DEF n
  <2>5. R \in [Queues -> Bags] BY <1>2 DEF Loses
  <2>7. Gains(queue', R, {q}, n)
    BY <2>2, <2>4, <2>5, WithDoes
  <2>6. ASSUME NEW r \in Queues, NEW K, Blind(K)
        PROVE  Tally(queue'[r], K) <= Tally(Q[r], K)
    <3>1. Tally(queue'[r], K) = Tally(R[r], K) + IF r = q /\ n \in K THEN 1 ELSE 0
      BY <2>7 DEF Gains
    <3>2. Tally(R[r], K) = Tally(Q[r], K) - IF r = q /\ m \in K THEN 1 ELSE 0
      BY <1>2 DEF Loses
    <3>3. m \in K <=> n \in K BY <2>3, <2>6
    <3>4. Tally(Q[r], K) \in Nat BY <1>0
    <3>5. QED BY <3>1, <3>2, <3>3, <3>4
  <2>8. QED BY <1>2, <2>2, <2>4, <2>7, <2>6 DEF Gains, Loses
<1>4. CASE Retry(Q, q, m) /\ ~(m.attempt < MaxAttempts)
  <2>1. queue' = R /\ dead' = dead (+) One(m)
    BY <1>4 DEF Retry, R
  <2>2. dead' \in Bags
    <3>1. IsBag(dead) /\ DOMAIN dead \subseteq Messages BY BagsAre
    <3>2. IsBag(dead') /\ DOMAIN dead' = DOMAIN dead \cup {m} BY <2>1, <3>1, PutOne
    <3>3. QED BY <1>0, <3>1, <3>2, BagsAre
  <2>3. ASSUME NEW r \in Queues, NEW K
        PROVE  Tally(queue'[r], K) <= Tally(Q[r], K)
    <3>1. Tally(R[r], K) = Tally(Q[r], K) - IF r = q /\ m \in K THEN 1 ELSE 0
      BY <1>2 DEF Loses
    <3>2. Tally(Q[r], K) \in Nat BY <1>0
    <3>3. QED BY <2>1, <3>1, <3>2
  <2>4. QED BY <1>2, <2>1, <2>2, <2>3 DEF Loses
<1>5. QED BY <1>1, <1>3, <1>4
-----------------------------------------------------------------------------
\* The event whose messages each queue holds.
Holding ==
    [underwriting |-> "submitted", register |-> "submitted", price |-> "submitted",
     decide |-> "submitted", policies |-> "accepted", billing |-> "issued",
     claims |-> "issued"]

\* The messages of an event that is about an application; an issued policy is one.
Sort(kind) ==
    {m \in Messages : /\ m.event = kind /\ m.app \in Applications
                      /\ kind = "issued" => \E p \in PolicyIds : m.pol = {p}}

BrokerType ==
    /\ queue \in [Queues -> Bags] /\ audit \in Bags /\ dead \in Bags /\ faults \in Nat
    /\ \A q \in Queues : DOMAIN queue[q] \subseteq Sort(Holding[q])

UnderwritingType == accepted \in Nat /\ declined \in Nat

PoliciesType ==
    /\ applications \subseteq Applications
    /\ policies \subseteq [id : PolicyIds, app : Applications, premium : Premiums]
    /\ IsFiniteSet(policies)
    /\ outbox \subseteq {Event("submitted", a, {}, 0) : a \in Applications} \cup Sort("issued")
    /\ confirmed \subseteq outbox /\ issued \in Nat

BillingType ==
    /\ seen \in [PolicyIds -> {"free", "claimed", "confirmed"}]
    /\ charging \in {{}} \cup {{c} : c \in [msg : Sort("issued"), at : {"charge", "confirm"}]}
    /\ charges \in [PolicyIds -> Nat]
    /\ unconfirmed \in [PolicyIds -> Nat] /\ expired \in [PolicyIds -> Nat]

\* A message that is charged waits in its queue until it is settled.
ChargedWaits == \A c \in charging : c.msg \in DOMAIN queue["billing"]

ClaimsType ==
    /\ phase \in [Losses -> {"new", "asked", "settle", "reject", "failed", "done"}]
    /\ call \in [Losses -> Nat]
    /\ lookups \subseteq Losses \X Nat /\ replies \subseteq Losses \X Nat \X BOOLEAN
    /\ settled \in Nat /\ rejected \in Nat
    /\ covered \subseteq Losses /\ lostConfirms \in Nat

DocumentsType ==
    store \subseteq Documents /\ announcing \subseteq Documents /\ forgotten \subseteq Documents

TypeInv ==
    /\ BrokerType /\ UnderwritingType /\ PoliciesType
    /\ BillingType /\ ChargedWaits /\ ClaimsType /\ DocumentsType

\* The event is in the audit trail.
Told(kind, app) == \E m \in DOMAIN audit : m.event = kind /\ m.app = app

\* The message is about a policy on record, at its premium.
OfPolicy(m) ==
    \E p \in policies : m.pol = {p.id} /\ m.app = p.app /\ m.premium = p.premium

\* What a message in a queue relies on.
Backed(q, m) ==
    /\ Told(Holding[q], m.app)
    /\ q = "decide" => m.premium = Premium(m.app)
    /\ q = "policies" => ~Refer(m.app) /\ m.premium = Premium(m.app)
    /\ q = "billing" => OfPolicy(m)

\* What an event in the audit trail says is so.
IsSo(m) ==
    /\ m.event \in {"submitted", "accepted", "declined", "issued", "charged"} => m.app \in Applications
    /\ m.event = "accepted" => ~Refer(m.app)
    /\ m.event = "declined" => Refer(m.app)
    /\ m.event \in {"issued", "charged"} => OfPolicy(m)
    /\ m.event = "settled" => PolicyOfLoss[m.app] \in Ids
    /\ m.event = "stored" => m.app \in store \cup forgotten

QueuesBacked == \A q \in Queues : \A m \in DOMAIN queue[q] : Backed(q, m)

TrailIsSo == \A m \in DOMAIN audit : IsSo(m)

OutboxOfPolicies == \A m \in outbox : m.event = "issued" => OfPolicy(m)

PoliciesAccepted ==
    \A p \in policies :
        ~Refer(p.app) /\ p.premium = Premium(p.app) /\ Told("accepted", p.app)

MessageInv ==
    /\ QueuesBacked /\ TrailIsSo /\ OutboxOfPolicies /\ PoliciesAccepted
    /\ announcing \subseteq store

\* What is on record was announced or is about to be.
RecordInv ==
    /\ confirmed \subseteq DOMAIN audit
    /\ \A p \in policies :
          \E m \in outbox \cup DOMAIN audit : m.event = "issued" /\ m.pol = {p.id}
    /\ \A a \in applications :
          \E m \in outbox \cup DOMAIN audit : m.event = "submitted" /\ m.app = a

\* Sets of messages that are counted.
About(a) == {m \in Messages : m.app = a}
Saying(kind) == {m \in Messages : m.event = kind}
ChargesOf(p) == {m \in Messages : m.event = "charged" /\ m.pol = {p}}

CounterInv ==
    /\ accepted <= Tally(audit, Saying("accepted"))
    /\ declined <= Tally(audit, Saying("declined"))
    /\ \A p \in PolicyIds : charges[p] <= Tally(audit, ChargesOf(p))

IssuedInv == issued <= Cardinality(policies)

\* The claim on a message id may stand for a charge.
MayBeCharged(p) ==
    seen[p] # "free" /\ ~ \E c \in charging : Of(c.msg) = p /\ c.at = "charge"

ChargeInv ==
    /\ \A c \in charging : seen[Of(c.msg)] = "claimed"
    /\ \A p \in PolicyIds :
          Tally(audit, ChargesOf(p))
              <= unconfirmed[p] + expired[p] + IF MayBeCharged(p) THEN 1 ELSE 0

AskInv ==
    /\ \A i \in covered : PolicyOfLoss[i] \in Ids
    /\ \A q \in lookups : q[2] <= call[q[1]]
    /\ \A r \in replies :
          /\ r[2] <= call[r[1]]
          /\ r[3] => PolicyOfLoss[r[1]] \in Ids
          /\ r[2] = call[r[1]] /\ ~r[3] => r[1] \notin covered
    /\ \A i \in Losses :
          /\ phase[i] = "settle" => PolicyOfLoss[i] \in Ids
          /\ phase[i] = "reject" => i \notin covered

OutcomeInv ==
    \A i \in Losses :
        Tally(audit, {m \in Saying("settled") \cup Saying("rejected") : m.app = i})
            <= lostConfirms + IF phase[i] = "done" THEN 1 ELSE 0

\* How often an application may yet become a policy, or has: while it may be
\* submitted, while its submission may be published, and in each queue.
ToSubmit(a) == IF a \in applications THEN 0 ELSE 1
ToPublish(a) == IF Event("submitted", a, {}, 0) \in outbox \ confirmed THEN 1 ELSE 0
InQueues(a) ==
    Tally(queue["underwriting"], About(a)) + Tally(queue["register"], About(a))
    + Tally(queue["price"], About(a)) + Tally(queue["decide"], About(a))
    + Tally(queue["policies"], About(a))
PoliciesOf(a) == {p \in policies : p.app = a}

Chances(a) == ToSubmit(a) + ToPublish(a) + InQueues(a) + Cardinality(PoliciesOf(a))

RepeatInv == \A a \in Applications : Chances(a) <= 1 + faults
-----------------------------------------------------------------------------
\* The premium a stage adds is a premium.
LEMMA ProductIs ==
    ASSUME NEW q \in DOMAIN Following, NEW m \in Sort("submitted")
    PROVE  /\ Produce(q, m) \in Sort("submitted") /\ Produce(q, m).app = m.app
           /\ q \in Queues /\ Following[q] \in Queues /\ Following[q] # q
           /\ Following[q] = "decide" => Produce(q, m).premium = Premium(m.app)
<1>1. q \in {"underwriting", "register", "price"}
  BY DEF Following
<1>2. Premium(m.app) \in Premiums /\ 1 \in 1 .. MaxAttempts
  BY PolicyAssumption DEF Premiums, Sort
<1>3. Produce(q, m) \in Messages /\ Produce(q, m).event = m.event /\ Produce(q, m).app = m.app
  BY <1>2 DEF Produce, Sort, Messages
<1>4. Produce(q, m) \in Sort("submitted")
  BY <1>3 DEF Sort
<1>5. q \in Queues /\ Following[q] \in Queues /\ Following[q] # q
  BY <1>1 DEF Following, Queues, Stages
<1>6. Following[q] = "decide" => q = "price"
  BY <1>1 DEF Following
<1>7. q = "price" => Produce(q, m).premium = Premium(m.app)
  BY DEF Produce, Sort, Messages
<1>8. QED BY <1>3, <1>4, <1>5, <1>6, <1>7

\* An event is a message, and of which sort.
LEMMA EventIs ==
    /\ \A a \in Applications :
          /\ Event("submitted", a, {}, 0) \in Sort("submitted")
          /\ Event("declined", a, {}, 0) \in Sort("declined")
          /\ \A u \in Premiums :
                /\ Event("accepted", a, {}, u) \in Sort("accepted")
                /\ \A p \in PolicyIds :
                      /\ Event("issued", a, {p}, u) \in Sort("issued")
                      /\ Event("charged", a, {p}, u) \in Sort("charged")
    /\ \A i \in Losses : \A kind \in {"settled", "rejected"} :
          Event(kind, i, {PolicyOfLoss[i]}, 0) \in Messages
    /\ \A d \in Documents : Event("stored", d, {}, 0) \in Messages
<1>1. 0 \in Premiums /\ 1 \in 1 .. MaxAttempts
  BY PolicyAssumption DEF Premiums
<1>2. ASSUME NEW kind \in Kinds, NEW a \in Applications \cup Losses \cup Documents,
             NEW u \in Premiums,
             NEW s \in SUBSET (PolicyIds \cup {PolicyOfLoss[i] : i \in Losses})
      PROVE  Event(kind, a, s, u) \in Messages
  BY <1>1 DEF Event, Messages
<1>3. \A k, a, s, u : /\ Event(k, a, s, u).event = k /\ Event(k, a, s, u).app = a
                      /\ Event(k, a, s, u).pol = s /\ Event(k, a, s, u).premium = u
  BY DEF Event
<1>4. ASSUME NEW a \in Applications, NEW u \in Premiums,
             NEW kind \in {"submitted", "declined", "accepted", "charged"},
             NEW s \in SUBSET PolicyIds
      PROVE  Event(kind, a, s, u) \in Sort(kind)
  BY <1>2, <1>3 DEF Kinds, Sort
<1>5. ASSUME NEW a \in Applications, NEW u \in Premiums, NEW p \in PolicyIds
      PROVE  Event("issued", a, {p}, u) \in Sort("issued")
  BY <1>2, <1>3 DEF Kinds, Sort
<1>6. ASSUME NEW i \in Losses, NEW kind \in {"settled", "rejected"}
      PROVE  Event(kind, i, {PolicyOfLoss[i]}, 0) \in Messages
  BY <1>1, <1>2 DEF Kinds
<1>7. ASSUME NEW d \in Documents PROVE Event("stored", d, {}, 0) \in Messages
  BY <1>1, <1>2 DEF Kinds
<1>8. QED BY <1>1, <1>4, <1>5, <1>6, <1>7

\* Which queues an event is bound to.
LEMMA BoundTo ==
    ASSUME NEW r, NEW k
    PROVE  <<r, k>> \in Bindings <=>
             \/ r = "underwriting" /\ k = "submitted"
             \/ r = "policies" /\ k = "accepted"
             \/ r = "billing" /\ k = "issued"
             \/ r = "claims" /\ k = "issued"
<1>1. /\ <<r, k>> = <<"underwriting", "submitted">> <=> (r = "underwriting" /\ k = "submitted")
      /\ <<r, k>> = <<"policies", "accepted">> <=> (r = "policies" /\ k = "accepted")
      /\ <<r, k>> = <<"billing", "issued">> <=> (r = "billing" /\ k = "issued")
      /\ <<r, k>> = <<"claims", "issued">> <=> (r = "claims" /\ k = "issued")
  OBVIOUS
<1>2. <<r, k>> \in Bindings <=>
        \/ <<r, k>> = <<"underwriting", "submitted">>
        \/ <<r, k>> = <<"policies", "accepted">>
        \/ <<r, k>> = <<"billing", "issued">>
        \/ <<r, k>> = <<"claims", "issued">>
  BY DEF Bindings
<1>3. QED BY <1>1, <1>2, Zenon

\* An event that is recorded.
LEMMA RecordDoes ==
    ASSUME audit \in Bags, NEW e \in Messages, Record(e)
    PROVE  /\ audit' \in Bags /\ DOMAIN audit' = DOMAIN audit \cup {e}
           /\ \A K : Tally(audit', K) = Tally(audit, K) + IF e \in K THEN 1 ELSE 0
<1>1. IsBag(audit) /\ DOMAIN audit \subseteq Messages
  BY BagsAre
<1>2. audit' = audit (+) One(e)
  BY DEF Record
<1>3. /\ IsBag(audit (+) One(e)) /\ DOMAIN (audit (+) One(e)) = DOMAIN audit \cup {e}
      /\ \A K : Tally(audit (+) One(e), K) = Tally(audit, K) + IF e \in K THEN 1 ELSE 0
  BY <1>1, PutOne
<1>4. audit (+) One(e) \in Bags
  BY <1>1, <1>3, BagsAre
<1>5. QED BY <1>2, <1>3, <1>4
-----------------------------------------------------------------------------
\* A message is about one application on every attempt.
LEMMA AboutIsBlind == \A a : Blind(About(a))
  BY DEF Blind, About, Messages

\* A message that waited in the queue, on this attempt or another.
Stays(r, n) == \E m \in DOMAIN queue[r] : n = m \/ Again(n, m)

\* How a handler leaves the queues, Q being what they are after its work: its
\* message is gone, or a fault is, and it may come round again.
LEMMA Handled ==
    ASSUME TypeInv, NEW q \in Queues, NEW m \in DOMAIN queue[q],
           NEW Q \in [Queues -> Bags], DOMAIN queue[q] \subseteq DOMAIN Q[q],
           \/ Accept(Q, q, m) /\ UNCHANGED faults
           \/ Fault /\ (Retry(Q, q, m) \/ Redeliver(Q))
    PROVE  /\ queue' \in [Queues -> Bags] /\ dead' \in Bags
           /\ faults' = faults \/ faults' = faults + 1
           /\ \A r \in Queues :
                 /\ \A n \in DOMAIN queue'[r] : n \in DOMAIN Q[r] \/ (r = q /\ Again(n, m))
                 /\ r # q => DOMAIN Q[r] \subseteq DOMAIN queue'[r]
                 /\ \A a : Tally(queue'[r], About(a)) <= Tally(Q[r], About(a))
                              - IF r = q /\ m.app = a /\ faults' = faults THEN 1 ELSE 0
<1>1. /\ dead \in Bags /\ faults \in Nat /\ m \in Messages /\ m \in DOMAIN Q[q]
      /\ \A r \in Queues : \A K : Tally(Q[r], K) \in Nat
  BY BagsAre, TallyType DEF TypeInv, BrokerType, Sort
<1>2. \A a : m \in About(a) <=> m.app = a
  BY <1>1 DEF About
<1>3. CASE Accept(Q, q, m) /\ UNCHANGED faults
  <2>1. Loses(queue', Q, q, m) /\ dead' = dead
    BY <1>1, <1>3, WithoutDoes DEF Accept
  <2>2. ASSUME NEW r \in Queues, NEW a
        PROVE  Tally(queue'[r], About(a)) <= Tally(Q[r], About(a))
                 - IF r = q /\ m.app = a /\ faults' = faults THEN 1 ELSE 0
    <3>1. Tally(queue'[r], About(a))
            = Tally(Q[r], About(a)) - IF r = q /\ m \in About(a) THEN 1 ELSE 0
      BY <2>1 DEF Loses
    <3>2. Tally(Q[r], About(a)) \in Nat BY <1>1
    <3>3. m \in About(a) <=> m.app = a BY <1>2
    <3>4. faults' = faults BY <1>3
    <3>5. QED BY <3>1, <3>2, <3>3, <3>4
  <2>3. QED BY <1>1, <1>3, <2>1, <2>2 DEF Loses
<1>4. CASE Fault /\ (Retry(Q, q, m) \/ Redeliver(Q))
  <2>1. /\ queue' \in [Queues -> Bags] /\ dead' \in Bags
        /\ \A r \in Queues :
              /\ \A n \in DOMAIN queue'[r] : n \in DOMAIN Q[r] \/ (r = q /\ Again(n, m))
              /\ r # q => DOMAIN Q[r] \subseteq DOMAIN queue'[r]
              /\ \A K : Blind(K) => Tally(queue'[r], K) <= Tally(Q[r], K)
    BY <1>1, <1>4, BackDoes
  <2>2. faults' = faults + 1 /\ faults' # faults
    BY <1>1, <1>4 DEF Fault
  <2>3. ASSUME NEW r \in Queues, NEW a
        PROVE  Tally(queue'[r], About(a)) <= Tally(Q[r], About(a)) - 0
    <3>1. Tally(queue'[r], About(a)) <= Tally(Q[r], About(a))
      BY <2>1, AboutIsBlind
    <3>2. Tally(Q[r], About(a)) \in Nat BY <1>1
    <3>3. QED BY <3>1, <3>2
  <2>4. QED BY <2>1, <2>2, <2>3
<1>5. QED BY <1>3, <1>4

\* Message m of queue q had its turn and e was put into the queues of R: m is
\* gone, or a fault is spent, and m may come round again.
Turn(q, m, e, R) ==
    /\ queue' \in [Queues -> Bags] /\ dead' \in Bags
    /\ faults' = faults \/ faults' = faults + 1
    /\ \A r \in Queues :
          /\ \A n \in DOMAIN queue'[r] : Stays(r, n) \/ (r \in R /\ n = e)
          /\ r # q => DOMAIN queue[r] \subseteq DOMAIN queue'[r]
          /\ \A a : Tally(queue'[r], About(a)) <= Tally(queue[r], About(a))
                       + (IF r \in R /\ e.app = a THEN 1 ELSE 0)
                       - (IF r = q /\ m.app = a /\ faults' = faults THEN 1 ELSE 0)

\* A turn, by what the handler put where.
LEMMA HandlerTakesTurn ==
    ASSUME TypeInv, NEW q \in Queues, NEW m \in DOMAIN queue[q],
           NEW e \in Messages, NEW R, NEW Q, Gains(Q, queue, R, e),
           \/ Accept(Q, q, m) /\ UNCHANGED faults
           \/ Fault /\ (Retry(Q, q, m) \/ Redeliver(Q))
    PROVE  Turn(q, m, e, R)
<1>1. \A r \in Queues : \A K : Tally(queue[r], K) \in Nat
  BY BagsAre, TallyType DEF TypeInv, BrokerType
<1>2. /\ queue' \in [Queues -> Bags] /\ dead' \in Bags
      /\ faults' = faults \/ faults' = faults + 1
      /\ \A r \in Queues :
            /\ \A n \in DOMAIN queue'[r] : n \in DOMAIN Q[r] \/ (r = q /\ Again(n, m))
            /\ r # q => DOMAIN Q[r] \subseteq DOMAIN queue'[r]
            /\ \A a : Tally(queue'[r], About(a)) <= Tally(Q[r], About(a))
                         - IF r = q /\ m.app = a /\ faults' = faults THEN 1 ELSE 0
  <2>1. Q \in [Queues -> Bags] /\ DOMAIN queue[q] \subseteq DOMAIN Q[q] BY DEF Gains
  <2>2. QED BY <2>1, Handled
<1>3. ASSUME NEW r \in Queues, NEW a
      PROVE  Tally(queue'[r], About(a)) <= Tally(queue[r], About(a))
                + (IF r \in R /\ e.app = a THEN 1 ELSE 0)
                - (IF r = q /\ m.app = a /\ faults' = faults THEN 1 ELSE 0)
  <2>1. Tally(Q[r], About(a)) = Tally(queue[r], About(a)) + IF r \in R /\ e.app = a THEN 1 ELSE 0
    <3>1. \A K : Tally(Q[r], K) = Tally(queue[r], K) + IF r \in R /\ e \in K THEN 1 ELSE 0
      BY DEF Gains
    <3>2. e \in About(a) <=> e.app = a BY DEF About
    <3>3. QED BY <3>1, <3>2
  <2>2. Tally(queue'[r], About(a)) <= Tally(Q[r], About(a))
           - IF r = q /\ m.app = a /\ faults' = faults THEN 1 ELSE 0
    BY <1>2
  <2>3. Tally(queue[r], About(a)) \in Nat /\ Tally(queue'[r], About(a)) \in Int
    BY <1>1, <1>2, BagsAre, TallyType
  <2>4. QED BY <2>1, <2>2, <2>3
<1>4. ASSUME NEW r \in Queues, NEW n \in DOMAIN queue'[r]
      PROVE  Stays(r, n) \/ (r \in R /\ n = e)
  <2>1. n \in DOMAIN Q[r] \/ (r = q /\ Again(n, m)) BY <1>2
  <2>2. DOMAIN Q[r] = DOMAIN queue[r] \cup (IF r \in R THEN {e} ELSE {}) BY DEF Gains
  <2>3. \/ n \in DOMAIN queue[r]
        \/ r = q /\ Again(n, m)
        \/ r \in R /\ n = e
    BY <2>1, <2>2
  <2>4. QED BY <2>3 DEF Stays
<1>5. \A r \in Queues : r # q => DOMAIN queue[r] \subseteq DOMAIN queue'[r]
  BY <1>2 DEF Gains
<1>6. QED BY <1>2, <1>3, <1>4, <1>5 DEF Turn

\* A handler that puts nothing anywhere.
LEMMA GainsNothing == ASSUME TypeInv, NEW e PROVE Gains(queue, queue, {}, e)
<1>1. \A r \in Queues : \A K : Tally(queue[r], K) \in Nat
  BY BagsAre, TallyType DEF TypeInv, BrokerType
<1>2. QED BY <1>1 DEF Gains, TypeInv, BrokerType

\* An event that no queue is bound to changes none.
LEMMA RoutedNowhere ==
    ASSUME TypeInv, NEW e, e.event \notin {"submitted", "accepted", "issued"}
    PROVE  Routed(queue, e) = queue
<1>1. \A r \in Queues : <<r, e.event>> \notin Bindings
  BY BoundTo
<1>2. QED BY <1>1 DEF Routed, TypeInv, BrokerType

\* Where the others go.
LEMMA BoundQueuesAre ==
    ASSUME NEW e
    PROVE  /\ e.event = "submitted" => BoundQueues(e) = {"underwriting"}
           /\ e.event = "accepted" => BoundQueues(e) = {"policies"}
           /\ e.event = "issued" => BoundQueues(e) = {"billing", "claims"}
           /\ e.event \notin {"submitted", "accepted", "issued"} => BoundQueues(e) = {}
<1>1. {"underwriting", "policies", "billing", "claims"} \subseteq Queues BY DEF Queues
<1>2. QED BY <1>1, BoundTo DEF BoundQueues
-----------------------------------------------------------------------------
\* What each handler does to the queues and the audit trail.
LEMMA ForwardDoes ==
    ASSUME TypeInv, NEW q \in DOMAIN Following, Forward(q)
    PROVE  /\ UNCHANGED <<audit, underwritingVars>>
           /\ \E m \in DOMAIN queue[q] : \E R \in {{}, {Following[q]}} : Turn(q, m, Produce(q, m), R)
<1>1. q \in Queues /\ Following[q] \in Queues /\ Holding[q] = "submitted"
  BY DEF Following, Holding, Queues, Stages
<1>2. PICK m \in DOMAIN queue[q] :
         \E Q \in {queue, With(queue, Following[q], Produce(q, m))} :
            \/ Accept(Q, q, m) /\ UNCHANGED faults
            \/ Fault /\ (Retry(Q, q, m) \/ Redeliver(Q))
  BY DEF Forward, BagToSet, Unreported, NotDone
<1>3. m \in Sort("submitted")
  BY <1>1 DEF TypeInv, BrokerType
<1>4. Produce(q, m) \in Messages
  BY <1>3, ProductIs DEF Sort
<1>5. Gains(queue, queue, {}, Produce(q, m))
  BY GainsNothing
<1>6. Gains(With(queue, Following[q], Produce(q, m)), queue, {Following[q]}, Produce(q, m))
  BY <1>1, <1>4, WithDoes DEF TypeInv, BrokerType
<1>7. \E R \in {{}, {Following[q]}} : Turn(q, m, Produce(q, m), R)
  <2> DEFINE e == Produce(q, m)
  <2> HIDE DEF e
  <2>1. PICK Q \in {queue, With(queue, Following[q], e)} :
           \/ Accept(Q, q, m) /\ UNCHANGED faults
           \/ Fault /\ (Retry(Q, q, m) \/ Redeliver(Q))
    BY <1>2 DEF e
  <2>2. PICK R \in {{}, {Following[q]}} : Gains(Q, queue, R, e)
    BY <1>5, <1>6 DEF e
  <2>3. Turn(q, m, e, R)
    BY <1>1, <1>4, <2>1, <2>2, HandlerTakesTurn DEF e
  <2>4. QED BY <2>3 DEF e
<1>8. QED BY <1>7 DEF Forward

LEMMA DecideDoes ==
    ASSUME TypeInv, Decide
    PROVE  \E m \in DOMAIN queue["decide"] :
              /\ m \in Sort("submitted") /\ Decision(m) \in Messages
              /\ \/ /\ Turn("decide", m, Decision(m), BoundQueues(Decision(m)))
                    /\ Record(Decision(m)) /\ (Count(m) \/ UNCHANGED underwritingVars)
                 \/ /\ Turn("decide", m, Decision(m), {})
                    /\ UNCHANGED <<audit, underwritingVars>>
<1>1. "decide" \in Queues /\ Holding["decide"] = "submitted"
  BY DEF Holding, Queues, Stages
<1>2. PICK m \in DOMAIN queue["decide"] :
        LET Q == Routed(queue, Decision(m)) IN
        \/ /\ \/ Accept(Q, "decide", m) /\ UNCHANGED faults
              \/ Unsettled(Q)
           /\ Record(Decision(m)) /\ Count(m)
        \/ /\ Unreported(Q, "decide", m)
           /\ Record(Decision(m)) /\ UNCHANGED underwritingVars
        \/ NotDone("decide", m) /\ UNCHANGED underwritingVars
  BY DEF Decide, BagToSet
<1>3. m \in Sort("submitted")
  BY <1>1 DEF TypeInv, BrokerType
<1>4. Decision(m) \in Messages
  BY <1>3, EventIs DEF Sort, Decision, Messages
<1> DEFINE e == Decision(m)
<1>5. Gains(queue, queue, {}, e)
  BY GainsNothing
<1>6. Gains(Routed(queue, e), queue, BoundQueues(e), e)
  BY <1>4, RoutedDoes DEF TypeInv, BrokerType
<1>7. CASE NotDone("decide", m) /\ UNCHANGED underwritingVars
  <2>1. Fault /\ Retry(queue, "decide", m) /\ UNCHANGED audit BY <1>7 DEF NotDone
  <2> HIDE DEF e
  <2>2. Turn("decide", m, e, {}) BY <1>1, <1>4, <1>5, <2>1, HandlerTakesTurn DEF e
  <2>3. QED BY <1>3, <1>4, <1>7, <2>1, <2>2 DEF e
<1>8. CASE /\ Record(e) /\ (Count(m) \/ UNCHANGED underwritingVars)
           /\ \/ Accept(Routed(queue, e), "decide", m) /\ UNCHANGED faults
              \/ Unsettled(Routed(queue, e))
              \/ Unreported(Routed(queue, e), "decide", m)
  <2> DEFINE Q == Routed(queue, e)
  <2>1. \/ Accept(Q, "decide", m) /\ UNCHANGED faults
        \/ Fault /\ (Retry(Q, "decide", m) \/ Redeliver(Q))
    BY <1>8 DEF Unreported, Unsettled
  <2>2. Gains(Q, queue, BoundQueues(e), e) /\ e \in Messages BY <1>4, <1>6
  <2> HIDE DEF e, Q
  <2>3. Turn("decide", m, e, BoundQueues(e)) BY <1>1, <2>1, <2>2, HandlerTakesTurn
  <2>4. QED BY <1>3, <1>4, <1>8, <2>3 DEF e
<1>9. QED BY <1>2, <1>7, <1>8

\* A handler that publishes nothing, or nothing that a queue is bound to.
LEMMA PlainTurn ==
    ASSUME TypeInv, NEW q \in Queues, NEW m \in DOMAIN queue[q],
           \/ Accept(queue, q, m) /\ UNCHANGED faults
           \/ Unreported(queue, q, m) \/ NotDone(q, m)
           \/ Fault /\ (Retry(queue, q, m) \/ Redeliver(queue))
    PROVE  Turn(q, m, m, {})
<1>1. \/ Accept(queue, q, m) /\ UNCHANGED faults
      \/ Fault /\ (Retry(queue, q, m) \/ Redeliver(queue))
  BY DEF Unreported, NotDone
<1>2. m \in Messages /\ Gains(queue, queue, {}, m)
  BY GainsNothing DEF TypeInv, BrokerType, Sort
<1>3. QED BY <1>1, <1>2, HandlerTakesTurn

LEMMA IssueDoes ==
    ASSUME TypeInv, Issue
    PROVE  \E m \in DOMAIN queue["policies"] :
              /\ m \in Sort("accepted") /\ Turn("policies", m, m, {})
              /\ UNCHANGED <<audit, applications, confirmed>>
              /\ \/ /\ \E p \in PolicyIds \ Ids : WritePolicy(m, p)
                    /\ issued' \in {issued, issued + 1}
                 \/ faults' = faults + 1 /\ UNCHANGED <<policies, outbox, issued>>
<1>1. "policies" \in Queues /\ Holding["policies"] = "accepted"
  BY DEF Holding, Queues, Stages
<1>2. PICK m \in DOMAIN queue["policies"] :
          \/ \E p \in PolicyIds \ Ids :
                /\ WritePolicy(m, p)
                /\ \/ /\ \/ Accept(queue, "policies", m) /\ UNCHANGED faults
                         \/ Unsettled(queue)
                      /\ issued' = issued + 1
                   \/ Unreported(queue, "policies", m) /\ UNCHANGED issued
          \/ NotDone("policies", m) /\ UNCHANGED <<policies, outbox, issued>>
  BY DEF Issue, BagToSet
<1>3. m \in Sort("accepted")
  BY <1>1 DEF TypeInv, BrokerType
<1>4. Turn("policies", m, m, {})
  BY <1>1, <1>2, PlainTurn DEF Unsettled
<1>5. UNCHANGED <<audit, applications, confirmed>>
  BY DEF Issue
<1>6. NotDone("policies", m) => faults' = faults + 1
  BY DEF NotDone, Fault
<1>7. QED BY <1>2, <1>3, <1>4, <1>5, <1>6

\* Steps that leave the queues alone.
LEMMA StillDoes ==
    ASSUME TypeInv, UNCHANGED <<queue, dead>>, UNCHANGED faults \/ Fault, NEW e
    PROVE  Turn("none", e, e, {})
<1>1. \A r \in Queues : \A K : Tally(queue[r], K) \in Nat
  BY BagsAre, TallyType DEF TypeInv, BrokerType
<1>2. \A r \in Queues : r # "none"
  BY DEF Queues, Stages
<1>3. \A r \in Queues : \A n \in DOMAIN queue[r] : Stays(r, n)
  BY DEF Stays
<1>4. faults' = faults \/ faults' = faults + 1
  BY DEF Fault
<1>5. queue \in [Queues -> Bags] /\ dead \in Bags
  BY DEF TypeInv, BrokerType
<1>6. QED BY <1>1, <1>2, <1>3, <1>4, <1>5 DEF Turn

\* A record of the outbox is a message, and of which sort.
LEMMA OutboxHas ==
    ASSUME TypeInv, NEW r \in outbox
    PROVE  /\ r \in Sort("submitted") \cup Sort("issued")
           /\ r.event = "submitted" => r = Event("submitted", r.app, {}, 0)
<1>1. CASE r \in Sort("issued")
  BY <1>1 DEF Sort
<1>2. CASE r \in {Event("submitted", a, {}, 0) : a \in Applications}
  <2>1. PICK a \in Applications : r = Event("submitted", a, {}, 0) BY <1>2
  <2>2. r \in Sort("submitted") BY <2>1, EventIs
  <2>3. r.app = a BY <2>1 DEF Event
  <2>4. QED BY <2>1, <2>2, <2>3
<1>3. QED BY <1>1, <1>2 DEF TypeInv, PoliciesType

LEMMA RelaySendDoes ==
    ASSUME TypeInv, RelaySend
    PROVE  \E r \in outbox :
              /\ r \in Messages /\ Record(r) /\ confirmed = {}
              /\ Turn("none", r, r, BoundQueues(r))
              /\ \/ confirmed' = {r} /\ UNCHANGED faults
                 \/ faults' = faults + 1 /\ UNCHANGED confirmed
<1>1. PICK r \in outbox :
          /\ queue' = Routed(queue, r) /\ Record(r)
          /\ \/ confirmed' = {r} /\ UNCHANGED faults
             \/ Fault /\ UNCHANGED confirmed
  BY DEF RelaySend
<1>2. r \in Messages
  BY OutboxHas DEF Sort
<1>3. Gains(queue', queue, BoundQueues(r), r)
  BY <1>1, <1>2, RoutedDoes DEF TypeInv, BrokerType
<1>4. Turn("none", r, r, BoundQueues(r))
  <2>1. \A s \in Queues : s # "none" BY DEF Queues, Stages
  <2>2. dead' \in Bags /\ (faults' = faults \/ faults' = faults + 1)
    BY <1>1 DEF RelaySend, TypeInv, BrokerType, Fault
  <2>3. \A s \in Queues : \A n \in DOMAIN queue'[s] : Stays(s, n) \/ (s \in BoundQueues(r) /\ n = r)
    BY <1>3 DEF Gains, Stays
  <2>4. ASSUME NEW s \in Queues, NEW a
        PROVE  Tally(queue'[s], About(a)) = Tally(queue[s], About(a))
                        + (IF s \in BoundQueues(r) /\ r.app = a THEN 1 ELSE 0)
    <3>1. r \in About(a) <=> r.app = a BY <1>2 DEF About
    <3>2. QED BY <1>3, <3>1 DEF Gains
  <2>5. \A s \in Queues : \A K : Tally(queue[s], K) \in Nat
    BY BagsAre, TallyType DEF TypeInv, BrokerType
  <2>6. \A s \in Queues : DOMAIN queue[s] \subseteq DOMAIN queue'[s]
    BY <1>3 DEF Gains
  <2>7. queue' \in [Queues -> Bags] BY <1>3 DEF Gains
  <2>8. ASSUME NEW s \in Queues, NEW a
        PROVE  Tally(queue'[s], About(a)) <= Tally(queue[s], About(a))
                       + (IF s \in BoundQueues(r) /\ r.app = a THEN 1 ELSE 0)
                       - (IF s = "none" /\ r.app = a /\ faults' = faults THEN 1 ELSE 0)
    BY <2>1, <2>4, <2>5
  <2>9. QED BY <2>2, <2>3, <2>6, <2>7, <2>8 DEF Turn
<1>5. QED BY <1>1, <1>2, <1>4 DEF RelaySend, Fault

\* A PolicyIssued is about one policy, and so is the charge for it.
LEMMA IssuedIs ==
    ASSUME NEW m \in Sort("issued")
    PROVE  LET e == Event("charged", m.app, m.pol, m.premium) IN
           /\ m \in Messages /\ Of(m) \in PolicyIds /\ m.pol = {Of(m)}
           /\ e \in Sort("charged") /\ e \in Messages
           /\ e.event = "charged" /\ e.app = m.app /\ e.pol = m.pol /\ e.premium = m.premium
<1>1. m \in Messages /\ m.app \in Applications /\ m.premium \in Premiums
  BY DEF Sort, Messages
<1>2. PICK p \in PolicyIds : m.pol = {p}
  BY DEF Sort
<1>3. Of(m) = p
  BY <1>2 DEF Of
<1>4. Event("charged", m.app, m.pol, m.premium) \in Sort("charged")
  BY <1>1, <1>2, EventIs
<1>5. QED BY <1>1, <1>2, <1>3, <1>4 DEF Sort, Event

\* The handlers whose events no queue is bound to.
Quiet == \E q : \E m : Turn(q, m, m, {})

LEMMA StillIsQuiet ==
    ASSUME TypeInv, UNCHANGED <<queue, dead>>, UNCHANGED faults \/ Fault
    PROVE  Quiet
  BY StillDoes DEF Quiet

LEMMA PlainIsQuiet ==
    ASSUME TypeInv, NEW q \in Queues, NEW m \in DOMAIN queue[q],
           \/ Accept(queue, q, m) /\ UNCHANGED faults
           \/ Unreported(queue, q, m) \/ NotDone(q, m)
           \/ Fault /\ (Retry(queue, q, m) \/ Redeliver(queue))
    PROVE  Quiet
  BY PlainTurn DEF Quiet

LEMMA ClaimDoes ==
    ASSUME TypeInv, Claim
    PROVE  Quiet /\ ChargedWaits' /\ BillingType' /\ UNCHANGED audit
<1>0. "billing" \in Queues /\ Holding["billing"] = "issued"
  BY DEF Queues, Holding
<1>1. PICK m \in DOMAIN queue["billing"] :
          \/ /\ seen[Of(m)] = "free"
             /\ seen' = [seen EXCEPT ![Of(m)] = "claimed"]
             /\ charging' = {[msg |-> m, at |-> "charge"]}
             /\ UNCHANGED brokerVars
          \/ /\ seen[Of(m)] = "confirmed"
             /\ Accept(queue, "billing", m) /\ UNCHANGED <<audit, seen, charging>>
  BY DEF Claim, BagToSet
<1>2. m \in Sort("issued") /\ Of(m) \in PolicyIds
  <2>1. m \in Sort("issued") BY <1>0 DEF TypeInv, BrokerType
  <2>2. QED BY <2>1, IssuedIs
<1>3. UNCHANGED <<faults, charges, unconfirmed, expired>> /\ charging = {} /\ UNCHANGED audit
  BY <1>1 DEF Claim, brokerVars
<1>4. CASE seen[Of(m)] = "free"
  <2>1. Quiet BY <1>1, <1>3, <1>4, StillIsQuiet DEF brokerVars
  <2>2. ChargedWaits' BY <1>1, <1>4 DEF ChargedWaits, brokerVars
  <2>3. BillingType' BY <1>1, <1>2, <1>3, <1>4 DEF TypeInv, BillingType
  <2>4. QED BY <1>3, <2>1, <2>2, <2>3
<1>5. CASE seen[Of(m)] # "free"
  <2>1. Quiet BY <1>0, <1>1, <1>3, <1>5, PlainIsQuiet
  <2>2. ChargedWaits' BY <1>1, <1>3, <1>5 DEF ChargedWaits
  <2>3. BillingType' BY <1>1, <1>3, <1>5 DEF TypeInv, BillingType
  <2>4. QED BY <1>3, <2>1, <2>2, <2>3
<1>6. QED BY <1>4, <1>5

LEMMA ChargeDoes ==
    ASSUME TypeInv, Charge
    PROVE  /\ Quiet /\ ChargedWaits' /\ BillingType'
           /\ \E c \in charging : LET m == c.msg
                                      e == Event("charged", m.app, m.pol, m.premium) IN
                 /\ charging = {c} /\ c.at = "charge" /\ m \in DOMAIN queue["billing"]
                 /\ m \in Sort("issued")
                 /\ \/ /\ Record(e)
                       /\ charges' = [charges EXCEPT ![Of(m)] = @ + 1]
                       /\ charging' = {[c EXCEPT !.at = "confirm"]}
                       /\ UNCHANGED <<seen, unconfirmed, expired>>
                    \/ /\ Record(e)
                       /\ unconfirmed' = [unconfirmed EXCEPT ![Of(m)] = @ + 1]
                       /\ Release(Of(m)) /\ charging' = {} /\ UNCHANGED <<charges, expired>>
                    \/ /\ UNCHANGED audit /\ Release(Of(m)) /\ charging' = {}
                       /\ UNCHANGED <<charges, unconfirmed, expired>>
<1>0. "billing" \in Queues
  BY DEF Queues
<1>1. PICK c \in charging :
          LET m == c.msg
              e == Event("charged", m.app, m.pol, m.premium) IN
          /\ c.at = "charge"
          /\ \/ /\ queue' = Routed(queue, e) /\ Record(e)
                /\ charges' = [charges EXCEPT ![Of(m)] = @ + 1]
                /\ charging' = {[c EXCEPT !.at = "confirm"]}
                /\ UNCHANGED <<dead, faults, seen, unconfirmed>>
             \/ /\ Fault /\ Retry(Routed(queue, e), "billing", m) /\ Record(e)
                /\ unconfirmed' = [unconfirmed EXCEPT ![Of(m)] = @ + 1]
                /\ Release(Of(m)) /\ charging' = {} /\ UNCHANGED charges
             \/ /\ NotDone("billing", m)
                /\ Release(Of(m)) /\ charging' = {} /\ UNCHANGED <<charges, unconfirmed>>
  BY DEF Charge
<1> DEFINE m == c.msg
           e == Event("charged", m.app, m.pol, m.premium)
<1>2. charging = {c} /\ c \in [msg : Sort("issued"), at : {"charge", "confirm"}]
  BY DEF TypeInv, BillingType
<1>3. m \in Sort("issued") /\ m \in DOMAIN queue["billing"]
  BY <1>2 DEF TypeInv, ChargedWaits
<1>4. Of(m) \in PolicyIds /\ e.event = "charged"
  BY <1>3, IssuedIs
<1>5. Routed(queue, e) = queue
  <2> HIDE DEF e
  <2>1. QED BY <1>4, RoutedNowhere
<1>6. UNCHANGED expired
  BY DEF Charge
<1> HIDE DEF m, e
<1>7. CASE /\ queue' = Routed(queue, e) /\ Record(e)
           /\ charges' = [charges EXCEPT ![Of(m)] = @ + 1]
           /\ charging' = {[c EXCEPT !.at = "confirm"]}
           /\ UNCHANGED <<dead, faults, seen, unconfirmed>>
  <2>1. Quiet BY <1>5, <1>7, StillIsQuiet
  <2>2. ChargedWaits' BY <1>2, <1>3, <1>5, <1>7 DEF ChargedWaits, m
  <2>3. BillingType' BY <1>2, <1>4, <1>6, <1>7 DEF TypeInv, BillingType
  <2>4. QED BY <1>1, <1>2, <1>3, <1>6, <1>7, <2>1, <2>2, <2>3 DEF m, e
<1>8. CASE /\ Fault /\ Retry(Routed(queue, e), "billing", m) /\ Record(e)
           /\ unconfirmed' = [unconfirmed EXCEPT ![Of(m)] = @ + 1]
           /\ Release(Of(m)) /\ charging' = {} /\ UNCHANGED charges
  <2>1. Quiet BY <1>0, <1>3, <1>5, <1>8, PlainIsQuiet
  <2>2. ChargedWaits' BY <1>8 DEF ChargedWaits
  <2>3. BillingType' BY <1>4, <1>6, <1>8 DEF TypeInv, BillingType, Release
  <2>4. QED BY <1>1, <1>2, <1>3, <1>6, <1>8, <2>1, <2>2, <2>3 DEF m, e
<1>9. CASE /\ NotDone("billing", m)
           /\ Release(Of(m)) /\ charging' = {} /\ UNCHANGED <<charges, unconfirmed>>
  <2>1. Quiet BY <1>0, <1>3, <1>9, PlainIsQuiet
  <2>2. ChargedWaits' BY <1>9 DEF ChargedWaits
  <2>3. BillingType' BY <1>4, <1>6, <1>9 DEF TypeInv, BillingType, Release
  <2>4. UNCHANGED audit BY <1>9 DEF NotDone
  <2>5. QED BY <1>1, <1>2, <1>3, <1>6, <1>9, <2>1, <2>2, <2>3, <2>4 DEF m, e
<1>10. QED BY <1>1, <1>7, <1>8, <1>9 DEF m, e

LEMMA ConfirmDoes ==
    ASSUME TypeInv, Confirm
    PROVE  Quiet /\ ChargedWaits' /\ BillingType' /\ UNCHANGED audit
<1>0. "billing" \in Queues
  BY DEF Queues
<1>1. PICK c \in charging :
          /\ seen' = [seen EXCEPT ![Of(c.msg)] = "confirmed"]
          /\ \/ Accept(queue, "billing", c.msg) /\ UNCHANGED faults
             \/ Fault /\ Redeliver(queue)
          /\ charging' = {} /\ UNCHANGED <<audit, charges, unconfirmed, expired>>
  BY DEF Confirm
<1>2. c.msg \in Sort("issued") /\ c.msg \in DOMAIN queue["billing"]
  BY DEF TypeInv, BillingType, ChargedWaits
<1>3. Of(c.msg) \in PolicyIds
  BY <1>2, IssuedIs
<1>4. Quiet
  BY <1>0, <1>1, <1>2, PlainIsQuiet
<1>5. ChargedWaits'
  BY <1>1 DEF ChargedWaits
<1>6. BillingType'
  BY <1>1, <1>3 DEF TypeInv, BillingType
<1>7. QED BY <1>1, <1>4, <1>5, <1>6

LEMMA ExpireDoes ==
    ASSUME TypeInv, NEW p \in PolicyIds, Expire(p)
    PROVE  Quiet /\ ChargedWaits' /\ BillingType' /\ UNCHANGED audit
<1>1. Quiet /\ UNCHANGED audit
  BY StillIsQuiet DEF Expire, brokerVars
<1>2. ChargedWaits'
  BY DEF Expire, ChargedWaits, brokerVars, TypeInv
<1>3. BillingType'
  BY DEF Expire, Release, TypeInv, BillingType
<1>4. QED BY <1>1, <1>2, <1>3

Outcome(i) == Event(IF phase[i] = "settle" THEN "settled" ELSE "rejected",
                    i, {PolicyOfLoss[i]}, 0)

LEMMA ConcludeDoes ==
    ASSUME TypeInv, NEW i \in Losses, Conclude(i)
    PROVE  /\ UNCHANGED <<queue, dead>> /\ Outcome(i) \in Messages
           /\ \/ Record(Outcome(i))
              \/ /\ UNCHANGED <<audit, lostConfirms>>
                 /\ phase' = [phase EXCEPT ![i] = "failed"]
           /\ Outcome(i).event = (IF phase[i] = "settle" THEN "settled" ELSE "rejected")
           /\ Outcome(i).app = i
           /\ (UNCHANGED faults \/ Fault)
<1>1. Outcome(i).event \in {"settled", "rejected"} /\ Outcome(i).app = i
      /\ Outcome(i).event = (IF phase[i] = "settle" THEN "settled" ELSE "rejected")
  BY DEF Outcome, Event
<1>2. Outcome(i) \in Messages
  BY EventIs DEF Outcome
<1>3. /\ \/ queue' = Routed(queue, Outcome(i)) /\ Record(Outcome(i))
         \/ /\ UNCHANGED <<queue, audit, lostConfirms>>
            /\ phase' = [phase EXCEPT ![i] = "failed"]
      /\ UNCHANGED dead
      /\ UNCHANGED faults \/ Fault
  BY DEF Conclude, Outcome
<1> DEFINE e == Outcome(i)
<1>4. Routed(queue, e) = queue
  <2>1. e.event \notin {"submitted", "accepted", "issued"} BY <1>1
  <2> HIDE DEF e
  <2>2. QED BY <2>1, RoutedNowhere
<1>5. QED BY <1>1, <1>2, <1>3, <1>4

LEMMA NotePolicyDoes ==
    ASSUME TypeInv, NotePolicy
    PROVE  \E m \in DOMAIN queue["claims"] : Turn("claims", m, m, {}) /\ UNCHANGED <<audit, faults>>
<1>1. "claims" \in Queues BY DEF Queues
<1>2. PICK m \in DOMAIN queue["claims"] : Accept(queue, "claims", m)
  BY DEF NotePolicy, BagToSet
<1>3. UNCHANGED <<audit, faults>> BY DEF NotePolicy
<1>4. QED BY <1>1, <1>2, <1>3, PlainTurn
-----------------------------------------------------------------------------
\* Type correctness.
LEMMA StayingSort ==
    ASSUME TypeInv, NEW r \in Queues, NEW n, Stays(r, n)
    PROVE  n \in Sort(Holding[r])
<1>1. PICK m \in DOMAIN queue[r] : n = m \/ Again(n, m)
  BY DEF Stays
<1>2. m \in Sort(Holding[r])
  BY DEF TypeInv, BrokerType
<1>3. QED BY <1>1, <1>2, AgainIs DEF Sort

LEMMA TurnTypes ==
    ASSUME TypeInv, NEW q, NEW m, NEW e, NEW R, Turn(q, m, e, R),
           \A r \in Queues : r \in R => e \in Sort(Holding[r]),
           UNCHANGED audit \/ \E f \in Messages : Record(f)
    PROVE  BrokerType'
<1>1. \A r \in Queues : \A n \in DOMAIN queue'[r] : n \in Sort(Holding[r])
  BY StayingSort DEF Turn
<1>2. audit' \in Bags
  <2>1. audit \in Bags BY DEF TypeInv, BrokerType
  <2>2. QED BY <2>1, RecordDoes
<1>3. queue' \in [Queues -> Bags] /\ dead' \in Bags /\ faults' \in Nat
  BY DEF Turn, TypeInv, BrokerType
<1>4. QED BY <1>1, <1>2, <1>3 DEF BrokerType

LEMMA QuietTypes ==
    ASSUME TypeInv, Quiet, UNCHANGED audit \/ \E f \in Messages : Record(f)
    PROVE  BrokerType'
  BY TurnTypes DEF Quiet

\* A message that is charged stays where it is while others have their turn.
LEMMA TurnWaits ==
    ASSUME TypeInv, NEW q, NEW m, NEW e, NEW R, Turn(q, m, e, R), q # "billing",
           UNCHANGED charging
    PROVE  ChargedWaits'
<1>1. "billing" \in Queues BY DEF Queues
<1>2. QED BY <1>1 DEF Turn, TypeInv, ChargedWaits

LEMMA StillTypes ==
    ASSUME TypeInv, UNCHANGED <<queue, dead>>, UNCHANGED faults \/ Fault,
           UNCHANGED audit \/ \E f \in Messages : Record(f)
    PROVE  BrokerType' /\ (UNCHANGED charging => ChargedWaits')
<1>1. BrokerType' BY StillIsQuiet, QuietTypes
<1>2. UNCHANGED charging => ChargedWaits' BY DEF ChargedWaits, TypeInv
<1>3. QED BY <1>1, <1>2

LEMMA UnderwritingTypes ==
    ASSUME TypeInv, UnderwritingStep
    PROVE  TypeInv'
<1>1. PoliciesType' /\ BillingType' /\ ClaimsType' /\ DocumentsType' /\ UNCHANGED charging
  <2>1. UNCHANGED underwritingRest BY DEF UnderwritingStep
  <2>2. PoliciesType' BY <2>1 DEF TypeInv, PoliciesType, underwritingRest, policiesVars
  <2>3. BillingType' BY <2>1 DEF TypeInv, BillingType, underwritingRest, billingVars
  <2>4. ClaimsType' BY <2>1 DEF TypeInv, ClaimsType, underwritingRest, claimsVars
  <2>5. DocumentsType' BY <2>1 DEF TypeInv, DocumentsType, underwritingRest, documentVars
  <2>6. QED BY <2>1, <2>2, <2>3, <2>4, <2>5 DEF underwritingRest, billingVars
<1>2. ASSUME NEW q \in DOMAIN Following, Forward(q) PROVE TypeInv'
  <2>1. PICK m \in DOMAIN queue[q], R \in {{}, {Following[q]}} : Turn(q, m, Produce(q, m), R)
    BY <1>2, ForwardDoes
  <2>2. UNCHANGED <<audit, underwritingVars>> BY <1>2, ForwardDoes
  <2>3. q \in Queues /\ q # "billing" /\ Holding[q] = "submitted"
        /\ Holding[Following[q]] = "submitted"
    BY DEF Following, Queues, Stages, Holding
  <2>4. Produce(q, m) \in Sort("submitted")
    <3>1. m \in Sort("submitted") BY <2>3 DEF TypeInv, BrokerType
    <3>2. QED BY <3>1, ProductIs
  <2>5. BrokerType'
    <3> DEFINE e == Produce(q, m)
    <3>1. \A r \in Queues : r \in R => e \in Sort(Holding[r]) BY <2>3, <2>4
    <3> HIDE DEF e
    <3>2. QED BY <2>1, <2>2, <3>1, TurnTypes DEF e
  <2>6. ChargedWaits' BY <1>1, <2>1, <2>3, TurnWaits
  <2>7. UnderwritingType' BY <2>2 DEF underwritingVars, UnderwritingType, TypeInv
  <2>8. QED BY <1>1, <2>5, <2>6, <2>7 DEF TypeInv
<1>3. ASSUME Decide PROVE TypeInv'
  <2>1. PICK m \in DOMAIN queue["decide"] :
              /\ m \in Sort("submitted") /\ Decision(m) \in Messages
              /\ \/ /\ Turn("decide", m, Decision(m), BoundQueues(Decision(m)))
                    /\ Record(Decision(m)) /\ (Count(m) \/ UNCHANGED underwritingVars)
                 \/ /\ Turn("decide", m, Decision(m), {})
                    /\ UNCHANGED <<audit, underwritingVars>>
    BY <1>3, DecideDoes
  <2>2. \A r \in Queues : r \in BoundQueues(Decision(m)) => Decision(m) \in Sort(Holding[r])
    <3>1. m.app \in Applications /\ m.premium \in Premiums BY <2>1 DEF Sort, Messages
    <3>2. \/ Decision(m).event = "declined"
          \/ Decision(m).event = "accepted" /\ Decision(m) \in Sort("accepted")
      BY <3>1, EventIs DEF Decision, Event
    <3>3. \/ BoundQueues(Decision(m)) = {}
          \/ BoundQueues(Decision(m)) = {"policies"} /\ Decision(m) \in Sort("accepted")
      <4> DEFINE e == Decision(m)
      <4>1. \/ e.event = "declined"
            \/ e.event = "accepted" /\ e \in Sort("accepted")
        BY <3>2
      <4> HIDE DEF e
      <4>2. \/ BoundQueues(e) = {}
            \/ BoundQueues(e) = {"policies"} /\ e \in Sort("accepted")
        BY <4>1, BoundQueuesAre
      <4>3. QED BY <4>2 DEF e
    <3>4. Holding["policies"] = "accepted" BY DEF Holding
    <3>5. QED BY <3>3, <3>4
  <2> DEFINE e == Decision(m)
  <2>3. \A r \in Queues : r \in BoundQueues(e) => e \in Sort(Holding[r]) BY <2>2
  <2>4. /\ e \in Messages
        /\ \/ /\ Turn("decide", m, e, BoundQueues(e))
              /\ Record(e) /\ (Count(m) \/ UNCHANGED underwritingVars)
           \/ /\ Turn("decide", m, e, {})
              /\ UNCHANGED <<audit, underwritingVars>>
    BY <2>1
  <2> HIDE DEF e
  <2>5. BrokerType' BY <2>3, <2>4, TurnTypes
  <2>6. ChargedWaits' BY <1>1, <2>4, TurnWaits
  <2>7. UnderwritingType' BY <2>4 DEF Count, underwritingVars, UnderwritingType, TypeInv
  <2>8. QED BY <1>1, <2>5, <2>6, <2>7 DEF TypeInv
<1>4. QED BY <1>2, <1>3 DEF UnderwritingStep

LEMMA PoliciesTypes ==
    ASSUME TypeInv, PoliciesStep
    PROVE  TypeInv'
<1>1. UnderwritingType' /\ BillingType' /\ ClaimsType' /\ DocumentsType' /\ UNCHANGED charging
  <2>1. UNCHANGED policiesRest BY DEF PoliciesStep
  <2>2. UnderwritingType' BY <2>1 DEF TypeInv, UnderwritingType, policiesRest, underwritingVars
  <2>3. BillingType' BY <2>1 DEF TypeInv, BillingType, policiesRest, billingVars
  <2>4. ClaimsType' BY <2>1 DEF TypeInv, ClaimsType, policiesRest, claimsVars
  <2>5. DocumentsType' BY <2>1 DEF TypeInv, DocumentsType, policiesRest, documentVars
  <2>6. QED BY <2>1, <2>2, <2>3, <2>4, <2>5 DEF policiesRest, billingVars
<1>2. ASSUME NEW a \in Applications, Submit(a) PROVE TypeInv'
  <2>1. UNCHANGED <<queue, dead, faults, audit>> BY <1>2 DEF Submit, brokerVars
  <2>2. BrokerType' /\ ChargedWaits' BY <1>1, <2>1, StillTypes
  <2>3. PoliciesType' BY <1>2 DEF Submit, TypeInv, PoliciesType
  <2>4. QED BY <1>1, <2>2, <2>3 DEF TypeInv
<1>3. ASSUME Issue PROVE TypeInv'
  <2>1. PICK m \in DOMAIN queue["policies"] :
              /\ m \in Sort("accepted") /\ Turn("policies", m, m, {})
              /\ UNCHANGED <<audit, applications, confirmed>>
              /\ \/ /\ \E p \in PolicyIds \ Ids : WritePolicy(m, p)
                    /\ issued' \in {issued, issued + 1}
                 \/ faults' = faults + 1 /\ UNCHANGED <<policies, outbox, issued>>
    BY <1>3, IssueDoes
  <2>2. BrokerType' /\ ChargedWaits' BY <1>1, <2>1, TurnTypes, TurnWaits
  <2>3. PoliciesType'
    <3>1. CASE UNCHANGED <<policies, outbox, issued>>
      BY <2>1, <3>1 DEF TypeInv, PoliciesType
    <3>2. CASE /\ \E p \in PolicyIds \ Ids : WritePolicy(m, p)
               /\ issued' \in {issued, issued + 1}
      <4>1. PICK p \in PolicyIds \ Ids : WritePolicy(m, p) BY <3>2
      <4>2. m.app \in Applications /\ m.premium \in Premiums BY <2>1 DEF Sort, Messages
      <4>3. Event("issued", m.app, {p}, m.premium) \in Sort("issued") BY <4>2, EventIs
      <4>4. /\ policies' = policies \cup {[id |-> p, app |-> m.app, premium |-> m.premium]}
            /\ outbox' = outbox \cup {Event("issued", m.app, {p}, m.premium)}
        BY <4>1 DEF WritePolicy
      <4>5. IsFiniteSet(policies') BY <4>4, FS_AddElement DEF TypeInv, PoliciesType
      <4>6. policies' \subseteq [id : PolicyIds, app : Applications, premium : Premiums]
        BY <4>2, <4>4 DEF TypeInv, PoliciesType
      <4>7. QED BY <2>1, <3>2, <4>3, <4>4, <4>5, <4>6 DEF TypeInv, PoliciesType
    <3>3. QED BY <2>1, <3>1, <3>2
  <2>4. QED BY <1>1, <2>2, <2>3 DEF TypeInv
<1>4. ASSUME RelaySend PROVE TypeInv'
  <2>1. PICK r \in outbox :
              /\ r \in Messages /\ Record(r) /\ confirmed = {}
              /\ Turn("none", r, r, BoundQueues(r))
              /\ \/ confirmed' = {r} /\ UNCHANGED faults
                 \/ faults' = faults + 1 /\ UNCHANGED confirmed
    BY <1>4, RelaySendDoes
  <2>2. \A q \in Queues : q \in BoundQueues(r) => r \in Sort(Holding[q])
    <3>1. r \in Sort("submitted") \cup Sort("issued") BY OutboxHas
    <3>2. /\ r.event = "submitted" => BoundQueues(r) = {"underwriting"}
          /\ r.event = "issued" => BoundQueues(r) = {"billing", "claims"}
      BY BoundQueuesAre
    <3>3. Holding["underwriting"] = "submitted" /\ Holding["billing"] = "issued"
          /\ Holding["claims"] = "issued"
      BY DEF Holding
    <3>4. CASE r \in Sort("submitted")
      <4>1. r.event = "submitted" BY <3>4 DEF Sort
      <4>2. QED BY <3>2, <3>3, <3>4, <4>1
    <3>5. CASE r \in Sort("issued")
      <4>1. r.event = "issued" BY <3>5 DEF Sort
      <4>2. QED BY <3>2, <3>3, <3>5, <4>1
    <3>6. QED BY <3>1, <3>4, <3>5
  <2>3. BrokerType' /\ ChargedWaits' BY <1>1, <2>1, <2>2, TurnTypes, TurnWaits
  <2>4. PoliciesType' BY <1>4, <2>1 DEF RelaySend, TypeInv, PoliciesType
  <2>5. QED BY <1>1, <2>3, <2>4 DEF TypeInv
<1>5. ASSUME RelayDelete PROVE TypeInv'
  <2>1. UNCHANGED <<queue, dead, faults, audit>> BY <1>5 DEF RelayDelete, brokerVars
  <2>2. BrokerType' /\ ChargedWaits' BY <1>1, <2>1, StillTypes
  <2>3. PoliciesType' BY <1>5 DEF RelayDelete, TypeInv, PoliciesType
  <2>4. QED BY <1>1, <2>2, <2>3 DEF TypeInv
<1>6. QED BY <1>2, <1>3, <1>4, <1>5 DEF PoliciesStep

LEMMA BillingTypes ==
    ASSUME TypeInv, BillingStep
    PROVE  TypeInv'
<1>1. UnderwritingType' /\ PoliciesType' /\ ClaimsType' /\ DocumentsType'
  <2>1. UNCHANGED billingRest BY DEF BillingStep
  <2>2. UnderwritingType' BY <2>1 DEF TypeInv, UnderwritingType, billingRest, underwritingVars
  <2>3. PoliciesType' BY <2>1 DEF TypeInv, PoliciesType, billingRest, policiesVars
  <2>4. ClaimsType' BY <2>1 DEF TypeInv, ClaimsType, billingRest, claimsVars
  <2>5. DocumentsType' BY <2>1 DEF TypeInv, DocumentsType, billingRest, documentVars
  <2>6. QED BY <2>2, <2>3, <2>4, <2>5
<1>2. Quiet /\ ChargedWaits' /\ BillingType' /\ (UNCHANGED audit \/ \E f \in Messages : Record(f))
  <2>1. CASE Claim BY <2>1, ClaimDoes
  <2>2. CASE Charge
    <3>1. Quiet /\ ChargedWaits' /\ BillingType' BY <2>2, ChargeDoes
    <3>2. PICK c \in charging : LET m == c.msg
                                      e == Event("charged", m.app, m.pol, m.premium) IN
             m \in Sort("issued") /\ (UNCHANGED audit \/ Record(e))
      BY <2>2, ChargeDoes
    <3>3. UNCHANGED audit \/ \E f \in Messages : Record(f) BY <3>2, IssuedIs
    <3>4. QED BY <3>1, <3>3
  <2>3. CASE Confirm BY <2>3, ConfirmDoes
  <2>4. CASE \E p \in PolicyIds : Expire(p) BY <2>4, ExpireDoes
  <2>5. QED BY <2>1, <2>2, <2>3, <2>4 DEF BillingStep
<1>3. BrokerType' BY <1>2, QuietTypes
<1>4. QED BY <1>1, <1>2, <1>3 DEF TypeInv

LEMMA ClaimsTypes ==
    ASSUME TypeInv, ClaimsStep
    PROVE  TypeInv'
<1>1. UnderwritingType' /\ PoliciesType' /\ BillingType' /\ DocumentsType' /\ UNCHANGED charging
  <2>1. UNCHANGED claimsRest BY DEF ClaimsStep
  <2>2. UnderwritingType' BY <2>1 DEF TypeInv, UnderwritingType, claimsRest, underwritingVars
  <2>3. PoliciesType' BY <2>1 DEF TypeInv, PoliciesType, claimsRest, policiesVars
  <2>4. BillingType' BY <2>1 DEF TypeInv, BillingType, claimsRest, billingVars
  <2>5. DocumentsType' BY <2>1 DEF TypeInv, DocumentsType, claimsRest, documentVars
  <2>6. QED BY <2>1, <2>2, <2>3, <2>4, <2>5 DEF claimsRest, billingVars
<1>2. ASSUME NotePolicy PROVE TypeInv'
  <2>1. PICK m \in DOMAIN queue["claims"] : Turn("claims", m, m, {}) /\ UNCHANGED <<audit, faults>>
    BY <1>2, NotePolicyDoes
  <2>2. BrokerType' /\ ChargedWaits' BY <1>1, <2>1, TurnTypes, TurnWaits
  <2>3. ClaimsType' BY <1>2 DEF NotePolicy, claimsVars, TypeInv, ClaimsType
  <2>4. QED BY <1>1, <2>2, <2>3 DEF TypeInv
<1>3. ASSUME NEW i \in Losses, Ask(i, Ids) PROVE TypeInv'
  <2>1. UNCHANGED <<queue, dead, faults, audit>> BY <1>3 DEF Ask, brokerVars
  <2>2. BrokerType' /\ ChargedWaits' BY <1>1, <2>1, StillTypes
  <2>3. call' = [call EXCEPT ![i] = @ + 1] /\ call'[i] = call[i] + 1 /\ call[i] \in Nat
    BY <1>3 DEF Ask, TypeInv, ClaimsType
  <2>4. call' \in [Losses -> Nat] BY <2>3 DEF TypeInv, ClaimsType
  <2>5. lookups' \subseteq Losses \X Nat BY <1>3, <2>3 DEF Ask, TypeInv, ClaimsType
  <2>6. phase' \in [Losses -> {"new", "asked", "settle", "reject", "failed", "done"}]
    BY <1>3 DEF Ask, TypeInv, ClaimsType
  <2>7. ClaimsType' BY <1>3, <2>4, <2>5, <2>6 DEF Ask, TypeInv, ClaimsType
  <2>8. QED BY <1>1, <2>2, <2>7 DEF TypeInv
<1>4. ASSUME NEW i \in Losses, TimeOut(i) PROVE TypeInv'
  <2>1. UNCHANGED <<queue, dead, audit>> /\ Fault BY <1>4 DEF TimeOut, brokerVars
  <2>2. BrokerType' /\ ChargedWaits' BY <1>1, <2>1, StillTypes
  <2>3. ClaimsType' BY <1>4 DEF TimeOut, TypeInv, ClaimsType
  <2>4. QED BY <1>1, <2>2, <2>3 DEF TypeInv
<1>5. ASSUME NEW i \in Losses, Conclude(i) PROVE TypeInv'
  <2>1. BrokerType' /\ ChargedWaits'
    <3> DEFINE e == Outcome(i)
    <3>1. UNCHANGED <<queue, dead>> /\ (UNCHANGED faults \/ Fault) /\ e \in Messages
          /\ (Record(e) \/ UNCHANGED audit)
      BY <1>5, ConcludeDoes
    <3> HIDE DEF e
    <3>2. QED BY <1>1, <3>1, StillTypes
  <2>2. ClaimsType'
    <3>1. settled' \in Nat /\ rejected' \in Nat /\ lostConfirms' \in Nat
      BY <1>5 DEF Conclude, TypeInv, ClaimsType
    <3>2. phase' \in [Losses -> {"new", "asked", "settle", "reject", "failed", "done"}]
      BY <1>5 DEF Conclude, TypeInv, ClaimsType
    <3>3. QED BY <1>5, <3>1, <3>2 DEF Conclude, TypeInv, ClaimsType
  <2>3. QED BY <1>1, <2>1, <2>2 DEF TypeInv
<1>6. ASSUME Answer(Ids) PROVE TypeInv'
  <2>1. UNCHANGED <<queue, dead, faults, audit>> BY <1>6 DEF Answer, brokerVars
  <2>2. BrokerType' /\ ChargedWaits' BY <1>1, <2>1, StillTypes
  <2>3. PICK q \in lookups :
          /\ lookups' = lookups \ {q}
          /\ replies' = replies \cup {<<q[1], q[2], PolicyOfLoss[q[1]] \in Ids>>}
    BY <1>6 DEF Answer
  <2>4. q[1] \in Losses /\ q[2] \in Nat /\ (PolicyOfLoss[q[1]] \in Ids) \in BOOLEAN
    BY DEF TypeInv, ClaimsType
  <2>5. replies' \subseteq Losses \X Nat \X BOOLEAN
    <3> DEFINE b == PolicyOfLoss[q[1]] \in Ids
    <3>1. replies' = replies \cup {<<q[1], q[2], b>>} /\ b \in BOOLEAN BY <2>3, <2>4
    <3> HIDE DEF b
    <3>2. <<q[1], q[2], b>> \in Losses \X Nat \X BOOLEAN BY <2>4, <3>1
    <3>3. QED BY <3>1, <3>2 DEF TypeInv, ClaimsType
  <2>6. ClaimsType' BY <1>6, <2>3, <2>5 DEF Answer, TypeInv, ClaimsType
  <2>7. QED BY <1>1, <2>2, <2>6 DEF TypeInv
<1>7. ASSUME NEW r \in replies, Hear(r) PROVE TypeInv'
  <2>1. UNCHANGED <<queue, dead, faults, audit>> BY <1>7 DEF Hear, brokerVars
  <2>2. BrokerType' /\ ChargedWaits' BY <1>1, <2>1, StillTypes
  <2>3. phase' \in [Losses -> {"new", "asked", "settle", "reject", "failed", "done"}]
    BY <1>7 DEF Hear, TypeInv, ClaimsType
  <2>4. ClaimsType' BY <1>7, <2>3 DEF Hear, TypeInv, ClaimsType
  <2>5. QED BY <1>1, <2>2, <2>4 DEF TypeInv
<1>8. QED BY <1>2, <1>3, <1>4, <1>5, <1>6, <1>7 DEF ClaimsStep

LEMMA DocumentsTypes ==
    ASSUME TypeInv, DocumentsStep
    PROVE  TypeInv'
<1>1. UnderwritingType' /\ PoliciesType' /\ BillingType' /\ ClaimsType' /\ UNCHANGED charging
  <2>1. UNCHANGED documentsRest BY DEF DocumentsStep
  <2>2. UnderwritingType' BY <2>1 DEF TypeInv, UnderwritingType, documentsRest, underwritingVars
  <2>3. PoliciesType' BY <2>1 DEF TypeInv, PoliciesType, documentsRest, policiesVars
  <2>4. BillingType' BY <2>1 DEF TypeInv, BillingType, documentsRest, billingVars
  <2>5. ClaimsType' BY <2>1 DEF TypeInv, ClaimsType, documentsRest, claimsVars
  <2>6. QED BY <2>1, <2>2, <2>3, <2>4, <2>5 DEF documentsRest, billingVars
<1>2. ASSUME NEW d \in Documents, Keep(d) PROVE TypeInv'
  <2>1. UNCHANGED <<queue, dead, faults, audit>> BY <1>2 DEF Keep, brokerVars
  <2>2. BrokerType' /\ ChargedWaits' BY <1>1, <2>1, StillTypes
  <2>3. DocumentsType' BY <1>2 DEF Keep, TypeInv, DocumentsType
  <2>4. QED BY <1>1, <2>2, <2>3 DEF TypeInv
<1>3. ASSUME NEW d \in Documents, Announce(d) PROVE TypeInv'
  <2> DEFINE e == Event("stored", d, {}, 0)
  <2>1. UNCHANGED <<queue, dead>> /\ (UNCHANGED faults \/ Fault) /\ (UNCHANGED audit \/ Record(e))
    BY <1>3 DEF Announce
  <2>2. e \in Messages BY EventIs
  <2> HIDE DEF e
  <2>3. BrokerType' /\ ChargedWaits' BY <1>1, <2>1, <2>2, StillTypes
  <2>4. DocumentsType' BY <1>3 DEF Announce, TypeInv, DocumentsType
  <2>5. QED BY <1>1, <2>3, <2>4 DEF TypeInv
<1>4. QED BY <1>2, <1>3 DEF DocumentsStep

LEMMA RestartTypes ==
    ASSUME TypeInv, Restart
    PROVE  TypeInv'
<1>1. UNCHANGED <<queue, dead, audit>> /\ Fault BY DEF Restart, brokerVars
<1>2. BrokerType' BY <1>1, StillTypes
<1>3. ChargedWaits' BY DEF Restart, ChargedWaits
<1>4. UnderwritingType' BY DEF Restart, UnderwritingType
<1>5. PoliciesType' BY DEF Restart, TypeInv, PoliciesType
<1>6. BillingType' BY DEF Restart, TypeInv, BillingType
<1>7. ClaimsType'
  <2>1. phase' \in [Losses -> {"new", "asked", "settle", "reject", "failed", "done"}]
    BY DEF Restart, TypeInv, ClaimsType
  <2>2. QED BY <2>1 DEF Restart, TypeInv, ClaimsType
<1>8. DocumentsType' BY DEF Restart, TypeInv, DocumentsType
<1>9. QED BY <1>2, <1>3, <1>4, <1>5, <1>6, <1>7, <1>8 DEF TypeInv

LEMMA StutterTypes == ASSUME TypeInv, UNCHANGED vars PROVE TypeInv'
<1>1. UNCHANGED <<queue, dead, audit, faults>> BY DEF vars, brokerVars
<1>2. BrokerType' BY <1>1 DEF TypeInv, BrokerType
<1>3. UnderwritingType' BY DEF vars, underwritingVars, TypeInv, UnderwritingType
<1>4. PoliciesType' BY DEF vars, policiesVars, TypeInv, PoliciesType
<1>5. BillingType' BY DEF vars, billingVars, TypeInv, BillingType
<1>6. ChargedWaits' BY <1>1 DEF vars, billingVars, TypeInv, ChargedWaits
<1>7. ClaimsType' BY DEF vars, claimsVars, TypeInv, ClaimsType
<1>8. DocumentsType' BY DEF vars, documentVars, TypeInv, DocumentsType
<1>9. QED BY <1>2, <1>3, <1>4, <1>5, <1>6, <1>7, <1>8 DEF TypeInv

LEMMA TypesKept == TypeInv /\ [Next]_vars => TypeInv'
  BY UnderwritingTypes, PoliciesTypes, BillingTypes, ClaimsTypes, DocumentsTypes,
     RestartTypes, StutterTypes DEF Next

LEMMA TypesAtFirst == Init => TypeInv
<1> SUFFICES ASSUME Init PROVE TypeInv
  OBVIOUS
<1>1. EmptyBag \in Bags /\ DOMAIN EmptyBag = {}
  <2>1. EmptyBag = [e \in {} |-> 1] BY DEF EmptyBag, SetToBag
  <2>2. DOMAIN EmptyBag = {} /\ EmptyBag \in [{} -> Nat \ {0}] BY <2>1
  <2>3. QED BY <2>2, FS_EmptySet DEF Bags
<1>2. BrokerType BY <1>1 DEF Init, BrokerType
<1>3. UnderwritingType BY DEF Init, UnderwritingType
<1>4. PoliciesType BY FS_EmptySet DEF Init, PoliciesType
<1>5. BillingType /\ ChargedWaits BY DEF Init, BillingType, ChargedWaits
<1>6. ClaimsType BY DEF Init, ClaimsType
<1>7. DocumentsType BY DEF Init, DocumentsType
<1>8. QED BY <1>2, <1>3, <1>4, <1>5, <1>6, <1>7 DEF TypeInv

\* The variables keep their types.
THEOREM TypeCorrect == Spec => []TypeInv
<1>1. Init => TypeInv BY TypesAtFirst
<1>2. TypeInv /\ [Next]_vars => TypeInv' BY TypesKept
<1>3. QED BY <1>1, <1>2, PTL DEF Spec
-----------------------------------------------------------------------------
\* The audit trail, the policies and the keys of documents only ever grow.
Grown ==
    /\ DOMAIN audit \subseteq DOMAIN audit' /\ policies \subseteq policies'
    /\ store \cup forgotten \subseteq store' \cup forgotten'

LEMMA RecordGrows ==
    ASSUME TypeInv, UNCHANGED audit \/ \E e \in Messages : Record(e)
    PROVE  DOMAIN audit \subseteq DOMAIN audit'
<1>1. audit \in Bags BY DEF TypeInv, BrokerType
<1>2. QED BY <1>1, RecordDoes

LEMMA ToldStays ==
    ASSUME Grown, NEW k, NEW a, Told(k, a)
    PROVE  Told(k, a)'
  BY DEF Grown, Told

LEMMA OfPolicyStays ==
    ASSUME Grown, NEW m, OfPolicy(m)
    PROVE  OfPolicy(m)'
  BY DEF Grown, OfPolicy

LEMMA IsSoStays ==
    ASSUME Grown, NEW m, IsSo(m)
    PROVE  IsSo(m)'
<1>1. m.event \in {"issued", "charged"} => OfPolicy(m)'
  BY OfPolicyStays DEF IsSo
<1>2. m.event = "settled" => (PolicyOfLoss[m.app] \in Ids)'
  BY DEF IsSo, Ids, Grown
<1>3. m.event = "stored" => m.app \in store' \cup forgotten'
  BY DEF IsSo, Grown
<1>4. QED BY <1>1, <1>2, <1>3 DEF IsSo

LEMMA BackedStays ==
    ASSUME TypeInv, QueuesBacked, Grown, NEW r \in Queues, NEW n, Stays(r, n)
    PROVE  Backed(r, n)'
<1>1. PICK m \in DOMAIN queue[r] : n = m \/ Again(n, m)
  BY DEF Stays
<1>2. m \in Messages /\ Backed(r, m)
  BY DEF TypeInv, BrokerType, QueuesBacked, Sort
<1>3. n.app = m.app /\ n.pol = m.pol /\ n.premium = m.premium
  BY <1>1, <1>2, AgainIs
<1>4. Told(Holding[r], n.app)'
  BY <1>2, <1>3, ToldStays DEF Backed
<1>5. r = "billing" => OfPolicy(n)'
  <2>1. r = "billing" => OfPolicy(n) BY <1>2, <1>3 DEF Backed, OfPolicy
  <2>2. QED BY <2>1, OfPolicyStays
<1>6. QED BY <1>2, <1>3, <1>4, <1>5 DEF Backed

\* What a turn has to say for itself: that what it put into a queue is backed,
LEMMA QueuesStayBacked ==
    ASSUME TypeInv, QueuesBacked, Grown, NEW q, NEW m, NEW e, NEW R, Turn(q, m, e, R),
           \A r \in Queues : r \in R => Backed(r, e)'
    PROVE  QueuesBacked'
  BY BackedStays DEF Turn, QueuesBacked

LEMMA QuietStaysBacked ==
    ASSUME TypeInv, QueuesBacked, Grown, Quiet
    PROVE  QueuesBacked'
  BY QueuesStayBacked DEF Quiet

\* that what it recorded is so,
LEMMA TrailStaysSo ==
    ASSUME TypeInv, TrailIsSo, Grown,
           UNCHANGED audit \/ \E e \in Messages : Record(e) /\ IsSo(e)'
    PROVE  TrailIsSo'
<1>1. audit \in Bags BY DEF TypeInv, BrokerType
<1>2. CASE UNCHANGED audit BY <1>2, IsSoStays DEF TrailIsSo
<1>3. ASSUME NEW e \in Messages, Record(e), IsSo(e)' PROVE TrailIsSo'
  <2>1. DOMAIN audit' = DOMAIN audit \cup {e} BY <1>1, <1>3, RecordDoes
  <2>2. QED BY <1>3, <2>1, IsSoStays DEF TrailIsSo
<1>4. QED BY <1>2, <1>3

\* and that what it added to the tables is backed too.
LEMMA TablesStay ==
    ASSUME MessageInv, Grown
    PROVE  /\ outbox' \subseteq outbox => OutboxOfPolicies'
           /\ UNCHANGED policies => PoliciesAccepted'
<1>1. outbox' \subseteq outbox => OutboxOfPolicies'
  BY OfPolicyStays DEF MessageInv, OutboxOfPolicies
<1>2. UNCHANGED policies => PoliciesAccepted'
  BY ToldStays DEF MessageInv, PoliciesAccepted
<1>3. QED BY <1>1, <1>2
-----------------------------------------------------------------------------
\* Messages rely on what is so.
LEMMA UnderwritingMessages ==
    ASSUME TypeInv, MessageInv, UnderwritingStep
    PROVE  MessageInv'
<1>1. UNCHANGED <<outbox, policies, announcing, store, forgotten>>
  BY DEF UnderwritingStep, underwritingRest, policiesVars, documentVars
<1>2. ASSUME NEW q \in DOMAIN Following, Forward(q) PROVE MessageInv'
  <2>1. PICK m \in DOMAIN queue[q], R \in {{}, {Following[q]}} : Turn(q, m, Produce(q, m), R)
    BY <1>2, ForwardDoes
  <2>2. UNCHANGED audit BY <1>2, ForwardDoes
  <2>3. Grown BY <1>1, <2>2 DEF Grown
  <2>4. /\ q \in Queues /\ Holding[q] = "submitted" /\ Holding[Following[q]] = "submitted"
        /\ Following[q] \in {"register", "price", "decide"}
    BY DEF Following, Queues, Stages, Holding
  <2>5. m \in Sort("submitted") /\ Backed(q, m)
    BY <2>4 DEF TypeInv, BrokerType, MessageInv, QueuesBacked
  <2>6. /\ Produce(q, m).app = m.app
        /\ Following[q] = "decide" => Produce(q, m).premium = Premium(m.app)
    BY <2>5, ProductIs
  <2> DEFINE e == Produce(q, m)
  <2>7. Backed(Following[q], e)
    BY <2>4, <2>5, <2>6 DEF Backed
  <2>8. \A r \in Queues : r \in R => Backed(r, e)'
    <3>1. Told(Holding[Following[q]], e.app)' BY <2>3, <2>7, ToldStays DEF Backed
    <3>2. Backed(Following[q], e)' BY <2>4, <2>7, <3>1 DEF Backed
    <3>3. QED BY <3>2
  <2>9. Turn(q, m, e, R) BY <2>1
  <2> HIDE DEF e
  <2>10. QueuesBacked' BY <2>3, <2>8, <2>9, QueuesStayBacked DEF MessageInv
  <2>11. TrailIsSo' BY <2>2, <2>3, TrailStaysSo DEF MessageInv
  <2>12. QED BY <1>1, <2>3, <2>10, <2>11, TablesStay DEF MessageInv
<1>3. ASSUME Decide PROVE MessageInv'
  <2>1. PICK m \in DOMAIN queue["decide"] :
              /\ m \in Sort("submitted") /\ Decision(m) \in Messages
              /\ \/ /\ Turn("decide", m, Decision(m), BoundQueues(Decision(m)))
                    /\ Record(Decision(m))
                 \/ /\ Turn("decide", m, Decision(m), {})
                    /\ UNCHANGED audit
    BY <1>3, DecideDoes
  <2>2. Backed("decide", m)
    <3>1. "decide" \in Queues BY DEF Queues, Stages
    <3>2. QED BY <3>1 DEF MessageInv, QueuesBacked
  <2> DEFINE e == Decision(m)
  <2>3. m.app \in Applications /\ e.app = m.app
    BY <2>1 DEF Sort, Decision, Event
  <2>4. \/ e.event = "declined" /\ Refer(m.app)
        \/ e.event = "accepted" /\ ~Refer(m.app) /\ e.premium = Premium(m.app)
    <3>1. m.premium = Premium(m.app) BY <2>2 DEF Backed
    <3>2. QED BY <3>1 DEF Decision, Event
  <2>5. /\ e \in Messages
        /\ \/ Turn("decide", m, e, BoundQueues(e)) /\ Record(e)
           \/ Turn("decide", m, e, {}) /\ UNCHANGED audit
    BY <2>1
  <2> HIDE DEF e
  <2>6. Grown BY <1>1, <2>5, RecordGrows DEF Grown
  <2>7. IsSo(e)' BY <2>3, <2>4 DEF IsSo
  <2>8. Record(e) => \A r \in Queues : r \in BoundQueues(e) => Backed(r, e)'
    <3> SUFFICES ASSUME Record(e), NEW r \in Queues, r \in BoundQueues(e)
                 PROVE  Backed(r, e)'
      OBVIOUS
    <3>1. e.event = "accepted" /\ r = "policies"
      BY <2>4, BoundQueuesAre
    <3>2. e \in DOMAIN audit'
      <4>1. audit \in Bags BY DEF TypeInv, BrokerType
      <4>2. DOMAIN audit' = DOMAIN audit \cup {e} BY <2>5, <4>1, RecordDoes
      <4>3. QED BY <4>2
    <3>3. Holding["policies"] = "accepted" BY DEF Holding
    <3>4. QED BY <2>3, <2>4, <3>1, <3>2, <3>3 DEF Backed, Told
  <2>9. QueuesBacked' BY <2>5, <2>6, <2>8, QueuesStayBacked DEF MessageInv
  <2>10. TrailIsSo' BY <2>5, <2>6, <2>7, TrailStaysSo DEF MessageInv
  <2>11. QED BY <1>1, <2>6, <2>9, <2>10, TablesStay DEF MessageInv
<1>4. QED BY <1>2, <1>3 DEF UnderwritingStep

LEMMA PoliciesMessages ==
    ASSUME TypeInv, MessageInv, PoliciesStep
    PROVE  MessageInv'
<1>1. UNCHANGED <<announcing, store, forgotten>>
  BY DEF PoliciesStep, policiesRest, documentVars
<1>2. ASSUME NEW a \in Applications, Submit(a) PROVE MessageInv'
  <2>1. UNCHANGED <<queue, dead, faults, audit, policies>> BY <1>2 DEF Submit, brokerVars
  <2>2. Grown BY <1>1, <2>1 DEF Grown
  <2>3. QueuesBacked' BY <2>1, <2>2, StillIsQuiet, QuietStaysBacked DEF MessageInv
  <2>4. TrailIsSo' BY <2>1, <2>2, TrailStaysSo DEF MessageInv
  <2>5. OutboxOfPolicies'
    <3>1. outbox' = outbox \cup {Event("submitted", a, {}, 0)} BY <1>2 DEF Submit
    <3>2. Event("submitted", a, {}, 0).event = "submitted" BY DEF Event
    <3>3. QED BY <2>1, <3>1, <3>2 DEF MessageInv, OutboxOfPolicies, OfPolicy
  <2>6. QED BY <1>1, <2>1, <2>2, <2>3, <2>4, <2>5, TablesStay DEF MessageInv
<1>3. ASSUME Issue PROVE MessageInv'
  <2>1. PICK m \in DOMAIN queue["policies"] :
              /\ m \in Sort("accepted") /\ Turn("policies", m, m, {})
              /\ UNCHANGED <<audit, applications, confirmed>>
              /\ \/ /\ \E p \in PolicyIds \ Ids : WritePolicy(m, p)
                    /\ issued' \in {issued, issued + 1}
                 \/ faults' = faults + 1 /\ UNCHANGED <<policies, outbox, issued>>
    BY <1>3, IssueDoes
  <2>2. policies \subseteq policies' BY <2>1 DEF WritePolicy
  <2>3. Grown BY <1>1, <2>1, <2>2 DEF Grown
  <2>4. QueuesBacked' BY <2>1, <2>3, QueuesStayBacked DEF MessageInv
  <2>5. TrailIsSo' BY <2>1, <2>3, TrailStaysSo DEF MessageInv
  <2>6. OutboxOfPolicies' /\ PoliciesAccepted'
    <3>1. CASE UNCHANGED <<policies, outbox, issued>>
      BY <2>3, <3>1, TablesStay
    <3>2. CASE \E p \in PolicyIds \ Ids : WritePolicy(m, p)
      <4>1. PICK p \in PolicyIds \ Ids : WritePolicy(m, p) BY <3>2
      <4> DEFINE x == [id |-> p, app |-> m.app, premium |-> m.premium]
                 e == Event("issued", m.app, {p}, m.premium)
      <4>2. policies' = policies \cup {x} /\ outbox' = outbox \cup {e}
        BY <4>1 DEF WritePolicy
      <4>3. /\ e.pol = {x.id} /\ e.app = x.app /\ e.premium = x.premium
            /\ x.app = m.app /\ x.premium = m.premium
        BY DEF Event
      <4> HIDE DEF x, e
      <4>4. OfPolicy(e)' BY <4>2, <4>3 DEF OfPolicy
      <4>5. OutboxOfPolicies'
        BY <2>3, <4>2, <4>4, OfPolicyStays DEF MessageInv, OutboxOfPolicies
      <4>6. ~Refer(m.app) /\ m.premium = Premium(m.app) /\ Told("accepted", m.app)
        <5>1. "policies" \in Queues /\ Holding["policies"] = "accepted" BY DEF Queues, Holding
        <5>2. QED BY <5>1 DEF MessageInv, QueuesBacked, Backed
      <4>7. PoliciesAccepted'
        BY <2>3, <4>2, <4>3, <4>6, ToldStays DEF MessageInv, PoliciesAccepted
      <4>8. QED BY <4>5, <4>7
    <3>3. QED BY <2>1, <3>1, <3>2
  <2>7. QED BY <1>1, <2>4, <2>5, <2>6 DEF MessageInv
<1>4. ASSUME RelaySend PROVE MessageInv'
  <2>1. PICK r \in outbox :
              /\ r \in Messages /\ Record(r) /\ confirmed = {}
              /\ Turn("none", r, r, BoundQueues(r))
    BY <1>4, RelaySendDoes
  <2>2. UNCHANGED <<policies, outbox>> BY <1>4 DEF RelaySend
  <2>3. Grown BY <1>1, <2>1, <2>2, RecordGrows DEF Grown
  <2>4. r \in DOMAIN audit' BY <2>1, RecordDoes DEF TypeInv, BrokerType
  <2>5. r \in Sort("submitted") \cup Sort("issued") BY OutboxHas
  <2>6. \/ r.event = "submitted"
        \/ r.event = "issued" /\ OfPolicy(r)'
    <3>1. r.event = "issued" => OfPolicy(r) BY DEF MessageInv, OutboxOfPolicies
    <3>2. r.event = "issued" => OfPolicy(r)' BY <2>3, <3>1, OfPolicyStays
    <3>3. QED BY <2>5, <3>2 DEF Sort
  <2>7. IsSo(r)' BY <2>5, <2>6 DEF IsSo, Sort
  <2>8. \A q \in Queues : q \in BoundQueues(r) => Backed(q, r)'
    <3> SUFFICES ASSUME NEW q \in Queues, q \in BoundQueues(r) PROVE Backed(q, r)'
      OBVIOUS
    <3>1. \/ r.event = "submitted" /\ q = "underwriting"
          \/ r.event = "issued" /\ q \in {"billing", "claims"}
      BY <2>6, BoundQueuesAre
    <3>2. Holding[q] = r.event BY <3>1 DEF Holding
    <3>3. Told(Holding[q], r.app)' BY <2>4, <3>2 DEF Told
    <3>4. QED BY <2>6, <3>1, <3>3 DEF Backed
  <2>9. QueuesBacked' BY <2>1, <2>3, <2>8, QueuesStayBacked DEF MessageInv
  <2>10. TrailIsSo' BY <2>1, <2>3, <2>7, TrailStaysSo DEF MessageInv
  <2>11. QED BY <1>1, <2>2, <2>3, <2>9, <2>10, TablesStay DEF MessageInv
<1>5. ASSUME RelayDelete PROVE MessageInv'
  <2>1. UNCHANGED <<queue, dead, faults, audit, policies>> /\ outbox' \subseteq outbox
    BY <1>5 DEF RelayDelete, brokerVars
  <2>2. Grown BY <1>1, <2>1 DEF Grown
  <2>3. QueuesBacked' BY <2>1, <2>2, StillIsQuiet, QuietStaysBacked DEF MessageInv
  <2>4. TrailIsSo' BY <2>1, <2>2, TrailStaysSo DEF MessageInv
  <2>5. QED BY <1>1, <2>1, <2>2, <2>3, <2>4, TablesStay DEF MessageInv
<1>6. QED BY <1>2, <1>3, <1>4, <1>5 DEF PoliciesStep

LEMMA BillingMessages ==
    ASSUME TypeInv, MessageInv, BillingStep
    PROVE  MessageInv'
<1>1. UNCHANGED <<outbox, policies, announcing, store, forgotten>>
  BY DEF BillingStep, billingRest, policiesVars, documentVars
<1>2. Quiet
  BY ClaimDoes, ChargeDoes, ConfirmDoes, ExpireDoes DEF BillingStep
<1>3. UNCHANGED audit \/ \E e \in Messages : Record(e) /\ IsSo(e)
  <2>1. CASE Charge
    <3>1. PICK c \in charging : LET m == c.msg
                                      e == Event("charged", m.app, m.pol, m.premium) IN
             /\ m \in DOMAIN queue["billing"] /\ m \in Sort("issued")
             /\ UNCHANGED audit \/ Record(e)
      BY <2>1, ChargeDoes
    <3> DEFINE m == c.msg
               e == Event("charged", m.app, m.pol, m.premium)
    <3>2. m \in Sort("issued") /\ m \in DOMAIN queue["billing"] /\ (UNCHANGED audit \/ Record(e))
      BY <3>1
    <3> HIDE DEF m
    <3>3. /\ e \in Messages /\ e.event = "charged"
          /\ e.app = m.app /\ e.pol = m.pol /\ e.premium = m.premium
      BY <3>2, IssuedIs
    <3> HIDE DEF e
    <3>4. OfPolicy(m)
      <4>1. "billing" \in Queues BY DEF Queues
      <4>2. QED BY <3>2, <4>1 DEF MessageInv, QueuesBacked, Backed
    <3>5. m.app \in Applications BY <3>2 DEF Sort
    <3>6. IsSo(e) BY <3>3, <3>4, <3>5 DEF IsSo, OfPolicy
    <3>7. QED BY <3>2, <3>3, <3>6
  <2>2. QED BY <2>1, ClaimDoes, ConfirmDoes, ExpireDoes DEF BillingStep
<1>4. Grown BY <1>1, <1>3, RecordGrows DEF Grown
<1>5. QueuesBacked' BY <1>2, <1>4, QuietStaysBacked DEF MessageInv
<1>6. UNCHANGED audit \/ \E e \in Messages : Record(e) /\ IsSo(e)'
  BY <1>3, <1>4, IsSoStays
<1>7. TrailIsSo' BY <1>4, <1>6, TrailStaysSo DEF MessageInv
<1>8. QED BY <1>1, <1>4, <1>5, <1>7, TablesStay DEF MessageInv

LEMMA ClaimsMessages ==
    ASSUME TypeInv, MessageInv, AskInv, ClaimsStep
    PROVE  MessageInv'
<1>1. UNCHANGED <<outbox, policies, announcing, store, forgotten>>
  BY DEF ClaimsStep, claimsRest, policiesVars, documentVars
<1>2. Quiet /\ (UNCHANGED audit \/ \E e \in Messages : Record(e) /\ IsSo(e))
  <2>1. CASE NotePolicy BY <2>1, NotePolicyDoes DEF Quiet
  <2>2. ASSUME NEW i \in Losses, Conclude(i)
        PROVE  Quiet /\ (UNCHANGED audit \/ \E e \in Messages : Record(e) /\ IsSo(e))
    <3>1. Quiet BY <2>2, ConcludeDoes, StillIsQuiet
    <3>2. Outcome(i) \in Messages /\ (Record(Outcome(i)) \/ UNCHANGED audit)
      BY <2>2, ConcludeDoes
    <3>3. IsSo(Outcome(i))
      <4> DEFINE e == Outcome(i)
      <4>1. e.event = (IF phase[i] = "settle" THEN "settled" ELSE "rejected") /\ e.app = i
        BY <2>2, ConcludeDoes
      <4>2. phase[i] = "settle" => PolicyOfLoss[i] \in Ids BY DEF AskInv
      <4> HIDE DEF e
      <4>3. IsSo(e) BY <4>1, <4>2 DEF IsSo
      <4>4. QED BY <4>3 DEF e
    <3>4. QED BY <3>1, <3>2, <3>3
  <2>3. CASE \E i \in Losses : Ask(i, Ids) \/ TimeOut(i)
    <3>1. UNCHANGED <<queue, dead, audit>> /\ (UNCHANGED faults \/ Fault)
      BY <2>3 DEF Ask, TimeOut, brokerVars
    <3>2. QED BY <3>1, StillIsQuiet
  <2>4. CASE Answer(Ids) \/ \E r \in replies : Hear(r)
    <3>1. UNCHANGED <<queue, dead, audit, faults>> BY <2>4 DEF Answer, Hear, brokerVars
    <3>2. QED BY <3>1, StillIsQuiet
  <2>5. QED BY <2>1, <2>2, <2>3, <2>4 DEF ClaimsStep
<1>3. Grown BY <1>1, <1>2, RecordGrows DEF Grown
<1>4. QueuesBacked' BY <1>2, <1>3, QuietStaysBacked DEF MessageInv
<1>5. UNCHANGED audit \/ \E e \in Messages : Record(e) /\ IsSo(e)'
  BY <1>2, <1>3, IsSoStays
<1>6. TrailIsSo' BY <1>3, <1>5, TrailStaysSo DEF MessageInv
<1>7. QED BY <1>1, <1>3, <1>4, <1>6, TablesStay DEF MessageInv

LEMMA DocumentsMessages ==
    ASSUME TypeInv, MessageInv, DocumentsStep
    PROVE  MessageInv'
<1>1. UNCHANGED <<outbox, policies>>
  BY DEF DocumentsStep, documentsRest, policiesVars
<1>2. ASSUME NEW d \in Documents, Keep(d) PROVE MessageInv'
  <2>1. UNCHANGED <<queue, dead, faults, audit>> BY <1>2 DEF Keep, brokerVars
  <2>2. Grown BY <1>1, <1>2, <2>1 DEF Grown, Keep
  <2>3. QueuesBacked' BY <2>1, <2>2, StillIsQuiet, QuietStaysBacked DEF MessageInv
  <2>4. TrailIsSo' BY <2>1, <2>2, TrailStaysSo DEF MessageInv
  <2>5. announcing' \subseteq store' BY <1>2 DEF Keep, MessageInv
  <2>6. QED BY <1>1, <2>2, <2>3, <2>4, <2>5, TablesStay DEF MessageInv
<1>3. ASSUME NEW d \in Documents, Announce(d) PROVE MessageInv'
  <2> DEFINE e == Event("stored", d, {}, 0)
  <2>1. /\ UNCHANGED <<queue, dead, store, forgotten>> /\ (UNCHANGED faults \/ Fault)
        /\ UNCHANGED audit \/ Record(e)
    BY <1>3 DEF Announce
  <2>2. e \in Messages BY EventIs
  <2>3. IsSo(e)
    <3>1. e.event = "stored" /\ e.app = d BY DEF Event
    <3>2. d \in store BY <1>3 DEF Announce, MessageInv
    <3> HIDE DEF e
    <3>3. QED BY <3>1, <3>2 DEF IsSo
  <2> HIDE DEF e
  <2>4. Grown BY <1>1, <2>1, <2>2, RecordGrows DEF Grown
  <2>5. QueuesBacked' BY <2>1, <2>4, StillIsQuiet, QuietStaysBacked DEF MessageInv
  <2>6. IsSo(e)' BY <2>3, <2>4, IsSoStays
  <2>7. TrailIsSo' BY <2>1, <2>2, <2>4, <2>6, TrailStaysSo DEF MessageInv
  <2>8. announcing' \subseteq store' BY <1>3 DEF Announce, MessageInv
  <2>9. QED BY <1>1, <2>4, <2>5, <2>7, <2>8, TablesStay DEF MessageInv
<1>4. QED BY <1>2, <1>3 DEF DocumentsStep

LEMMA RestartMessages ==
    ASSUME TypeInv, MessageInv, Restart
    PROVE  MessageInv'
<1>1. UNCHANGED <<queue, dead, audit, outbox, policies>> /\ Fault BY DEF Restart, brokerVars
<1>2. Grown BY <1>1 DEF Grown, Restart
<1>3. QueuesBacked' BY <1>1, <1>2, StillIsQuiet, QuietStaysBacked DEF MessageInv
<1>4. TrailIsSo' BY <1>1, <1>2, TrailStaysSo DEF MessageInv
<1>5. announcing' \subseteq store' BY DEF Restart
<1>6. QED BY <1>1, <1>2, <1>3, <1>4, <1>5, TablesStay DEF MessageInv

LEMMA StutterMessages == ASSUME TypeInv, MessageInv, UNCHANGED vars PROVE MessageInv'
<1>1. UNCHANGED <<queue, dead, audit, faults, outbox, policies, announcing, store, forgotten>>
  BY DEF vars, brokerVars, policiesVars, documentVars
<1>2. Grown BY <1>1 DEF Grown
<1>3. QueuesBacked' BY <1>1, <1>2, StillIsQuiet, QuietStaysBacked DEF MessageInv
<1>4. TrailIsSo' BY <1>1, <1>2, TrailStaysSo DEF MessageInv
<1>5. QED BY <1>1, <1>2, <1>3, <1>4, TablesStay DEF MessageInv

LEMMA MessagesKept == TypeInv /\ AskInv /\ MessageInv /\ [Next]_vars => MessageInv'
  BY UnderwritingMessages, PoliciesMessages, BillingMessages, ClaimsMessages,
     DocumentsMessages, RestartMessages, StutterMessages DEF Next
-----------------------------------------------------------------------------
\* Questions about a policy and their answers.
LEMMA AskStays ==
    ASSUME AskInv, policies \subseteq policies', UNCHANGED claimsVars
    PROVE  AskInv'
<1>1. Ids \subseteq Ids' BY DEF Ids
<1>2. QED BY <1>1 DEF AskInv, claimsVars

LEMMA AskKept == TypeInv /\ AskInv /\ [Next]_vars => AskInv'
<1> SUFFICES ASSUME TypeInv, AskInv, [Next]_vars PROVE AskInv'
  OBVIOUS
<1>1. CASE UnderwritingStep
  <2>1. UNCHANGED <<policies, claimsVars>>
    BY <1>1 DEF UnderwritingStep, underwritingRest, policiesVars
  <2>2. QED BY <2>1, AskStays
<1>2. CASE PoliciesStep
  <2>1. UNCHANGED claimsVars BY <1>2 DEF PoliciesStep, policiesRest
  <2>2. policies \subseteq policies'
    BY <1>2 DEF PoliciesStep, Submit, Issue, WritePolicy, RelaySend, RelayDelete
  <2>3. QED BY <2>1, <2>2, AskStays
<1>3. CASE BillingStep
  <2>1. UNCHANGED <<policies, claimsVars>> BY <1>3 DEF BillingStep, billingRest, policiesVars
  <2>2. QED BY <2>1, AskStays
<1>4. CASE DocumentsStep
  <2>1. UNCHANGED <<policies, claimsVars>>
    BY <1>4 DEF DocumentsStep, documentsRest, policiesVars
  <2>2. QED BY <2>1, AskStays
<1>5. CASE Restart
  <2>1. UNCHANGED policies BY <1>5 DEF Restart
  <2>2. Ids' = Ids BY <2>1 DEF Ids
  <2>3. QED BY <1>5, <2>2 DEF Restart, AskInv
<1>6. CASE UNCHANGED vars
  <2>1. UNCHANGED <<policies, claimsVars>> BY <1>6 DEF vars, policiesVars
  <2>2. QED BY <2>1, AskStays
<1>7. CASE ClaimsStep
  <2>0. Ids' = Ids BY <1>7 DEF ClaimsStep, claimsRest, policiesVars, Ids
  <2>1. CASE NotePolicy
    <3>1. UNCHANGED claimsVars BY <2>1 DEF NotePolicy
    <3>2. UNCHANGED policies BY <1>7 DEF ClaimsStep, claimsRest, policiesVars
    <3>3. QED BY <3>1, <3>2, AskStays
  <2>2. ASSUME NEW i \in Losses, Ask(i, Ids) PROVE AskInv'
    <3>1. /\ call' = [call EXCEPT ![i] = @ + 1] /\ call'[i] = call[i] + 1 /\ call[i] \in Nat
          /\ \A j \in Losses : call[j] \in Nat /\ call[j] <= call'[j]
          /\ \A j \in Losses : j # i => call'[j] = call[j]
      BY <2>2 DEF Ask, TypeInv, ClaimsType
    <3>2. /\ lookups' = lookups \cup {<<i, call'[i]>>} /\ UNCHANGED replies
          /\ covered' = IF PolicyOfLoss[i] \in Ids THEN covered \cup {i} ELSE covered \ {i}
          /\ phase' = [phase EXCEPT ![i] = "asked"]
      BY <2>2 DEF Ask
    <3>3. \A j \in covered' : PolicyOfLoss[j] \in Ids' BY <2>0, <3>2 DEF AskInv
    <3>4. \A q \in lookups' : q[2] <= call'[q[1]]
      <4>1. \A q \in lookups : q[1] \in Losses /\ q[2] \in Nat /\ q[2] <= call[q[1]]
        BY DEF TypeInv, ClaimsType, AskInv
      <4>2. \A q \in lookups : q[2] <= call'[q[1]]
        <5> SUFFICES ASSUME NEW q \in lookups PROVE q[2] <= call'[q[1]]
          OBVIOUS
        <5>1. call[q[1]] \in Nat /\ call'[q[1]] \in Nat BY <3>1, <4>1
        <5>2. QED BY <3>1, <4>1, <5>1
      <4>3. call'[i] \in Nat BY <3>1
      <4>4. QED BY <3>2, <4>2, <4>3
    <3>5. ASSUME NEW r \in replies'
          PROVE  /\ r[2] <= call'[r[1]]
                 /\ r[3] => PolicyOfLoss[r[1]] \in Ids'
                 /\ r[2] = call'[r[1]] /\ ~r[3] => r[1] \notin covered'
      <4>1. r \in replies BY <3>2
      <4>2. r[1] \in Losses /\ r[2] \in Nat BY <4>1 DEF TypeInv, ClaimsType
      <4>3. r[2] <= call[r[1]] /\ (r[3] => PolicyOfLoss[r[1]] \in Ids)
            /\ (r[2] = call[r[1]] /\ ~r[3] => r[1] \notin covered)
        BY <4>1 DEF AskInv
      <4>4. CASE r[1] = i
        <5>1. r[2] <= call[i] /\ r[2] \in Nat BY <4>2, <4>3, <4>4
        <5>2. r[2] <= call'[i] /\ r[2] # call'[i] BY <3>1, <5>1
        <5>3. QED BY <2>0, <4>3, <4>4, <5>2
      <4>5. CASE r[1] # i
        <5>1. call'[r[1]] = call[r[1]] BY <3>1, <4>2, <4>5
        <5>2. r[1] \in covered' <=> r[1] \in covered BY <3>2, <4>5
        <5>3. QED BY <2>0, <4>3, <5>1, <5>2
      <4>6. QED BY <4>4, <4>5
    <3>6. ASSUME NEW j \in Losses
          PROVE  /\ phase'[j] = "settle" => PolicyOfLoss[j] \in Ids'
                 /\ phase'[j] = "reject" => j \notin covered'
      <4>1. CASE j = i BY <3>2, <4>1 DEF TypeInv, ClaimsType
      <4>2. CASE j # i
        <5>1. phase'[j] = phase[j] BY <3>2, <4>2 DEF TypeInv, ClaimsType
        <5>2. j \in covered' <=> j \in covered BY <3>2, <4>2
        <5>3. QED BY <2>0, <5>1, <5>2 DEF AskInv
      <4>3. QED BY <4>1, <4>2
    <3>7. QED BY <3>3, <3>4, <3>5, <3>6 DEF AskInv
  <2>3. ASSUME NEW i \in Losses, TimeOut(i) PROVE AskInv'
    BY <2>0, <2>3 DEF TimeOut, AskInv, TypeInv, ClaimsType
  <2>4. ASSUME NEW i \in Losses, Conclude(i) PROVE AskInv'
    <3>1. /\ UNCHANGED <<call, lookups, replies, covered>>
          /\ phase' = [phase EXCEPT ![i] = "done"] \/ phase' = [phase EXCEPT ![i] = "failed"]
      BY <2>4 DEF Conclude
    <3>2. QED BY <2>0, <3>1 DEF AskInv, TypeInv, ClaimsType
  <2>5. CASE Answer(Ids)
    <3>1. PICK q \in lookups :
            /\ lookups' = lookups \ {q}
            /\ replies' = replies \cup {<<q[1], q[2], PolicyOfLoss[q[1]] \in Ids>>}
      BY <2>5 DEF Answer
    <3>2. UNCHANGED <<phase, call, covered>> BY <2>5 DEF Answer
    <3> DEFINE b == PolicyOfLoss[q[1]] \in Ids
               x == <<q[1], q[2], b>>
    <3>3. x[1] = q[1] /\ x[2] = q[2] /\ x[3] = b /\ replies' = replies \cup {x} BY <3>1
    <3>4. b <=> PolicyOfLoss[q[1]] \in Ids OBVIOUS
    <3>5. q[1] \in covered => b BY DEF AskInv
    <3>6. q[2] <= call[q[1]] BY DEF AskInv
    <3> HIDE DEF b, x
    <3>7. /\ x[2] <= call[x[1]]
          /\ x[3] => PolicyOfLoss[x[1]] \in Ids
          /\ x[2] = call[x[1]] /\ ~x[3] => x[1] \notin covered
      BY <3>3, <3>4, <3>5, <3>6
    <3>8. \A r \in replies' : /\ r[2] <= call[r[1]]
                              /\ r[3] => PolicyOfLoss[r[1]] \in Ids
                              /\ r[2] = call[r[1]] /\ ~r[3] => r[1] \notin covered
      BY <3>3, <3>7 DEF AskInv
    <3>9. \A s \in lookups' : s[2] <= call[s[1]] BY <3>1 DEF AskInv
    <3>10. QED BY <2>0, <3>2, <3>8, <3>9 DEF AskInv
  <2>6. ASSUME NEW r \in replies, Hear(r) PROVE AskInv'
    <3>1. replies' \subseteq replies /\ UNCHANGED <<call, lookups, covered>>
      BY <2>6 DEF Hear
    <3>2. r[1] \in Losses BY DEF TypeInv, ClaimsType
    <3>3. ASSUME NEW j \in Losses
          PROVE  /\ phase'[j] = "settle" => PolicyOfLoss[j] \in Ids
                 /\ phase'[j] = "reject" => j \notin covered
      <4>1. CASE phase'[j] = phase[j] BY <4>1 DEF AskInv
      <4>2. CASE phase'[j] # phase[j]
        <5>1. call[r[1]] = r[2] /\ phase' = [phase EXCEPT ![r[1]] = IF r[3] THEN "settle" ELSE "reject"]
          BY <2>6, <4>2 DEF Hear
        <5>2. j = r[1] /\ phase'[j] = IF r[3] THEN "settle" ELSE "reject"
          BY <4>2, <5>1 DEF TypeInv, ClaimsType
        <5>3. QED BY <5>1, <5>2 DEF AskInv
      <4>3. QED BY <4>1, <4>2
    <3>4. QED BY <2>0, <3>1, <3>3 DEF AskInv
  <2>7. QED BY <1>7, <2>1, <2>2, <2>3, <2>4, <2>5, <2>6 DEF ClaimsStep
<1>8. QED BY <1>1, <1>2, <1>3, <1>4, <1>5, <1>6, <1>7 DEF Next
-----------------------------------------------------------------------------
\* What each module writes to the audit trail.
Says(S) == UNCHANGED audit \/ \E e \in Messages : Record(e) /\ e.event \in S

LEMMA UnderwritingSays ==
    ASSUME TypeInv, UnderwritingStep
    PROVE  Says({"accepted", "declined"})
<1>1. ASSUME NEW q \in DOMAIN Following, Forward(q) PROVE UNCHANGED audit
  BY <1>1, ForwardDoes
<1>2. ASSUME Decide PROVE Says({"accepted", "declined"})
  <2>1. PICK m \in DOMAIN queue["decide"] :
           Decision(m) \in Messages /\ (Record(Decision(m)) \/ UNCHANGED audit)
    BY <1>2, DecideDoes
  <2>2. Decision(m).event \in {"accepted", "declined"} BY DEF Decision, Event
  <2>3. QED BY <2>1, <2>2 DEF Says
<1>3. QED BY <1>1, <1>2 DEF UnderwritingStep, Says

LEMMA PoliciesSays ==
    ASSUME TypeInv, PoliciesStep
    PROVE  Says({"submitted", "issued"})
<1>1. ASSUME RelaySend PROVE Says({"submitted", "issued"})
  <2>1. PICK r \in outbox : r \in Messages /\ Record(r) BY <1>1, RelaySendDoes
  <2>2. r.event \in {"submitted", "issued"} BY OutboxHas DEF Sort
  <2>3. QED BY <2>1, <2>2 DEF Says
<1>2. ~RelaySend => UNCHANGED audit
  BY DEF PoliciesStep, Submit, Issue, RelayDelete, brokerVars
<1>3. QED BY <1>1, <1>2 DEF Says

LEMMA BillingSays ==
    ASSUME TypeInv, BillingStep
    PROVE  Says({"charged"})
<1>1. ASSUME Charge PROVE Says({"charged"})
  <2>1. PICK c \in charging : LET m == c.msg
                                    e == Event("charged", m.app, m.pol, m.premium) IN
           m \in Sort("issued") /\ (UNCHANGED audit \/ Record(e))
    BY <1>1, ChargeDoes
  <2>2. QED BY <2>1, IssuedIs DEF Says
<1>2. QED BY <1>1, ClaimDoes, ConfirmDoes, ExpireDoes DEF BillingStep, Says

LEMMA ClaimsSays ==
    ASSUME TypeInv, ClaimsStep
    PROVE  Says({"settled", "rejected"})
<1>1. ASSUME NEW i \in Losses, Conclude(i) PROVE Says({"settled", "rejected"})
  <2> DEFINE e == Outcome(i)
  <2>1. /\ e \in Messages /\ e.event = (IF phase[i] = "settle" THEN "settled" ELSE "rejected")
        /\ Record(e) \/ UNCHANGED audit
    BY <1>1, ConcludeDoes
  <2> HIDE DEF e
  <2>2. e.event \in {"settled", "rejected"} BY <2>1
  <2>3. QED BY <2>1, <2>2 DEF Says
<1>2. ~(\E i \in Losses : Conclude(i)) => UNCHANGED audit
  BY DEF ClaimsStep, NotePolicy, Ask, TimeOut, Answer, Hear, brokerVars
<1>3. QED BY <1>1, <1>2 DEF Says

LEMMA DocumentsSays ==
    ASSUME TypeInv, DocumentsStep
    PROVE  Says({"stored"})
<1>1. ASSUME NEW d \in Documents, Announce(d) PROVE Says({"stored"})
  <2>1. Record(Event("stored", d, {}, 0)) \/ UNCHANGED audit BY <1>1 DEF Announce
  <2>2. Event("stored", d, {}, 0) \in Messages /\ Event("stored", d, {}, 0).event = "stored"
    BY EventIs DEF Event
  <2>3. QED BY <2>1, <2>2 DEF Says
<1>2. ~(\E d \in Documents : Announce(d)) => UNCHANGED audit
  BY DEF DocumentsStep, Keep, brokerVars
<1>3. QED BY <1>1, <1>2 DEF Says

\* It counts where it belongs and nowhere else.
LEMMA SaidElsewhere ==
    ASSUME TypeInv, NEW S, Says(S), NEW K, \A m \in K : m.event \notin S
    PROVE  Tally(audit', K) = Tally(audit, K)
<1>1. audit \in Bags BY DEF TypeInv, BrokerType
<1>2. CASE UNCHANGED audit BY <1>2
<1>3. ASSUME NEW e \in Messages, Record(e), e.event \in S
      PROVE  Tally(audit', K) = Tally(audit, K)
  <2>1. Tally(audit', K) = Tally(audit, K) + IF e \in K THEN 1 ELSE 0
    BY <1>1, <1>3, RecordDoes
  <2>2. e \notin K BY <1>3
  <2>3. Tally(audit, K) \in Nat BY <1>1, BagsAre, TallyType
  <2>4. QED BY <2>1, <2>2, <2>3
<1>4. QED BY <1>2, <1>3 DEF Says

LEMMA TrailTally ==
    ASSUME TypeInv
    PROVE  \A K : Tally(audit, K) \in Nat /\ (Tally(audit, K) > 0 <=> DOMAIN audit \cap K # {})
<1>1. IsBag(audit) BY BagsAre DEF TypeInv, BrokerType
<1>2. QED BY <1>1, TallyType

\* The counters that a process keeps, and what they count.
LEMMA CountersStay ==
    ASSUME TypeInv, CounterInv, NEW S, Says(S), S \cap {"accepted", "declined", "charged"} = {},
           UNCHANGED <<accepted, declined, charges>>
    PROVE  CounterInv'
<1>1. Tally(audit', Saying("accepted")) = Tally(audit, Saying("accepted"))
  BY SaidElsewhere DEF Saying
<1>2. Tally(audit', Saying("declined")) = Tally(audit, Saying("declined"))
  BY SaidElsewhere DEF Saying
<1>3. ASSUME NEW p \in PolicyIds
      PROVE  Tally(audit', ChargesOf(p)) = Tally(audit, ChargesOf(p))
  BY SaidElsewhere DEF ChargesOf
<1>4. QED BY <1>1, <1>2, <1>3 DEF CounterInv

LEMMA CountersKept == TypeInv /\ CounterInv /\ [Next]_vars => CounterInv'
<1> SUFFICES ASSUME TypeInv, CounterInv, [Next]_vars PROVE CounterInv'
  OBVIOUS
<1>0. audit \in Bags /\ \A K : Tally(audit, K) \in Nat
  BY TrailTally DEF TypeInv, BrokerType
<1>1. CASE UnderwritingStep
  <2>0. UNCHANGED charges BY <1>1 DEF UnderwritingStep, underwritingRest, billingVars
  <2>1. ASSUME NEW p \in PolicyIds
        PROVE  Tally(audit', ChargesOf(p)) = Tally(audit, ChargesOf(p))
    BY <1>1, UnderwritingSays, SaidElsewhere DEF ChargesOf
  <2>2. ASSUME NEW q \in DOMAIN Following, Forward(q) PROVE CounterInv'
    <3>1. UNCHANGED <<audit, accepted, declined>> BY <2>2, ForwardDoes DEF underwritingVars
    <3>2. QED BY <2>0, <3>1 DEF CounterInv
  <2>3. ASSUME Decide PROVE CounterInv'
    <3>1. PICK m \in DOMAIN queue["decide"] :
              /\ m \in Sort("submitted") /\ Decision(m) \in Messages
              /\ \/ /\ Record(Decision(m)) /\ (Count(m) \/ UNCHANGED underwritingVars)
                 \/ UNCHANGED <<audit, underwritingVars>>
      BY <2>3, DecideDoes
    <3> DEFINE e == Decision(m)
    <3>2. /\ e \in Messages
          /\ e.event = (IF Refer(m.app) THEN "declined" ELSE "accepted")
      BY <3>1 DEF Decision, Event
    <3>3. \/ /\ Record(e) /\ (Count(m) \/ UNCHANGED underwritingVars)
          \/ UNCHANGED <<audit, underwritingVars>>
      BY <3>1
    <3> HIDE DEF e
    <3>4. CASE UNCHANGED <<audit, underwritingVars>>
      BY <2>0, <3>4 DEF CounterInv, underwritingVars
    <3>5. CASE Record(e) /\ (Count(m) \/ UNCHANGED underwritingVars)
      <4>1. \A K : Tally(audit', K) = Tally(audit, K) + IF e \in K THEN 1 ELSE 0
        BY <1>0, <3>2, <3>5, RecordDoes
      <4>2. /\ e \in Saying("accepted") <=> ~Refer(m.app)
            /\ e \in Saying("declined") <=> Refer(m.app)
        BY <3>2 DEF Saying
      <4>3. accepted \in Nat /\ declined \in Nat BY DEF TypeInv, UnderwritingType
      <4>4. accepted' <= accepted + IF Refer(m.app) THEN 0 ELSE 1
        BY <3>5, <4>3 DEF Count, underwritingVars
      <4>5. declined' <= declined + IF Refer(m.app) THEN 1 ELSE 0
        BY <3>5, <4>3 DEF Count, underwritingVars
      <4>6. accepted' \in Nat /\ declined' \in Nat
        BY <3>5, <4>3 DEF Count, underwritingVars
      <4>7. accepted' <= Tally(audit', Saying("accepted"))
        <5>1. Tally(audit', Saying("accepted")) = Tally(audit, Saying("accepted"))
                 + IF Refer(m.app) THEN 0 ELSE 1
          BY <4>1, <4>2
        <5>2. Tally(audit, Saying("accepted")) \in Nat /\ accepted <= Tally(audit, Saying("accepted"))
          BY <1>0 DEF CounterInv
        <5>3. QED BY <4>3, <4>4, <4>6, <5>1, <5>2
      <4>8. declined' <= Tally(audit', Saying("declined"))
        <5>1. Tally(audit', Saying("declined")) = Tally(audit, Saying("declined"))
                 + IF Refer(m.app) THEN 1 ELSE 0
          BY <4>1, <4>2
        <5>2. Tally(audit, Saying("declined")) \in Nat /\ declined <= Tally(audit, Saying("declined"))
          BY <1>0 DEF CounterInv
        <5>3. QED BY <4>3, <4>5, <4>6, <5>1, <5>2
      <4>9. \A p \in PolicyIds : charges'[p] <= Tally(audit', ChargesOf(p))
        BY <2>0, <2>1 DEF CounterInv
      <4>10. QED BY <4>7, <4>8, <4>9 DEF CounterInv
    <3>6. QED BY <3>3, <3>4, <3>5
  <2>4. QED BY <1>1, <2>2, <2>3 DEF UnderwritingStep
<1>2. CASE PoliciesStep
  <2>1. UNCHANGED <<accepted, declined, charges>>
    BY <1>2 DEF PoliciesStep, policiesRest, underwritingVars, billingVars
  <2>2. QED BY <1>2, <2>1, PoliciesSays, CountersStay
<1>3. CASE BillingStep
  <2>0. UNCHANGED <<accepted, declined>>
    BY <1>3 DEF BillingStep, billingRest, underwritingVars
  <2>1. ASSUME Charge PROVE CounterInv'
    <3>1. PICK c \in charging : LET m == c.msg
                                      e == Event("charged", m.app, m.pol, m.premium) IN
             /\ m \in Sort("issued")
             /\ \/ Record(e) /\ charges' = [charges EXCEPT ![Of(m)] = @ + 1]
                \/ Record(e) /\ UNCHANGED charges
                \/ UNCHANGED <<audit, charges>>
      BY <2>1, ChargeDoes
    <3> DEFINE m == c.msg
               e == Event("charged", m.app, m.pol, m.premium)
    <3>2. /\ m \in Sort("issued")
          /\ \/ Record(e) /\ charges' = [charges EXCEPT ![Of(m)] = @ + 1]
             \/ Record(e) /\ UNCHANGED charges
             \/ UNCHANGED <<audit, charges>>
      BY <3>1
    <3> HIDE DEF m
    <3>3. /\ Of(m) \in PolicyIds /\ m.pol = {Of(m)}
          /\ e \in Messages /\ e.event = "charged" /\ e.pol = m.pol
      BY <3>2, IssuedIs
    <3> HIDE DEF e
    <3>4. CASE UNCHANGED <<audit, charges>> BY <2>0, <3>4 DEF CounterInv
    <3>5. CASE Record(e) /\ (charges' = [charges EXCEPT ![Of(m)] = @ + 1] \/ UNCHANGED charges)
      <4>1. \A K : Tally(audit', K) = Tally(audit, K) + IF e \in K THEN 1 ELSE 0
        BY <1>0, <3>3, <3>5, RecordDoes
      <4>2. e \notin Saying("accepted") /\ e \notin Saying("declined") BY <3>3 DEF Saying
      <4>3. Tally(audit', Saying("accepted")) = Tally(audit, Saying("accepted"))
        <5>1. Tally(audit', Saying("accepted")) = Tally(audit, Saying("accepted")) + 0
          BY <4>1, <4>2
        <5>2. QED BY <1>0, <5>1
      <4>4. Tally(audit', Saying("declined")) = Tally(audit, Saying("declined"))
        <5>1. Tally(audit', Saying("declined")) = Tally(audit, Saying("declined")) + 0
          BY <4>1, <4>2
        <5>2. QED BY <1>0, <5>1
      <4>5. ASSUME NEW p \in PolicyIds PROVE charges'[p] <= Tally(audit', ChargesOf(p))
        <5>1. e \in ChargesOf(p) <=> p = Of(m) BY <3>3 DEF ChargesOf
        <5>2. Tally(audit', ChargesOf(p)) = Tally(audit, ChargesOf(p)) + IF p = Of(m) THEN 1 ELSE 0
          BY <4>1, <5>1
        <5>3. charges[p] \in Nat /\ charges[p] <= Tally(audit, ChargesOf(p))
              /\ Tally(audit, ChargesOf(p)) \in Nat
          BY <1>0 DEF TypeInv, BillingType, CounterInv
        <5>4. charges'[p] = charges[p] \/ (charges'[p] = charges[p] + 1 /\ p = Of(m))
          BY <3>5 DEF TypeInv, BillingType
        <5>5. QED BY <5>2, <5>3, <5>4
      <4>6. QED BY <2>0, <4>3, <4>4, <4>5 DEF CounterInv
    <3>6. QED BY <3>2, <3>4, <3>5
  <2>2. ASSUME ~Charge PROVE CounterInv'
    <3>1. UNCHANGED audit BY <1>3, <2>2, ClaimDoes, ConfirmDoes, ExpireDoes DEF BillingStep
    <3>2. UNCHANGED charges BY <1>3, <2>2 DEF BillingStep, Claim, Confirm, Expire
    <3>3. QED BY <2>0, <3>1, <3>2 DEF CounterInv
  <2>3. QED BY <2>1, <2>2
<1>4. CASE ClaimsStep
  <2>1. UNCHANGED <<accepted, declined, charges>>
    BY <1>4 DEF ClaimsStep, claimsRest, underwritingVars, billingVars
  <2>2. QED BY <1>4, <2>1, ClaimsSays, CountersStay
<1>5. CASE DocumentsStep
  <2>1. UNCHANGED <<accepted, declined, charges>>
    BY <1>5 DEF DocumentsStep, documentsRest, underwritingVars, billingVars
  <2>2. QED BY <1>5, <2>1, DocumentsSays, CountersStay
<1>6. CASE Restart
  <2>1. UNCHANGED audit BY <1>6 DEF Restart, brokerVars
  <2>2. accepted' = 0 /\ declined' = 0 /\ \A p \in PolicyIds : charges'[p] = 0
    BY <1>6 DEF Restart
  <2>3. 0 <= Tally(audit', Saying("accepted")) BY <1>0, <2>1
  <2>4. 0 <= Tally(audit', Saying("declined")) BY <1>0, <2>1
  <2>5. ASSUME NEW p \in PolicyIds PROVE 0 <= Tally(audit', ChargesOf(p)) BY <1>0, <2>1
  <2>6. QED BY <2>2, <2>3, <2>4, <2>5 DEF CounterInv
<1>7. CASE UNCHANGED vars
  <2>1. UNCHANGED <<audit, accepted, declined, charges>>
    BY <1>7 DEF vars, brokerVars, underwritingVars, billingVars
  <2>2. QED BY <2>1 DEF CounterInv
<1>8. QED BY <1>1, <1>2, <1>3, <1>4, <1>5, <1>6, <1>7 DEF Next

\* No process counts a policy that is not on record.
LEMMA IssuedKept == TypeInv /\ IssuedInv /\ [Next]_vars => IssuedInv'
<1> SUFFICES ASSUME TypeInv, IssuedInv, [Next]_vars PROVE IssuedInv'
  OBVIOUS
<1>0. issued \in Nat /\ IsFiniteSet(policies) /\ Cardinality(policies) \in Nat
  BY FS_CardinalityType DEF TypeInv, PoliciesType
<1>1. CASE UNCHANGED <<issued, policies>>
  BY <1>1 DEF IssuedInv
<1>2. CASE Issue
  <2>1. PICK m : \/ UNCHANGED <<policies, issued>>
                 \/ /\ \E p \in PolicyIds \ Ids : WritePolicy(m, p)
                    /\ issued' \in {issued, issued + 1}
    BY <1>2, IssueDoes
  <2>2. ASSUME NEW p \in PolicyIds \ Ids, WritePolicy(m, p), issued' \in {issued, issued + 1}
        PROVE  IssuedInv'
    <3> DEFINE x == [id |-> p, app |-> m.app, premium |-> m.premium]
    <3>1. x.id = p /\ policies' = policies \cup {x} BY <2>2 DEF WritePolicy
    <3>2. x \notin policies BY <2>2, <3>1 DEF Ids
    <3> HIDE DEF x
    <3>3. Cardinality(policies') = Cardinality(policies) + 1 BY <1>0, <3>1, <3>2, FS_AddElement
    <3>4. QED BY <1>0, <2>2, <3>3 DEF IssuedInv
  <2>3. QED BY <1>1, <2>1, <2>2
<1>3. CASE Restart
  <2>1. issued' = 0 /\ policies' = policies BY <1>3 DEF Restart
  <2>2. QED BY <1>0, <2>1 DEF IssuedInv
<1>4. CASE (\E a \in Applications : Submit(a)) \/ RelaySend \/ RelayDelete
  BY <1>1, <1>4 DEF Submit, RelaySend, RelayDelete
<1>5. CASE UnderwritingStep \/ BillingStep \/ ClaimsStep \/ DocumentsStep \/ UNCHANGED vars
  BY <1>1, <1>5 DEF UnderwritingStep, BillingStep, ClaimsStep, DocumentsStep, vars,
                    underwritingRest, billingRest, claimsRest, documentsRest, policiesVars
<1>6. QED BY <1>2, <1>3, <1>4, <1>5 DEF Next, PoliciesStep

\* A policy is charged once, but for what failed on the way.
LEMMA ChargesStay ==
    ASSUME TypeInv, ChargeInv, NEW S, Says(S), "charged" \notin S, UNCHANGED billingVars
    PROVE  ChargeInv'
<1>1. ASSUME NEW p \in PolicyIds
      PROVE  Tally(audit', ChargesOf(p)) = Tally(audit, ChargesOf(p))
  BY SaidElsewhere DEF ChargesOf
<1>2. \A p : MayBeCharged(p)' <=> MayBeCharged(p) BY DEF MayBeCharged, billingVars
<1>3. QED BY <1>1, <1>2 DEF ChargeInv, billingVars

LEMMA ChargesKept == TypeInv /\ ChargeInv /\ [Next]_vars => ChargeInv'
<1> SUFFICES ASSUME TypeInv, ChargeInv, [Next]_vars PROVE ChargeInv'
  OBVIOUS
<1>0. audit \in Bags /\ \A K : Tally(audit, K) \in Nat
  BY TrailTally DEF TypeInv, BrokerType
<1>9. \A p \in PolicyIds : unconfirmed[p] \in Nat /\ expired[p] \in Nat
  BY DEF TypeInv, BillingType
<1>1. CASE UnderwritingStep
  <2>1. UNCHANGED billingVars BY <1>1 DEF UnderwritingStep, underwritingRest
  <2>2. QED BY <1>1, <2>1, UnderwritingSays, ChargesStay
<1>2. CASE PoliciesStep
  <2>1. UNCHANGED billingVars BY <1>2 DEF PoliciesStep, policiesRest
  <2>2. QED BY <1>2, <2>1, PoliciesSays, ChargesStay
<1>3. CASE ClaimsStep
  <2>1. UNCHANGED billingVars BY <1>3 DEF ClaimsStep, claimsRest
  <2>2. QED BY <1>3, <2>1, ClaimsSays, ChargesStay
<1>4. CASE DocumentsStep
  <2>1. UNCHANGED billingVars BY <1>4 DEF DocumentsStep, documentsRest
  <2>2. QED BY <1>4, <2>1, DocumentsSays, ChargesStay
<1>5. CASE UNCHANGED vars
  <2>1. UNCHANGED <<audit, billingVars>> BY <1>5 DEF vars, brokerVars
  <2>2. Says({}) BY <2>1 DEF Says
  <2>3. QED BY <2>1, <2>2, ChargesStay
<1>6. CASE Restart
  <2>1. UNCHANGED <<audit, seen, unconfirmed, expired>> /\ charging' = {}
    BY <1>6 DEF Restart, brokerVars
  <2>2. \A p : MayBeCharged(p) => MayBeCharged(p)' BY <2>1 DEF MayBeCharged
  <2>3. ASSUME NEW p \in PolicyIds
        PROVE  Tally(audit', ChargesOf(p))
                 <= unconfirmed'[p] + expired'[p] + IF MayBeCharged(p)' THEN 1 ELSE 0
    <3>1. Tally(audit, ChargesOf(p))
            <= unconfirmed[p] + expired[p] + IF MayBeCharged(p) THEN 1 ELSE 0
      BY DEF ChargeInv
    <3>2. MayBeCharged(p) => MayBeCharged(p)' BY <2>2
    <3>3. Tally(audit', ChargesOf(p)) = Tally(audit, ChargesOf(p)) BY <2>1
    <3>4. unconfirmed'[p] = unconfirmed[p] /\ expired'[p] = expired[p] BY <2>1
    <3>5. QED BY <1>0, <1>9, <3>1, <3>2, <3>3, <3>4
  <2>4. QED BY <2>1, <2>3 DEF ChargeInv
<1>7. CASE BillingStep
  <2> DEFINE Room(p) == unconfirmed[p] + expired[p] + IF MayBeCharged(p) THEN 1 ELSE 0
             NewRoom(p) == unconfirmed'[p] + expired'[p] + IF MayBeCharged(p)' THEN 1 ELSE 0
  <2>1. ASSUME Claim PROVE ChargeInv'
    <3>1. PICK m \in DOMAIN queue["billing"] :
            \/ /\ seen[Of(m)] = "free"
               /\ seen' = [seen EXCEPT ![Of(m)] = "claimed"]
               /\ charging' = {[msg |-> m, at |-> "charge"]}
            \/ seen[Of(m)] # "free" /\ UNCHANGED <<seen, charging>>
      BY <2>1 DEF Claim, BagToSet
    <3>2. UNCHANGED <<audit, unconfirmed, expired>> BY <2>1, ClaimDoes DEF Claim
    <3>3. charging = {} BY <2>1 DEF Claim
    <3>4. m \in Sort("issued")
      <4>1. "billing" \in Queues /\ Holding["billing"] = "issued" BY DEF Queues, Holding
      <4>2. QED BY <4>1 DEF TypeInv, BrokerType
    <3>5. Of(m) \in PolicyIds BY <3>4, IssuedIs
    <3>6. CASE seen[Of(m)] = "free"
      <4> DEFINE c == [msg |-> m, at |-> "charge"]
      <4>1. c.msg = m /\ c.at = "charge" /\ charging' = {c} BY <3>1, <3>6
      <4> HIDE DEF c
      <4>2. seen' = [seen EXCEPT ![Of(m)] = "claimed"] BY <3>1, <3>6
      <4>3. seen'[Of(m)] = "claimed" BY <3>5, <4>2 DEF TypeInv, BillingType
      <4>4. ASSUME NEW p \in PolicyIds PROVE MayBeCharged(p)' <=> MayBeCharged(p)
        <5>1. CASE p = Of(m)
          <6>1. ~MayBeCharged(p) BY <3>6, <5>1 DEF MayBeCharged
          <6>2. ~MayBeCharged(p)' BY <4>1, <5>1 DEF MayBeCharged
          <6>3. QED BY <6>1, <6>2
        <5>2. CASE p # Of(m)
          <6>1. seen'[p] = seen[p] BY <4>2, <5>2 DEF TypeInv, BillingType
          <6>2. QED BY <3>3, <4>1, <5>2, <6>1 DEF MayBeCharged
        <5>3. QED BY <5>1, <5>2
      <4>5. ASSUME NEW p \in PolicyIds PROVE Tally(audit', ChargesOf(p)) <= NewRoom(p)
        <5>1. NewRoom(p) = Room(p) BY <3>2, <4>4
        <5>2. Room(p) \in Nat BY <1>9
        <5>3. Tally(audit, ChargesOf(p)) <= Room(p) BY DEF ChargeInv
        <5> HIDE DEF Room, NewRoom
        <5>4. QED BY <3>2, <5>1, <5>3
      <4>6. QED BY <4>1, <4>3, <4>5 DEF ChargeInv
    <3>7. CASE seen[Of(m)] # "free"
      <4>1. UNCHANGED <<seen, charging>> BY <3>1, <3>7
      <4>2. QED BY <3>2, <4>1 DEF ChargeInv, MayBeCharged
    <3>8. QED BY <3>6, <3>7
  <2>2. ASSUME Confirm PROVE ChargeInv'
    <3>1. PICK c \in charging :
             c.at = "confirm" /\ seen' = [seen EXCEPT ![Of(c.msg)] = "confirmed"] /\ charging' = {}
      BY <2>2 DEF Confirm
    <3>2. UNCHANGED <<audit, unconfirmed, expired>> BY <2>2 DEF Confirm
    <3>3. c.msg \in Sort("issued") BY DEF TypeInv, BillingType
    <3>4. Of(c.msg) \in PolicyIds BY <3>3, IssuedIs
    <3>5. ASSUME NEW p \in PolicyIds PROVE MayBeCharged(p) => MayBeCharged(p)'
      <4>1. seen'[p] = seen[p] \/ seen'[p] = "confirmed" BY <3>1 DEF TypeInv, BillingType
      <4>2. QED BY <3>1, <4>1 DEF MayBeCharged
    <3>6. ASSUME NEW p \in PolicyIds PROVE Tally(audit', ChargesOf(p)) <= NewRoom(p)
      <4>1. Tally(audit, ChargesOf(p)) <= Room(p) BY DEF ChargeInv
      <4>2. MayBeCharged(p) => MayBeCharged(p)' BY <3>5
      <4>3. unconfirmed'[p] = unconfirmed[p] /\ expired'[p] = expired[p]
            /\ unconfirmed[p] \in Nat /\ expired[p] \in Nat
        BY <1>9, <3>2
      <4>4. Tally(audit', ChargesOf(p)) = Tally(audit, ChargesOf(p))
            /\ Tally(audit, ChargesOf(p)) \in Nat
        BY <1>0, <3>2
      <4>5. QED BY <4>1, <4>2, <4>3, <4>4
    <3>7. QED BY <3>1, <3>6 DEF ChargeInv
  <2>3. ASSUME NEW x \in PolicyIds, Expire(x) PROVE ChargeInv'
    <3>1. /\ seen[x] = "claimed" /\ (\A c \in charging : Of(c.msg) # x)
          /\ seen' = [seen EXCEPT ![x] = "free"]
          /\ expired' = [expired EXCEPT ![x] = @ + 1]
          /\ UNCHANGED <<audit, charging, unconfirmed>>
      BY <2>3 DEF Expire, Release, brokerVars
    <3>2. ASSUME NEW p \in PolicyIds PROVE Tally(audit', ChargesOf(p)) <= NewRoom(p)
      <4>1. Tally(audit, ChargesOf(p)) <= Room(p) BY DEF ChargeInv
      <4>2. Tally(audit', ChargesOf(p)) = Tally(audit, ChargesOf(p))
            /\ Tally(audit, ChargesOf(p)) \in Nat
        BY <1>0, <3>1
      <4>3. unconfirmed'[p] = unconfirmed[p] /\ unconfirmed[p] \in Nat /\ expired[p] \in Nat
        BY <1>9, <3>1
      <4>4. CASE p = x
        <5>1. expired'[p] = expired[p] + 1 BY <3>1, <4>4 DEF TypeInv, BillingType
        <5>2. QED BY <4>1, <4>2, <4>3, <5>1
      <4>5. CASE p # x
        <5>1. expired'[p] = expired[p] /\ seen'[p] = seen[p]
          BY <3>1, <4>5 DEF TypeInv, BillingType
        <5>2. MayBeCharged(p)' <=> MayBeCharged(p) BY <3>1, <5>1 DEF MayBeCharged
        <5>3. QED BY <4>1, <4>2, <4>3, <5>1, <5>2
      <4>6. QED BY <4>4, <4>5
    <3>3. \A c \in charging' : seen'[Of(c.msg)] = "claimed"
      <4>1. ASSUME NEW c \in charging PROVE seen'[Of(c.msg)] = seen[Of(c.msg)]
        <5>1. c.msg \in Sort("issued") BY DEF TypeInv, BillingType
        <5>2. Of(c.msg) \in PolicyIds /\ Of(c.msg) # x BY <3>1, <5>1, IssuedIs
        <5>3. QED BY <3>1, <5>2 DEF TypeInv, BillingType
      <4>2. QED BY <3>1, <4>1 DEF ChargeInv
    <3>4. QED BY <3>2, <3>3 DEF ChargeInv
  <2>4. ASSUME Charge PROVE ChargeInv'
    <3>1. PICK c \in charging : LET m == c.msg
                                      e == Event("charged", m.app, m.pol, m.premium) IN
                 /\ charging = {c} /\ c.at = "charge" /\ m \in Sort("issued")
                 /\ \/ /\ Record(e)
                       /\ charging' = {[c EXCEPT !.at = "confirm"]}
                       /\ UNCHANGED <<seen, unconfirmed, expired>>
                    \/ /\ Record(e)
                       /\ unconfirmed' = [unconfirmed EXCEPT ![Of(m)] = @ + 1]
                       /\ Release(Of(m)) /\ charging' = {} /\ UNCHANGED expired
                    \/ /\ UNCHANGED audit /\ Release(Of(m)) /\ charging' = {}
                       /\ UNCHANGED <<unconfirmed, expired>>
      BY <2>4, ChargeDoes
    <3> DEFINE m == c.msg
               e == Event("charged", m.app, m.pol, m.premium)
               d == [c EXCEPT !.at = "confirm"]
               x == Of(m)
    <3>2. /\ m \in Sort("issued")
          /\ \/ /\ Record(e) /\ charging' = {d} /\ UNCHANGED <<seen, unconfirmed, expired>>
             \/ /\ Record(e)
                /\ unconfirmed' = [unconfirmed EXCEPT ![x] = @ + 1]
                /\ seen' = [seen EXCEPT ![x] = "free"] /\ charging' = {} /\ UNCHANGED expired
             \/ /\ UNCHANGED audit /\ seen' = [seen EXCEPT ![x] = "free"] /\ charging' = {}
                /\ UNCHANGED <<unconfirmed, expired>>
      BY <3>1 DEF Release
    <3>3. d.msg = m /\ d.at = "confirm"
      BY DEF TypeInv, BillingType
    <3>4. seen[x] = "claimed" /\ charging = {c} /\ c.at = "charge" /\ Of(c.msg) = x
      BY <3>1 DEF ChargeInv
    <3> HIDE DEF m
    <3>5. /\ x \in PolicyIds /\ m.pol = {x}
          /\ e \in Messages /\ e.event = "charged" /\ e.pol = m.pol
      BY <3>2, IssuedIs
    <3>6. Of(d.msg) = x BY <3>3
    <3> HIDE DEF e, d, x
    <3>7. \A p \in PolicyIds : e \in ChargesOf(p) <=> p = x BY <3>5 DEF ChargesOf
    <3>8. ~MayBeCharged(x) BY <3>4 DEF MayBeCharged
    <3>9. ASSUME NEW p \in PolicyIds, p # x
          PROVE  /\ MayBeCharged(p)' <=> MayBeCharged(p)
                 /\ unconfirmed'[p] = unconfirmed[p] /\ expired'[p] = expired[p]
      <4>1. seen'[p] = seen[p] /\ unconfirmed'[p] = unconfirmed[p] /\ expired'[p] = expired[p]
        BY <3>2, <3>9 DEF TypeInv, BillingType
      <4>2. charging' = {} \/ charging' = {d} BY <3>2
      <4>3. QED BY <3>4, <3>6, <3>9, <4>1, <4>2 DEF MayBeCharged
    <3>10. ASSUME Record(e), NEW p \in PolicyIds
           PROVE  Tally(audit', ChargesOf(p)) = Tally(audit, ChargesOf(p)) + IF p = x THEN 1 ELSE 0
      <4>1. Tally(audit', ChargesOf(p)) = Tally(audit, ChargesOf(p))
              + IF e \in ChargesOf(p) THEN 1 ELSE 0
        BY <1>0, <3>5, <3>10, RecordDoes
      <4>2. QED BY <3>7, <4>1
    <3>11. ASSUME NEW p \in PolicyIds, p # x
           PROVE  Tally(audit', ChargesOf(p)) <= NewRoom(p)
      <4>1. Tally(audit', ChargesOf(p)) = Tally(audit, ChargesOf(p))
        <5>1. CASE Record(e)
          <6>1. Tally(audit', ChargesOf(p)) = Tally(audit, ChargesOf(p)) + 0
            BY <3>10, <3>11, <5>1
          <6>2. QED BY <1>0, <6>1
        <5>2. CASE UNCHANGED audit BY <5>2
        <5>3. QED BY <3>2, <5>1, <5>2
      <4>2. NewRoom(p) = Room(p) BY <3>9, <3>11
      <4>3. Tally(audit, ChargesOf(p)) <= Room(p) BY DEF ChargeInv
      <4> HIDE DEF Room, NewRoom
      <4>4. QED BY <4>1, <4>2, <4>3
    <3>12. Tally(audit, ChargesOf(x)) <= unconfirmed[x] + expired[x]
      <4>1. Tally(audit, ChargesOf(x)) <= unconfirmed[x] + expired[x] + 0
        BY <3>5, <3>8 DEF ChargeInv
      <4>2. QED BY <1>0, <1>9, <3>5, <4>1
    <3>13. Tally(audit', ChargesOf(x)) <= NewRoom(x) /\ \A b \in charging' : seen'[Of(b.msg)] = "claimed"
      <4>1. CASE Record(e) /\ charging' = {d} /\ UNCHANGED <<seen, unconfirmed, expired>>
        <5>1. MayBeCharged(x)' BY <3>3, <3>4, <4>1 DEF MayBeCharged
        <5>2. Tally(audit', ChargesOf(x)) = Tally(audit, ChargesOf(x)) + 1
          BY <3>5, <3>10, <4>1
        <5>3. \A b \in charging' : seen'[Of(b.msg)] = "claimed" BY <3>4, <3>6, <4>1
        <5>4. QED BY <1>0, <1>9, <3>5, <3>12, <4>1, <5>1, <5>2, <5>3
      <4>2. CASE /\ Record(e)
                 /\ unconfirmed' = [unconfirmed EXCEPT ![x] = @ + 1]
                 /\ seen' = [seen EXCEPT ![x] = "free"] /\ charging' = {} /\ UNCHANGED expired
        <5>1. Tally(audit', ChargesOf(x)) = Tally(audit, ChargesOf(x)) + 1
          BY <3>5, <3>10, <4>2
        <5>2. unconfirmed'[x] = unconfirmed[x] + 1 /\ seen'[x] = "free"
          BY <3>5, <4>2 DEF TypeInv, BillingType
        <5>3. ~MayBeCharged(x)' BY <5>2 DEF MayBeCharged
        <5>4. QED BY <1>0, <1>9, <3>5, <3>12, <4>2, <5>1, <5>2, <5>3
      <4>3. CASE /\ UNCHANGED audit /\ seen' = [seen EXCEPT ![x] = "free"] /\ charging' = {}
                 /\ UNCHANGED <<unconfirmed, expired>>
        <5>1. seen'[x] = "free" BY <3>5, <4>3 DEF TypeInv, BillingType
        <5>2. ~MayBeCharged(x)' BY <5>1 DEF MayBeCharged
        <5>3. QED BY <1>0, <1>9, <3>5, <3>12, <4>3, <5>2
      <4>4. QED BY <3>2, <4>1, <4>2, <4>3
    <3>14. \A p \in PolicyIds : Tally(audit', ChargesOf(p)) <= NewRoom(p)
      BY <3>11, <3>13
    <3>15. QED BY <3>13, <3>14 DEF ChargeInv
  <2>5. QED BY <1>7, <2>1, <2>2, <2>3, <2>4 DEF BillingStep
<1>8. QED BY <1>1, <1>2, <1>3, <1>4, <1>5, <1>6, <1>7 DEF Next

\* A loss has one outcome, but for confirms that were lost.
OutcomesOf(i) == {m \in Saying("settled") \cup Saying("rejected") : m.app = i}

LEMMA OutcomesStay ==
    ASSUME TypeInv, OutcomeInv, NEW S, Says(S), "settled" \notin S, "rejected" \notin S,
           UNCHANGED lostConfirms,
           \A i \in Losses : phase[i] = "done" => phase'[i] = "done"
    PROVE  OutcomeInv'
<1>1. ASSUME NEW i \in Losses
      PROVE  Tally(audit', OutcomesOf(i)) <= lostConfirms' + IF phase'[i] = "done" THEN 1 ELSE 0
  <2>1. Tally(audit', OutcomesOf(i)) = Tally(audit, OutcomesOf(i))
    <3>1. \A m \in OutcomesOf(i) : m.event \notin S BY DEF OutcomesOf, Saying
    <3>2. QED BY <3>1, SaidElsewhere
  <2>2. Tally(audit, OutcomesOf(i)) <= lostConfirms + IF phase[i] = "done" THEN 1 ELSE 0
    BY DEF OutcomeInv, OutcomesOf
  <2>3. Tally(audit, OutcomesOf(i)) \in Nat BY TrailTally
  <2>4. lostConfirms \in Nat BY DEF TypeInv, ClaimsType
  <2>5. QED BY <2>1, <2>2, <2>3, <2>4
<1>2. QED BY <1>1 DEF OutcomeInv, OutcomesOf

LEMMA OutcomesKept == TypeInv /\ OutcomeInv /\ [Next]_vars => OutcomeInv'
<1> SUFFICES ASSUME TypeInv, OutcomeInv, [Next]_vars PROVE OutcomeInv'
  OBVIOUS
<1>0. audit \in Bags /\ (\A K : Tally(audit, K) \in Nat) /\ lostConfirms \in Nat
  BY TrailTally DEF TypeInv, BrokerType, ClaimsType
<1>1. CASE UnderwritingStep
  <2>1. UNCHANGED <<phase, lostConfirms>> BY <1>1 DEF UnderwritingStep, underwritingRest, claimsVars
  <2>2. QED BY <1>1, <2>1, UnderwritingSays, OutcomesStay
<1>2. CASE PoliciesStep
  <2>1. UNCHANGED <<phase, lostConfirms>> BY <1>2 DEF PoliciesStep, policiesRest, claimsVars
  <2>2. QED BY <1>2, <2>1, PoliciesSays, OutcomesStay
<1>3. CASE BillingStep
  <2>1. UNCHANGED <<phase, lostConfirms>> BY <1>3 DEF BillingStep, billingRest, claimsVars
  <2>2. QED BY <1>3, <2>1, BillingSays, OutcomesStay
<1>4. CASE DocumentsStep
  <2>1. UNCHANGED <<phase, lostConfirms>> BY <1>4 DEF DocumentsStep, documentsRest, claimsVars
  <2>2. QED BY <1>4, <2>1, DocumentsSays, OutcomesStay
<1>5. CASE UNCHANGED vars
  <2>1. UNCHANGED <<audit, phase, lostConfirms>> BY <1>5 DEF vars, brokerVars, claimsVars
  <2>2. Says({}) BY <2>1 DEF Says
  <2>3. QED BY <2>1, <2>2, OutcomesStay
<1>6. CASE Restart
  <2>1. UNCHANGED <<audit, lostConfirms>> BY <1>6 DEF Restart, brokerVars
  <2>2. Says({}) BY <2>1 DEF Says
  <2>3. \A i \in Losses : phase[i] = "done" => phase'[i] = "done" BY <1>6 DEF Restart
  <2>4. QED BY <2>1, <2>2, <2>3, OutcomesStay
<1>7. CASE ClaimsStep
  <2>1. ASSUME NEW i \in Losses, Conclude(i), Record(Outcome(i)) PROVE OutcomeInv'
    <3> DEFINE e == Outcome(i)
    <3>1. /\ e \in Messages /\ Record(e) /\ e.app = i
          /\ e.event = (IF phase[i] = "settle" THEN "settled" ELSE "rejected")
      BY <2>1, ConcludeDoes
    <3> HIDE DEF e
    <3>2. \A K : Tally(audit', K) = Tally(audit, K) + IF e \in K THEN 1 ELSE 0
      BY <1>0, <3>1, RecordDoes
    <3>3. e \in OutcomesOf(i) BY <3>1 DEF OutcomesOf, Saying
    <3>4. \A j \in Losses : j # i => e \notin OutcomesOf(j) BY <3>1 DEF OutcomesOf
    <3>5. phase[i] # "done" BY <2>1 DEF Conclude
    <3>9. audit' # audit
      <4>1. Tally(audit', OutcomesOf(i)) = Tally(audit, OutcomesOf(i)) + 1 BY <3>2, <3>3
      <4>2. Tally(audit, OutcomesOf(i)) \in Nat BY <1>0
      <4>3. QED BY <4>1, <4>2
    <3>6. \/ phase' = [phase EXCEPT ![i] = "done"] /\ lostConfirms' = lostConfirms
          \/ phase' = [phase EXCEPT ![i] = "failed"] /\ lostConfirms' = lostConfirms + 1
      BY <2>1, <3>9 DEF Conclude
    <3>7. ASSUME NEW j \in Losses
          PROVE  Tally(audit', OutcomesOf(j)) <= lostConfirms' + IF phase'[j] = "done" THEN 1 ELSE 0
      <4>1. Tally(audit, OutcomesOf(j)) <= lostConfirms + IF phase[j] = "done" THEN 1 ELSE 0
        BY DEF OutcomeInv, OutcomesOf
      <4>2. Tally(audit, OutcomesOf(j)) \in Nat BY <1>0
      <4>3. Tally(audit', OutcomesOf(j)) = Tally(audit, OutcomesOf(j)) + IF e \in OutcomesOf(j) THEN 1 ELSE 0
        BY <3>2
      <4>4. CASE j = i
        <5>1. Tally(audit', OutcomesOf(j)) = Tally(audit, OutcomesOf(j)) + 1 BY <3>3, <4>3, <4>4
        <5>2. Tally(audit, OutcomesOf(j)) <= lostConfirms BY <1>0, <3>5, <4>1, <4>2, <4>4
        <5>3. \/ phase'[j] = "done" /\ lostConfirms' = lostConfirms
              \/ phase'[j] = "failed" /\ lostConfirms' = lostConfirms + 1
          BY <3>6, <4>4 DEF TypeInv, ClaimsType
        <5>4. QED BY <1>0, <4>2, <5>1, <5>2, <5>3
      <4>5. CASE j # i
        <5>1. Tally(audit', OutcomesOf(j)) = Tally(audit, OutcomesOf(j)) + 0 BY <3>4, <4>3, <4>5
        <5>2. phase'[j] = phase[j] BY <3>6, <4>5 DEF TypeInv, ClaimsType
        <5>3. lostConfirms' \in Nat /\ lostConfirms <= lostConfirms' BY <1>0, <3>6
        <5>4. QED BY <1>0, <4>1, <4>2, <5>1, <5>2, <5>3
      <4>6. QED BY <4>4, <4>5
    <3>8. QED BY <3>7 DEF OutcomeInv, OutcomesOf
  <2>4. ASSUME NEW i \in Losses, Conclude(i), UNCHANGED <<audit, lostConfirms>>,
               phase' = [phase EXCEPT ![i] = "failed"]
        PROVE  OutcomeInv'
    <3>1. phase[i] # "done" BY <2>4 DEF Conclude
    <3>2. \A j \in Losses : phase[j] = "done" => phase'[j] = "done"
      BY <2>4, <3>1 DEF TypeInv, ClaimsType
    <3>3. Says({}) BY <2>4 DEF Says
    <3>4. QED BY <2>4, <3>2, <3>3, OutcomesStay
  <2>2. ASSUME ~ \E i \in Losses : Conclude(i) PROVE OutcomeInv'
    <3>1. UNCHANGED <<audit, lostConfirms>>
      BY <1>7, <2>2 DEF ClaimsStep, NotePolicy, Ask, TimeOut, Answer, Hear, brokerVars, claimsVars
    <3>2. \A i \in Losses : phase[i] = "done" => phase'[i] = "done"
      BY <1>7, <2>2 DEF ClaimsStep, NotePolicy, Ask, TimeOut, Answer, Hear, claimsVars,
                        TypeInv, ClaimsType
    <3>3. Says({}) BY <3>1 DEF Says
    <3>4. QED BY <3>1, <3>2, <3>3, OutcomesStay
  <2>3. QED BY <2>1, <2>2, <2>4, ConcludeDoes
<1>8. QED BY <1>1, <1>2, <1>3, <1>4, <1>5, <1>6, <1>7 DEF Next

\* What is on record was announced or is about to be.
LEMMA RecordsStay ==
    ASSUME TypeInv, RecordInv, NEW S, Says(S), UNCHANGED policiesVars
    PROVE  RecordInv'
<1>1. DOMAIN audit \subseteq DOMAIN audit' BY RecordGrows DEF Says
<1>2. UNCHANGED <<applications, policies, outbox, confirmed>> BY DEF policiesVars
<1>3. QED BY <1>1, <1>2 DEF RecordInv

LEMMA RecordsKept == TypeInv /\ RecordInv /\ [Next]_vars => RecordInv'
<1> SUFFICES ASSUME TypeInv, RecordInv, [Next]_vars PROVE RecordInv'
  OBVIOUS
<1>1. CASE UnderwritingStep
  <2>1. UNCHANGED policiesVars BY <1>1 DEF UnderwritingStep, underwritingRest
  <2>2. QED BY <1>1, <2>1, UnderwritingSays, RecordsStay
<1>2. CASE BillingStep
  <2>1. UNCHANGED policiesVars BY <1>2 DEF BillingStep, billingRest
  <2>2. QED BY <1>2, <2>1, BillingSays, RecordsStay
<1>3. CASE ClaimsStep
  <2>1. UNCHANGED policiesVars BY <1>3 DEF ClaimsStep, claimsRest
  <2>2. QED BY <1>3, <2>1, ClaimsSays, RecordsStay
<1>4. CASE DocumentsStep
  <2>1. UNCHANGED policiesVars BY <1>4 DEF DocumentsStep, documentsRest
  <2>2. QED BY <1>4, <2>1, DocumentsSays, RecordsStay
<1>5. CASE UNCHANGED vars
  <2>1. UNCHANGED <<audit, policiesVars>> BY <1>5 DEF vars, brokerVars
  <2>2. Says({}) BY <2>1 DEF Says
  <2>3. QED BY <2>1, <2>2, RecordsStay
<1>6. CASE Restart
  <2>1. UNCHANGED <<audit, applications, policies, outbox>> /\ confirmed' = {}
    BY <1>6 DEF Restart, brokerVars
  <2>2. QED BY <2>1 DEF RecordInv
<1>7. CASE PoliciesStep
  <2>1. ASSUME NEW a \in Applications, Submit(a) PROVE RecordInv'
    <3> DEFINE e == Event("submitted", a, {}, 0)
    <3>1. /\ applications' = applications \cup {a} /\ outbox' = outbox \cup {e}
          /\ UNCHANGED <<audit, policies, confirmed>>
      BY <2>1 DEF Submit, brokerVars
    <3>2. e.event = "submitted" /\ e.app = a BY DEF Event
    <3> HIDE DEF e
    <3>3. QED BY <3>1, <3>2 DEF RecordInv
  <2>2. ASSUME Issue PROVE RecordInv'
    <3>1. PICK m \in DOMAIN queue["policies"] :
              /\ UNCHANGED <<audit, applications, confirmed>>
              /\ (\E p \in PolicyIds \ Ids : WritePolicy(m, p)) \/ UNCHANGED <<policies, outbox>>
      BY <2>2, IssueDoes
    <3>2. CASE UNCHANGED <<policies, outbox>> BY <3>1, <3>2 DEF RecordInv
    <3>3. ASSUME NEW p \in PolicyIds \ Ids, WritePolicy(m, p) PROVE RecordInv'
      <4> DEFINE x == [id |-> p, app |-> m.app, premium |-> m.premium]
                 e == Event("issued", m.app, {p}, m.premium)
      <4>1. policies' = policies \cup {x} /\ outbox' = outbox \cup {e}
        BY <3>3 DEF WritePolicy
      <4>2. e.event = "issued" /\ e.pol = {x.id} BY DEF Event
      <4> HIDE DEF x, e
      <4>3. QED BY <3>1, <4>1, <4>2 DEF RecordInv
    <3>4. QED BY <3>1, <3>2, <3>3
  <2>3. ASSUME RelaySend PROVE RecordInv'
    <3>1. PICK r \in outbox :
              /\ r \in Messages /\ Record(r)
              /\ confirmed' = {r} \/ UNCHANGED confirmed
      BY <2>3, RelaySendDoes
    <3>2. DOMAIN audit' = DOMAIN audit \cup {r}
      <4>1. audit \in Bags BY DEF TypeInv, BrokerType
      <4>2. QED BY <3>1, <4>1, RecordDoes
    <3>3. UNCHANGED <<applications, policies, outbox>> BY <2>3 DEF RelaySend
    <3>4. QED BY <3>1, <3>2, <3>3 DEF RecordInv
  <2>4. ASSUME RelayDelete PROVE RecordInv'
    <3>1. /\ outbox' = outbox \ confirmed /\ confirmed' = {}
          /\ UNCHANGED <<audit, applications, policies>>
      BY <2>4 DEF RelayDelete, brokerVars
    <3>2. outbox' \cup DOMAIN audit' = outbox \cup DOMAIN audit
      BY <3>1 DEF RecordInv
    <3>3. QED BY <3>1, <3>2 DEF RecordInv
  <2>5. QED BY <1>7, <2>1, <2>2, <2>3, <2>4 DEF PoliciesStep
<1>8. QED BY <1>1, <1>2, <1>3, <1>4, <1>5, <1>6, <1>7 DEF Next
-----------------------------------------------------------------------------
\* The chances of an application move and do not multiply.
LEMMA TurnWeighs ==
    ASSUME TypeInv, NEW q, NEW m, NEW e, NEW R, Turn(q, m, e, R), NEW r \in Queues, NEW a
    PROVE  /\ Tally(queue[r], About(a)) \in Nat /\ Tally(queue'[r], About(a)) \in Nat
           /\ Tally(queue'[r], About(a)) <= Tally(queue[r], About(a))
                 + (IF r \in R /\ e.app = a THEN 1 ELSE 0)
                 - (IF r = q /\ m.app = a /\ faults' = faults THEN 1 ELSE 0)
<1>1. queue[r] \in Bags /\ queue'[r] \in Bags BY DEF Turn, TypeInv, BrokerType
<1>2. IsBag(queue[r]) /\ IsBag(queue'[r]) BY <1>1, BagsAre
<1>3. QED BY <1>2, TallyType DEF Turn

Path == {"underwriting", "register", "price", "decide", "policies"}

LEMMA PathIs ==
    /\ Path \subseteq Queues
    /\ \A r \in Path : r \in {"underwriting", "register", "price", "decide", "policies"}
  BY DEF Path, Queues, Stages

LEMMA InQueuesType ==
    ASSUME TypeInv, NEW q, NEW m, NEW e, NEW R, Turn(q, m, e, R), NEW a
    PROVE  InQueues(a) \in Nat /\ InQueues(a)' \in Nat /\ faults \in Nat
           /\ (faults' = faults \/ faults' = faults + 1)
<1>1. \A r \in Path : Tally(queue[r], About(a)) \in Nat /\ Tally(queue'[r], About(a)) \in Nat
  BY PathIs, TurnWeighs
<1>2. QED BY <1>1 DEF InQueues, Path, Turn, TypeInv, BrokerType

\* Nothing enters and something may leave.
LEMMA PathLeft ==
    ASSUME TypeInv, NEW q, NEW m, Turn(q, m, m, {}), NEW a
    PROVE  InQueues(a)' <= InQueues(a)
              - IF q = "policies" /\ m.app = a /\ faults' = faults THEN 1 ELSE 0
<1>1. ASSUME NEW r \in Path
      PROVE  /\ Tally(queue[r], About(a)) \in Nat /\ Tally(queue'[r], About(a)) \in Nat
             /\ Tally(queue'[r], About(a)) <= Tally(queue[r], About(a))
             /\ r = q /\ m.app = a /\ faults' = faults =>
                  Tally(queue'[r], About(a)) <= Tally(queue[r], About(a)) - 1
  <2>1. /\ Tally(queue[r], About(a)) \in Nat /\ Tally(queue'[r], About(a)) \in Nat
        /\ Tally(queue'[r], About(a)) <= Tally(queue[r], About(a))
              + (IF r \in {} /\ m.app = a THEN 1 ELSE 0)
              - (IF r = q /\ m.app = a /\ faults' = faults THEN 1 ELSE 0)
    BY PathIs, TurnWeighs
  <2>2. QED BY <2>1
<1>2. QED BY <1>1 DEF InQueues, Path

\* What leaves one queue enters one other, or a fault is spent.
LEMMA PathHandedOn ==
    ASSUME TypeInv, NEW q \in Path, NEW f \in Path, q # f, NEW m, NEW e, e.app = m.app,
           NEW R, Turn(q, m, e, R), R \cap Path \subseteq {f}, NEW a
    PROVE  InQueues(a)' <= InQueues(a) + (faults' - faults)
<1> DEFINE gain == IF m.app = a THEN 1 ELSE 0
           loss == IF m.app = a /\ faults' = faults THEN 1 ELSE 0
<1>1. ASSUME NEW r \in Path
      PROVE  /\ Tally(queue[r], About(a)) \in Nat /\ Tally(queue'[r], About(a)) \in Nat
             /\ r # q /\ r # f => Tally(queue'[r], About(a)) <= Tally(queue[r], About(a))
             /\ r = f => Tally(queue'[r], About(a)) <= Tally(queue[r], About(a)) + gain
             /\ r = q => Tally(queue'[r], About(a)) <= Tally(queue[r], About(a)) - loss
  <2>1. /\ Tally(queue[r], About(a)) \in Nat /\ Tally(queue'[r], About(a)) \in Nat
        /\ Tally(queue'[r], About(a)) <= Tally(queue[r], About(a))
              + (IF r \in R /\ e.app = a THEN 1 ELSE 0)
              - (IF r = q /\ m.app = a /\ faults' = faults THEN 1 ELSE 0)
    BY PathIs, TurnWeighs
  <2>2. r # f => r \notin R OBVIOUS
  <2>3. QED BY <2>1, <2>2
<1>2. gain \in {0, 1} /\ loss \in {0, 1} /\ gain <= loss + (faults' - faults)
      /\ faults' - faults \in {0, 1}
  BY InQueuesType
<1> HIDE DEF gain, loss
<1> DEFINE d == faults' - faults
<1>3. gain \in {0, 1} /\ loss \in {0, 1} /\ gain <= loss + d /\ d \in {0, 1}
  BY <1>2
<1> HIDE DEF d
<1>4. InQueues(a)' <= InQueues(a) + gain - loss
  <2>1. CASE f = "underwriting" BY <1>1, <1>3, <2>1 DEF InQueues, Path
  <2>2. CASE f = "register" BY <1>1, <1>3, <2>2 DEF InQueues, Path
  <2>3. CASE f = "price" BY <1>1, <1>3, <2>3 DEF InQueues, Path
  <2>4. CASE f = "decide" BY <1>1, <1>3, <2>4 DEF InQueues, Path
  <2>5. CASE f = "policies" BY <1>1, <1>3, <2>5 DEF InQueues, Path
  <2>6. QED BY <2>1, <2>2, <2>3, <2>4, <2>5, PathIs
<1>5. InQueues(a) \in Nat /\ InQueues(a)' \in Nat BY InQueuesType
<1>6. InQueues(a)' <= InQueues(a) + d BY <1>3, <1>4, <1>5
<1>7. QED BY <1>6 DEF d

\* What is published enters.
LEMMA PathEntered ==
    ASSUME TypeInv, NEW r, NEW R, Turn("none", r, r, R), R \cap Path \subseteq {"underwriting"},
           NEW a
    PROVE  InQueues(a)' <= InQueues(a) + IF "underwriting" \in R /\ r.app = a THEN 1 ELSE 0
<1>1. ASSUME NEW q \in Path
      PROVE  /\ Tally(queue[q], About(a)) \in Nat /\ Tally(queue'[q], About(a)) \in Nat
             /\ Tally(queue'[q], About(a)) <= Tally(queue[q], About(a))
                  + IF q = "underwriting" /\ "underwriting" \in R /\ r.app = a THEN 1 ELSE 0
  <2>1. /\ Tally(queue[q], About(a)) \in Nat /\ Tally(queue'[q], About(a)) \in Nat
        /\ Tally(queue'[q], About(a)) <= Tally(queue[q], About(a))
              + (IF q \in R /\ r.app = a THEN 1 ELSE 0)
              - (IF q = "none" /\ r.app = a /\ faults' = faults THEN 1 ELSE 0)
    BY PathIs, TurnWeighs
  <2>2. q # "none" BY PathIs
  <2>3. q \in R => q = "underwriting" OBVIOUS
  <2>4. QED BY <2>1, <2>2, <2>3
<1>2. QED BY <1>1 DEF InQueues, Path

\* The rest of the chances.
Elsewhere(a) == ToSubmit(a) + ToPublish(a) + Cardinality(PoliciesOf(a))

LEMMA ElsewhereType ==
    ASSUME TypeInv, NEW a
    PROVE  /\ ToSubmit(a) \in {0, 1} /\ ToPublish(a) \in {0, 1}
           /\ IsFiniteSet(PoliciesOf(a)) /\ Cardinality(PoliciesOf(a)) \in Nat
           /\ Elsewhere(a) \in Nat
<1>1. IsFiniteSet(PoliciesOf(a))
  BY FS_Subset DEF PoliciesOf, TypeInv, PoliciesType
<1>2. Cardinality(PoliciesOf(a)) \in Nat
  BY <1>1, FS_CardinalityType
<1>3. QED BY <1>1, <1>2 DEF ToSubmit, ToPublish, Elsewhere

LEMMA ElsewhereNext ==
    ASSUME TypeInv', NEW a
    PROVE  /\ ToSubmit(a)' \in {0, 1} /\ ToPublish(a)' \in {0, 1}
           /\ IsFiniteSet(PoliciesOf(a)') /\ Cardinality(PoliciesOf(a)') \in Nat
           /\ Elsewhere(a)' \in Nat
           /\ Elsewhere(a)' = ToSubmit(a)' + ToPublish(a)' + Cardinality(PoliciesOf(a)')
<1>1. IsFiniteSet(policies') BY DEF TypeInv, PoliciesType
<1>2. PoliciesOf(a)' = {p \in policies' : p.app = a} BY DEF PoliciesOf
<1>3. IsFiniteSet(PoliciesOf(a)') BY <1>1, <1>2, FS_Subset
<1>4. Cardinality(PoliciesOf(a)') \in Nat BY <1>3, FS_CardinalityType
<1>5. ToSubmit(a)' \in {0, 1} /\ ToPublish(a)' \in {0, 1} BY DEF ToSubmit, ToPublish
<1>6. Elsewhere(a)' = ToSubmit(a)' + ToPublish(a)' + Cardinality(PoliciesOf(a)')
  BY DEF Elsewhere
<1>7. QED BY <1>3, <1>4, <1>5, <1>6

\* A step that costs an application no more chances than faults.
Spends(a, d) ==
    /\ InQueues(a)' <= InQueues(a) + d
    /\ Elsewhere(a)' <= Elsewhere(a) + (faults' - faults) - d

LEMMA ChancesPaid ==
    ASSUME TypeInv, TypeInv', RepeatInv, NEW q, NEW m, NEW e, NEW R, Turn(q, m, e, R),
           \A a \in Applications : \E d \in Int : Spends(a, d)
    PROVE  RepeatInv'
<1> SUFFICES ASSUME NEW a \in Applications PROVE Chances(a)' <= 1 + faults'
  BY DEF RepeatInv
<1>1. /\ InQueues(a) \in Nat /\ InQueues(a)' \in Nat /\ faults \in Nat
      /\ faults' = faults \/ faults' = faults + 1
  BY InQueuesType
<1>2. Elsewhere(a) \in Nat BY ElsewhereType
<1>3. Elsewhere(a)' \in Nat BY ElsewhereNext
<1>4. Chances(a) = InQueues(a) + Elsewhere(a)
  BY <1>1, ElsewhereType DEF Chances, Elsewhere
<1>5. Chances(a)' = InQueues(a)' + Elsewhere(a)'
  <2>1. Chances(a)' = ToSubmit(a)' + ToPublish(a)' + InQueues(a)' + Cardinality(PoliciesOf(a)')
    BY DEF Chances
  <2>2. QED BY <1>1, <2>1, ElsewhereNext
<1>6. Chances(a) <= 1 + faults BY DEF RepeatInv
<1>7. PICK d \in Int : Spends(a, d)
  OBVIOUS
<1>8. QED BY <1>1, <1>2, <1>3, <1>4, <1>5, <1>6, <1>7 DEF Spends

\* A step that hands nothing on and writes no policy.
LEMMA QuietRepeats ==
    ASSUME TypeInv, TypeInv', RepeatInv, Quiet, UNCHANGED <<applications, policies>>,
           \A a \in Applications : ToPublish(a)' <= ToPublish(a) + (faults' - faults)
    PROVE  RepeatInv'
<1>1. PICK q, m : Turn(q, m, m, {}) BY DEF Quiet
<1>2. ASSUME NEW a \in Applications PROVE Spends(a, 0)
  <2>1. /\ InQueues(a) \in Nat /\ InQueues(a)' \in Nat /\ faults \in Nat
        /\ faults' = faults \/ faults' = faults + 1
    BY <1>1, InQueuesType
  <2>2. InQueues(a)' <= InQueues(a)
             - IF q = "policies" /\ m.app = a /\ faults' = faults THEN 1 ELSE 0
    BY <1>1, PathLeft
  <2>3. ToSubmit(a)' = ToSubmit(a) /\ PoliciesOf(a)' = PoliciesOf(a)
    BY DEF ToSubmit, PoliciesOf
  <2>4. Elsewhere(a)' <= Elsewhere(a) + (faults' - faults)
    <3>1. Elsewhere(a)' = ToSubmit(a)' + ToPublish(a)' + Cardinality(PoliciesOf(a)')
      BY ElsewhereNext
    <3>2. Elsewhere(a) = ToSubmit(a) + ToPublish(a) + Cardinality(PoliciesOf(a))
      BY DEF Elsewhere
    <3>3. /\ ToSubmit(a) \in {0, 1} /\ ToPublish(a) \in {0, 1} /\ ToPublish(a)' \in {0, 1}
          /\ Cardinality(PoliciesOf(a)) \in Nat
      BY ElsewhereType, ElsewhereNext
    <3>4. QED BY <2>1, <2>3, <3>1, <3>2, <3>3
  <2>5. Elsewhere(a) \in Nat /\ Elsewhere(a)' \in Nat BY ElsewhereType, ElsewhereNext
  <2>6. QED BY <2>1, <2>2, <2>4, <2>5 DEF Spends
<1>3. QED BY <1>1, <1>2, ChancesPaid

\* One that leaves the tables of policies alone as well.
LEMMA TablesRepeat ==
    ASSUME TypeInv, TypeInv', RepeatInv, Quiet,
           UNCHANGED <<applications, policies, outbox, confirmed>>
    PROVE  RepeatInv'
<1>1. ASSUME NEW a \in Applications PROVE ToPublish(a)' <= ToPublish(a) + (faults' - faults)
  <2>1. ToPublish(a)' = ToPublish(a) BY DEF ToPublish
  <2>2. ToPublish(a) \in {0, 1} BY ElsewhereType
  <2>3. faults \in Nat /\ (faults' = faults \/ faults' = faults + 1)
    BY InQueuesType DEF Quiet
  <2>4. QED BY <2>1, <2>2, <2>3
<1>2. QED BY <1>1, QuietRepeats

LEMMA ForwardRepeats ==
    ASSUME TypeInv, TypeInv', RepeatInv, NEW q \in DOMAIN Following, Forward(q),
           UNCHANGED policiesVars
    PROVE  RepeatInv'
<1>1. PICK m \in DOMAIN queue[q] : \E R \in {{}, {Following[q]}} : Turn(q, m, Produce(q, m), R)
  BY ForwardDoes
<1>2. PICK R \in {{}, {Following[q]}} : Turn(q, m, Produce(q, m), R)
  BY <1>1
<1>3. q \in Path /\ Following[q] \in Path /\ q # Following[q] /\ Holding[q] = "submitted"
  BY DEF Following, Path, Holding
<1>4. Produce(q, m).app = m.app
  <2>1. m \in Sort("submitted") BY <1>3, PathIs DEF TypeInv, BrokerType
  <2>2. QED BY <2>1, ProductIs
<1>5. R \cap Path \subseteq {Following[q]} OBVIOUS
<1> DEFINE e == Produce(q, m)
<1> HIDE DEF e
<1>6. e.app = m.app /\ Turn(q, m, e, R) BY <1>2, <1>4 DEF e
<1>7. ASSUME NEW a \in Applications PROVE \E d \in Int : Spends(a, d)
  <2>1. InQueues(a)' <= InQueues(a) + (faults' - faults)
    BY <1>3, <1>5, <1>6, PathHandedOn
  <2>2. faults \in Nat /\ (faults' = faults \/ faults' = faults + 1)
    BY <1>6, InQueuesType
  <2>3. Elsewhere(a)' = Elsewhere(a)
    BY DEF policiesVars, Elsewhere, ToSubmit, ToPublish, PoliciesOf
  <2>4. Elsewhere(a) \in Nat BY ElsewhereType
  <2>5. faults' - faults \in Int BY <2>2
  <2>6. Spends(a, faults' - faults) BY <2>1, <2>2, <2>3, <2>4 DEF Spends
  <2>7. QED BY <2>5, <2>6
<1>8. QED BY <1>6, <1>7, ChancesPaid

LEMMA DecideRepeats ==
    ASSUME TypeInv, TypeInv', RepeatInv, Decide, UNCHANGED policiesVars
    PROVE  RepeatInv'
<1>1. PICK m \in DOMAIN queue["decide"] :
              \/ Turn("decide", m, Decision(m), BoundQueues(Decision(m)))
              \/ Turn("decide", m, Decision(m), {})
  BY DecideDoes
<1>2. PICK R \in {{}, BoundQueues(Decision(m))} : Turn("decide", m, Decision(m), R)
  BY <1>1
<1> DEFINE e == Decision(m)
<1>3. e.app = m.app /\ e.event \in {"accepted", "declined"} BY DEF Decision, Event
<1> HIDE DEF e
<1>4. R \cap Path \subseteq {"policies"}
  <2>1. R \in {{}, BoundQueues(e)} BY <1>2 DEF e
  <2>2. BoundQueues(e) \subseteq {"policies"} BY <1>3, BoundQueuesAre
  <2>3. QED BY <2>1, <2>2
<1>5. Turn("decide", m, e, R) BY <1>2 DEF e
<1>6. "decide" \in Path /\ "policies" \in Path /\ "decide" # "policies" BY DEF Path
<1>7. ASSUME NEW a \in Applications PROVE \E d \in Int : Spends(a, d)
  <2>1. InQueues(a)' <= InQueues(a) + (faults' - faults)
    BY <1>3, <1>4, <1>5, <1>6, PathHandedOn
  <2>2. faults \in Nat /\ (faults' = faults \/ faults' = faults + 1)
    BY <1>5, InQueuesType
  <2>3. Elsewhere(a)' = Elsewhere(a)
    BY DEF policiesVars, Elsewhere, ToSubmit, ToPublish, PoliciesOf
  <2>4. Elsewhere(a) \in Nat BY ElsewhereType
  <2>5. faults' - faults \in Int BY <2>2
  <2>6. Spends(a, faults' - faults) BY <2>1, <2>2, <2>3, <2>4 DEF Spends
  <2>7. QED BY <2>5, <2>6
<1>8. QED BY <1>5, <1>7, ChancesPaid

\* A record of the outbox announces one application, or none.
LEMMA AnnouncesOne ==
    /\ \A a, b : a # b => Event("submitted", a, {}, 0) # Event("submitted", b, {}, 0)
    /\ \A a, b, p, u : Event("submitted", a, {}, 0) # Event("issued", b, {p}, u)
<1>1. \A a, k, s, u : Event(k, a, s, u).app = a /\ Event(k, a, s, u).event = k BY DEF Event
<1>2. ASSUME NEW a, NEW b, a # b
      PROVE  Event("submitted", a, {}, 0) # Event("submitted", b, {}, 0)
  BY <1>1, <1>2
<1>3. ASSUME NEW a, NEW b, NEW p, NEW u
      PROVE  Event("submitted", a, {}, 0) # Event("issued", b, {p}, u)
  <2>1. Event("submitted", a, {}, 0).event = "submitted" BY <1>1
  <2>2. Event("issued", b, {p}, u).event = "issued" BY <1>1
  <2>3. QED BY <2>1, <2>2
<1>4. QED BY <1>2, <1>3

LEMMA SubmitRepeats ==
    ASSUME TypeInv, TypeInv', RepeatInv, NEW x \in Applications, Submit(x)
    PROVE  RepeatInv'
<1>1. /\ x \notin applications /\ applications' = applications \cup {x}
      /\ outbox' = outbox \cup {Event("submitted", x, {}, 0)}
      /\ UNCHANGED <<queue, dead, faults, policies, confirmed>>
  BY DEF Submit, brokerVars
<1>2. Turn("none", x, x, {}) BY <1>1, StillDoes
<1>3. ASSUME NEW a \in Applications PROVE Spends(a, 0)
  <2>1. /\ InQueues(a) \in Nat /\ InQueues(a)' \in Nat /\ faults \in Nat
    BY <1>2, InQueuesType
  <2>2. InQueues(a)' = InQueues(a) BY <1>1 DEF InQueues
  <2>3. PoliciesOf(a)' = PoliciesOf(a) BY <1>1 DEF PoliciesOf
  <2>4. ToSubmit(a)' + ToPublish(a)' <= ToSubmit(a) + ToPublish(a)
    <3>1. CASE a = x
      <4>1. ToSubmit(a) = 1 /\ ToSubmit(a)' = 0 BY <1>1, <3>1 DEF ToSubmit
      <4>2. ToPublish(a) \in {0, 1} /\ ToPublish(a)' \in {0, 1} BY ElsewhereType, ElsewhereNext
      <4>3. QED BY <4>1, <4>2
    <3>2. CASE a # x
      <4>1. ToSubmit(a)' = ToSubmit(a) BY <1>1, <3>2 DEF ToSubmit
      <4>2. Event("submitted", a, {}, 0) # Event("submitted", x, {}, 0) BY <3>2, AnnouncesOne
      <4>3. ToPublish(a)' = ToPublish(a) BY <1>1, <4>2 DEF ToPublish
      <4>4. ToPublish(a) \in {0, 1} /\ ToSubmit(a) \in {0, 1} BY ElsewhereType
      <4>5. QED BY <4>1, <4>3, <4>4
    <3>3. QED BY <3>1, <3>2
  <2>5. Elsewhere(a)' <= Elsewhere(a)
    <3>1. Elsewhere(a)' = ToSubmit(a)' + ToPublish(a)' + Cardinality(PoliciesOf(a)')
      BY ElsewhereNext
    <3>2. /\ ToSubmit(a) \in {0, 1} /\ ToPublish(a) \in {0, 1} /\ ToPublish(a)' \in {0, 1}
          /\ ToSubmit(a)' \in {0, 1} /\ Cardinality(PoliciesOf(a)) \in Nat
      BY ElsewhereType, ElsewhereNext
    <3>3. QED BY <2>3, <2>4, <3>1, <3>2 DEF Elsewhere
  <2>6. Elsewhere(a) \in Nat /\ Elsewhere(a)' \in Nat BY ElsewhereType, ElsewhereNext
  <2>7. faults' = faults BY <1>1
  <2>8. QED BY <2>1, <2>2, <2>5, <2>6, <2>7 DEF Spends
<1>4. QED BY <1>2, <1>3, ChancesPaid

LEMMA IssueRepeats ==
    ASSUME TypeInv, TypeInv', RepeatInv, Issue
    PROVE  RepeatInv'
<1>1. PICK m \in DOMAIN queue["policies"] :
          /\ Turn("policies", m, m, {}) /\ UNCHANGED <<applications, confirmed>>
          /\ \/ \E p \in PolicyIds \ Ids : WritePolicy(m, p)
             \/ faults' = faults + 1 /\ UNCHANGED <<policies, outbox>>
  BY IssueDoes
<1>2. ASSUME NEW a \in Applications PROVE \E d \in Int : Spends(a, d)
  <2> DEFINE loss == IF m.app = a /\ faults' = faults THEN 1 ELSE 0
  <2>1. /\ InQueues(a) \in Nat /\ InQueues(a)' \in Nat /\ faults \in Nat
        /\ faults' = faults \/ faults' = faults + 1
    BY <1>1, InQueuesType
  <2>2. InQueues(a)' <= InQueues(a) - loss
    BY <1>1, PathLeft
  <2>3. ToSubmit(a)' = ToSubmit(a) BY <1>1 DEF ToSubmit
  <2>4. ToPublish(a)' = ToPublish(a)
    <3>1. CASE UNCHANGED outbox BY <1>1, <3>1 DEF ToPublish
    <3>2. ASSUME NEW p, WritePolicy(m, p) PROVE ToPublish(a)' = ToPublish(a)
      <4>1. outbox' = outbox \cup {Event("issued", m.app, {p}, m.premium)}
        BY <3>2 DEF WritePolicy
      <4>2. Event("submitted", a, {}, 0) # Event("issued", m.app, {p}, m.premium)
        BY AnnouncesOne
      <4>3. QED BY <1>1, <4>1, <4>2 DEF ToPublish
    <3>3. QED BY <1>1, <3>1, <3>2
  <2>5. Cardinality(PoliciesOf(a)') <= Cardinality(PoliciesOf(a)) + loss + (faults' - faults)
    <3>0. Cardinality(PoliciesOf(a)) \in Nat BY ElsewhereType
    <3>1. CASE faults' = faults + 1 /\ UNCHANGED <<policies, outbox>>
      <4>1. PoliciesOf(a)' = PoliciesOf(a) BY <3>1 DEF PoliciesOf
      <4>2. QED BY <2>1, <3>0, <3>1, <4>1
    <3>2. ASSUME NEW p \in PolicyIds \ Ids, WritePolicy(m, p)
          PROVE  Cardinality(PoliciesOf(a)')
                   <= Cardinality(PoliciesOf(a)) + loss + (faults' - faults)
      <4> DEFINE y == [id |-> p, app |-> m.app, premium |-> m.premium]
      <4>1. policies' = policies \cup {y} /\ y.app = m.app BY <3>2 DEF WritePolicy
      <4> HIDE DEF y
      <4>2. CASE m.app = a
        <5>1. PoliciesOf(a)' \ {y} = PoliciesOf(a) \ {y} BY <4>1 DEF PoliciesOf
        <5>2. Cardinality(PoliciesOf(a)') = Cardinality(PoliciesOf(a))
                + (IF y \in PoliciesOf(a)' THEN 1 ELSE 0) - (IF y \in PoliciesOf(a) THEN 1 ELSE 0)
          BY <5>1, ElsewhereType, CardinalityMoves
        <5>3. QED BY <2>1, <3>0, <4>2, <5>2
      <4>3. CASE m.app # a
        <5>1. PoliciesOf(a)' = PoliciesOf(a) BY <4>1, <4>3 DEF PoliciesOf
        <5>2. QED BY <2>1, <3>0, <5>1
      <4>4. QED BY <4>2, <4>3
    <3>3. QED BY <1>1, <3>1, <3>2
  <2>6. loss \in {0, 1} OBVIOUS
  <2> HIDE DEF loss
  <2>7. Elsewhere(a)' <= Elsewhere(a) + (faults' - faults) + loss
    <3>1. Elsewhere(a)' = ToSubmit(a)' + ToPublish(a)' + Cardinality(PoliciesOf(a)')
      BY ElsewhereNext
    <3>2. /\ ToSubmit(a) \in {0, 1} /\ ToPublish(a) \in {0, 1}
          /\ Cardinality(PoliciesOf(a)) \in Nat /\ Cardinality(PoliciesOf(a)') \in Nat
      BY ElsewhereType, ElsewhereNext
    <3>3. QED BY <2>1, <2>3, <2>4, <2>5, <2>6, <3>1, <3>2 DEF Elsewhere
  <2>8. Elsewhere(a) \in Nat /\ Elsewhere(a)' \in Nat BY ElsewhereType, ElsewhereNext
  <2>9. Spends(a, -loss) BY <2>1, <2>2, <2>6, <2>7, <2>8 DEF Spends
  <2>10. -loss \in Int BY <2>6
  <2>11. QED BY <2>9, <2>10
<1>3. QED BY <1>1, <1>2, ChancesPaid

LEMMA RelaySendRepeats ==
    ASSUME TypeInv, TypeInv', RepeatInv, RelaySend
    PROVE  RepeatInv'
<1>1. PICK r \in outbox :
          /\ confirmed = {} /\ Turn("none", r, r, BoundQueues(r))
          /\ \/ confirmed' = {r} /\ UNCHANGED faults
             \/ faults' = faults + 1 /\ UNCHANGED confirmed
  BY RelaySendDoes
<1>2. UNCHANGED <<applications, policies, outbox>> BY DEF RelaySend
<1>3. r.event \in {"submitted", "issued"} BY OutboxHas DEF Sort
<1>4. BoundQueues(r) \cap Path \subseteq {"underwriting"}
      /\ ("underwriting" \in BoundQueues(r) <=> r.event = "submitted")
  <2>1. "billing" \notin Path /\ "claims" \notin Path BY DEF Path
  <2>2. QED BY <1>3, <2>1, BoundQueuesAre
<1>5. ASSUME NEW a \in Applications PROVE \E d \in Int : Spends(a, d)
  <2> DEFINE gain == IF "underwriting" \in BoundQueues(r) /\ r.app = a THEN 1 ELSE 0
  <2>1. /\ InQueues(a) \in Nat /\ InQueues(a)' \in Nat /\ faults \in Nat
        /\ faults' = faults \/ faults' = faults + 1
    BY <1>1, InQueuesType
  <2>2. InQueues(a)' <= InQueues(a) + gain
    BY <1>1, <1>4, PathEntered
  <2>3. ToSubmit(a)' = ToSubmit(a) /\ PoliciesOf(a)' = PoliciesOf(a)
    BY <1>2 DEF ToSubmit, PoliciesOf
  <2>4. ToPublish(a)' <= ToPublish(a) + (faults' - faults) - gain
    <3>0. ToPublish(a) \in {0, 1} /\ ToPublish(a)' \in {0, 1} BY ElsewhereType, ElsewhereNext
    <3>1. CASE faults' = faults + 1 /\ UNCHANGED confirmed
      <4>1. ToPublish(a)' = ToPublish(a) BY <1>2, <3>1 DEF ToPublish
      <4>2. QED BY <2>1, <3>0, <3>1, <4>1
    <3>2. CASE confirmed' = {r} /\ UNCHANGED faults
      <4>1. CASE r = Event("submitted", a, {}, 0)
        <5>1. ToPublish(a) = 1 /\ ToPublish(a)' = 0 BY <1>1, <1>2, <3>2, <4>1 DEF ToPublish
        <5>2. QED BY <2>1, <3>2, <5>1
      <4>2. CASE r # Event("submitted", a, {}, 0)
        <5>1. gain = 0 BY <1>4, <4>2, OutboxHas
        <5>2. ToPublish(a)' = ToPublish(a) BY <1>1, <1>2, <3>2, <4>2 DEF ToPublish
        <5>3. QED BY <2>1, <3>0, <3>2, <5>1, <5>2
      <4>3. QED BY <4>1, <4>2
    <3>3. QED BY <1>1, <3>1, <3>2
  <2>5. gain \in {0, 1} OBVIOUS
  <2> HIDE DEF gain
  <2>6. Elsewhere(a)' <= Elsewhere(a) + (faults' - faults) - gain
    <3>1. Elsewhere(a)' = ToSubmit(a)' + ToPublish(a)' + Cardinality(PoliciesOf(a)')
      BY ElsewhereNext
    <3>2. /\ ToSubmit(a) \in {0, 1} /\ ToPublish(a) \in {0, 1} /\ ToPublish(a)' \in {0, 1}
          /\ Cardinality(PoliciesOf(a)) \in Nat
      BY ElsewhereType, ElsewhereNext
    <3>3. QED BY <2>1, <2>3, <2>4, <2>5, <3>1, <3>2 DEF Elsewhere
  <2>7. Spends(a, gain) BY <2>2, <2>6 DEF Spends
  <2>8. gain \in Int BY <2>5
  <2>9. QED BY <2>7, <2>8
<1>6. QED BY <1>1, <1>5, ChancesPaid

\* What the other modules and a restart do.
LEMMA BillingIsQuiet == ASSUME TypeInv, BillingStep PROVE Quiet
  BY ClaimDoes, ChargeDoes, ConfirmDoes, ExpireDoes DEF BillingStep

LEMMA ClaimsIsQuiet == ASSUME TypeInv, ClaimsStep PROVE Quiet
<1>1. CASE NotePolicy BY <1>1, NotePolicyDoes DEF Quiet
<1>2. CASE \E i \in Losses : Conclude(i) BY <1>2, ConcludeDoes, StillIsQuiet
<1>3. CASE \E i \in Losses : Ask(i, Ids) \/ TimeOut(i)
  <2>1. UNCHANGED <<queue, dead>> /\ (UNCHANGED faults \/ Fault)
    BY <1>3 DEF Ask, TimeOut, brokerVars
  <2>2. QED BY <2>1, StillIsQuiet
<1>4. CASE Answer(Ids) \/ \E r \in replies : Hear(r)
  <2>1. UNCHANGED <<queue, dead, faults>> BY <1>4 DEF Answer, Hear, brokerVars
  <2>2. QED BY <2>1, StillIsQuiet
<1>5. QED BY <1>1, <1>2, <1>3, <1>4 DEF ClaimsStep

LEMMA RepeatsKept == TypeInv /\ RepeatInv /\ [Next]_vars => RepeatInv'
<1> SUFFICES ASSUME TypeInv, RepeatInv, [Next]_vars PROVE RepeatInv'
  OBVIOUS
<1>0. TypeInv' BY TypesKept
<1>1. CASE UnderwritingStep
  <2>1. UNCHANGED policiesVars BY <1>1 DEF UnderwritingStep, underwritingRest
  <2>2. QED BY <1>0, <1>1, <2>1, ForwardRepeats, DecideRepeats DEF UnderwritingStep
<1>2. CASE BillingStep
  <2>1. UNCHANGED policiesVars BY <1>2 DEF BillingStep, billingRest
  <2>2. QED BY <1>0, <1>2, <2>1, BillingIsQuiet, TablesRepeat DEF policiesVars
<1>3. CASE ClaimsStep
  <2>1. UNCHANGED policiesVars BY <1>3 DEF ClaimsStep, claimsRest
  <2>2. QED BY <1>0, <1>3, <2>1, ClaimsIsQuiet, TablesRepeat DEF policiesVars
<1>4. CASE DocumentsStep
  <2>1. UNCHANGED policiesVars BY <1>4 DEF DocumentsStep, documentsRest
  <2>2. UNCHANGED <<queue, dead>> /\ (UNCHANGED faults \/ Fault)
    BY <1>4 DEF DocumentsStep, Keep, Announce, brokerVars
  <2>3. QED BY <1>0, <2>1, <2>2, StillIsQuiet, TablesRepeat DEF policiesVars
<1>5. CASE UNCHANGED vars
  <2>1. UNCHANGED <<queue, dead, faults, policiesVars>> BY <1>5 DEF vars, brokerVars
  <2>2. QED BY <1>0, <2>1, StillIsQuiet, TablesRepeat DEF policiesVars
<1>6. CASE Restart
  <2>1. Fault /\ UNCHANGED <<queue, dead, applications, policies, outbox>>
    BY <1>6 DEF Restart, brokerVars
  <2>2. ASSUME NEW a \in Applications PROVE ToPublish(a)' <= ToPublish(a) + (faults' - faults)
    <3>1. ToPublish(a) \in {0, 1} /\ ToPublish(a)' \in {0, 1}
      BY <1>0, ElsewhereType, ElsewhereNext
    <3>2. faults' = faults + 1 /\ faults \in Nat BY <2>1 DEF Fault, TypeInv, BrokerType
    <3>3. QED BY <3>1, <3>2
  <2>3. QED BY <1>0, <2>1, <2>2, StillIsQuiet, QuietRepeats
<1>7. CASE PoliciesStep
  <2>1. ASSUME RelayDelete PROVE RepeatInv'
    <3>1. /\ outbox' = outbox \ confirmed /\ confirmed' = {}
          /\ UNCHANGED <<queue, dead, faults, applications, policies>>
      BY <2>1 DEF RelayDelete, brokerVars
    <3>2. ASSUME NEW a \in Applications PROVE ToPublish(a)' <= ToPublish(a) + (faults' - faults)
      <4>1. ToPublish(a)' = ToPublish(a) BY <3>1 DEF ToPublish
      <4>2. ToPublish(a) \in {0, 1} BY ElsewhereType
      <4>3. faults' = faults /\ faults \in Nat BY <3>1 DEF TypeInv, BrokerType
      <4>4. QED BY <4>1, <4>2, <4>3
    <3>3. QED BY <1>0, <3>1, <3>2, StillIsQuiet, QuietRepeats
  <2>2. QED BY <1>0, <1>7, <2>1, SubmitRepeats, IssueRepeats, RelaySendRepeats DEF PoliciesStep
<1>8. QED BY <1>1, <1>2, <1>3, <1>4, <1>5, <1>6, <1>7 DEF Next
-----------------------------------------------------------------------------
\* The invariants hold at first.
LEMMA EmptyTallies == IsBag(EmptyBag) /\ DOMAIN EmptyBag = {} /\ \A K : Tally(EmptyBag, K) = 0
<1>1. EmptyBag = [e \in {} |-> 1] BY DEF EmptyBag, SetToBag
<1>2. DOMAIN EmptyBag = {} /\ IsBag(EmptyBag) BY <1>1, FS_EmptySet DEF IsBag
<1>3. ASSUME NEW K PROVE Tally(EmptyBag, K) = 0
  <2>1. DOMAIN EmptyBag \cap K = {} BY <1>2
  <2>2. QED BY <2>1, SumEmpty DEF Tally
<1>4. QED BY <1>2, <1>3

\* Everything that a step needs and leaves.
Inv ==
    /\ TypeInv /\ AskInv /\ MessageInv /\ RecordInv
    /\ CounterInv /\ IssuedInv /\ ChargeInv /\ OutcomeInv /\ RepeatInv

LEMMA InvAtFirst == Init => Inv
<1> SUFFICES ASSUME Init PROVE Inv
  OBVIOUS
<1>1. TypeInv BY TypesAtFirst
<1>2. AskInv BY DEF Init, AskInv
<1>3. DOMAIN audit = {} /\ (\A q \in Queues : queue[q] = EmptyBag) /\ policies = {} /\ outbox = {}
  BY EmptyTallies DEF Init
<1>4. MessageInv
  <2>1. QueuesBacked BY <1>3, EmptyTallies DEF QueuesBacked
  <2>2. TrailIsSo /\ OutboxOfPolicies /\ PoliciesAccepted
    BY <1>3 DEF TrailIsSo, OutboxOfPolicies, PoliciesAccepted
  <2>3. announcing \subseteq store BY DEF Init
  <2>4. QED BY <2>1, <2>2, <2>3 DEF MessageInv
<1>5. RecordInv BY <1>3 DEF Init, RecordInv
<1>6. \A K : Tally(audit, K) = 0 BY EmptyTallies DEF Init
<1>7. CounterInv BY <1>6 DEF Init, CounterInv
<1>8. ChargeInv
  <2>1. \A p \in PolicyIds : ~MayBeCharged(p) BY DEF Init, MayBeCharged
  <2>2. QED BY <1>6, <2>1 DEF Init, ChargeInv
<1>9. OutcomeInv BY <1>6 DEF Init, OutcomeInv
<1>10. RepeatInv
  <2> SUFFICES ASSUME NEW a \in Applications PROVE Chances(a) <= 1 + faults
    BY DEF RepeatInv
  <2>1. ToSubmit(a) = 1 /\ ToPublish(a) = 0 BY <1>3 DEF Init, ToSubmit, ToPublish
  <2>2. InQueues(a) = 0
    <3>1. \A q \in Path : Tally(queue[q], About(a)) = 0 BY <1>3, EmptyTallies, PathIs
    <3>2. QED BY <3>1 DEF InQueues, Path
  <2>3. Cardinality(PoliciesOf(a)) = 0
    <3>1. PoliciesOf(a) = {} BY <1>3 DEF PoliciesOf
    <3>2. QED BY <3>1, FS_EmptySet
  <2>4. faults = 0 BY DEF Init
  <2>5. QED BY <2>1, <2>2, <2>3, <2>4 DEF Chances
<1>12. IssuedInv
  <2>1. issued = 0 /\ policies = {} BY DEF Init
  <2>2. QED BY <2>1, FS_EmptySet DEF IssuedInv
<1>11. QED BY <1>1, <1>2, <1>4, <1>5, <1>7, <1>8, <1>9, <1>10, <1>12 DEF Inv

LEMMA InvHolds == Spec => []Inv
<1>1. Init => Inv BY InvAtFirst
<1>2. Inv /\ [Next]_vars => Inv'
  <2> SUFFICES ASSUME Inv, [Next]_vars PROVE Inv'
    OBVIOUS
  <2>1. TypeInv' BY TypesKept DEF Inv
  <2>2. AskInv' BY AskKept DEF Inv
  <2>3. MessageInv' BY MessagesKept DEF Inv
  <2>4. RecordInv' BY RecordsKept DEF Inv
  <2>5. CounterInv' BY CountersKept DEF Inv
  <2>6. ChargeInv' BY ChargesKept DEF Inv
  <2>7. OutcomeInv' BY OutcomesKept DEF Inv
  <2>8. RepeatInv' BY RepeatsKept DEF Inv
  <2>10. IssuedInv' BY IssuedKept DEF Inv
  <2>9. QED BY <2>1, <2>2, <2>3, <2>4, <2>5, <2>6, <2>7, <2>8, <2>10 DEF Inv
<1>3. QED BY <1>1, <1>2, PTL DEF Spec
-----------------------------------------------------------------------------
\* The counts of the properties are tallies.
Reported(kind, app) == {m \in Messages : m.event = kind /\ m.app = app}

LEMMA CountsAre ==
    ASSUME TypeInv
    PROVE  /\ \A kind : SumFunctionOnSet(audit, Trail(kind)) = Tally(audit, Saying(kind))
           /\ \A p : Charged(p) = Tally(audit, ChargesOf(p))
           /\ \A kind, app : Audited(kind, app) = Tally(audit, Reported(kind, app))
<1>1. DOMAIN audit \subseteq Messages /\ BagToSet(audit) = DOMAIN audit
  BY BagsAre DEF TypeInv, BrokerType, BagToSet
<1>2. ASSUME NEW kind
      PROVE  SumFunctionOnSet(audit, Trail(kind)) = Tally(audit, Saying(kind))
  <2>1. Trail(kind) = DOMAIN audit \cap Saying(kind) BY <1>1 DEF Trail, Saying
  <2>2. QED BY <2>1 DEF Tally
<1>3. ASSUME NEW p PROVE Charged(p) = Tally(audit, ChargesOf(p))
  <2>1. {m \in Trail("charged") : m.pol = {p}} = DOMAIN audit \cap ChargesOf(p)
    BY <1>1 DEF Trail, ChargesOf
  <2>2. QED BY <2>1 DEF Tally, Charged
<1>4. ASSUME NEW kind, NEW app
      PROVE  Audited(kind, app) = Tally(audit, Reported(kind, app))
  <2>1. {m \in BagToSet(audit) : m.event = kind /\ m.app = app}
          = DOMAIN audit \cap Reported(kind, app)
    BY <1>1 DEF Reported
  <2>2. QED BY <2>1 DEF Tally, Audited
<1>5. QED BY <1>2, <1>3, <1>4

\* An event is counted when it is in the audit trail.
LEMMA AuditedIsTold ==
    ASSUME TypeInv, NEW kind, NEW app
    PROVE  Audited(kind, app) \in Nat /\ (Audited(kind, app) > 0 <=> Told(kind, app))
<1>1. DOMAIN audit \subseteq Messages
  BY BagsAre DEF TypeInv, BrokerType
<1>2. Audited(kind, app) = Tally(audit, Reported(kind, app))
  BY CountsAre
<1>3. DOMAIN audit \cap Reported(kind, app) # {} <=> Told(kind, app)
  BY <1>1 DEF Reported, Told
<1>4. QED BY <1>2, <1>3, TrailTally

\* The audit trail says what the tables say: nobody above the limit is insured,
\* what is charged is a policy at its premium, what is on record was announced or
\* is about to be and nothing else was, a key that was announced is held while its
\* process lives, and no counter runs ahead.
THEOREM AuditIsRight == Spec => []AuditAgrees
<1>1. Inv => AuditAgrees
  <2> SUFFICES ASSUME Inv PROVE AuditAgrees
    OBVIOUS
  <2>0. TypeInv /\ MessageInv /\ TrailIsSo /\ OutboxOfPolicies /\ PoliciesAccepted /\ RecordInv /\ CounterInv
    BY DEF Inv, MessageInv
  <2>1. \A kind : Trail(kind) = {m \in DOMAIN audit : m.event = kind}
    BY DEF Trail, BagToSet
  <2>2. LimitIsRespected
    <3>1. \A p \in policies : ~Refer(p.app) /\ p.app \in Applications
      BY <2>0 DEF PoliciesAccepted, TypeInv, PoliciesType
    <3>2. \A m \in Trail("declined") : Refer(m.app) BY <2>0, <2>1 DEF TrailIsSo, IsSo
    <3>3. QED BY <3>1, <3>2, PolicyAssumption DEF LimitIsRespected, Refer
  <2>3. ChargesAreOfPolicies
    <3>1. ASSUME NEW m \in Trail("charged") PROVE OfPolicy(m)
      BY <2>0, <2>1, <3>1 DEF TrailIsSo, IsSo
    <3>2. QED BY <2>0, <3>1 DEF ChargesAreOfPolicies, OfPolicy, PoliciesAccepted
  <2>4. NothingLostOrInvented
    <3>1. ASSUME NEW p \in policies
          PROVE  \E m \in outbox \cup Trail("issued") : m.event = "issued" /\ m.pol = {p.id}
      <4>1. PICK m \in outbox \cup DOMAIN audit : m.event = "issued" /\ m.pol = {p.id}
        BY <2>0 DEF RecordInv
      <4>2. QED BY <2>1, <4>1
    <3>2. ASSUME NEW m \in outbox \cup Trail("issued"), m.event = "issued"
          PROVE  \E p \in policies : m.pol = {p.id} /\ m.app = p.app
      <4>1. OfPolicy(m) BY <2>0, <2>1, <3>2 DEF OutboxOfPolicies, TrailIsSo, IsSo
      <4>2. QED BY <4>1 DEF OfPolicy
    <3>3. ASSUME NEW a \in applications
          PROVE  \E m \in outbox \cup Trail("submitted") : m.event = "submitted" /\ m.app = a
      <4>1. PICK m \in outbox \cup DOMAIN audit : m.event = "submitted" /\ m.app = a
        BY <2>0 DEF RecordInv
      <4>2. QED BY <2>1, <4>1
    <3>4. QED BY <3>1, <3>2, <3>3 DEF NothingLostOrInvented
  <2>5. AnnouncedIsHeld
    BY <2>0, <2>1 DEF AnnouncedIsHeld, TrailIsSo, IsSo
  <2>6. CountersNeverOverstate
    <3>1. issued <= Cardinality(policies) BY DEF Inv, IssuedInv
    <3>2. QED BY <2>0, <3>1, CountsAre DEF CountersNeverOverstate, CounterInv
  <2>7. QED BY <2>2, <2>3, <2>4, <2>5, <2>6 DEF AuditAgrees
<1>2. QED BY <1>1, InvHolds, PTL

\* Each policy beyond an application's first cost a fault, and so did each charge
\* of a policy beyond its first, however often its messages went round.
THEOREM RepeatsAreBounded == Spec => []RepeatsArePaidFor
<1>1. Inv => RepeatsArePaidFor
  <2> SUFFICES ASSUME Inv PROVE RepeatsArePaidFor
    OBVIOUS
  <2>0. TypeInv /\ RepeatInv /\ ChargeInv BY DEF Inv
  <2>1. ASSUME NEW a \in Applications PROVE Cardinality({p \in policies : p.app = a}) <= 1 + faults
    <3>1. Chances(a) <= 1 + faults BY <2>0 DEF RepeatInv
    <3>2. \A q \in Path : Tally(queue[q], About(a)) \in Nat
      BY <2>0, PathIs, BagsAre, TallyType DEF TypeInv, BrokerType
    <3>3. InQueues(a) \in Nat BY <3>2 DEF InQueues, Path
    <3>4. /\ ToSubmit(a) \in {0, 1} /\ ToPublish(a) \in {0, 1}
          /\ Cardinality(PoliciesOf(a)) \in Nat
      BY <2>0, ElsewhereType
    <3>5. faults \in Nat BY <2>0 DEF TypeInv, BrokerType
    <3>6. Cardinality(PoliciesOf(a)) <= 1 + faults
      BY <3>1, <3>3, <3>4, <3>5 DEF Chances
    <3>7. QED BY <3>6 DEF PoliciesOf
  <2>2. ASSUME NEW p \in PolicyIds PROVE Charged(p) <= 1 + unconfirmed[p] + expired[p]
    <3>1. Charged(p) = Tally(audit, ChargesOf(p)) /\ Tally(audit, ChargesOf(p)) \in Nat
      BY <2>0, CountsAre, TrailTally
    <3>2. Tally(audit, ChargesOf(p))
             <= unconfirmed[p] + expired[p] + IF MayBeCharged(p) THEN 1 ELSE 0
      BY <2>0 DEF ChargeInv
    <3>3. unconfirmed[p] \in Nat /\ expired[p] \in Nat BY <2>0 DEF TypeInv, BillingType
    <3>4. QED BY <3>1, <3>2, <3>3
  <2>3. QED BY <2>1, <2>2 DEF RepeatsArePaidFor
<1>2. QED BY <1>1, InvHolds, PTL

\* No claim is refused that policies had not denied, and none is paid on a policy
\* that is not there, however late or lost the answers are.
THEOREM NobodyGuesses == Spec => []NoGuessing
<1>1. Inv => NoGuessing
  <2> SUFFICES ASSUME Inv, NEW i \in Losses
               PROVE  /\ phase[i] = "reject" => i \notin covered
                      /\ Audited("settled", i) > 0 => PolicyOfLoss[i] \in Ids
    BY DEF NoGuessing
  <2>1. phase[i] = "reject" => i \notin covered BY DEF Inv, AskInv
  <2>2. Told("settled", i) => PolicyOfLoss[i] \in Ids
    BY DEF Inv, MessageInv, TrailIsSo, IsSo, Told
  <2>3. Audited("settled", i) > 0 <=> Told("settled", i) BY AuditedIsTold DEF Inv
  <2>4. QED BY <2>1, <2>2, <2>3
<1>2. QED BY <1>1, InvHolds, PTL

\* A loss is settled or rejected once, but for the confirms that were lost.
THEOREM LossesEndOnce == Spec => []OneOutcomePerLoss
<1>1. Inv => OneOutcomePerLoss
  <2> SUFFICES ASSUME Inv, NEW i \in Losses
               PROVE  Audited("settled", i) + Audited("rejected", i) <= 1 + lostConfirms
    BY DEF OneOutcomePerLoss
  <2> DEFINE S == DOMAIN audit \cap Reported("settled", i)
             T == DOMAIN audit \cap Reported("rejected", i)
             U == {m \in Saying("settled") \cup Saying("rejected") : m.app = i}
  <2>0. TypeInv /\ OutcomeInv /\ IsBag(audit) BY BagsAre DEF Inv, TypeInv, BrokerType
  <2>1. IsFiniteSet(S) /\ IsFiniteSet(T) BY <2>0, FS_Subset DEF IsBag
  <2>2. S \cap T = {} /\ S \cup T = DOMAIN audit \cap U
    BY DEF Reported, Saying
  <2>3. \A m \in S \cup T : audit[m] \in Int BY <2>0 DEF IsBag
  <2>4. SumFunctionOnSet(audit, S \cup T) = SumFunctionOnSet(audit, S) + SumFunctionOnSet(audit, T)
    <3> HIDE DEF S, T
    <3>1. QED BY <2>1, <2>2, <2>3, SumDisjoint
  <2>5. Audited("settled", i) + Audited("rejected", i) = Tally(audit, U)
    <3>1. Audited("settled", i) = SumFunctionOnSet(audit, S) BY <2>0, CountsAre DEF Tally
    <3>2. Audited("rejected", i) = SumFunctionOnSet(audit, T) BY <2>0, CountsAre DEF Tally
    <3>3. Tally(audit, U) = SumFunctionOnSet(audit, S \cup T) BY <2>2 DEF Tally
    <3> HIDE DEF S, T, U
    <3>4. QED BY <2>4, <3>1, <3>2, <3>3
  <2>6. Tally(audit, U) <= lostConfirms + IF phase[i] = "done" THEN 1 ELSE 0
    BY <2>0 DEF OutcomeInv
  <2>7. Tally(audit, U) \in Nat /\ lostConfirms \in Nat
    BY <2>0, TrailTally DEF TypeInv, ClaimsType
  <2> HIDE DEF S, T, U
  <2>8. QED BY <2>5, <2>6, <2>7
<1>2. QED BY <1>1, InvHolds, PTL
-----------------------------------------------------------------------------
\* An event that may be published now: what it needs has been.
May(e) ==
    /\ e.event \in DOMAIN Milestones => e.app \in Applications
    /\ e.event \in {"accepted", "declined"} => Told("submitted", e.app)
    /\ e.event = "accepted" => ~Refer(e.app)
    /\ e.event = "declined" => Refer(e.app)
    /\ e.event = "issued" => Told("accepted", e.app)
    /\ e.event = "charged" => Told("issued", e.app)

LEMMA MilestonesAre ==
    /\ DOMAIN Milestones = {"submitted", "declined", "accepted", "issued", "charged"}
    /\ Milestones.submitted = {} /\ Milestones.declined = {"submitted"}
    /\ Milestones.accepted = {"submitted"} /\ Milestones.issued = {"accepted"}
    /\ Milestones.charged = {"issued"}
  BY DEF Milestones

\* Every event is published when it may be.
LEMMA StepMay ==
    ASSUME TypeInv, MessageInv, [Next]_vars
    PROVE  UNCHANGED audit \/ \E e \in Messages : Record(e) /\ May(e)
<1>1. CASE UnderwritingStep
  <2>1. ASSUME NEW q \in DOMAIN Following, Forward(q) PROVE UNCHANGED audit
    BY <2>1, ForwardDoes
  <2>2. ASSUME Decide PROVE UNCHANGED audit \/ \E e \in Messages : Record(e) /\ May(e)
    <3>1. PICK m \in DOMAIN queue["decide"] :
             /\ m \in Sort("submitted") /\ Decision(m) \in Messages
             /\ Record(Decision(m)) \/ UNCHANGED audit
      BY <2>2, DecideDoes
    <3> DEFINE e == Decision(m)
    <3>2. e.event = (IF Refer(m.app) THEN "declined" ELSE "accepted") /\ e.app = m.app
      BY DEF Decision, Event
    <3>3. Told("submitted", m.app)
      <4>1. "decide" \in Queues /\ Holding["decide"] = "submitted"
        BY DEF Queues, Stages, Holding
      <4>2. QED BY <4>1 DEF MessageInv, QueuesBacked, Backed
    <3>4. m.app \in Applications BY <3>1 DEF Sort
    <3> HIDE DEF e
    <3>5. May(e) BY <3>2, <3>3, <3>4 DEF May
    <3>6. QED BY <3>1, <3>5 DEF e
  <2>3. QED BY <1>1, <2>1, <2>2 DEF UnderwritingStep
<1>2. CASE PoliciesStep
  <2>1. ASSUME RelaySend PROVE \E e \in Messages : Record(e) /\ May(e)
    <3>1. PICK r \in outbox : r \in Messages /\ Record(r) BY <2>1, RelaySendDoes
    <3>2. r.event \in {"submitted", "issued"} /\ r.app \in Applications BY OutboxHas DEF Sort
    <3>3. r.event = "issued" => Told("accepted", r.app)
      BY DEF MessageInv, OutboxOfPolicies, OfPolicy, PoliciesAccepted
    <3>4. May(r) BY <3>2, <3>3 DEF May
    <3>5. QED BY <3>1, <3>4
  <2>2. ~RelaySend => UNCHANGED audit
    BY <1>2 DEF PoliciesStep, Submit, Issue, RelayDelete, brokerVars
  <2>3. QED BY <2>1, <2>2
<1>3. CASE BillingStep
  <2>1. ASSUME Charge PROVE UNCHANGED audit \/ \E e \in Messages : Record(e) /\ May(e)
    <3>1. PICK c \in charging : LET m == c.msg
                                      e == Event("charged", m.app, m.pol, m.premium) IN
             /\ m \in DOMAIN queue["billing"] /\ m \in Sort("issued")
             /\ UNCHANGED audit \/ Record(e)
      BY <2>1, ChargeDoes
    <3> DEFINE m == c.msg
               e == Event("charged", m.app, m.pol, m.premium)
    <3>2. m \in Sort("issued") /\ m \in DOMAIN queue["billing"] /\ (UNCHANGED audit \/ Record(e))
      BY <3>1
    <3> HIDE DEF m
    <3>3. e \in Messages /\ e.event = "charged" /\ e.app = m.app BY <3>2, IssuedIs
    <3> HIDE DEF e
    <3>4. Told("issued", m.app)
      <4>1. "billing" \in Queues /\ Holding["billing"] = "issued" BY DEF Queues, Holding
      <4>2. QED BY <3>2, <4>1 DEF MessageInv, QueuesBacked, Backed
    <3>5. m.app \in Applications BY <3>2 DEF Sort
    <3>6. May(e) BY <3>3, <3>4, <3>5 DEF May
    <3>7. QED BY <3>2, <3>3, <3>6
  <2>2. QED BY <1>3, <2>1, ClaimDoes, ConfirmDoes, ExpireDoes DEF BillingStep
<1>4. CASE Says({"settled", "rejected", "stored"})
  <2>1. ASSUME NEW e \in Messages, e.event \in {"settled", "rejected", "stored"} PROVE May(e)
    BY <2>1, MilestonesAre DEF May
  <2>2. QED BY <1>4, <2>1 DEF Says
<1>5. CASE ClaimsStep BY <1>4, <1>5, ClaimsSays DEF Says
<1>6. CASE DocumentsStep BY <1>4, <1>6, DocumentsSays DEF Says
<1>7. CASE Restart \/ UNCHANGED vars BY <1>7 DEF Restart, vars, brokerVars
<1>8. QED BY <1>1, <1>2, <1>3, <1>5, <1>6, <1>7 DEF Next

\* The milestones an application has passed.
Passed(a) == {m \in DOMAIN Milestones : Audited(m, a) > 0}

LEMMA PassedIsTold ==
    ASSUME TypeInv, NEW a
    PROVE  Passed(a) = {m \in DOMAIN Milestones : Told(m, a)}
  BY AuditedIsTold DEF Passed

LEMMA PassedIsToldNext ==
    ASSUME TypeInv', NEW a
    PROVE  Passed(a)' = {m \in DOMAIN Milestones : Told(m, a)'}
<1>1. audit' \in Bags BY DEF TypeInv, BrokerType
<1>2. IsBag(audit') /\ DOMAIN audit' \subseteq Messages BY <1>1, BagsAre
<1>3. ASSUME NEW kind PROVE Audited(kind, a)' > 0 <=> Told(kind, a)'
  <2> DEFINE K == Reported(kind, a)
  <2>1. {m \in BagToSet(audit') : m.event = kind /\ m.app = a} = DOMAIN audit' \cap K
    BY <1>2 DEF Reported, BagToSet
  <2>2. Audited(kind, a)' = Tally(audit', K) BY <2>1 DEF Audited, Tally
  <2>3. Tally(audit', K) > 0 <=> DOMAIN audit' \cap K # {}
    <3> HIDE DEF K
    <3>1. QED BY <1>2, TallyType
  <2>4. DOMAIN audit' \cap K # {} <=> Told(kind, a)' BY <1>2 DEF Reported, Told
  <2>5. QED BY <2>2, <2>3, <2>4
<1>4. Passed(a)' = {m \in DOMAIN Milestones : Audited(m, a)' > 0} BY DEF Passed
<1>5. QED BY <1>3, <1>4
\* An event adds its milestone to the ones its application has passed, and leaves
\* the other applications alone.
LEMMA RecordPasses ==
    ASSUME TypeInv, TypeInv', NEW e \in Messages, Record(e), NEW a
    PROVE  Passed(a)' = Passed(a) \cup {m \in DOMAIN Milestones : m = e.event /\ a = e.app}
<1>1. DOMAIN audit' = DOMAIN audit \cup {e}
  <2>1. audit \in Bags BY DEF TypeInv, BrokerType
  <2>2. QED BY <2>1, RecordDoes
<1>2. \A m : Told(m, a)' <=> Told(m, a) \/ (m = e.event /\ a = e.app)
  BY <1>1 DEF Told
<1>3. QED BY <1>2, PassedIsTold, PassedIsToldNext

\* One that may be published now is a step of the life of its application, or of
\* no application.
LEMMA MayPass ==
    ASSUME TypeInv, TypeInv', TrailIsSo, NEW e \in Messages, Record(e), May(e)
    PROVE  \/ Lifecycle!Next
           \/ \A a \in Applications : Passed(a)' = Passed(a)
<1>1. CASE e.event \notin DOMAIN Milestones
  <2>1. ASSUME NEW a \in Applications PROVE Passed(a)' = Passed(a)
    <3>1. Passed(a)' = Passed(a) \cup {m \in DOMAIN Milestones : m = e.event /\ a = e.app}
      BY RecordPasses
    <3>2. {m \in DOMAIN Milestones : m = e.event /\ a = e.app} = {} BY <1>1
    <3>3. QED BY <3>1, <3>2
  <2>2. QED BY <2>1
<1>2. CASE e.event \in DOMAIN Milestones
  <2> DEFINE k == e.event
             b == e.app
             passed == [a \in Applications |-> Passed(a)]
             Excluded == CASE k = "declined" -> {"accepted"} [] k = "accepted" -> {"declined"}
                           [] OTHER -> {}
  <2>1. b \in Applications BY <1>2 DEF May
  <2>2. Milestones[k] \subseteq Passed(b)
    <3>1. \A m \in DOMAIN Milestones : Told(m, b) => m \in Passed(b)
      BY PassedIsTold
    <3>2. QED BY <1>2, <3>1, MilestonesAre DEF May
  <2>3. Excluded \cap Passed(b) = {}
    <3>1. Told("declined", b) => Refer(b) BY DEF TrailIsSo, IsSo, Told
    <3>2. Told("accepted", b) => ~Refer(b) BY DEF TrailIsSo, IsSo, Told
    <3>3. \A m \in Passed(b) : Told(m, b) BY PassedIsTold
    <3>4. QED BY <3>1, <3>2, <3>3 DEF May
  <2>4. passed' = [passed EXCEPT ![b] = @ \cup {k}]
    <3>1. ASSUME NEW a \in Applications
          PROVE  Passed(a)' = IF a = b THEN Passed(a) \cup {k} ELSE Passed(a)
      <4>1. Passed(a)' = Passed(a) \cup {m \in DOMAIN Milestones : m = e.event /\ a = e.app}
        BY RecordPasses
      <4>2. QED BY <1>2, <4>1
    <3>2. QED BY <2>1, <3>1
  <2>5. passed[b] = Passed(b) BY <2>1
  <2> HIDE DEF passed
  <2>6. Lifecycle!Pass(b, k)
    BY <1>2, <2>1, <2>2, <2>3, <2>4, <2>5 DEF Lifecycle!Pass, passed, Passed
  <2>7. QED BY <1>2, <2>1, <2>6 DEF Lifecycle!Next
<1>3. QED BY <1>1, <1>2

\* In the audit trail every application lives as Lifecycle says: submitted, then
\* declined or accepted and never both, insured only when accepted and charged
\* only when insured, though four modules run each stage again whenever a message
\* comes round.
THEOREM LifecycleKept == Spec => KeepsLifecycle
<1> DEFINE passed == [a \in Applications |-> {m \in DOMAIN Milestones : Audited(m, a) > 0}]
<1>1. Init => Lifecycle!Init
  <2> SUFFICES ASSUME Init PROVE \A a \in Applications : Passed(a) = {}
    BY DEF Lifecycle!Init, Passed
  <2>1. TypeInv BY TypesAtFirst
  <2>2. DOMAIN audit = {} BY EmptyTallies DEF Init
  <2>3. QED BY <2>1, <2>2, PassedIsTold DEF Told
<1>2. Inv /\ [Next]_vars => [Lifecycle!Next]_passed
  <2> SUFFICES ASSUME Inv, [Next]_vars PROVE Lifecycle!Next \/ passed' = passed
    OBVIOUS
  <2>1. TypeInv /\ TypeInv' /\ MessageInv /\ TrailIsSo BY TypesKept DEF Inv, MessageInv
  <2>2. Lifecycle!Next \/ \A a \in Applications : Passed(a)' = Passed(a)
    <3>1. CASE UNCHANGED audit
      <4>1. \A a, m : Told(m, a)' <=> Told(m, a) BY <3>1 DEF Told
      <4>2. QED BY <2>1, <4>1, PassedIsTold, PassedIsToldNext
    <3>2. CASE \E e \in Messages : Record(e) /\ May(e)
      BY <2>1, <3>2, MayPass
    <3>3. QED BY <2>1, <3>1, <3>2, StepMay
  <2>3. QED BY <2>2 DEF Passed
<1>3. QED
  BY <1>1, <1>2, InvHolds, PTL DEF Spec, KeepsLifecycle, Lifecycle!Spec
=============================================================================
