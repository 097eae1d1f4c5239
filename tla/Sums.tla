-------------------------------- MODULE Sums --------------------------------
(***************************************************************************)
(* SumFunctionOnSet, the community modules' sum of a function over a       *)
(* finite set, and how it changes when the function or the set does. The   *)
(* sums are what the stock of module Inventory and the bags of module      *)
(* PolicyAdministration are counted with.                                  *)
(*                                                                         *)
(* The library defines the sum by a fold that chooses the element it takes *)
(* next. The choice is unique because strict inclusion is well founded on  *)
(* the subsets of a finite set: SubsetInduction is that principle for a    *)
(* set of subsets, and everything else is proved by it.                    *)
(***************************************************************************)
EXTENDS FiniteSetsExt, Integers, FiniteSetTheorems, TLAPS

\* A set of subsets that has every subset whose strict subsets it has, has them
\* all.
LEMMA SubsetInduction ==
    ASSUME NEW S, IsFiniteSet(S), NEW Q,
           \A T \in SUBSET S : (\A U \in SUBSET T : U # T => U \in Q) => T \in Q
    PROVE  S \in Q
<1> DEFINE Bad == {T \in FiniteSubsetsOf(S) : T \notin Q}
<1>1. FiniteSubsetsOf(S) = SUBSET S
  BY FS_FiniteSubsetsOfFinite
<1>2. SUFFICES ASSUME Bad # {} PROVE FALSE
  BY <1>1
<1>3. IsWellFoundedOn(StrictSubsetOrdering(S), FiniteSubsetsOf(S))
  BY FS_StrictSubsetOrderingWellFounded
<1>4. PICK T \in Bad : \A U \in Bad : ~(<<U, T>> \in StrictSubsetOrdering(S))
  <2> HIDE DEF Bad
  <2>1. Bad \subseteq FiniteSubsetsOf(S) BY DEF Bad
  <2>2. QED BY <1>2, <1>3, <2>1, WFMin
<1>5. ASSUME NEW U \in SUBSET T, U # T PROVE U \in Q
  <2>1. T \in SUBSET S BY <1>1
  <2>2. <<U, T>> \in StrictSubsetOrdering(S) BY <1>5, <2>1 DEF StrictSubsetOrdering
  <2>3. QED BY <1>1, <1>4, <2>1, <2>2
<1>6. QED BY <1>1, <1>4, <1>5

\* The element the fold takes next,
Pick(s) == CHOOSE x \in s : TRUE

\* what it makes of the rest,
Body(f, g, s) == IF s = {} THEN 0 ELSE f[Pick(s)] + g[s \ {Pick(s)}]

\* the function on subsets it computes that way,
IsIter(f, g, S) == g = [s \in SUBSET S |-> Body(f, g, s)]

\* and the one the library chooses.
Iter(f, S) == CHOOSE g : IsIter(f, g, S)

\* The library's sum in these words.
LEMMA SumIsIter == ASSUME NEW f, NEW S PROVE SumFunctionOnSet(f, S) = Iter(f, S)[S]
  BY DEF SumFunctionOnSet, FoldFunctionOnSet, MapThenFoldSet, Iter, IsIter, Body, Pick

\* Two of those functions agree where both are defined.
LEMMA IterUnique ==
    ASSUME NEW f, NEW S, NEW T, NEW g, NEW h, IsIter(f, g, S), IsIter(f, h, T),
           NEW U \in (SUBSET S) \cap (SUBSET T), IsFiniteSet(U)
    PROVE  g[U] = h[U]
<1> DEFINE Q == {V \in SUBSET U : g[V] = h[V]}
<1>1. ASSUME NEW V \in SUBSET U, \A W \in SUBSET V : W # V => W \in Q
      PROVE  V \in Q
  <2>1. g[V] = Body(f, g, V) /\ h[V] = Body(f, h, V)
    BY DEF IsIter
  <2>2. CASE V = {}
    BY <2>1, <2>2 DEF Body
  <2>3. CASE V # {}
    <3>1. Pick(V) \in V BY <2>3 DEF Pick
    <3>2. V \ {Pick(V)} \in Q BY <3>1, <1>1
    <3>3. QED BY <2>1, <2>3, <3>2 DEF Body
  <2>4. QED BY <2>2, <2>3
<1> HIDE DEF Q
<1>2. U \in Q
  BY <1>1, SubsetInduction
<1>3. QED BY <1>2 DEF Q

\* There is one, so the choice is not void.
LEMMA IterExists == ASSUME NEW f, NEW S, IsFiniteSet(S) PROVE IsIter(f, Iter(f, S), S)
<1> DEFINE Q == {T \in SUBSET S : IsIter(f, Iter(f, T), T)}
<1>1. ASSUME NEW T \in SUBSET S, \A U \in SUBSET T : U # T => U \in Q
      PROVE  T \in Q
  <2> DEFINE it(s) == Iter(f, s)[s]
             g == [s \in SUBSET T |-> IF s = {} THEN 0
                                      ELSE f[Pick(s)] + it(s \ {Pick(s)})]
  <2>1. ASSUME NEW U \in SUBSET T, U # T PROVE IsIter(f, Iter(f, U), U)
    BY <1>1, <2>1
  <2>2. ASSUME NEW U \in SUBSET T, U # T PROVE g[U] = it(U)
    <3>1. Iter(f, U)[U] = Body(f, Iter(f, U), U)
      BY <2>1, <2>2 DEF IsIter
    <3>2. CASE U = {}
      BY <3>1, <3>2 DEF Body
    <3>3. CASE U # {}
      <4> DEFINE V == U \ {Pick(U)}
      <4>1. Pick(U) \in U BY <3>3 DEF Pick
      <4>2. V \in SUBSET T /\ V # T /\ V \in SUBSET U BY <4>1
      <4>3. IsFiniteSet(V) BY FS_Subset
      <4>4. Iter(f, U)[V] = Iter(f, V)[V]
        <5>1. IsIter(f, Iter(f, U), U) BY <2>1, <2>2
        <5>2. IsIter(f, Iter(f, V), V) BY <2>1, <4>2
        <5>3. V \in (SUBSET U) \cap (SUBSET V) BY <4>2
        <5> HIDE DEF V
        <5>4. QED BY <5>1, <5>2, <5>3, <4>3, IterUnique
      <4>5. QED BY <3>1, <3>3, <4>1, <4>4 DEF Body
    <3>4. QED BY <3>2, <3>3
  <2>3. ASSUME NEW s \in SUBSET T PROVE g[s] = Body(f, g, s)
    <3>1. CASE s = {} BY <3>1 DEF Body
    <3>2. CASE s # {}
      <4>1. Pick(s) \in s BY <3>2 DEF Pick
      <4>2. s \ {Pick(s)} \in SUBSET T /\ s \ {Pick(s)} # T BY <4>1
      <4>3. g[s \ {Pick(s)}] = it(s \ {Pick(s)}) BY <2>2, <4>2
      <4>4. QED BY <3>2, <4>3 DEF Body
    <3>3. QED BY <3>1, <3>2
  <2>4. IsIter(f, g, T)
    BY <2>3 DEF IsIter
  <2> HIDE DEF g
  <2>5. QED BY <2>4 DEF Iter
<1> HIDE DEF Q
<1>2. S \in Q
  BY <1>1, SubsetInduction
<1>3. QED BY <1>2 DEF Q

\* The sum takes one element and goes on with the rest.
LEMMA SumStep ==
    ASSUME NEW f, NEW S, IsFiniteSet(S)
    PROVE  SumFunctionOnSet(f, S) =
             IF S = {} THEN 0
             ELSE f[Pick(S)] + SumFunctionOnSet(f, S \ {Pick(S)})
<1>1. Iter(f, S)[S] = Body(f, Iter(f, S), S)
  <2>1. IsIter(f, Iter(f, S), S) BY IterExists
  <2> DEFINE g == Iter(f, S)
  <2>2. g = [s \in SUBSET S |-> Body(f, g, s)] BY <2>1 DEF IsIter
  <2> HIDE DEF g
  <2>3. g[S] = Body(f, g, S) BY <2>2
  <2>4. QED BY <2>3 DEF g
<1>2. CASE S = {}
  BY <1>1, <1>2, SumIsIter DEF Body
<1>3. CASE S # {}
  <2> DEFINE V == S \ {Pick(S)}
  <2>1. V \in (SUBSET S) \cap (SUBSET V) /\ IsFiniteSet(V) BY FS_Subset
  <2>2. IsIter(f, Iter(f, S), S) /\ IsIter(f, Iter(f, V), V)
    BY <2>1, IterExists
  <2>3. Iter(f, S)[V] = Iter(f, V)[V]
    <3> HIDE DEF V
    <3>1. QED BY <2>1, <2>2, IterUnique
  <2>4. QED BY <1>1, <1>3, <2>3, SumIsIter DEF Body
<1>4. QED BY <1>2, <1>3

\* Nothing sums to zero.
LEMMA SumEmpty == ASSUME NEW f PROVE SumFunctionOnSet(f, {}) = 0
  BY SumStep, FS_EmptySet

\* A sum of integers is one.
LEMMA SumType ==
    ASSUME NEW S, IsFiniteSet(S), NEW f, \A x \in S : f[x] \in Int
    PROVE  SumFunctionOnSet(f, S) \in Int
<1> DEFINE Q == {T \in SUBSET S : SumFunctionOnSet(f, T) \in Int}
<1>1. ASSUME NEW T \in SUBSET S, \A U \in SUBSET T : U # T => U \in Q
      PROVE  T \in Q
  <2>1. IsFiniteSet(T) BY FS_Subset
  <2>2. CASE T = {} BY <2>2, SumEmpty
  <2>3. CASE T # {}
    <3>1. Pick(T) \in T BY <2>3 DEF Pick
    <3>2. T \ {Pick(T)} \in Q BY <3>1, <1>1
    <3>3. QED BY <2>1, <2>3, <3>1, <3>2, SumStep
  <2>4. QED BY <2>2, <2>3
<1> HIDE DEF Q
<1>2. S \in Q BY <1>1, SubsetInduction
<1>3. QED BY <1>2 DEF Q

\* Any element may be taken first.
LEMMA SumWithout ==
    ASSUME NEW S, IsFiniteSet(S), NEW f, \A x \in S : f[x] \in Int, NEW a \in S
    PROVE  SumFunctionOnSet(f, S) = f[a] + SumFunctionOnSet(f, S \ {a})
<1> DEFINE Q == {T \in SUBSET S : \A x \in T :
                   SumFunctionOnSet(f, T) = f[x] + SumFunctionOnSet(f, T \ {x})}
<1>1. ASSUME NEW T \in SUBSET S, \A U \in SUBSET T : U # T => U \in Q
      PROVE  T \in Q
  <2>1. IsFiniteSet(T) BY FS_Subset
  <2>2. SUFFICES ASSUME NEW x \in T
                 PROVE  SumFunctionOnSet(f, T) = f[x] + SumFunctionOnSet(f, T \ {x})
    OBVIOUS
  <2> DEFINE y == Pick(T)
  <2>3. y \in T BY DEF Pick
  <2>4. SumFunctionOnSet(f, T) = f[y] + SumFunctionOnSet(f, T \ {y})
    BY <2>1, SumStep
  <2>5. CASE x = y BY <2>4, <2>5
  <2>6. CASE x # y
    <3>1. T \ {y} \in Q /\ T \ {x} \in Q BY <2>3, <1>1
    <3> HIDE DEF y
    <3>2. SumFunctionOnSet(f, T \ {y}) = f[x] + SumFunctionOnSet(f, (T \ {y}) \ {x})
      BY <2>3, <2>6, <3>1
    <3>3. SumFunctionOnSet(f, T \ {x}) = f[y] + SumFunctionOnSet(f, (T \ {x}) \ {y})
      BY <2>3, <2>6, <3>1
    <3>4. (T \ {x}) \ {y} = (T \ {y}) \ {x} OBVIOUS
    <3>5. SumFunctionOnSet(f, (T \ {x}) \ {y}) \in Int
      <4>1. IsFiniteSet((T \ {x}) \ {y}) BY <2>1, FS_Subset
      <4> DEFINE R == (T \ {x}) \ {y}
      <4>2. IsFiniteSet(R) /\ \A z \in R : f[z] \in Int BY <4>1
      <4> HIDE DEF R
      <4>3. SumFunctionOnSet(f, R) \in Int BY <4>2, SumType
      <4>4. QED BY <4>3 DEF R
    <3>6. f[x] \in Int /\ f[y] \in Int BY <2>3
    <3> DEFINE rest == SumFunctionOnSet(f, (T \ {x}) \ {y})
    <3>7. SumFunctionOnSet(f, T) = f[y] + (f[x] + rest) BY <2>4, <3>2, <3>4
    <3>8. SumFunctionOnSet(f, T \ {x}) = f[y] + rest BY <3>3
    <3>9. rest \in Int BY <3>5
    <3> HIDE DEF rest
    <3>10. QED BY <3>6, <3>7, <3>8, <3>9
  <2>7. QED BY <2>5, <2>6
<1> HIDE DEF Q
<1>2. S \in Q BY <1>1, SubsetInduction
<1>3. QED BY <1>2 DEF Q

\* Only the values on the set count.
LEMMA SumSame ==
    ASSUME NEW S, IsFiniteSet(S), NEW f, NEW g, \A x \in S : f[x] = g[x]
    PROVE  SumFunctionOnSet(f, S) = SumFunctionOnSet(g, S)
<1> DEFINE Q == {T \in SUBSET S : SumFunctionOnSet(f, T) = SumFunctionOnSet(g, T)}
<1>1. ASSUME NEW T \in SUBSET S, \A U \in SUBSET T : U # T => U \in Q
      PROVE  T \in Q
  <2>1. IsFiniteSet(T) BY FS_Subset
  <2>2. CASE T = {} BY <2>2, SumEmpty
  <2>3. CASE T # {}
    <3>1. Pick(T) \in T BY <2>3 DEF Pick
    <3>2. T \ {Pick(T)} \in Q BY <3>1, <1>1
    <3>3. QED BY <2>1, <2>3, <3>1, <3>2, SumStep
  <2>4. QED BY <2>2, <2>3
<1> HIDE DEF Q
<1>2. S \in Q BY <1>1, SubsetInduction
<1>3. QED BY <1>2 DEF Q

\* A function changed at one point changes its sum by as much.
LEMMA SumMoved ==
    ASSUME NEW S, IsFiniteSet(S), NEW f, NEW g, NEW a,
           \A x \in S : f[x] \in Int /\ g[x] \in Int,
           \A x \in S \ {a} : f[x] = g[x]
    PROVE  SumFunctionOnSet(g, S) =
             SumFunctionOnSet(f, S) + (IF a \in S THEN g[a] - f[a] ELSE 0)
<1>1. CASE a \notin S
  <2>1. SumFunctionOnSet(f, S) = SumFunctionOnSet(g, S) BY <1>1, SumSame
  <2>2. SumFunctionOnSet(f, S) \in Int BY SumType
  <2>3. QED BY <1>1, <2>1, <2>2
<1>2. CASE a \in S
  <2> DEFINE R == S \ {a}
  <2>1. IsFiniteSet(R) BY FS_Subset
  <2>2. SumFunctionOnSet(f, R) = SumFunctionOnSet(g, R)
    <3>1. \A x \in R : f[x] = g[x] OBVIOUS
    <3> HIDE DEF R
    <3>2. QED BY <2>1, <3>1, SumSame
  <2>3. SumFunctionOnSet(f, R) \in Int
    <3>1. \A x \in R : f[x] \in Int OBVIOUS
    <3> HIDE DEF R
    <3>2. QED BY <2>1, <3>1, SumType
  <2>4. SumFunctionOnSet(f, S) = f[a] + SumFunctionOnSet(f, R) BY <1>2, SumWithout
  <2>5. SumFunctionOnSet(g, S) = g[a] + SumFunctionOnSet(g, R) BY <1>2, SumWithout
  <2>6. f[a] \in Int /\ g[a] \in Int BY <1>2
  <2> HIDE DEF R
  <2>7. QED BY <1>2, <2>2, <2>3, <2>4, <2>5, <2>6
<1>3. QED BY <1>1, <1>2

\* Zeros sum to zero.
LEMMA SumZero ==
    ASSUME NEW S, IsFiniteSet(S), NEW f, \A x \in S : f[x] = 0
    PROVE  SumFunctionOnSet(f, S) = 0
<1> DEFINE Q == {T \in SUBSET S : SumFunctionOnSet(f, T) = 0}
<1>1. ASSUME NEW T \in SUBSET S, \A U \in SUBSET T : U # T => U \in Q
      PROVE  T \in Q
  <2>1. IsFiniteSet(T) BY FS_Subset
  <2>2. CASE T = {} BY <2>2, SumEmpty
  <2>3. CASE T # {}
    <3>1. Pick(T) \in T BY <2>3 DEF Pick
    <3>2. T \ {Pick(T)} \in Q BY <3>1, <1>1
    <3>3. QED BY <2>1, <2>3, <3>1, <3>2, SumStep
  <2>4. QED BY <2>2, <2>3
<1> HIDE DEF Q
<1>2. S \in Q BY <1>1, SubsetInduction
<1>3. QED BY <1>2 DEF Q

\* A sum of naturals is one, and no less than any of its terms.
LEMMA SumNat ==
    ASSUME NEW S, IsFiniteSet(S), NEW f, \A x \in S : f[x] \in Nat
    PROVE  /\ SumFunctionOnSet(f, S) \in Nat
           /\ \A x \in S : f[x] <= SumFunctionOnSet(f, S)
<1> DEFINE Q == {T \in SUBSET S : SumFunctionOnSet(f, T) \in Nat}
<1>1. ASSUME NEW T \in SUBSET S, \A U \in SUBSET T : U # T => U \in Q
      PROVE  T \in Q
  <2>1. IsFiniteSet(T) BY FS_Subset
  <2>2. CASE T = {} BY <2>2, SumEmpty
  <2>3. CASE T # {}
    <3>1. Pick(T) \in T BY <2>3 DEF Pick
    <3>2. T \ {Pick(T)} \in Q BY <3>1, <1>1
    <3>3. QED BY <2>1, <2>3, <3>1, <3>2, SumStep
  <2>4. QED BY <2>2, <2>3
<1>2. ASSUME NEW T \in SUBSET S PROVE SumFunctionOnSet(f, T) \in Nat
  <2> HIDE DEF Q
  <2>1. IsFiniteSet(T) /\ \A U \in SUBSET T : (\A V \in SUBSET U : V # U => V \in Q) => U \in Q
    BY <1>1, FS_Subset
  <2>2. T \in Q BY <2>1, SubsetInduction
  <2>3. QED BY <2>2 DEF Q
<1>3. ASSUME NEW x \in S PROVE f[x] <= SumFunctionOnSet(f, S)
  <2>1. SumFunctionOnSet(f, S) = f[x] + SumFunctionOnSet(f, S \ {x}) BY SumWithout
  <2>2. SumFunctionOnSet(f, S \ {x}) \in Nat BY <1>2
  <2>3. QED BY <2>1, <2>2
<1>4. QED BY <1>2, <1>3

\* Sets that differ in one element at most differ by it in size.
LEMMA CardinalityMoves ==
    ASSUME NEW S, NEW T, NEW a, IsFiniteSet(S), T \ {a} = S \ {a}
    PROVE  /\ IsFiniteSet(T) /\ Cardinality(S) \in Nat /\ Cardinality(T) \in Nat
           /\ Cardinality(T) = Cardinality(S) + (IF a \in T THEN 1 ELSE 0)
                                              - (IF a \in S THEN 1 ELSE 0)
<1> DEFINE R == S \ {a}
<1>1. IsFiniteSet(R) BY FS_Subset
<1>2. S = (IF a \in S THEN R \cup {a} ELSE R) /\ T = (IF a \in T THEN R \cup {a} ELSE R)
  OBVIOUS
<1>3. a \notin R OBVIOUS
<1> HIDE DEF R
<1>4. IsFiniteSet(R \cup {a}) /\ Cardinality(R \cup {a}) = Cardinality(R) + 1
  BY <1>1, <1>3, FS_AddElement
<1>5. Cardinality(R) \in Nat BY <1>1, FS_CardinalityType
<1>6. Cardinality(S) = Cardinality(R) + (IF a \in S THEN 1 ELSE 0)
  <2>1. CASE a \in S
    <3>1. S = R \cup {a} BY <1>2, <2>1
    <3>2. Cardinality(S) = Cardinality(R) + 1 BY <1>4, <3>1
    <3>3. QED BY <2>1, <3>2
  <2>2. CASE a \notin S BY <1>2, <1>5, <2>2
  <2>3. QED BY <2>1, <2>2
<1>7. IsFiniteSet(T) /\ Cardinality(T) = Cardinality(R) + (IF a \in T THEN 1 ELSE 0)
  <2>1. CASE a \in T
    <3>1. T = R \cup {a} BY <1>2, <2>1
    <3>2. IsFiniteSet(T) /\ Cardinality(T) = Cardinality(R) + 1 BY <1>4, <3>1
    <3>3. QED BY <2>1, <3>2
  <2>2. CASE a \notin T BY <1>1, <1>2, <1>5, <2>2
  <2>3. QED BY <2>1, <2>2
<1>8. QED BY <1>5, <1>6, <1>7

\* The sum over two sets with nothing in common.
LEMMA SumDisjoint ==
    ASSUME NEW S, NEW T, IsFiniteSet(S), IsFiniteSet(T), S \cap T = {},
           NEW f, \A x \in S \cup T : f[x] \in Int
    PROVE  SumFunctionOnSet(f, S \cup T) = SumFunctionOnSet(f, S) + SumFunctionOnSet(f, T)
<1> DEFINE Q == {U \in SUBSET T :
                   SumFunctionOnSet(f, S \cup U)
                     = SumFunctionOnSet(f, S) + SumFunctionOnSet(f, U)}
<1>1. SumFunctionOnSet(f, S) \in Int
  BY SumType
<1>2. ASSUME NEW U \in SUBSET T, \A W \in SUBSET U : W # U => W \in Q
      PROVE  U \in Q
  <2>1. CASE U = {}
    <3>1. S \cup U = S BY <2>1
    <3>2. SumFunctionOnSet(f, U) = 0 BY <2>1, SumEmpty
    <3>3. SumFunctionOnSet(f, S \cup U) = SumFunctionOnSet(f, S) BY <3>1
    <3>4. SumFunctionOnSet(f, S \cup U) = SumFunctionOnSet(f, S) + SumFunctionOnSet(f, U)
      <4> HIDE DEF Q
      <4>1. QED BY <1>1, <3>2, <3>3
    <3>5. QED BY <3>4
  <2>2. CASE U # {}
    <3>1. PICK x \in U : TRUE BY <2>2
    <3> DEFINE W == U \ {x}
               A == S \cup U
    <3>2. W \in Q BY <1>2, <3>1
    <3>3. A \ {x} = S \cup W /\ x \in A BY <3>1
    <3>4. IsFiniteSet(U) /\ IsFiniteSet(A) /\ IsFiniteSet(W) BY FS_Subset, FS_Union
    <3>5. (\A y \in A : f[y] \in Int) /\ (\A y \in U : f[y] \in Int)
          /\ (\A y \in W : f[y] \in Int) /\ f[x] \in Int
      BY <3>1
    <3>6. SumFunctionOnSet(f, U) = f[x] + SumFunctionOnSet(f, W)
      BY <3>1, <3>4, <3>5, SumWithout
    <3>7. SumFunctionOnSet(f, A) = f[x] + SumFunctionOnSet(f, S \cup W)
      <4> HIDE DEF A, W
      <4>1. SumFunctionOnSet(f, A) = f[x] + SumFunctionOnSet(f, A \ {x})
        BY <3>3, <3>4, <3>5, SumWithout
      <4>2. QED BY <3>3, <4>1
    <3>8. SumFunctionOnSet(f, W) \in Int
      <4> HIDE DEF W
      <4>1. QED BY <3>4, <3>5, SumType
    <3>9. SumFunctionOnSet(f, S \cup W) = SumFunctionOnSet(f, S) + SumFunctionOnSet(f, W)
      BY <3>2
    <3>10. SumFunctionOnSet(f, A) = SumFunctionOnSet(f, S) + SumFunctionOnSet(f, U)
      BY <1>1, <3>5, <3>6, <3>7, <3>8, <3>9
    <3>11. QED BY <3>10
  <2>3. QED BY <2>1, <2>2
<1> HIDE DEF Q
<1>3. T \in Q
  BY <1>2, SubsetInduction
<1>4. QED BY <1>3 DEF Q
=============================================================================
