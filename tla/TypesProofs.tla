------------------------------ MODULE TypesProofs ------------------------------
(***************************************************************************)
(* Facts that the proofs about the components share: the best price of a   *)
(* set of prices, partial functions, sums over finite sets, and price      *)
(* levels that are the sums of orders.                                     *)
(***************************************************************************)
EXTENDS Types, FiniteSetTheorems, WellFoundedInduction, NaturalsInduction, TLAPS

\* A set of naturals that is not empty has a least element.
LEMMA LeastNat ==
  ASSUME NEW T \in SUBSET Nat, T # {}
  PROVE  \E x \in T : \A y \in T : x <= y
<1>1. PICK x \in T : \A y \in T : ~ (<<y, x>> \in OpToRel(<, Nat))
  BY NatLessThanWellFounded, WFMin, Zenon
<1>2. \A a, b \in Nat : a < b => <<a, b>> \in OpToRel(<, Nat)
  BY DEF OpToRel
<1>3. \A y \in T : ~(y < x)
  BY <1>1, <1>2, Zenon
<1> QED BY <1>3

\* A bounded set of naturals that is not empty has a greatest element.
LEMMA GreatestNat ==
  ASSUME NEW T \in SUBSET Nat, T # {}, NEW B \in Nat, \A t \in T : t <= B
  PROVE  \E x \in T : \A y \in T : y <= x
<1> DEFINE Mirror == {B - t : t \in T}
<1>1. Mirror \in SUBSET Nat
  BY DEF Mirror
<1>2. Mirror # {}
  BY DEF Mirror
<1>3. PICK u \in Mirror : \A v \in Mirror : u <= v
  BY <1>1, <1>2, LeastNat
<1>4. PICK x \in T : u = B - x
  BY DEF Mirror
<1>5. ASSUME NEW y \in T PROVE y <= x
  <2>1. B - y \in Mirror
    BY DEF Mirror
  <2>2. B - x <= B - y
    BY <1>3, <1>4, <2>1
  <2> QED BY <2>2
<1> QED BY <1>5

\* The best of some prices is one of them, and none is better.
LEMMA BestIsBest ==
  ASSUME NEW s \in Sides, NEW P \in SUBSET Uint32, P # {}
  PROVE  BestOf(s, P) \in P /\ \A q \in P : ~Better(s, q, BestOf(s, P))
<1>1. P \in SUBSET Nat /\ \A p \in P : p <= U32
  BY U32Assumption DEF Uint32
<1>2. ASSUME NEW b \in P, \A y \in P : b >= y PROVE \A y \in P : ~(y > b)
  BY <1>1, <1>2
<1>3. ASSUME NEW b \in P, \A y \in P : b =< y PROVE \A y \in P : ~(y < b)
  BY <1>1, <1>3
<1>4. CASE s = Bid
  <2>1. \E x \in P : \A y \in P : x >= y
    BY <1>1, GreatestNat, U32Assumption
  <2>2. Max(P) \in P /\ \A y \in P : Max(P) >= y
    BY <2>1, Zenon DEF Max
  <2>3. \A y \in P : ~(y > Max(P))
    BY <2>2, <1>2
  <2> QED BY <2>2, <2>3, <1>4 DEF BestOf, Better
<1>5. CASE s # Bid
  <2>1. \E x \in P : \A y \in P : x =< y
    BY <1>1, LeastNat
  <2>2. Min(P) \in P /\ \A y \in P : Min(P) =< y
    BY <2>1, Zenon DEF Min
  <2>3. \A y \in P : ~(y < Min(P))
    BY <2>2, <1>3
  <2> QED BY <2>2, <2>3, <1>5 DEF BestOf, Better
<1> QED BY <1>4, <1>5
-----------------------------------------------------------------------------
(* Partial functions from S to T: the type of a map of the program.        *)

PartialMaps(S, T) == UNION {[D -> T] : D \in SUBSET S}

LEMMA PartialMapApply ==
  ASSUME NEW S, NEW T, NEW f \in PartialMaps(S, T)
  PROVE  /\ DOMAIN f \in SUBSET S
         /\ f \in [DOMAIN f -> T]
         /\ \A x \in DOMAIN f : x \in S /\ f[x] \in T
  BY DEF PartialMaps

LEMMA PartialMapRestrict ==
  ASSUME NEW S, NEW T, NEW f \in PartialMaps(S, T), NEW R \in SUBSET DOMAIN f
  PROVE  /\ Restrict(f, R) \in PartialMaps(S, T)
         /\ DOMAIN Restrict(f, R) = R
         /\ \A y \in R : Restrict(f, R)[y] = f[y]
<1>1. PICK D \in SUBSET S : f \in [D -> T]
  BY DEF PartialMaps
<1>2. Restrict(f, R) \in [R -> T]
  BY <1>1 DEF Restrict
<1> QED BY <1>1, <1>2 DEF PartialMaps, Restrict

\* a map after the assignment f[x] = y
LEMMA PartialMapPut ==
  ASSUME NEW S, NEW T, NEW f \in PartialMaps(S, T), NEW x \in S, NEW y \in T
  PROVE  [z \in DOMAIN f \cup {x} |-> IF z = x THEN y ELSE f[z]] \in PartialMaps(S, T)
<1>1. PICK D \in SUBSET S : f \in [D -> T]
  BY DEF PartialMaps
<1>2. [z \in D \cup {x} |-> IF z = x THEN y ELSE f[z]] \in [D \cup {x} -> T]
  BY <1>1
<1> QED BY <1>1, <1>2 DEF PartialMaps

LEMMA PartialMapEmpty ==
  ASSUME NEW S, NEW T, NEW e
  PROVE  [z \in {} |-> e] \in PartialMaps(S, T)
<1>1. [z \in {} |-> e] \in [{} -> T]
  OBVIOUS
<1> QED BY <1>1 DEF PartialMaps
-----------------------------------------------------------------------------
(* Sums.  SumFunctionOnSet folds a function over a finite set, taking out  *)
(* an element that CHOOSE names.  What it returns is shown from a smallest *)
(* set that would be an exception: a set that has one less is none.        *)

\* Among the subsets of a finite set that have something in common there is
\* one of which no proper part has it.
LEMMA LeastSubset ==
  ASSUME NEW S, IsFiniteSet(S), NEW C \in SUBSET (SUBSET S), C # {}
  PROVE  \E T \in C : \A U \in SUBSET T : U # T => U \notin C
<1>1. IsWellFoundedOn(StrictSubsetOrdering(S), FiniteSubsetsOf(S))
  BY FS_StrictSubsetOrderingWellFounded
<1>2. C \subseteq FiniteSubsetsOf(S)
  BY FS_Subset DEF FiniteSubsetsOf
<1>3. PICK T \in C : \A U \in C : ~ (<<U, T>> \in StrictSubsetOrdering(S))
  BY <1>1, <1>2, WFMin
<1>4. ASSUME NEW U \in SUBSET T, U # T, U \in C PROVE FALSE
  BY <1>3, <1>4 DEF StrictSubsetOrdering
<1> QED BY <1>4

\* g gives the sums of f over the subsets of S, as the fold computes them
Chosen(T) == CHOOSE x \in T : TRUE
Others(T) == T \ {Chosen(T)}
SumsOver(f, S, g) ==
  g = [T \in SUBSET S |-> IF T = {} THEN 0 ELSE f[Chosen(T)] + g[Others(T)]]

LEMMA SumIs ==
  ASSUME NEW f, NEW S
  PROVE  SumFunctionOnSet(f, S) = (CHOOSE g : SumsOver(f, S, g))[S]
BY DEF SumFunctionOnSet, FoldFunctionOnSet, MapThenFoldSet, SumsOver, Chosen, Others

LEMMA OthersIsLess ==
  ASSUME NEW T, T # {}
  PROVE  Chosen(T) \in T /\ Others(T) \subseteq T /\ Others(T) # T /\ T = Others(T) \cup {Chosen(T)}
BY DEF Chosen, Others

LEMMA SumsOverAre ==
  ASSUME NEW f, NEW S, NEW g, SumsOver(f, S, g), NEW T \in SUBSET S
  PROVE  g[T] = IF T = {} THEN 0 ELSE f[Chosen(T)] + g[Others(T)]
<1> DEFINE F(x) == IF x = {} THEN 0 ELSE f[Chosen(x)] + g[Others(x)]
<1>1. g = [x \in SUBSET S |-> F(x)]
  BY DEF SumsOver
<1> HIDE DEF F
<1>2. g[T] = F(T)
  BY <1>1
<1> QED BY <1>2 DEF F

\* Two of them agree where both are defined.
LEMMA SumsAreUnique ==
  ASSUME NEW S, IsFiniteSet(S), NEW f, NEW h, \A x \in S : f[x] = h[x],
         NEW R, NEW g, SumsOver(f, R, g), NEW Q, NEW k, SumsOver(h, Q, k),
         S \subseteq R, S \subseteq Q
  PROVE  g[S] = k[S]
<1> DEFINE C == {T \in SUBSET S : g[T] # k[T]}
<1>1. SUFFICES ASSUME C # {} PROVE FALSE
  OBVIOUS
<1>2. PICK T \in C : \A U \in SUBSET T : U # T => U \notin C
  <2>1. C \in SUBSET (SUBSET S)
    OBVIOUS
  <2> HIDE DEF C
  <2> QED BY <1>1, <2>1, LeastSubset
<1>3. T \in SUBSET R /\ T \in SUBSET Q /\ T \in SUBSET S
  OBVIOUS
<1>4. CASE T = {}
  BY <1>2, <1>3, <1>4, SumsOverAre
<1>5. CASE T # {}
  <2>1. g[Others(T)] = k[Others(T)]
    BY <1>2, <1>3, <1>5, OthersIsLess
  <2>2. f[Chosen(T)] = h[Chosen(T)]
    BY <1>3, <1>5, OthersIsLess
  <2>3. g[T] = f[Chosen(T)] + g[Others(T)] /\ k[T] = h[Chosen(T)] + k[Others(T)]
    BY <1>3, <1>5, SumsOverAre
  <2>4. g[T] = k[T]
    BY <2>1, <2>2, <2>3
  <2> QED BY <2>4
<1> QED BY <1>4, <1>5

\* For a finite set there is one.
LEMMA SumsExist ==
  ASSUME NEW S, IsFiniteSet(S), NEW f
  PROVE  \E g : SumsOver(f, S, g)
<1> DEFINE C == {T \in SUBSET S : ~ \E g : SumsOver(f, T, g)}
<1>1. SUFFICES ASSUME C # {} PROVE FALSE
  <2>1. S \in SUBSET S
    OBVIOUS
  <2> QED BY <2>1
<1>2. PICK T \in C : \A U \in SUBSET T : U # T => U \notin C
  <2>1. C \in SUBSET (SUBSET S)
    OBVIOUS
  <2> HIDE DEF C
  <2> QED BY <1>1, <2>1, LeastSubset
<1> DEFINE G(U) == CHOOSE g : SumsOver(f, U, g)
           part(U) == G(U)[U]
           F(U) == IF U = {} THEN 0 ELSE f[Chosen(U)] + part(Others(U))
           g == [U \in SUBSET T |-> F(U)]
<1>3. T \in SUBSET S /\ IsFiniteSet(T)
  BY FS_Subset
<1>4. ASSUME NEW U \in SUBSET T, U # T PROVE SumsOver(f, U, G(U))
  <2>1. \E gg : SumsOver(f, U, gg)
    BY <1>2, <1>3, <1>4
  <2> QED BY <2>1
<1> HIDE DEF G
<1>5. ASSUME NEW U \in SUBSET T, U # T PROVE part(U) = F(U)
  <2>1. SumsOver(f, U, G(U))
    BY <1>4, <1>5
  <2>2. part(U) = IF U = {} THEN 0 ELSE f[Chosen(U)] + G(U)[Others(U)]
    BY <2>1, SumsOverAre
  <2>3. ASSUME U # {} PROVE G(U)[Others(U)] = part(Others(U))
    <3>1. Others(U) \in SUBSET T /\ Others(U) # T /\ Others(U) \subseteq U
      BY <1>5, <2>3, OthersIsLess
    <3>2. SumsOver(f, Others(U), G(Others(U)))
      BY <1>4, <3>1
    <3>3. IsFiniteSet(Others(U))
      BY <1>3, <3>1, FS_Subset
    <3> QED BY SMTT(30), <2>1, <3>1, <3>2, <3>3, SumsAreUnique
  <2> QED BY <2>2, <2>3
<1> HIDE DEF part
<1>6. ASSUME NEW U \in SUBSET T, U # {} PROVE g[Others(U)] = part(Others(U))
  <2>1. Others(U) \in SUBSET T /\ Others(U) # T
    BY <1>6, OthersIsLess
  <2> HIDE DEF F
  <2> QED BY <1>5, <2>1
<1>7. \A U \in SUBSET T : F(U) = IF U = {} THEN 0 ELSE f[Chosen(U)] + g[Others(U)]
  BY <1>6
<1>8. g = [U \in SUBSET T |-> IF U = {} THEN 0 ELSE f[Chosen(U)] + g[Others(U)]]
  <2> DEFINE H(U) == IF U = {} THEN 0 ELSE f[Chosen(U)] + g[Others(U)]
  <2>1. \A U \in SUBSET T : F(U) = H(U)
    BY <1>7
  <2>2. g = [U \in SUBSET T |-> F(U)]
    OBVIOUS
  <2> HIDE DEF g, F, H
  <2>3. g = [U \in SUBSET T |-> H(U)]
    BY <2>1, <2>2
  <2> QED BY <2>3 DEF H
<1>9. SumsOver(f, T, g)
  BY <1>8 DEF SumsOver
<1> QED BY <1>9

\* The sum over a finite set, one element at a time.
LEMMA SumStep ==
  ASSUME NEW S, IsFiniteSet(S), NEW f
  PROVE  /\ SumFunctionOnSet(f, {}) = 0
         /\ S # {} => SumFunctionOnSet(f, S) = f[Chosen(S)] + SumFunctionOnSet(f, Others(S))
<1> DEFINE G(U) == CHOOSE g : SumsOver(f, U, g)
<1>1. ASSUME NEW U, IsFiniteSet(U) PROVE SumsOver(f, U, G(U)) /\ SumFunctionOnSet(f, U) = G(U)[U]
  <2>1. \E g : SumsOver(f, U, g)
    BY <1>1, SumsExist
  <2> QED BY <2>1, SumIs
<1> HIDE DEF G
<1>2. SumFunctionOnSet(f, {}) = 0
  <2>1. IsFiniteSet({}) /\ {} \in SUBSET {}
    BY FS_EmptySet
  <2> QED BY <1>1, <2>1, SumsOverAre
<1>3. ASSUME S # {} PROVE SumFunctionOnSet(f, S) = f[Chosen(S)] + SumFunctionOnSet(f, Others(S))
  <2>1. G(S)[S] = f[Chosen(S)] + G(S)[Others(S)]
    BY <1>1, <1>3, SumsOverAre
  <2>2. IsFiniteSet(Others(S)) /\ Others(S) \subseteq S
    BY <1>3, OthersIsLess, FS_Subset
  <2>3. G(S)[Others(S)] = G(Others(S))[Others(S)]
    BY <1>1, <2>2, SumsAreUnique
  <2> QED BY <1>1, <2>1, <2>2, <2>3
<1> QED BY <1>2, <1>3

\* What f says outside the set does not matter.
LEMMA SumSame ==
  ASSUME NEW S, IsFiniteSet(S), NEW f, NEW h, \A x \in S : f[x] = h[x]
  PROVE  SumFunctionOnSet(f, S) = SumFunctionOnSet(h, S)
<1> DEFINE G(k) == CHOOSE g : SumsOver(k, S, g)
<1>1. SumsOver(f, S, G(f)) /\ SumsOver(h, S, G(h))
  <2>1. (\E g : SumsOver(f, S, g)) /\ (\E g : SumsOver(h, S, g))
    BY SumsExist
  <2> QED BY <2>1
<1>2. SumFunctionOnSet(f, S) = G(f)[S] /\ SumFunctionOnSet(h, S) = G(h)[S]
  BY SumIs
<1> HIDE DEF G
<1> QED BY <1>1, <1>2, SumsAreUnique

\* A sum of naturals is one.
LEMMA SumType ==
  ASSUME NEW S, IsFiniteSet(S), NEW f, \A x \in S : f[x] \in Nat
  PROVE  SumFunctionOnSet(f, S) \in Nat
<1> DEFINE C == {T \in SUBSET S : SumFunctionOnSet(f, T) \notin Nat}
<1>1. SUFFICES ASSUME C # {} PROVE FALSE
  OBVIOUS
<1>2. PICK T \in C : \A U \in SUBSET T : U # T => U \notin C
  <2>1. C \in SUBSET (SUBSET S)
    OBVIOUS
  <2> HIDE DEF C
  <2> QED BY <1>1, <2>1, LeastSubset
<1>3. T \in SUBSET S /\ IsFiniteSet(T)
  BY FS_Subset
<1>4. T # {}
  BY <1>3, SumStep
<1>5. SumFunctionOnSet(f, Others(T)) \in Nat /\ f[Chosen(T)] \in Nat
  BY <1>2, <1>3, <1>4, OthersIsLess
<1>6. SumFunctionOnSet(f, T) = f[Chosen(T)] + SumFunctionOnSet(f, Others(T))
  BY <1>3, <1>4, SumStep
<1> QED BY <1>2, <1>5, <1>6

\* The elements can be added in any order.
LEMMA SumTakeOut ==
  ASSUME NEW S, IsFiniteSet(S), NEW f, \A x \in S : f[x] \in Nat, NEW y \in S
  PROVE  SumFunctionOnSet(f, S) = f[y] + SumFunctionOnSet(f, S \ {y})
<1> DEFINE C == {T \in SUBSET S : \E x \in T :
                   SumFunctionOnSet(f, T) # f[x] + SumFunctionOnSet(f, T \ {x})}
<1>1. SUFFICES ASSUME C # {} PROVE FALSE
  <2>1. S \in SUBSET S
    OBVIOUS
  <2> QED BY <2>1
<1>2. PICK T \in C : \A U \in SUBSET T : U # T => U \notin C
  <2>1. C \in SUBSET (SUBSET S)
    OBVIOUS
  <2> HIDE DEF C
  <2> QED BY <1>1, <2>1, LeastSubset
<1>3. PICK x \in T : SumFunctionOnSet(f, T) # f[x] + SumFunctionOnSet(f, T \ {x})
  BY <1>2
<1>4. T \in SUBSET S /\ T # {} /\ IsFiniteSet(T)
  BY FS_Subset, <1>3
<1>5. SumFunctionOnSet(f, T) = f[Chosen(T)] + SumFunctionOnSet(f, Others(T))
  BY <1>4, SumStep
<1>6. CASE x = Chosen(T)
  BY <1>3, <1>5, <1>6 DEF Others
<1>7. CASE x # Chosen(T)
  <2> DEFINE p == Chosen(T)
             B == Others(T) \ {x}
  <2>1. p \in T /\ x \in Others(T) /\ Others(T) \subseteq T /\ Others(T) # T
    BY <1>4, <1>7, OthersIsLess
  <2>2. SumFunctionOnSet(f, Others(T)) = f[x] + SumFunctionOnSet(f, B)
    BY <1>2, <1>4, <2>1
  <2>3. T \ {x} \in SUBSET T /\ T \ {x} # T /\ p \in T \ {x} /\ (T \ {x}) \ {p} = B
    BY <1>7, <2>1 DEF Others
  <2>4. SumFunctionOnSet(f, T \ {x}) = f[p] + SumFunctionOnSet(f, B)
    <3>1. \A U \in SUBSET T : U # T =>
            \A z \in U : SumFunctionOnSet(f, U) = f[z] + SumFunctionOnSet(f, U \ {z})
      BY <1>2, <1>4
    <3>2. SumFunctionOnSet(f, T \ {x}) = f[p] + SumFunctionOnSet(f, (T \ {x}) \ {p})
      BY <2>3, <3>1
    <3> QED BY <2>3, <3>2
  <2>5. f[x] \in Nat /\ f[p] \in Nat
    BY <1>4, <2>1
  <2>6. SumFunctionOnSet(f, B) \in Nat
    <3>1. B \in SUBSET S /\ IsFiniteSet(B)
      BY <1>4, <2>1, FS_Subset
    <3> QED BY <3>1, SumType
  <2> QED BY <1>3, <1>5, <2>2, <2>4, <2>5, <2>6
<1> QED BY <1>6, <1>7

\* One more term at the end of a sum over 1 .. n.
LEMMA SumExtend ==
  ASSUME NEW n \in Nat, NEW f, NEW g, \A x \in 1 .. n : f[x] = g[x],
         \A x \in 1 .. n + 1 : g[x] \in Nat
  PROVE  /\ SumFunctionOnSet(f, 1 .. n) \in Nat
         /\ SumFunctionOnSet(g, 1 .. n + 1) = SumFunctionOnSet(f, 1 .. n) + g[n + 1]
<1>1. /\ IsFiniteSet(1 .. n) /\ IsFiniteSet(1 .. n + 1)
      /\ n + 1 \in 1 .. n + 1 /\ (1 .. n + 1) \ {n + 1} = 1 .. n
  <2>1. IsFiniteSet(1 .. n) /\ IsFiniteSet(1 .. n + 1)
    BY FS_Interval
  <2>2. n + 1 \in 1 .. n + 1 /\ (1 .. n + 1) \ {n + 1} = 1 .. n
    OBVIOUS
  <2> QED BY <2>1, <2>2
<1>2. SumFunctionOnSet(g, 1 .. n + 1) = g[n + 1] + SumFunctionOnSet(g, 1 .. n)
  <2>1. ASSUME NEW T, IsFiniteSet(T), \A x \in T : g[x] \in Nat, NEW y \in T
        PROVE  SumFunctionOnSet(g, T) = g[y] + SumFunctionOnSet(g, T \ {y})
    BY <2>1, SumTakeOut
  <2> QED BY <1>1, <2>1
<1>3. SumFunctionOnSet(f, 1 .. n) = SumFunctionOnSet(g, 1 .. n)
  BY <1>1, SumSame
<1>4. SumFunctionOnSet(g, 1 .. n) \in Nat
  BY <1>1, SumType
<1>5. g[n + 1] \in Nat
  BY <1>1
<1> QED BY <1>2, <1>3, <1>4, <1>5

\* The sums over no element and over one.
LEMMA SumOfNoneOrOne ==
  /\ \A f : SumFunctionOnSet(f, {}) = 0
  /\ \A f, x : f[x] \in Nat => SumFunctionOnSet(f, {x}) = f[x]
<1>1. \A f : SumFunctionOnSet(f, {}) = 0
  BY SumStep, FS_EmptySet
<1>2. ASSUME NEW f, NEW x, f[x] \in Nat
      PROVE  SumFunctionOnSet(f, {x}) = f[x]
  <2>1. IsFiniteSet({x}) /\ {x} \ {x} = {}
    BY FS_Singleton
  <2>2. SumFunctionOnSet(f, {x}) = f[x] + SumFunctionOnSet(f, {x} \ {x})
    BY <1>2, <2>1, SumTakeOut
  <2> QED BY <1>1, <1>2, <2>1, <2>2
<1> QED BY <1>1, <1>2

\* It is no more than its elements times the greatest of them.
LEMMA SumBound ==
  ASSUME NEW S, IsFiniteSet(S), NEW B \in Nat, NEW f, \A x \in S : f[x] \in 0 .. B
  PROVE  SumFunctionOnSet(f, S) <= Cardinality(S) * B
<1> DEFINE C == {T \in SUBSET S : ~(SumFunctionOnSet(f, T) <= Cardinality(T) * B)}
<1>1. SUFFICES ASSUME C # {} PROVE FALSE
  <2>1. S \in SUBSET S
    OBVIOUS
  <2> QED BY <2>1
<1>2. PICK T \in C : \A U \in SUBSET T : U # T => U \notin C
  <2>1. C \in SUBSET (SUBSET S)
    OBVIOUS
  <2> HIDE DEF C
  <2> QED BY <1>1, <2>1, LeastSubset
<1>3. T \in SUBSET S /\ IsFiniteSet(T)
  BY FS_Subset
<1>4. T # {}
  <2>1. SumFunctionOnSet(f, {}) = 0 /\ Cardinality({}) = 0
    BY FS_EmptySet, SumStep
  <2>2. 0 <= 0 * B
    OBVIOUS
  <2> QED BY <1>2, <2>1, <2>2
<1>5. Chosen(T) \in T /\ Others(T) \in SUBSET T /\ Others(T) # T
  BY <1>4, OthersIsLess
<1>6. SumFunctionOnSet(f, Others(T)) <= Cardinality(Others(T)) * B
  BY <1>2, <1>3, <1>5
<1>7. SumFunctionOnSet(f, T) = f[Chosen(T)] + SumFunctionOnSet(f, Others(T))
  BY <1>3, <1>4, SumStep
<1>8. Cardinality(Others(T)) = Cardinality(T) - 1 /\ Cardinality(T) \in Nat
  BY <1>3, <1>5, FS_RemoveElement, FS_CardinalityType DEF Others
<1>9. SumFunctionOnSet(f, Others(T)) \in Nat /\ f[Chosen(T)] \in 0 .. B
  <2>1. IsFiniteSet(Others(T)) /\ \A x \in Others(T) : f[x] \in Nat
    BY <1>3, <1>5, FS_Subset
  <2> QED BY <1>3, <1>5, <2>1, SumType
<1>10. \A n, a, b \in Nat : a <= (n - 1) * B /\ b <= B => b + a <= n * B
  OBVIOUS
<1>11. SumFunctionOnSet(f, T) <= Cardinality(T) * B
  BY <1>6, <1>7, <1>8, <1>9, <1>10
<1> QED BY <1>2, <1>11

\* A sum of positive numbers is positive, unless there are none.
LEMMA SumPositive ==
  ASSUME NEW S, IsFiniteSet(S), NEW f, \A x \in S : f[x] \in Nat \ {0}, S # {}
  PROVE  SumFunctionOnSet(f, S) \in Nat \ {0}
<1>1. PICK y \in S : TRUE
  OBVIOUS
<1>2. IsFiniteSet(S \ {y})
  BY FS_Subset
<1>3. SumFunctionOnSet(f, S \ {y}) \in Nat
  BY <1>2, SumType
<1>4. SumFunctionOnSet(f, S) = f[y] + SumFunctionOnSet(f, S \ {y})
  BY SumTakeOut
<1> QED BY <1>3, <1>4
-----------------------------------------------------------------------------
(* Orders, and the levels that add up their quantities: what an order book *)
(* does to both keeps them in step as long as no sum passes 32 bits.       *)

\* level p of a side gains qty, or loses it and goes when nothing is left
Raise(m, p, qty) ==
  [x \in DOMAIN m \cup {p} |->
     IF x # p THEN m[x] ELSE ((IF p \in DOMAIN m THEN m[p] ELSE 0) + qty) % U32]
Lower(m, p, qty) ==
  IF p \notin DOMAIN m THEN m
  ELSE IF m[p] <= qty THEN Restrict(m, DOMAIN m \ {p})
  ELSE [m EXCEPT ![p] = m[p] - qty]

LiveOrders(O) == IsFiniteSet(DOMAIN O) /\ \A id \in DOMAIN O : O[id].qty \in Nat \ {0}

QtyOf(O) == [id \in DOMAIN O |-> O[id].qty]
At(O, s, p) == {id \in DOMAIN O : O[id].side = s /\ O[id].price = p}
SumAt(O, s, p) == SumFunctionOnSet(QtyOf(O), At(O, s, p))

MatchesAt(m, O, s, p) ==
  /\ p \in DOMAIN m <=> At(O, s, p) # {}
  /\ p \in DOMAIN m => m[p] = SumAt(O, s, p)
Matches(L, O) == \A s \in Sides : \A p : MatchesAt(L[s], O, s, p)

LEMMA SumAtType ==
  ASSUME NEW O, LiveOrders(O), NEW s, NEW p
  PROVE  /\ IsFiniteSet(At(O, s, p))
         /\ \A id \in At(O, s, p) : QtyOf(O)[id] \in Nat \ {0}
         /\ SumAt(O, s, p) \in Nat
         /\ At(O, s, p) # {} => SumAt(O, s, p) # 0
<1>1. IsFiniteSet(At(O, s, p))
  BY FS_Subset DEF LiveOrders, At
<1>2. \A id \in At(O, s, p) : QtyOf(O)[id] \in Nat \ {0}
  BY DEF LiveOrders, At, QtyOf
<1>3. SumAt(O, s, p) \in Nat
  BY <1>1, <1>2, SumType DEF SumAt
<1>4. At(O, s, p) # {} => SumAt(O, s, p) # 0
  BY <1>1, <1>2, SumPositive DEF SumAt
<1> QED BY <1>1, <1>2, <1>3, <1>4

\* O2 is O with the order id more, which O does not have.
OneMore(O, O2, id) ==
  /\ id \notin DOMAIN O /\ DOMAIN O2 = DOMAIN O \cup {id}
  /\ \A x \in DOMAIN O : O2[x] = O[x]

LEMMA SumWithOneMore ==
  ASSUME NEW O, NEW O2, NEW id, LiveOrders(O), OneMore(O, O2, id), O2[id].qty \in Nat \ {0},
         NEW s, NEW p
  PROVE  /\ LiveOrders(O2)
         /\ (s # O2[id].side \/ p # O2[id].price) =>
              At(O2, s, p) = At(O, s, p) /\ SumAt(O2, s, p) = SumAt(O, s, p)
         /\ (s = O2[id].side /\ p = O2[id].price) =>
              At(O2, s, p) # {} /\ SumAt(O2, s, p) = O2[id].qty + SumAt(O, s, p)
<1>1. LiveOrders(O2)
  BY FS_AddElement DEF LiveOrders, OneMore
<1>2. \A x \in At(O, s, p) : QtyOf(O2)[x] = QtyOf(O)[x]
  BY DEF OneMore, At, QtyOf
<1>3. SumFunctionOnSet(QtyOf(O2), At(O, s, p)) = SumAt(O, s, p)
  BY <1>2, SumAtType, SumSame DEF SumAt
<1>4. ASSUME s # O2[id].side \/ p # O2[id].price
      PROVE  At(O2, s, p) = At(O, s, p) /\ SumAt(O2, s, p) = SumAt(O, s, p)
  <2>1. At(O2, s, p) = At(O, s, p)
    BY <1>4 DEF At, OneMore
  <2> QED BY <1>3, <2>1 DEF SumAt
<1>5. ASSUME s = O2[id].side, p = O2[id].price
      PROVE  At(O2, s, p) # {} /\ SumAt(O2, s, p) = O2[id].qty + SumAt(O, s, p)
  <2>1. id \in At(O2, s, p) /\ At(O2, s, p) \ {id} = At(O, s, p)
    BY <1>5 DEF At, OneMore
  <2>2. QtyOf(O2)[id] = O2[id].qty
    BY DEF QtyOf, OneMore
  <2>3. /\ IsFiniteSet(At(O2, s, p))
        /\ \A x \in At(O2, s, p) : QtyOf(O2)[x] \in Nat
    BY <1>1, SumAtType
  <2>4. SumAt(O2, s, p) = QtyOf(O2)[id] + SumFunctionOnSet(QtyOf(O2), At(O2, s, p) \ {id})
    <3> DEFINE A == At(O2, s, p)
               f == QtyOf(O2)
    <3>1. IsFiniteSet(A) /\ id \in A /\ \A x \in A : f[x] \in Nat
      BY <2>1, <2>3
    <3> HIDE DEF A, f
    <3>2. SumFunctionOnSet(f, A) = f[id] + SumFunctionOnSet(f, A \ {id})
      BY <3>1, SumTakeOut
    <3> QED BY <3>2 DEF A, f, SumAt
  <2> QED BY <1>3, <2>1, <2>2, <2>4
<1> QED BY <1>1, <1>4, <1>5

\* A new order, whose level gains its quantity.
LEMMA AddMatches ==
  ASSUME NEW L, NEW O, NEW L2, NEW O2, NEW id, DOMAIN L = Sides,
         LiveOrders(O), Matches(L, O), OneMore(O, O2, id),
         O2[id].side \in Sides, O2[id].qty \in Nat \ {0},
         SumAt(O2, O2[id].side, O2[id].price) < U32,
         L2 = [L EXCEPT ![O2[id].side] = Raise(L[O2[id].side], O2[id].price, O2[id].qty)]
  PROVE  Matches(L2, O2)
<1> DEFINE s0 == O2[id].side
           p0 == O2[id].price
           q0 == O2[id].qty
<1>1. SUFFICES ASSUME NEW s \in Sides, NEW p PROVE MatchesAt(L2[s], O2, s, p)
  BY DEF Matches
<1>2. MatchesAt(L[s], O, s, p)
  BY DEF Matches
<1>3. CASE s # s0
  BY <1>2, <1>3, SumWithOneMore DEF MatchesAt
<1>4. CASE s = s0 /\ p # p0
  <2>1. L2[s] = Raise(L[s], p0, q0)
    BY <1>4
  <2>2. p \in DOMAIN L2[s] <=> p \in DOMAIN L[s]
    BY <1>4, <2>1 DEF Raise
  <2>3. p \in DOMAIN L[s] => L2[s][p] = L[s][p]
    BY <1>4, <2>1 DEF Raise
  <2> QED BY <1>2, <1>4, <2>2, <2>3, SumWithOneMore DEF MatchesAt
<1>5. CASE s = s0 /\ p = p0
  <2>1. L2[s] = Raise(L[s], p, q0)
    BY <1>5
  <2>2. SumAt(O2, s, p) = q0 + SumAt(O, s, p) /\ At(O2, s, p) # {}
    BY <1>5, SumWithOneMore
  <2>3. SumAt(O, s, p) \in Nat
    BY SumAtType
  <2>4. SumAt(O2, s, p) < U32 /\ q0 \in Nat
    BY <1>5
  <2>5. (IF p \in DOMAIN L[s] THEN L[s][p] ELSE 0) = SumAt(O, s, p)
    <3>1. ASSUME p \notin DOMAIN L[s] PROVE SumAt(O, s, p) = 0
      <4>1. At(O, s, p) = {}
        BY <1>2, <3>1 DEF MatchesAt
      <4>2. IsFiniteSet({})
        BY FS_EmptySet
      <4> QED BY <4>1, <4>2, SumStep DEF SumAt
    <3> QED BY <1>2, <3>1 DEF MatchesAt
  <2>6. p \in DOMAIN L2[s] /\ L2[s][p] = (SumAt(O, s, p) + q0) % U32
    BY <2>1, <2>5 DEF Raise
  <2>7. (SumAt(O, s, p) + q0) % U32 = SumAt(O, s, p) + q0
    BY <2>2, <2>3, <2>4, U32Assumption
  <2> QED BY <2>2, <2>3, <2>4, <2>6, <2>7 DEF MatchesAt
<1> QED BY <1>3, <1>4, <1>5

\* An order goes, and its level loses its quantity.
LEMMA TakeMatches ==
  ASSUME NEW L, NEW O, NEW L2, NEW O2, NEW id, DOMAIN L = Sides,
         LiveOrders(O2), Matches(L, O), OneMore(O2, O, id),
         O[id].side \in Sides, O[id].qty \in Nat \ {0},
         L2 = [L EXCEPT ![O[id].side] = Lower(L[O[id].side], O[id].price, O[id].qty)]
  PROVE  Matches(L2, O2)
<1> DEFINE s0 == O[id].side
           p0 == O[id].price
           q0 == O[id].qty
<1>1. SUFFICES ASSUME NEW s \in Sides, NEW p PROVE MatchesAt(L2[s], O2, s, p)
  BY DEF Matches
<1>2. MatchesAt(L[s], O, s, p)
  BY DEF Matches
<1>3. CASE s # s0
  BY <1>2, <1>3, SumWithOneMore DEF MatchesAt
<1>4. CASE s = s0 /\ p # p0
  <2>1. L2[s] = Lower(L[s], p0, q0)
    BY <1>4
  <2>2. p \in DOMAIN L2[s] <=> p \in DOMAIN L[s]
    BY <1>4, <2>1 DEF Lower, Restrict
  <2>3. p \in DOMAIN L[s] => L2[s][p] = L[s][p]
    BY <1>4, <2>1 DEF Lower, Restrict
  <2> QED BY <1>2, <1>4, <2>2, <2>3, SumWithOneMore DEF MatchesAt
<1>5. CASE s = s0 /\ p = p0
  <2>1. L2[s] = Lower(L[s], p, q0)
    BY <1>5
  <2>2. SumAt(O, s, p) = q0 + SumAt(O2, s, p) /\ At(O, s, p) # {}
    BY <1>5, SumWithOneMore
  <2>3. SumAt(O2, s, p) \in Nat /\ (At(O2, s, p) # {} => SumAt(O2, s, p) # 0)
    BY SumAtType
  <2>4. p \in DOMAIN L[s] /\ L[s][p] = q0 + SumAt(O2, s, p) /\ q0 \in Nat
    BY <1>2, <2>2 DEF MatchesAt
  <2>5. CASE At(O2, s, p) = {}
    <3>1. SumAt(O2, s, p) = 0
      <4>1. IsFiniteSet({})
        BY FS_EmptySet
      <4> QED BY <2>5, <4>1, SumStep DEF SumAt
    <3>2. L[s][p] <= q0
      BY <2>4, <3>1
    <3>3. p \notin DOMAIN L2[s]
      BY <2>1, <2>4, <3>2 DEF Lower, Restrict
    <3> QED BY <2>5, <3>3 DEF MatchesAt
  <2>6. CASE At(O2, s, p) # {}
    <3>1. ~(L[s][p] <= q0)
      BY <2>3, <2>4, <2>6
    <3>2. L2[s] = [L[s] EXCEPT ![p] = L[s][p] - q0]
      BY <2>1, <2>4, <3>1 DEF Lower
    <3>3. p \in DOMAIN L2[s] /\ L2[s][p] = L[s][p] - q0
      BY <2>4, <3>2
    <3>4. L[s][p] - q0 = SumAt(O2, s, p)
      BY <2>3, <2>4
    <3> QED BY <2>6, <3>3, <3>4 DEF MatchesAt
  <2> QED BY <2>5, <2>6
<1> QED BY <1>3, <1>4, <1>5

\* A map without the order id has it one less.
LEMMA RestrictIsOneLess ==
  ASSUME NEW O, LiveOrders(O), NEW id \in DOMAIN O
  PROVE  /\ OneMore(Restrict(O, DOMAIN O \ {id}), O, id)
         /\ LiveOrders(Restrict(O, DOMAIN O \ {id}))
<1>1. OneMore(Restrict(O, DOMAIN O \ {id}), O, id)
  BY DEF OneMore, Restrict
<1>2. IsFiniteSet(DOMAIN O \ {id})
  BY FS_RemoveElement DEF LiveOrders
<1> QED BY <1>1, <1>2 DEF LiveOrders, Restrict

\* An order is cancelled, or traded whole.
Cancels(L, O, L2, O2, id) ==
  /\ O2 = Restrict(O, DOMAIN O \ {id})
  /\ L2 = [L EXCEPT ![O[id].side] = Lower(L[O[id].side], O[id].price, O[id].qty)]

LEMMA CancelMatches ==
  ASSUME NEW L, NEW O, NEW L2, NEW O2, NEW id \in DOMAIN O, DOMAIN L = Sides,
         LiveOrders(O), Matches(L, O), O[id].side \in Sides, Cancels(L, O, L2, O2, id)
  PROVE  Matches(L2, O2) /\ LiveOrders(O2)
<1>0. /\ O2 = Restrict(O, DOMAIN O \ {id})
      /\ L2 = [L EXCEPT ![O[id].side] = Lower(L[O[id].side], O[id].price, O[id].qty)]
  BY DEF Cancels
<1>1. OneMore(O2, O, id) /\ LiveOrders(O2)
  BY <1>0, RestrictIsOneLess
<1>2. O[id].qty \in Nat \ {0}
  BY DEF LiveOrders
<1> QED BY ZenonT(60), <1>0, <1>1, <1>2, TakeMatches

\* An order is changed: the new one takes the place of the old.
Changes(L, O, L2, O2, id) ==
  /\ DOMAIN O2 = DOMAIN O /\ \A x \in DOMAIN O : x # id => O2[x] = O[x]
  /\ O2[id].side = O[id].side
  /\ L2 = [L EXCEPT ![O[id].side] =
             Raise(Lower(L[O[id].side], O[id].price, O[id].qty), O2[id].price, O2[id].qty)]

LEMMA ChangeMatches ==
  ASSUME NEW L, NEW O, NEW L2, NEW O2, NEW id \in DOMAIN O, DOMAIN L = Sides,
         LiveOrders(O), Matches(L, O), O[id].side \in Sides, Changes(L, O, L2, O2, id),
         O2[id].qty \in Nat \ {0}, SumAt(O2, O2[id].side, O2[id].price) < U32
  PROVE  Matches(L2, O2) /\ LiveOrders(O2)
<1>0. PICK O1, L1 :
        /\ O1 = Restrict(O, DOMAIN O \ {id})
        /\ L1 = [L EXCEPT ![O[id].side] = Lower(L[O[id].side], O[id].price, O[id].qty)]
  OBVIOUS
<1>1. Matches(L1, O1) /\ LiveOrders(O1)
  <2>1. Cancels(L, O, L1, O1, id)
    BY <1>0 DEF Cancels
  <2> QED BY <2>1, CancelMatches
<1>2. OneMore(O1, O2, id)
  BY <1>0 DEF OneMore, Restrict, Changes
<1>3. DOMAIN L1 = Sides
  BY <1>0
<1>4. L2 = [L1 EXCEPT ![O2[id].side] = Raise(L1[O2[id].side], O2[id].price, O2[id].qty)]
  BY <1>0 DEF Changes
<1>7. O2[id].side \in Sides
  BY DEF Changes
<1>5. Matches(L2, O2)
  BY <1>1, <1>2, <1>3, <1>4, <1>7, AddMatches
<1>6. LiveOrders(O2)
  BY <1>1, <1>2, SumWithOneMore
<1> QED BY <1>5, <1>6

\* An order is traded in part.
Shrinks(L, O, L2, O2, id, q) ==
  /\ DOMAIN O2 = DOMAIN O /\ \A x \in DOMAIN O : x # id => O2[x] = O[x]
  /\ O2[id].side = O[id].side /\ O2[id].price = O[id].price /\ O2[id].qty = O[id].qty - q
  /\ L2 = [L EXCEPT ![O[id].side] = Lower(L[O[id].side], O[id].price, q)]

LEMMA ShrinkMatches ==
  ASSUME NEW L, NEW O, NEW L2, NEW O2, NEW id \in DOMAIN O, DOMAIN L = Sides,
         LiveOrders(O), Matches(L, O), O[id].side \in Sides,
         NEW q \in Nat, q < O[id].qty, Shrinks(L, O, L2, O2, id, q)
  PROVE  Matches(L2, O2) /\ LiveOrders(O2)
<1>0. /\ DOMAIN O2 = DOMAIN O /\ \A x \in DOMAIN O : x # id => O2[x] = O[x]
      /\ O2[id].side = O[id].side /\ O2[id].price = O[id].price /\ O2[id].qty = O[id].qty - q
      /\ L2 = [L EXCEPT ![O[id].side] = Lower(L[O[id].side], O[id].price, q)]
  BY DEF Shrinks
<1> DEFINE O1 == Restrict(O, DOMAIN O \ {id})
           s0 == O[id].side
           p0 == O[id].price
<1>1. LiveOrders(O1) /\ OneMore(O1, O, id)
  BY RestrictIsOneLess
<1>2. OneMore(O1, O2, id)
  BY <1>0 DEF OneMore, Restrict
<1>3. O[id].qty \in Nat \ {0} /\ O2[id].qty \in Nat \ {0}
  BY <1>0 DEF LiveOrders
<1> HIDE DEF O1
<1>4. LiveOrders(O2)
  BY <1>1, <1>2, <1>3, SumWithOneMore
<1>5. SUFFICES ASSUME NEW s \in Sides, NEW p PROVE MatchesAt(L2[s], O2, s, p)
  BY <1>4 DEF Matches
<1>6. MatchesAt(L[s], O, s, p)
  BY DEF Matches
<1>7. CASE s # s0 \/ p # p0
  <2>1. At(O2, s, p) = At(O1, s, p) /\ SumAt(O2, s, p) = SumAt(O1, s, p)
    BY <1>0, <1>1, <1>2, <1>3, <1>7, SumWithOneMore
  <2>2. At(O, s, p) = At(O1, s, p) /\ SumAt(O, s, p) = SumAt(O1, s, p)
    BY <1>1, <1>3, <1>7, SumWithOneMore
  <2>3. (p \in DOMAIN L2[s] <=> p \in DOMAIN L[s]) /\ (p \in DOMAIN L[s] => L2[s][p] = L[s][p])
    <3>1. CASE s # s0
      BY <1>0, <3>1
    <3>2. CASE s = s0 /\ p # p0
      <4>1. L2[s] = Lower(L[s], p0, q)
        BY <1>0, <3>2
      <4> QED BY <3>2, <4>1 DEF Lower, Restrict
    <3> QED BY <1>7, <3>1, <3>2
  <2> QED BY <1>6, <2>1, <2>2, <2>3 DEF MatchesAt
<1>8. CASE s = s0 /\ p = p0
  <2>1. /\ At(O2, s, p) # {} /\ SumAt(O2, s, p) = O2[id].qty + SumAt(O1, s, p)
        /\ At(O, s, p) # {} /\ SumAt(O, s, p) = O[id].qty + SumAt(O1, s, p)
    BY <1>0, <1>1, <1>2, <1>3, <1>8, SumWithOneMore
  <2>2. SumAt(O1, s, p) \in Nat
    BY <1>1, SumAtType
  <2>3. p \in DOMAIN L[s] /\ L[s][p] = O[id].qty + SumAt(O1, s, p)
    BY <1>6, <2>1 DEF MatchesAt
  <2>4. ~(L[s][p] <= q)
    BY <1>3, <2>2, <2>3
  <2>5. L2[s] = Lower(L[s], p, q)
    BY <1>0, <1>8
  <2>6. p \in DOMAIN L2[s] /\ L2[s][p] = L[s][p] - q
    BY <2>3, <2>4, <2>5 DEF Lower
  <2>7. L[s][p] - q = SumAt(O2, s, p)
    BY <1>0, <1>3, <2>1, <2>2, <2>3
  <2> QED BY <2>1, <2>6, <2>7 DEF MatchesAt
<1> QED BY <1>7, <1>8

-----------------------------------------------------------------------------
(* The same of a book's operations: levels and orders in step.             *)

LiveStates == [price : Uint32, qty : Uint32 \ {0}, side : Sides]

\* what is known of a book's orders, whatever its levels
BookOrders(O) == IsFiniteSet(DOMAIN O) /\ \A id \in DOMAIN O : O[id] \in LiveStates

StepWith(L, O) == DOMAIN L = Sides /\ BookOrders(O) /\ Matches(L, O)

\* no level's orders pass 32 bits
RoomIn(O) == \A s \in Sides : \A p : SumAt(O, s, p) < U32

LEMMA BookOrdersLive ==
  ASSUME NEW O, BookOrders(O)
  PROVE  /\ LiveOrders(O)
         /\ \A id \in DOMAIN O : /\ O[id].side \in Sides /\ O[id].price \in Uint32
                                 /\ O[id].qty \in Nat \ {0}
                                 /\ O[id] = [price |-> O[id].price, qty |-> O[id].qty,
                                             side |-> O[id].side]
BY U32Assumption DEF BookOrders, LiveOrders, LiveStates, Uint32

\* What the operations make of the orders.
WithOrder(O, id, o) == [x \in DOMAIN O \cup {id} |-> IF x = id THEN o ELSE O[x]]
WithoutOrder(O, id) == Restrict(O, DOMAIN O \ {id})
Repriced(O, id, p, q) == [O EXCEPT ![id].price = p, ![id].qty = q]
Traded(O, id, q) ==
  IF q >= O[id].qty THEN WithoutOrder(O, id) ELSE [O EXCEPT ![id].qty = O[id].qty - q]

LEMMA WithOrderIs ==
  ASSUME NEW O, BookOrders(O), NEW id, id \notin DOMAIN O, NEW o \in LiveStates
  PROVE  /\ OneMore(O, WithOrder(O, id, o), id)
         /\ WithOrder(O, id, o)[id] = o
         /\ BookOrders(WithOrder(O, id, o))
<1>1. OneMore(O, WithOrder(O, id, o), id) /\ WithOrder(O, id, o)[id] = o
  BY DEF OneMore, WithOrder
<1>2. IsFiniteSet(DOMAIN O \cup {id})
  BY FS_AddElement DEF BookOrders
<1> QED BY <1>1, <1>2 DEF BookOrders, OneMore, WithOrder

LEMMA WithoutOrderIs ==
  ASSUME NEW O, BookOrders(O), NEW id \in DOMAIN O
  PROVE  /\ OneMore(WithoutOrder(O, id), O, id)
         /\ BookOrders(WithoutOrder(O, id))
<1>1. OneMore(WithoutOrder(O, id), O, id)
  BY DEF OneMore, WithoutOrder, Restrict
<1>2. IsFiniteSet(DOMAIN O \ {id})
  BY FS_RemoveElement DEF BookOrders
<1> QED BY <1>1, <1>2 DEF BookOrders, WithoutOrder, Restrict

LEMMA RepricedIs ==
  ASSUME NEW O, BookOrders(O), NEW id \in DOMAIN O, NEW p \in Uint32, NEW q \in Uint32 \ {0}
  PROVE  /\ DOMAIN Repriced(O, id, p, q) = DOMAIN O
         /\ \A x \in DOMAIN O : x # id => Repriced(O, id, p, q)[x] = O[x]
         /\ Repriced(O, id, p, q)[id] = [price |-> p, qty |-> q, side |-> O[id].side]
         /\ BookOrders(Repriced(O, id, p, q))
<1>1. O[id] = [price |-> O[id].price, qty |-> O[id].qty, side |-> O[id].side]
  BY BookOrdersLive
<1>2. /\ DOMAIN Repriced(O, id, p, q) = DOMAIN O
      /\ \A x \in DOMAIN O : x # id => Repriced(O, id, p, q)[x] = O[x]
      /\ Repriced(O, id, p, q)[id] = [O[id] EXCEPT !.price = p, !.qty = q]
  BY DEF Repriced
<1>3. [O[id] EXCEPT !.price = p, !.qty = q] = [price |-> p, qty |-> q, side |-> O[id].side]
  <2>1. PICK a, b, c : O[id] = [price |-> a, qty |-> b, side |-> c]
    BY <1>1
  <2>2. [O[id] EXCEPT !.price = p] = [price |-> p, qty |-> b, side |-> c]
    BY <2>1
  <2>3. [[price |-> p, qty |-> b, side |-> c] EXCEPT !.qty = q] = [price |-> p, qty |-> q, side |-> c]
    OBVIOUS
  <2> QED BY <2>1, <2>2, <2>3
<1>4. O[id].side \in Sides
  BY BookOrdersLive
<1>5. [price |-> p, qty |-> q, side |-> O[id].side] \in LiveStates
  BY <1>4 DEF LiveStates
<1> QED BY <1>2, <1>3, <1>5 DEF BookOrders

\* an order that loses less than it has
LEMMA ShrunkIs ==
  ASSUME NEW O, BookOrders(O), NEW id \in DOMAIN O, NEW q \in Nat, ~(q >= O[id].qty)
  PROVE  /\ DOMAIN Traded(O, id, q) = DOMAIN O
         /\ \A x \in DOMAIN O : x # id => Traded(O, id, q)[x] = O[x]
         /\ Traded(O, id, q)[id] = [price |-> O[id].price, qty |-> O[id].qty - q,
                                    side |-> O[id].side]
         /\ BookOrders(Traded(O, id, q))
<1>1. O[id] = [price |-> O[id].price, qty |-> O[id].qty, side |-> O[id].side]
  BY BookOrdersLive
<1>2. Traded(O, id, q) = [O EXCEPT ![id].qty = O[id].qty - q]
  BY DEF Traded
<1>3. /\ DOMAIN Traded(O, id, q) = DOMAIN O
      /\ \A x \in DOMAIN O : x # id => Traded(O, id, q)[x] = O[x]
      /\ Traded(O, id, q)[id] = [O[id] EXCEPT !.qty = O[id].qty - q]
  BY <1>2
<1>4. [O[id] EXCEPT !.qty = O[id].qty - q] = [price |-> O[id].price, qty |-> O[id].qty - q,
                                              side |-> O[id].side]
  BY <1>1
<1>5. O[id] \in LiveStates
  BY DEF BookOrders
<1>6. /\ O[id].side \in Sides /\ O[id].price \in Uint32
      /\ O[id].qty - q \in Uint32 \ {0}
  BY <1>5, U32Assumption DEF LiveStates, Uint32
<1>7. [price |-> O[id].price, qty |-> O[id].qty - q, side |-> O[id].side] \in LiveStates
  BY <1>6 DEF LiveStates
<1> QED BY <1>3, <1>4, <1>7 DEF BookOrders

LEMMA TradedIs ==
  ASSUME NEW O, BookOrders(O), NEW id \in DOMAIN O, NEW q \in Nat
  PROVE  DOMAIN Traded(O, id, q) \subseteq DOMAIN O /\ BookOrders(Traded(O, id, q))
<1>1. CASE q >= O[id].qty
  <2>1. Traded(O, id, q) = WithoutOrder(O, id)
    BY <1>1 DEF Traded
  <2>2. DOMAIN WithoutOrder(O, id) \subseteq DOMAIN O
    BY DEF WithoutOrder, Restrict
  <2> QED BY <2>1, <2>2, WithoutOrderIs
<1>2. CASE ~(q >= O[id].qty)
  BY <1>2, ShrunkIs
<1> QED BY <1>1, <1>2

\* What they make of both.
LEMMA AddKeepsStep ==
  ASSUME NEW L, NEW O, NEW id, id \notin DOMAIN O, NEW p \in Uint32, NEW q \in Uint32 \ {0},
         NEW s \in Sides, StepWith(L, O),
         RoomIn(WithOrder(O, id, [price |-> p, qty |-> q, side |-> s]))
  PROVE  StepWith([L EXCEPT ![s] = Raise(L[s], p, q)],
                  WithOrder(O, id, [price |-> p, qty |-> q, side |-> s]))
<1> DEFINE o == [price |-> p, qty |-> q, side |-> s]
           O2 == WithOrder(O, id, o)
<1>1. o \in LiveStates /\ o.side = s /\ o.price = p /\ o.qty = q /\ q \in Nat \ {0}
  BY U32Assumption DEF LiveStates, Uint32
<1> HIDE DEF o
<1>2. OneMore(O, O2, id) /\ O2[id] = o /\ BookOrders(O2)
  BY <1>1, WithOrderIs DEF StepWith
<1>3. SumAt(O2, s, p) < U32
  BY DEF RoomIn, o
<1> HIDE DEF O2
<1>4. LiveOrders(O)
  BY BookOrdersLive DEF StepWith
<1>5. PICK L2 : L2 = [L EXCEPT ![s] = Raise(L[s], p, q)]
  OBVIOUS
<1>6. Matches(L2, O2)
  BY <1>1, <1>2, <1>3, <1>4, <1>5, AddMatches DEF StepWith
<1>7. DOMAIN L2 = Sides
  BY <1>5 DEF StepWith
<1> QED BY <1>2, <1>5, <1>6, <1>7 DEF StepWith, O2, o

LEMMA ModifyKeepsStep ==
  ASSUME NEW L, NEW O, NEW id \in DOMAIN O, NEW p \in Uint32, NEW q \in Uint32 \ {0},
         StepWith(L, O), RoomIn(Repriced(O, id, p, q))
  PROVE  StepWith([L EXCEPT ![O[id].side] = Raise(Lower(L[O[id].side], O[id].price, O[id].qty), p, q)],
                  Repriced(O, id, p, q))
<1>1. PICK O2 : O2 = Repriced(O, id, p, q)
  OBVIOUS
<1>2. PICK L2 : L2 = [L EXCEPT ![O[id].side] =
                        Raise(Lower(L[O[id].side], O[id].price, O[id].qty), p, q)]
  OBVIOUS
<1>3. BookOrders(O) /\ LiveOrders(O) /\ O[id].side \in Sides /\ q \in Nat \ {0}
  BY BookOrdersLive, U32Assumption DEF StepWith, Uint32
<1>4. /\ DOMAIN O2 = DOMAIN O /\ \A x \in DOMAIN O : x # id => O2[x] = O[x]
      /\ O2[id] = [price |-> p, qty |-> q, side |-> O[id].side]
      /\ BookOrders(O2)
  BY <1>1, <1>3, RepricedIs
<1>5. O2[id].side = O[id].side /\ O2[id].price = p /\ O2[id].qty = q
  BY <1>4
<1>6. Changes(L, O, L2, O2, id)
  BY <1>2, <1>4, <1>5 DEF Changes
<1>7. SumAt(O2, O2[id].side, O2[id].price) < U32
  BY <1>1, <1>3, <1>5 DEF RoomIn
<1>8. Matches(L2, O2)
  BY <1>3, <1>5, <1>6, <1>7, ChangeMatches DEF StepWith
<1>9. DOMAIN L2 = Sides
  BY <1>2 DEF StepWith
<1> QED BY <1>1, <1>2, <1>4, <1>8, <1>9 DEF StepWith

LEMMA CancelKeepsStep ==
  ASSUME NEW L, NEW O, NEW id \in DOMAIN O, StepWith(L, O)
  PROVE  StepWith([L EXCEPT ![O[id].side] = Lower(L[O[id].side], O[id].price, O[id].qty)],
                  WithoutOrder(O, id))
<1>1. PICK L2 : L2 = [L EXCEPT ![O[id].side] = Lower(L[O[id].side], O[id].price, O[id].qty)]
  OBVIOUS
<1>2. Cancels(L, O, L2, WithoutOrder(O, id), id)
  BY <1>1 DEF Cancels, WithoutOrder
<1>3. LiveOrders(O) /\ O[id].side \in Sides
  BY BookOrdersLive DEF StepWith
<1>4. Matches(L2, WithoutOrder(O, id))
  BY <1>2, <1>3, CancelMatches DEF StepWith
<1>5. DOMAIN L2 = Sides
  BY <1>1 DEF StepWith
<1> QED BY <1>1, <1>4, <1>5, WithoutOrderIs DEF StepWith

LEMMA TradeKeepsStep ==
  ASSUME NEW L, NEW O, NEW id \in DOMAIN O, NEW q \in Nat, q <= O[id].qty, StepWith(L, O)
  PROVE  StepWith([L EXCEPT ![O[id].side] = Lower(L[O[id].side], O[id].price, q)],
                  Traded(O, id, q))
<1>1. BookOrders(O) /\ LiveOrders(O) /\ O[id].side \in Sides /\ O[id].qty \in Nat \ {0}
  BY BookOrdersLive DEF StepWith
<1>2. CASE q >= O[id].qty
  <2>1. q = O[id].qty
    BY <1>1, <1>2
  <2>2. Traded(O, id, q) = WithoutOrder(O, id)
    BY <1>2 DEF Traded
  <2> QED BY <2>1, <2>2, CancelKeepsStep
<1>3. CASE ~(q >= O[id].qty)
  <2>1. PICK L2 : L2 = [L EXCEPT ![O[id].side] = Lower(L[O[id].side], O[id].price, q)]
    OBVIOUS
  <2>2. PICK O2 : O2 = Traded(O, id, q)
    OBVIOUS
  <2>3. /\ DOMAIN O2 = DOMAIN O /\ \A x \in DOMAIN O : x # id => O2[x] = O[x]
        /\ O2[id] = [price |-> O[id].price, qty |-> O[id].qty - q, side |-> O[id].side]
        /\ BookOrders(O2)
    BY <1>1, <1>3, <2>2, ShrunkIs
  <2>4. Shrinks(L, O, L2, O2, id, q)
    BY <2>1, <2>3 DEF Shrinks
  <2>5. q < O[id].qty
    BY <1>1, <1>3
  <2>6. Matches(L2, O2)
    BY <1>1, <2>4, <2>5, ShrinkMatches DEF StepWith
  <2>7. DOMAIN L2 = Sides
    BY <2>1 DEF StepWith
  <2> QED BY <2>1, <2>2, <2>3, <2>6, <2>7 DEF StepWith
<1> QED BY <1>2, <1>3

LEMMA EmptyInStep ==
  ASSUME NEW L, NEW O, DOMAIN O = {}, L = [s \in Sides |-> [p \in {} |-> 0]]
  PROVE  StepWith(L, O)
<1>1. BookOrders(O)
  BY FS_EmptySet DEF BookOrders
<1>2. ASSUME NEW s \in Sides, NEW p PROVE MatchesAt(L[s], O, s, p)
  BY <1>2 DEF MatchesAt, At
<1> QED BY <1>1, <1>2 DEF StepWith, Matches

LEMMA StepGivesSums ==
  ASSUME NEW L, NEW O, StepWith(L, O), NEW s \in Sides
  PROVE  /\ DOMAIN L[s] = {O[id].price : id \in {i \in DOMAIN O : O[i].side = s}}
         /\ \A p \in DOMAIN L[s] : L[s][p] = SumAt(O, s, p)
BY DEF StepWith, Matches, MatchesAt, At

\* N orders of at most B each leave room when N * B fits.
LEMMA RoomByCount ==
  ASSUME NEW O, NEW N \in Nat, NEW B \in Nat, N * B < U32,
         DOMAIN O \subseteq 1 .. N, \A id \in DOMAIN O : O[id].qty \in 0 .. B
  PROVE  RoomIn(O)
<1> SUFFICES ASSUME NEW s \in Sides, NEW p PROVE SumAt(O, s, p) < U32
  BY DEF RoomIn
<1>1. At(O, s, p) \subseteq 1 .. N
  BY DEF At
<1>2. IsFiniteSet(1 .. N) /\ Cardinality(1 .. N) = N
  BY FS_Interval
<1>3. IsFiniteSet(At(O, s, p)) /\ Cardinality(At(O, s, p)) <= N
  BY <1>1, <1>2, FS_Subset
<1>4. \A id \in At(O, s, p) : QtyOf(O)[id] \in 0 .. B
  BY DEF At, QtyOf
<1>5. SumAt(O, s, p) <= Cardinality(At(O, s, p)) * B
  BY <1>3, <1>4, SumBound DEF SumAt
<1>6. Cardinality(At(O, s, p)) \in Nat
  BY <1>3, FS_CardinalityType
<1>7. Cardinality(At(O, s, p)) * B <= N * B
  BY <1>3, <1>6
<1>8. SumAt(O, s, p) \in Nat
  <2>1. \A id \in At(O, s, p) : QtyOf(O)[id] \in Nat
    BY <1>4
  <2> QED BY <1>3, <2>1, SumType DEF SumAt
<1>9. N * B \in Nat /\ Cardinality(At(O, s, p)) * B \in Nat
  BY <1>6
<1> QED BY <1>5, <1>7, <1>8, <1>9, U32Assumption

-----------------------------------------------------------------------------
(* When a trade takes more from a level than its order had, the level is   *)
(* less than its orders; what it never is is more, or nothing.             *)

CoveredAt(m, O, s, p) == p \in DOMAIN m => m[p] \in Nat \ {0} /\ m[p] <= SumAt(O, s, p)
CoverWith(L, O) ==
  DOMAIN L = Sides /\ BookOrders(O) /\ \A s \in Sides : \A p : CoveredAt(L[s], O, s, p)

LEMMA AddIsCovered ==
  ASSUME NEW L, NEW O, NEW L2, NEW O2, NEW id, CoverWith(L, O), OneMore(O, O2, id),
         BookOrders(O2), RoomIn(O2),
         L2 = [L EXCEPT ![O2[id].side] = Raise(L[O2[id].side], O2[id].price, O2[id].qty)]
  PROVE  CoverWith(L2, O2)
<1> DEFINE s0 == O2[id].side
           p0 == O2[id].price
           q0 == O2[id].qty
<1>0. LiveOrders(O) /\ LiveOrders(O2) /\ s0 \in Sides /\ q0 \in Nat \ {0} /\ DOMAIN L = Sides
  BY BookOrdersLive DEF CoverWith, OneMore
<1>1. SUFFICES ASSUME NEW s \in Sides, NEW p, p \in DOMAIN L2[s]
               PROVE  L2[s][p] \in Nat \ {0} /\ L2[s][p] <= SumAt(O2, s, p)
  BY <1>0 DEF CoverWith, CoveredAt
<1>2. p \in DOMAIN L[s] => L[s][p] \in Nat \ {0} /\ L[s][p] <= SumAt(O, s, p)
  BY DEF CoverWith, CoveredAt
<1>3. CASE s # s0
  BY <1>0, <1>1, <1>2, <1>3, SumWithOneMore
<1>4. CASE s = s0 /\ p # p0
  <2>1. L2[s] = Raise(L[s], p0, q0)
    BY <1>0, <1>4
  <2>2. p \in DOMAIN L[s] /\ L2[s][p] = L[s][p]
    BY <1>1, <1>4, <2>1 DEF Raise
  <2> QED BY <1>0, <1>2, <1>4, <2>2, SumWithOneMore
<1>5. CASE s = s0 /\ p = p0
  <2>1. PICK n : n = IF p \in DOMAIN L[s] THEN L[s][p] ELSE 0
    OBVIOUS
  <2>2. L2[s] = Raise(L[s], p, q0)
    BY <1>0, <1>5
  <2>3. L2[s][p] = (n + q0) % U32
    BY <2>1, <2>2 DEF Raise
  <2>4. SumAt(O2, s, p) = q0 + SumAt(O, s, p) /\ SumAt(O, s, p) \in Nat
    BY <1>0, <1>5, SumWithOneMore, SumAtType
  <2>5. n \in Nat /\ n <= SumAt(O, s, p)
    BY <1>2, <2>1, <2>4
  <2>6. SumAt(O2, s, p) < U32
    BY DEF RoomIn
  <2>7. (n + q0) % U32 = n + q0
    BY <1>0, <2>4, <2>5, <2>6, U32Assumption
  <2> QED BY <1>0, <2>3, <2>4, <2>5, <2>7
<1> QED BY <1>3, <1>4, <1>5

\* The order id goes, and its level loses at least its quantity.
LEMMA TakeIsCovered ==
  ASSUME NEW L, NEW O, NEW L2, NEW O2, NEW id, NEW q \in Nat, CoverWith(L, O),
         OneMore(O2, O, id), BookOrders(O2), q >= O[id].qty,
         L2 = [L EXCEPT ![O[id].side] = Lower(L[O[id].side], O[id].price, q)]
  PROVE  CoverWith(L2, O2)
<1> DEFINE s0 == O[id].side
           p0 == O[id].price
           q0 == O[id].qty
<1>0. /\ LiveOrders(O) /\ LiveOrders(O2) /\ s0 \in Sides /\ q0 \in Nat \ {0} /\ DOMAIN L = Sides
  BY BookOrdersLive DEF CoverWith, OneMore
<1>1. SUFFICES ASSUME NEW s \in Sides, NEW p, p \in DOMAIN L2[s]
               PROVE  L2[s][p] \in Nat \ {0} /\ L2[s][p] <= SumAt(O2, s, p)
  BY <1>0 DEF CoverWith, CoveredAt
<1>2. p \in DOMAIN L[s] => L[s][p] \in Nat \ {0} /\ L[s][p] <= SumAt(O, s, p)
  BY DEF CoverWith, CoveredAt
<1>3. CASE s # s0
  BY <1>0, <1>1, <1>2, <1>3, SumWithOneMore
<1>4. CASE s = s0 /\ p # p0
  <2>1. L2[s] = Lower(L[s], p0, q)
    BY <1>0, <1>4
  <2>2. p \in DOMAIN L[s] /\ L2[s][p] = L[s][p]
    BY <1>1, <1>4, <2>1 DEF Lower, Restrict
  <2> QED BY <1>0, <1>2, <1>4, <2>2, SumWithOneMore
<1>5. CASE s = s0 /\ p = p0
  <2>1. L2[s] = Lower(L[s], p, q)
    BY <1>0, <1>5
  <2>2. p \in DOMAIN L[s] /\ ~(L[s][p] <= q)
    BY <1>1, <2>1 DEF Lower, Restrict
  <2>3. L2[s][p] = L[s][p] - q
    BY <2>1, <2>2 DEF Lower
  <2>4. SumAt(O, s, p) = q0 + SumAt(O2, s, p) /\ SumAt(O2, s, p) \in Nat
    BY <1>0, <1>5, SumWithOneMore, SumAtType
  <2> QED BY <1>0, <1>2, <2>2, <2>3, <2>4
<1> QED BY <1>3, <1>4, <1>5

LEMMA AddKeepsCover ==
  ASSUME NEW L, NEW O, NEW id, id \notin DOMAIN O, NEW p \in Uint32, NEW q \in Uint32 \ {0},
         NEW s \in Sides, CoverWith(L, O),
         RoomIn(WithOrder(O, id, [price |-> p, qty |-> q, side |-> s]))
  PROVE  CoverWith([L EXCEPT ![s] = Raise(L[s], p, q)],
                   WithOrder(O, id, [price |-> p, qty |-> q, side |-> s]))
<1>1. PICK o : o = [price |-> p, qty |-> q, side |-> s]
  OBVIOUS
<1>2. PICK O2 : O2 = WithOrder(O, id, o)
  OBVIOUS
<1>3. o \in LiveStates /\ o.side = s /\ o.price = p /\ o.qty = q
  BY <1>1 DEF LiveStates
<1>4. OneMore(O, O2, id) /\ O2[id] = o /\ BookOrders(O2)
  BY <1>2, <1>3, WithOrderIs DEF CoverWith
<1>5. PICK L2 : L2 = [L EXCEPT ![s] = Raise(L[s], p, q)]
  OBVIOUS
<1>6. RoomIn(O2)
  BY <1>1, <1>2
<1>7. CoverWith(L2, O2)
  BY <1>3, <1>4, <1>5, <1>6, AddIsCovered
<1> QED BY <1>1, <1>2, <1>5, <1>7

LEMMA CancelKeepsCover ==
  ASSUME NEW L, NEW O, NEW id \in DOMAIN O, NEW q \in Nat, q >= O[id].qty, CoverWith(L, O)
  PROVE  CoverWith([L EXCEPT ![O[id].side] = Lower(L[O[id].side], O[id].price, q)],
                   WithoutOrder(O, id))
<1>1. PICK L2 : L2 = [L EXCEPT ![O[id].side] = Lower(L[O[id].side], O[id].price, q)]
  OBVIOUS
<1>2. OneMore(WithoutOrder(O, id), O, id) /\ BookOrders(WithoutOrder(O, id))
  BY WithoutOrderIs DEF CoverWith
<1>3. CoverWith(L2, WithoutOrder(O, id))
  BY <1>1, <1>2, TakeIsCovered
<1> QED BY <1>1, <1>3

LEMMA ModifyKeepsCover ==
  ASSUME NEW L, NEW O, NEW id \in DOMAIN O, NEW p \in Uint32, NEW q \in Uint32 \ {0},
         CoverWith(L, O), RoomIn(Repriced(O, id, p, q))
  PROVE  CoverWith([L EXCEPT ![O[id].side] = Raise(Lower(L[O[id].side], O[id].price, O[id].qty), p, q)],
                   Repriced(O, id, p, q))
<1>1. PICK O1, O2 : O1 = WithoutOrder(O, id) /\ O2 = Repriced(O, id, p, q)
  OBVIOUS
<1>2. PICK L1 : L1 = [L EXCEPT ![O[id].side] = Lower(L[O[id].side], O[id].price, O[id].qty)]
  OBVIOUS
<1>3. PICK L2 : L2 = [L1 EXCEPT ![O[id].side] = Raise(L1[O[id].side], p, q)]
  OBVIOUS
<1>4. BookOrders(O) /\ O[id].side \in Sides /\ O[id].qty \in Nat \ {0} /\ DOMAIN L = Sides
  BY BookOrdersLive DEF CoverWith
<1>5. CoverWith(L1, O1)
  <2>1. O[id].qty \in Nat /\ O[id].qty >= O[id].qty
    BY <1>4
  <2> QED BY <1>1, <1>2, <2>1, CancelKeepsCover
<1>6. /\ DOMAIN O2 = DOMAIN O /\ \A x \in DOMAIN O : x # id => O2[x] = O[x]
      /\ O2[id] = [price |-> p, qty |-> q, side |-> O[id].side]
      /\ BookOrders(O2)
  BY <1>1, <1>4, RepricedIs
<1>7. O2[id].side = O[id].side /\ O2[id].price = p /\ O2[id].qty = q
  BY <1>6
<1>8. OneMore(O1, O2, id)
  BY <1>1, <1>6 DEF OneMore, WithoutOrder, Restrict
<1>9. CoverWith(L2, O2)
  BY <1>1, <1>3, <1>5, <1>6, <1>7, <1>8, AddIsCovered
<1>10. L2 = [L EXCEPT ![O[id].side] =
               Raise(Lower(L[O[id].side], O[id].price, O[id].qty), p, q)]
  BY <1>2, <1>3, <1>4
<1> QED BY <1>1, <1>9, <1>10

LEMMA TradeKeepsCover ==
  ASSUME NEW L, NEW O, NEW id \in DOMAIN O, NEW q \in Nat, CoverWith(L, O)
  PROVE  CoverWith([L EXCEPT ![O[id].side] = Lower(L[O[id].side], O[id].price, q)],
                   Traded(O, id, q))
<1>1. CASE q >= O[id].qty
  <2>1. Traded(O, id, q) = WithoutOrder(O, id)
    BY <1>1 DEF Traded
  <2> QED BY <1>1, <2>1, CancelKeepsCover
<1>2. CASE ~(q >= O[id].qty)
  <2>1. PICK O1, O2 : O1 = WithoutOrder(O, id) /\ O2 = Traded(O, id, q)
    OBVIOUS
  <2>2. PICK L2 : L2 = [L EXCEPT ![O[id].side] = Lower(L[O[id].side], O[id].price, q)]
    OBVIOUS
  <2>3. /\ DOMAIN O2 = DOMAIN O /\ \A x \in DOMAIN O : x # id => O2[x] = O[x]
        /\ O2[id] = [price |-> O[id].price, qty |-> O[id].qty - q, side |-> O[id].side]
        /\ BookOrders(O2)
    BY <1>2, <2>1, ShrunkIs DEF CoverWith
  <2>4. /\ LiveOrders(O) /\ LiveOrders(O1) /\ LiveOrders(O2) /\ DOMAIN L = Sides
        /\ O[id].side \in Sides /\ O[id].qty \in Nat \ {0} /\ O2[id].qty \in Nat \ {0}
        /\ OneMore(O1, O, id)
    BY <2>1, <2>3, WithoutOrderIs, BookOrdersLive DEF CoverWith
  <2>5. OneMore(O1, O2, id)
    BY <2>1, <2>3 DEF OneMore, WithoutOrder, Restrict
  <2>6. O2[id].side = O[id].side /\ O2[id].price = O[id].price /\ O2[id].qty = O[id].qty - q
    BY <2>3
  <2>7. ASSUME NEW s \in Sides, NEW p, p \in DOMAIN L2[s]
        PROVE  L2[s][p] \in Nat \ {0} /\ L2[s][p] <= SumAt(O2, s, p)
    <3>1. p \in DOMAIN L[s] => L[s][p] \in Nat \ {0} /\ L[s][p] <= SumAt(O, s, p)
      BY DEF CoverWith, CoveredAt
    <3>2. CASE s # O[id].side \/ p # O[id].price
      <4>1. SumAt(O2, s, p) = SumAt(O1, s, p) /\ SumAt(O, s, p) = SumAt(O1, s, p)
        BY <2>4, <2>5, <2>6, <3>2, SumWithOneMore
      <4>2. p \in DOMAIN L[s] /\ L2[s][p] = L[s][p]
        <5>1. CASE s # O[id].side
          BY <2>2, <2>7, <5>1
        <5>2. CASE s = O[id].side /\ p # O[id].price
          <6>1. L2[s] = Lower(L[s], O[id].price, q)
            BY <2>2, <2>4, <5>2
          <6> QED BY <2>7, <5>2, <6>1 DEF Lower, Restrict
        <5> QED BY <3>2, <5>1, <5>2
      <4> QED BY <3>1, <4>1, <4>2
    <3>3. CASE s = O[id].side /\ p = O[id].price
      <4>1. /\ SumAt(O2, s, p) = O2[id].qty + SumAt(O1, s, p)
            /\ SumAt(O, s, p) = O[id].qty + SumAt(O1, s, p)
            /\ SumAt(O1, s, p) \in Nat
        BY <2>4, <2>5, <2>6, <3>3, SumWithOneMore, SumAtType
      <4>2. L2[s] = Lower(L[s], p, q)
        BY <2>2, <2>4, <3>3
      <4>3. p \in DOMAIN L[s] /\ ~(L[s][p] <= q)
        BY <2>7, <4>2 DEF Lower, Restrict
      <4>4. L2[s][p] = L[s][p] - q
        BY <4>2, <4>3 DEF Lower
      <4> QED BY <2>4, <2>6, <3>1, <4>1, <4>3, <4>4
    <3> QED BY <3>2, <3>3
  <2>8. DOMAIN L2 = Sides
    BY <2>2, <2>4
  <2>9. CoverWith(L2, O2)
    BY <2>3, <2>7, <2>8 DEF CoverWith, CoveredAt
  <2> QED BY <2>1, <2>2, <2>9
<1> QED BY <1>1, <1>2

LEMMA EmptyIsCovered ==
  ASSUME NEW L, NEW O, DOMAIN O = {}, L = [s \in Sides |-> [p \in {} |-> 0]]
  PROVE  CoverWith(L, O)
<1>1. BookOrders(O)
  BY FS_EmptySet DEF BookOrders
<1> QED BY <1>1 DEF CoverWith, CoveredAt
===============================================================================
