------------------------------ MODULE SumsProofs ------------------------------
(***************************************************************************)
(* Facts about sums over finite sets: adding, removing and updating an     *)
(* element, monotonicity, and the sum of a partition.                      *)
(***************************************************************************)
EXTENDS Sums, FiniteSetTheorems, TLAPS

\* The units of one element: as many as its value says.
LEMMA UnitsOfOne ==
    ASSUME NEW x, NEW n \in Nat
    PROVE  /\ IsFiniteSet({x} \X (1..n))
           /\ Cardinality({x} \X (1..n)) = n
<1>1. IsFiniteSet({x}) /\ Cardinality({x}) = 1
  BY FS_Singleton
<1>2. IsFiniteSet(1..n) /\ Cardinality(1..n) = n
  BY FS_Interval
<1> DEFINE one == {x}
           some == 1..n
<1> HIDE DEF one, some
<1>3. IsFiniteSet(one \X some)
      /\ Cardinality(one \X some) = Cardinality(one) * Cardinality(some)
  BY <1>1, <1>2, FS_Product DEF one, some
<1>4. Cardinality(one) = 1 /\ Cardinality(some) = n
  BY <1>1, <1>2 DEF one, some
<1>5. Cardinality(one) * Cardinality(some) = n
  BY <1>4
<1>6. QED
  BY <1>3, <1>5 DEF one, some

\* A finite set has finitely many units.
LEMMA UnitsFinite ==
    ASSUME NEW S, IsFiniteSet(S), NEW f, \A x \in S : f[x] \in Nat
    PROVE  IsFiniteSet(Units(S, f))
<1> DEFINE parts == {{x} \X (1..f[x]) : x \in S}
           g == [x \in S |-> {x} \X (1..f[x])]
<1>1. g \in Surjection(S, parts)
  BY DEF Surjection
<1>2. IsFiniteSet(parts)
  BY <1>1, FS_Surjection
<1>3. \A p \in parts : IsFiniteSet(p)
  <2>1. \A x \in S : IsFiniteSet({x} \X (1..f[x]))
    <3> TAKE x \in S
    <3>1. f[x] \in Nat
      OBVIOUS
    <3>2. QED
      BY <3>1, UnitsOfOne
  <2>2. QED
    BY <2>1
<1>4. IsFiniteSet(UNION parts)
  BY <1>2, <1>3, FS_UNION
<1>5. QED
  BY <1>4 DEF Units

\* A sum of natural numbers is a natural number.
LEMMA TotalIsNat ==
    ASSUME NEW S, IsFiniteSet(S), NEW f, \A x \in S : f[x] \in Nat
    PROVE  Total(S, f) \in Nat
  BY UnitsFinite, FS_CardinalityType DEF Total

\* The sum over no element is zero.
LEMMA TotalEmpty ==
    ASSUME NEW f
    PROVE  Total({}, f) = 0
<1>1. Units({}, f) = {}
  BY DEF Units
<1>2. QED
  BY <1>1, FS_EmptySet DEF Total

\* A sum of zeros is zero.
LEMMA TotalOfZeros ==
    ASSUME NEW S, IsFiniteSet(S), NEW f, \A x \in S : f[x] = 0
    PROVE  Total(S, f) = 0
<1>1. Units(S, f) = {}
  BY DEF Units
<1>2. QED
  BY <1>1, FS_EmptySet DEF Total

\* A sum of equal values is their product with the number of elements.
LEMMA TotalOfEqual ==
    ASSUME NEW S, IsFiniteSet(S), NEW n \in Nat, NEW f, \A x \in S : f[x] = n
    PROVE  Total(S, f) = Cardinality(S) * n
<1> DEFINE some == 1..n
<1>1. Units(S, f) = S \X some
  BY DEF Units
<1>2. IsFiniteSet(some) /\ Cardinality(some) = n
  BY FS_Interval
<1> HIDE DEF some
<1>3. Cardinality(S \X some) = Cardinality(S) * Cardinality(some)
  BY <1>2, FS_Product
<1>4. QED
  BY <1>1, <1>2, <1>3 DEF Total

\* The sum over two disjoint sets.
LEMMA TotalUnion ==
    ASSUME NEW S, IsFiniteSet(S), NEW T, IsFiniteSet(T), S \cap T = {},
           NEW f, \A x \in S \cup T : f[x] \in Nat
    PROVE  Total(S \cup T, f) = Total(S, f) + Total(T, f)
<1>1. Units(S \cup T, f) = Units(S, f) \cup Units(T, f)
  BY DEF Units
<1>2. Units(S, f) \cap Units(T, f) = {}
  BY DEF Units
<1>3. IsFiniteSet(Units(S, f)) /\ IsFiniteSet(Units(T, f))
  BY UnitsFinite
<1>4. /\ Cardinality(Units(S, f)) \in Nat
      /\ Cardinality(Units(T, f)) \in Nat
  BY <1>3, FS_CardinalityType
<1>5. Cardinality(Units(S, f) \cap Units(T, f)) = 0
  BY <1>2, FS_EmptySet
<1>6. Cardinality(Units(S, f) \cup Units(T, f))
        = Cardinality(Units(S, f)) + Cardinality(Units(T, f))
             - Cardinality(Units(S, f) \cap Units(T, f))
  BY <1>3, FS_Union
<1>7. Cardinality(Units(S, f) \cup Units(T, f))
        = Cardinality(Units(S, f)) + Cardinality(Units(T, f))
  <2> DEFINE all == Cardinality(Units(S, f) \cup Units(T, f))
             common == Cardinality(Units(S, f) \cap Units(T, f))
             first == Cardinality(Units(S, f))
             second == Cardinality(Units(T, f))
  <2>1. /\ all = first + second - common
        /\ common = 0 /\ first \in Nat /\ second \in Nat
    BY <1>4, <1>5, <1>6
  <2> HIDE DEF all, common, first, second
  <2>2. all = first + second
    BY <2>1
  <2>3. QED
    BY <2>2 DEF all, first, second
<1>8. QED
  BY <1>1, <1>7 DEF Total

\* The sum over one element is its value.
LEMMA TotalOfOne ==
    ASSUME NEW x, NEW f, f[x] \in Nat
    PROVE  Total({x}, f) = f[x]
<1>1. Units({x}, f) = {x} \X (1..f[x])
  BY DEF Units
<1>2. QED
  BY <1>1, UnitsOfOne DEF Total

\* Adding an element adds its value.
LEMMA TotalAdd ==
    ASSUME NEW S, IsFiniteSet(S), NEW x, x \notin S,
           NEW f, \A y \in S \cup {x} : f[y] \in Nat
    PROVE  Total(S \cup {x}, f) = Total(S, f) + f[x]
<1>1. IsFiniteSet({x}) /\ S \cap {x} = {}
  BY FS_Singleton
<1>2. Total(S \cup {x}, f) = Total(S, f) + Total({x}, f)
  BY <1>1, TotalUnion
<1>3. QED
  BY <1>2, TotalOfOne

\* Removing an element takes its value away, and the value is part of the sum.
LEMMA TotalRemove ==
    ASSUME NEW S, IsFiniteSet(S), NEW x \in S,
           NEW f, \A y \in S : f[y] \in Nat
    PROVE  /\ Total(S \ {x}, f) = Total(S, f) - f[x]
           /\ f[x] <= Total(S, f)
<1> DEFINE R == S \ {x}
<1>1. IsFiniteSet(R)
  BY FS_RemoveElement
<1>2. R \cup {x} = S /\ x \notin R
  OBVIOUS
<1>3. Total(R \cup {x}, f) = Total(R, f) + f[x]
  BY <1>1, <1>2, TotalAdd
<1>4. Total(R, f) \in Nat
  BY <1>1, TotalIsNat
<1>5. Total(S, f) = Total(R, f) + f[x]
  BY <1>2, <1>3
<1>6. f[x] \in Nat
  OBVIOUS
<1>7. QED
  BY <1>4, <1>5, <1>6

\* The sum depends on the values over the set alone, and grows with them.
LEMMA TotalMonotone ==
    ASSUME NEW S, IsFiniteSet(S), NEW f, NEW g,
           \A x \in S : f[x] \in Nat /\ g[x] \in Nat /\ f[x] <= g[x]
    PROVE  Total(S, f) <= Total(S, g)
<1>1. Units(S, f) \subseteq Units(S, g)
  BY DEF Units
<1>2. IsFiniteSet(Units(S, g))
  BY UnitsFinite
<1>3. QED
  BY <1>1, <1>2, FS_Subset DEF Total

LEMMA TotalSame ==
    ASSUME NEW S, NEW f, NEW g, \A x \in S : f[x] = g[x]
    PROVE  Total(S, f) = Total(S, g)
<1>1. Units(S, f) = Units(S, g)
  BY DEF Units
<1>2. QED
  BY <1>1 DEF Total

\* The sum grows with the set.
LEMMA TotalSubset ==
    ASSUME NEW S, IsFiniteSet(S), NEW T \in SUBSET S,
           NEW f, \A x \in S : f[x] \in Nat
    PROVE  Total(T, f) <= Total(S, f)
<1>1. Units(T, f) \subseteq Units(S, f)
  BY DEF Units
<1>2. IsFiniteSet(Units(S, f))
  BY UnitsFinite
<1>3. QED
  BY <1>1, <1>2, FS_Subset DEF Total

\* Changing the value of one element changes the sum by the difference.
LEMMA TotalUpdate ==
    ASSUME NEW S, IsFiniteSet(S), NEW x \in S, NEW f, NEW g,
           \A y \in S : f[y] \in Nat /\ g[y] \in Nat,
           \A y \in S \ {x} : f[y] = g[y]
    PROVE  Total(S, g) = Total(S, f) - f[x] + g[x]
<1>1. Total(S \ {x}, f) = Total(S, f) - f[x]
  BY TotalRemove
<1>2. Total(S \ {x}, g) = Total(S, g) - g[x]
  BY TotalRemove
<1>3. Total(S \ {x}, f) = Total(S \ {x}, g)
  BY TotalSame
<1>4. Total(S, f) \in Nat /\ Total(S, g) \in Nat
  BY TotalIsNat
<1>5. QED
  BY <1>1, <1>2, <1>3, <1>4

-----------------------------------------------------------------------------
\* The members of S that h maps into D.
Part(S, h, D) == {x \in S : h[x] \in D}

\* The sum over a finite set is the sum, over the classes of a partition, of
\* the sum over each class.  A smallest set of classes for which this failed
\* would have a member, and without it the fact would hold.
LEMMA TotalOfPartition ==
    ASSUME NEW S, IsFiniteSet(S), NEW E, IsFiniteSet(E), NEW h,
           NEW f, \A x \in S : f[x] \in Nat
    PROVE  Total(Part(S, h, E), f)
              = Total(E, [e \in E |-> Total(Part(S, h, {e}), f)])
<1> DEFINE sums == [e \in E |-> Total(Part(S, h, {e}), f)]
           Holds(D) == Total(Part(S, h, D), f) = Total(D, sums)
           bad == {D \in SUBSET E : ~Holds(D)}
<1> HIDE DEF sums
<1>1. \A D : IsFiniteSet(Part(S, h, D))
  <2>1. \A D : Part(S, h, D) \in SUBSET S
    BY DEF Part
  <2>2. QED
    BY <2>1, FS_Subset
<1>2. \A e \in E : sums[e] = Total(Part(S, h, {e}), f) /\ sums[e] \in Nat
  <2> SUFFICES ASSUME NEW e \in E
               PROVE  sums[e] = Total(Part(S, h, {e}), f) /\ sums[e] \in Nat
    OBVIOUS
  <2>1. sums[e] = Total(Part(S, h, {e}), f)
    BY DEF sums
  <2>2. \A x \in Part(S, h, {e}) : f[x] \in Nat
    BY DEF Part
  <2>3. QED
    BY <1>1, <2>1, <2>2, TotalIsNat
<1>3. SUFFICES bad = {}
  <2>1. Holds(E)
    BY <1>3
  <2>2. QED
    BY <2>1 DEF sums
<1>4. SUFFICES ASSUME bad # {}
               PROVE  FALSE
  OBVIOUS
<1>5. PICK D \in bad : \A C \in bad : ~(<<C, D>> \in StrictSubsetOrdering(E))
  <2>1. bad \subseteq FiniteSubsetsOf(E)
    BY FS_Subset DEF FiniteSubsetsOf
  <2>2. QED
    BY <1>4, <2>1, FS_StrictSubsetOrderingWellFounded, WFMin
<1>6. D \subseteq E /\ ~Holds(D) /\ IsFiniteSet(D)
  BY FS_Subset
<1>7. D # {}
  <2>1. Part(S, h, {}) = {}
    BY DEF Part
  <2>2. Holds({})
    BY <2>1, TotalEmpty
  <2>3. QED
    BY <1>6, <2>2
<1>8. PICK e \in D : TRUE
  BY <1>7
<1> DEFINE C == D \ {e}
<1>9. Holds(C)
  <2>1. C \in SUBSET E /\ D \in SUBSET E /\ C \subseteq D /\ C # D
    BY <1>6
  <2>2. <<C, D>> \in StrictSubsetOrdering(E)
    BY <2>1 DEF StrictSubsetOrdering
  <2>3. QED
    BY <1>5, <2>1, <2>2
<1>10. Total(D, sums) = Total(C, sums) + sums[e]
  <2>1. IsFiniteSet(C) /\ e \notin C /\ C \cup {e} = D
    BY <1>6, FS_RemoveElement
  <2>2. \A y \in C \cup {e} : sums[y] \in Nat
    BY <1>2, <1>6, <2>1
  <2>3. QED
    BY <2>1, <2>2, TotalAdd
<1>11. Total(Part(S, h, D), f) = Total(Part(S, h, C), f) + Total(Part(S, h, {e}), f)
  <2>1. Part(S, h, C) \cup Part(S, h, {e}) = Part(S, h, D)
    BY DEF Part
  <2>2. Part(S, h, C) \cap Part(S, h, {e}) = {}
    BY DEF Part
  <2>3. \A x \in Part(S, h, C) \cup Part(S, h, {e}) : f[x] \in Nat
    BY DEF Part
  <2>4. IsFiniteSet(Part(S, h, C)) /\ IsFiniteSet(Part(S, h, {e}))
    BY <1>1
  <2>5. Total(Part(S, h, C) \cup Part(S, h, {e}), f)
          = Total(Part(S, h, C), f) + Total(Part(S, h, {e}), f)
    <3> DEFINE P == Part(S, h, C)
               Q == Part(S, h, {e})
    <3> HIDE DEF P, Q
    <3>1. IsFiniteSet(P) /\ IsFiniteSet(Q) /\ P \cap Q = {}
      BY <2>2, <2>4 DEF P, Q
    <3>2. \A x \in P \cup Q : f[x] \in Nat
      BY <2>3 DEF P, Q
    <3>3. Total(P \cup Q, f) = Total(P, f) + Total(Q, f)
      BY <3>1, <3>2, TotalUnion
    <3>4. QED
      BY <3>3 DEF P, Q
  <2>6. QED
    BY <2>1, <2>5
<1>12. QED
  BY <1>2, <1>6, <1>8, <1>9, <1>10, <1>11
=============================================================================
