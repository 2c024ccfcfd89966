---------------------------- MODULE SumTheorems -----------------------------
(***************************************************************************)
(* Least numbers, induction over the subsets of a finite set, and sums     *)
(* over finite sets.  A sum is the number of the units that its terms are  *)
(* made of, which is how the fold that computes it is shown to be one.     *)
(***************************************************************************)
EXTENDS Integers, FiniteSetsExt, FiniteSetTheorems, TLAPS

\* A set of natural numbers has a least one: as many numbers as bound it from
\* below, less one
LEMMA LeastNatural ==
  ASSUME NEW S \in SUBSET Nat, S # {}
  PROVE  \E m \in S : \A x \in S : m <= x
  <1> DEFINE T == {n \in Nat : \A x \in S : n <= x}
             c == Cardinality(T)
  <1>1. PICK top \in S : TRUE
    OBVIOUS
  <1>2. T \subseteq 0 .. top /\ 0 \in T
    BY <1>1
  <1>3. IsFiniteSet(T) /\ c \in Nat
    <2>1. IsFiniteSet(0 .. top)
      BY <1>1, FS_Interval
    <2>2. IsFiniteSet(T)
      BY <1>2, <2>1, FS_Subset
    <2> QED
      BY <2>2, FS_CardinalityType
  <1>4. c >= 1
    BY <1>2, <1>3, FS_EmptySet
  <1>5. ASSUME NEW n \in T PROVE n < c
    <2>1. 0 .. n \subseteq T
      OBVIOUS
    <2>2. Cardinality(0 .. n) = n + 1
      BY FS_Interval
    <2>3. Cardinality(0 .. n) <= c
      BY <1>3, <2>1, FS_Subset
    <2> QED
      BY <1>3, <2>2, <2>3
  <1>6. T \subseteq 0 .. (c - 1) /\ IsFiniteSet(0 .. (c - 1)) /\ Cardinality(0 .. (c - 1)) = c
    <2>1. T \subseteq 0 .. (c - 1)
      BY <1>3, <1>5
    <2> HIDE DEF T, c
    <2>2. IsFiniteSet(0 .. (c - 1)) /\ Cardinality(0 .. (c - 1)) = (c - 1) - 0 + 1
      BY <1>3, <1>4, FS_Interval
    <2> QED
      BY <1>3, <2>1, <2>2
  <1>7. T = 0 .. (c - 1)
    BY <1>6, FS_Subset
  <1> HIDE DEF c
  <1>8. c - 1 \in T /\ c \notin T
    <2> HIDE DEF T
    <2> QED
      BY <1>3, <1>4, <1>7
  <1>9. PICK x \in S : ~(c <= x)
    BY <1>3, <1>8
  <1>10. x = c - 1
    BY <1>3, <1>8, <1>9
  <1> QED
    BY <1>8, <1>10

\* What holds of the empty set, and of a set when it holds of the set less any of
\* its elements, holds of every subset of a finite set: B is where it holds
LEMMA SubsetInduction ==
  ASSUME NEW S, IsFiniteSet(S), NEW B, {} \in B,
         \A T \in SUBSET S : T # {} /\ (\A x \in T : T \ {x} \in B) => T \in B
  PROVE  SUBSET S \subseteq B
  <1> SUFFICES ASSUME NEW T0 \in SUBSET S, T0 \notin B PROVE FALSE
    OBVIOUS
  <1> DEFINE sizes == {Cardinality(T) : T \in (SUBSET S) \ B}
  <1>1. \A T \in SUBSET S : IsFiniteSet(T) /\ Cardinality(T) \in Nat
    BY FS_Subset, FS_CardinalityType
  <1>2. sizes \in SUBSET Nat /\ sizes # {}
    BY <1>1
  <1>3. PICK m \in sizes : \A n \in sizes : m <= n
    BY <1>2, LeastNatural
  <1>4. PICK T \in (SUBSET S) \ B : Cardinality(T) = m
    BY <1>3
  <1>5. ASSUME NEW x \in T PROVE T \ {x} \in B
    <2>1. Cardinality(T \ {x}) = Cardinality(T) - 1
      BY <1>1, FS_RemoveElement
    <2>2. ~(m <= Cardinality(T \ {x}))
      BY <1>1, <1>4, <2>1
    <2> QED
      BY <1>3, <2>2
  <1> QED
    BY <1>4, <1>5

-----------------------------------------------------------------------------
\* The sum of f over S, as MapThenSumSet folds it
SumOf(f, S) == MapThenSumSet(LAMBDA x : f[x], S)

\* As many units for each element as its term says
Units(f, S) == {u \in S \X Nat : u[2] < f[u[1]]}

LEMMA UnitsOfLess ==
  ASSUME NEW f, NEW S, NEW x \in S, f[x] \in Nat
  PROVE  /\ Units(f, S) = Units(f, S \ {x}) \cup ({x} \X (0 .. (f[x] - 1)))
         /\ Units(f, S \ {x}) \cap ({x} \X (0 .. (f[x] - 1))) = {}
         /\ IsFiniteSet({x} \X (0 .. (f[x] - 1)))
         /\ Cardinality({x} \X (0 .. (f[x] - 1))) = f[x]
  <1>1. /\ IsFiniteSet(0 .. (f[x] - 1))
        /\ Cardinality(0 .. (f[x] - 1)) = f[x]
    <2>1. PICK n \in Nat : n = f[x]
      OBVIOUS
    <2>2. IsFiniteSet(0 .. (n - 1)) /\ Cardinality(0 .. (n - 1)) = n
      <3>1. 0 \in Int /\ n - 1 \in Int
        OBVIOUS
      <3>2. /\ IsFiniteSet(0 .. (n - 1))
            /\ Cardinality(0 .. (n - 1)) = IF 0 > n - 1 THEN 0 ELSE (n - 1) - 0 + 1
        BY <3>1, FS_Interval
      <3> QED
        BY <3>2
    <2> QED
      BY <2>1, <2>2
  <1>2. IsFiniteSet({x}) /\ Cardinality({x}) = 1
    BY FS_Singleton
  <1>3. /\ IsFiniteSet({x} \X (0 .. (f[x] - 1)))
        /\ Cardinality({x} \X (0 .. (f[x] - 1))) = 1 * f[x]
    BY <1>1, <1>2, FS_Product
  <1>4. \A n \in Nat : n < f[x] <=> n \in 0 .. (f[x] - 1)
    OBVIOUS
  <1>5. Units(f, S) = Units(f, S \ {x}) \cup ({x} \X (0 .. (f[x] - 1)))
    BY <1>4 DEF Units
  <1>6. Units(f, S \ {x}) \cap ({x} \X (0 .. (f[x] - 1))) = {}
    BY DEF Units
  <1>7. \A n \in Nat : 1 * n = n
    OBVIOUS
  <1>8. Cardinality({x} \X (0 .. (f[x] - 1))) = f[x]
    BY <1>3, <1>7
  <1> QED
    BY <1>3, <1>5, <1>6, <1>8

LEMMA UnitsFinite ==
  ASSUME NEW S, IsFiniteSet(S), NEW f, \A x \in S : f[x] \in Nat
  PROVE  IsFiniteSet(Units(f, S))
  <1> DEFINE B == {T \in SUBSET S : IsFiniteSet(Units(f, T))}
  <1>1. {} \in B
    <2>1. Units(f, {}) = {}
      BY DEF Units
    <2> QED
      BY <2>1, FS_EmptySet
  <1>2. ASSUME NEW T \in SUBSET S, T # {}, \A x \in T : T \ {x} \in B PROVE T \in B
    <2>1. PICK x \in T : TRUE
      BY <1>2
    <2>2. IsFiniteSet(Units(f, T \ {x}))
      BY <1>2, <2>1
    <2>3. /\ Units(f, T) = Units(f, T \ {x}) \cup ({x} \X (0 .. (f[x] - 1)))
          /\ IsFiniteSet({x} \X (0 .. (f[x] - 1)))
      BY <2>1, UnitsOfLess
    <2>4. IsFiniteSet(Units(f, T \ {x}) \cup ({x} \X (0 .. (f[x] - 1))))
      BY <2>2, <2>3, FS_Union
    <2> QED
      BY <2>3, <2>4
  <1> HIDE DEF B
  <1>3. SUBSET S \subseteq B
    BY <1>1, <1>2, SubsetInduction
  <1>4. S \in B
    BY <1>3
  <1> QED
    BY <1>4 DEF B

LEMMA UnitsCount ==
  ASSUME NEW S, IsFiniteSet(S), NEW f, \A x \in S : f[x] \in Nat, NEW x \in S
  PROVE  Cardinality(Units(f, S)) = f[x] + Cardinality(Units(f, S \ {x}))
  <1> DEFINE rest == Units(f, S \ {x})
             new == {x} \X (0 .. (f[x] - 1))
  <1>1. /\ Units(f, S) = rest \cup new /\ rest \cap new = {}
        /\ IsFiniteSet(new) /\ Cardinality(new) = f[x]
    BY UnitsOfLess
  <1>2. IsFiniteSet(S \ {x})
    BY FS_Subset
  <1>3. IsFiniteSet(rest)
    BY <1>2, UnitsFinite
  <1> HIDE DEF rest, new
  <1>4. Cardinality(rest) \in Nat /\ Cardinality({}) = 0
    BY <1>3, FS_CardinalityType, FS_EmptySet
  <1>5. Cardinality(rest \cup new) = Cardinality(rest) + Cardinality(new) - Cardinality(rest \cap new)
    BY <1>1, <1>3, FS_Union
  <1>6. Cardinality(Units(f, S)) = f[x] + Cardinality(rest)
    <2>1. f[x] \in Nat
      OBVIOUS
    <2>2. Cardinality(Units(f, S)) = Cardinality(rest) + f[x] - 0
      BY <1>1, <1>4, <1>5
    <2> QED
      BY <1>4, <2>1, <2>2
  <1> QED
    BY <1>6 DEF rest

\* The fold counts the units, in whatever order it takes the elements
LEMMA SumIsUnits ==
  ASSUME NEW S, IsFiniteSet(S), NEW f, \A x \in S : f[x] \in Nat
  PROVE  SumOf(f, S) = Cardinality(Units(f, S))
  <1> DEFINE P(G) == G = [s \in SUBSET S |->
                            IF s = {} THEN 0
                            ELSE LET x == CHOOSE x \in s : TRUE IN f[x] + G[s \ {x}]]
             count == [s \in SUBSET S |-> Cardinality(Units(f, s))]
             fold == CHOOSE G : P(G)
  <1>1. SumOf(f, S) = fold[S]
    BY Zenon DEF SumOf, MapThenSumSet, MapThenFoldSet
  <1>2. Cardinality(Units(f, {})) = 0
    <2>1. Units(f, {}) = {}
      BY DEF Units
    <2> QED
      BY <2>1, FS_EmptySet
  <1>3. ASSUME NEW s \in SUBSET S, NEW x \in s
        PROVE  Cardinality(Units(f, s)) = f[x] + Cardinality(Units(f, s \ {x}))
    <2>1. IsFiniteSet(s)
      BY FS_Subset
    <2> QED
      BY <2>1, UnitsCount
  <1>4. P(count)
    <2>1. ASSUME NEW s \in SUBSET S
          PROVE  count[s] = IF s = {} THEN 0
                            ELSE LET x == CHOOSE x \in s : TRUE IN f[x] + count[s \ {x}]
      <3>1. CASE s = {}
        BY <1>2, <3>1
      <3>2. CASE s # {}
        <4> DEFINE x == CHOOSE x \in s : TRUE
        <4>1. x \in s
          BY <3>2
        <4>2. count[s] = f[x] + count[s \ {x}]
          BY <1>3, <4>1
        <4> QED
          BY <3>2, <4>2
      <3> QED
        BY <3>1, <3>2
    <2> QED
      BY <2>1
  <1>5. P(fold)
    <2> HIDE DEF P, count
    <2> QED
      BY <1>4, Zenon
  <1> DEFINE B == {T \in SUBSET S : fold[T] = Cardinality(Units(f, T))}
  <1> HIDE DEF fold
  <1>6. {} \in B
    BY <1>2, <1>5
  <1>7. ASSUME NEW T \in SUBSET S, T # {}, \A x \in T : T \ {x} \in B PROVE T \in B
    <2> DEFINE x == CHOOSE x \in T : TRUE
    <2>1. x \in T
      BY <1>7
    <2>2. fold[T] = f[x] + fold[T \ {x}]
      BY <1>5, <1>7
    <2> HIDE DEF x
    <2>3. fold[T \ {x}] = Cardinality(Units(f, T \ {x}))
      BY <1>7, <2>1
    <2>4. fold[T] = Cardinality(Units(f, T))
      BY <1>3, <2>1, <2>2, <2>3
    <2> QED
      BY <2>4
  <1> HIDE DEF B
  <1>8. SUBSET S \subseteq B
    BY <1>6, <1>7, SubsetInduction
  <1>9. S \in B
    BY <1>8
  <1> QED
    BY <1>1, <1>9 DEF B

-----------------------------------------------------------------------------
(* What is used of sums.                                                   *)

\* A sum of natural numbers is one, and nothing sums to zero
LEMMA SumType ==
  ASSUME NEW S, IsFiniteSet(S), NEW f, \A x \in S : f[x] \in Nat
  PROVE  SumOf(f, S) \in Nat /\ SumOf(f, {}) = 0
  <1>1. SumOf(f, S) \in Nat
    BY SumIsUnits, UnitsFinite, FS_CardinalityType
  <1>2. SumOf(f, {}) = Cardinality(Units(f, {}))
    BY SumIsUnits, FS_EmptySet
  <1>3. Units(f, {}) = {}
    BY DEF Units
  <1> QED
    BY <1>1, <1>2, <1>3, FS_EmptySet

\* An element leaves the sum by its term, and joins it by its term
LEMMA SumLess ==
  ASSUME NEW S, IsFiniteSet(S), NEW f, \A x \in S : f[x] \in Nat, NEW x \in S
  PROVE  SumOf(f, S) = f[x] + SumOf(f, S \ {x})
  <1>1. IsFiniteSet(S \ {x})
    BY FS_Subset
  <1> QED
    BY <1>1, SumIsUnits, UnitsCount

LEMMA SumMore ==
  ASSUME NEW S, IsFiniteSet(S), NEW f, \A x \in S : f[x] \in Nat, NEW x, x \notin S, f[x] \in Nat
  PROVE  SumOf(f, S \cup {x}) = f[x] + SumOf(f, S)
  <1>1. IsFiniteSet(S \cup {x})
    BY FS_AddElement
  <1>2. (S \cup {x}) \ {x} = S
    OBVIOUS
  <1>3. SumOf(f, S \cup {x}) = f[x] + SumOf(f, (S \cup {x}) \ {x})
    BY <1>1, SumLess
  <1> QED
    BY <1>2, <1>3

\* A sum over fewer elements is no larger
LEMMA SumMonotone ==
  ASSUME NEW S, IsFiniteSet(S), NEW f, \A x \in S : f[x] \in Nat, NEW T \in SUBSET S
  PROVE  SumOf(f, T) <= SumOf(f, S)
  <1>1. IsFiniteSet(T) /\ IsFiniteSet(Units(f, S))
    BY FS_Subset, UnitsFinite
  <1>2. Units(f, T) \subseteq Units(f, S)
    BY DEF Units
  <1>3. Cardinality(Units(f, T)) <= Cardinality(Units(f, S))
    BY <1>1, <1>2, FS_Subset
  <1> QED
    BY <1>1, <1>3, SumIsUnits

\* Two sums over different elements make one
LEMMA SumDisjoint ==
  ASSUME NEW S, IsFiniteSet(S), NEW T, IsFiniteSet(T), S \cap T = {},
         NEW f, \A x \in S \cup T : f[x] \in Nat
  PROVE  SumOf(f, S \cup T) = SumOf(f, S) + SumOf(f, T)
  <1>1. /\ Units(f, S \cup T) = Units(f, S) \cup Units(f, T)
        /\ Units(f, S) \cap Units(f, T) = {}
    BY DEF Units
  <1>2. IsFiniteSet(S \cup T) /\ IsFiniteSet(Units(f, S)) /\ IsFiniteSet(Units(f, T))
    BY UnitsFinite, FS_Union
  <1>3. Cardinality(Units(f, S \cup T)) =
          Cardinality(Units(f, S)) + Cardinality(Units(f, T)) - Cardinality({})
    <2> DEFINE U == Units(f, S)
               V == Units(f, T)
    <2> HIDE DEF U, V
    <2>1. Cardinality(U \cup V) = Cardinality(U) + Cardinality(V) - Cardinality(U \cap V)
      BY <1>2, FS_Union DEF U, V
    <2> QED
      BY <1>1, <2>1 DEF U, V
  <1>4. Cardinality(Units(f, S)) \in Nat /\ Cardinality(Units(f, T)) \in Nat /\ Cardinality({}) = 0
    BY <1>2, FS_CardinalityType, FS_EmptySet
  <1>5. Cardinality(Units(f, S \cup T)) = Cardinality(Units(f, S)) + Cardinality(Units(f, T))
    BY <1>3, <1>4
  <1> QED
    BY <1>2, <1>5, SumIsUnits

\* Terms that are bounded bound the sum
LEMMA SumBounded ==
  ASSUME NEW S, IsFiniteSet(S), NEW f, \A x \in S : f[x] \in Nat,
         NEW n \in Nat, \A x \in S : f[x] <= n
  PROVE  SumOf(f, S) <= Cardinality(S) * n
  <1>1. IsFiniteSet(0 .. (n - 1)) /\ Cardinality(0 .. (n - 1)) = n
    BY FS_Interval
  <1>2. /\ IsFiniteSet(S \X (0 .. (n - 1)))
        /\ Cardinality(S \X (0 .. (n - 1))) = Cardinality(S) * n
    BY <1>1, FS_Product
  <1>3. Units(f, S) \subseteq S \X (0 .. (n - 1))
    <2> SUFFICES ASSUME NEW x \in S, NEW k \in Nat, k < f[x]
                 PROVE  k \in 0 .. (n - 1)
      BY DEF Units
    <2> QED
      OBVIOUS
  <1>4. Cardinality(Units(f, S)) <= Cardinality(S) * n
    BY <1>2, <1>3, FS_Subset
  <1> QED
    BY <1>4, SumIsUnits
=============================================================================
