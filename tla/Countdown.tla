------------------------------- MODULE Countdown -------------------------------
(***************************************************************************)
(* The sum of a function, for measures: how many steps are left.           *)
(*                                                                         *)
(* A sum is usually defined by recursion over its set, which cannot be     *)
(* reasoned about here; this one counts the points below the function.     *)
(***************************************************************************)
EXTENDS Naturals, FiniteSets, FiniteSetTheorems, TLAPS

\* The points below f, a function from S to 0 .. K, and how many they are.
PointsBelow(S, K, f) == {x \in S \X (1 .. K) : x[2] <= f[x[1]]}

Total(S, K, f) == Cardinality(PointsBelow(S, K, f))

\* A sum falls when one of its terms falls and none rises.
LEMMA TotalFalls ==
    ASSUME NEW S, IsFiniteSet(S), NEW K \in Nat,
           NEW f \in [S -> 0 .. K], NEW g \in [S -> 0 .. K],
           \A s \in S : g[s] <= f[s]
    PROVE  /\ Total(S, K, f) \in Nat /\ Total(S, K, g) \in Nat
           /\ Total(S, K, g) <= Total(S, K, f)
           /\ (\E s \in S : g[s] < f[s]) => Total(S, K, g) < Total(S, K, f)
<1>1. IsFiniteSet(S \X (1 .. K))
  <2>1. 1 \in Int /\ K \in Int
    OBVIOUS
  <2>2. IsFiniteSet(1 .. K)
    BY <2>1, FS_Interval
  <2> QED
    BY <2>2, FS_Product
<1>2. IsFiniteSet(PointsBelow(S, K, f))
  BY <1>1, FS_Subset DEF PointsBelow
<1>3. PointsBelow(S, K, g) \subseteq PointsBelow(S, K, f)
  <2> SUFFICES ASSUME NEW s \in S, NEW i \in 1 .. K, i <= g[s]
               PROVE  i <= f[s]
    BY DEF PointsBelow
  <2>1. f[s] \in 0 .. K /\ g[s] \in 0 .. K /\ g[s] <= f[s]
    OBVIOUS
  <2> QED
    BY <2>1
<1>4. /\ IsFiniteSet(PointsBelow(S, K, g))
      /\ Cardinality(PointsBelow(S, K, g)) <= Cardinality(PointsBelow(S, K, f))
  BY <1>2, <1>3, FS_Subset
<1>5. Total(S, K, f) \in Nat /\ Total(S, K, g) \in Nat
  BY <1>2, <1>4, FS_CardinalityType DEF Total
<1>6. ASSUME NEW s \in S, g[s] < f[s]
      PROVE  Total(S, K, g) < Total(S, K, f)
  <2>1. f[s] \in 1 .. K /\ g[s] \in 0 .. K
    BY <1>6
  <2>2. <<s, f[s]>> \in PointsBelow(S, K, f) \ PointsBelow(S, K, g)
    BY <1>6, <2>1 DEF PointsBelow
  <2>3. PointsBelow(S, K, g) # PointsBelow(S, K, f)
    BY <2>2
  <2>4. Cardinality(PointsBelow(S, K, g)) # Cardinality(PointsBelow(S, K, f))
    BY <1>2, <1>3, <2>3, FS_Subset
  <2> QED
    BY <1>4, <1>5, <2>4 DEF Total
<1> QED
  BY <1>4, <1>5, <1>6 DEF Total

\* A sum rises by no more than K when one term alone rises.
LEMMA TotalRises ==
    ASSUME NEW S, IsFiniteSet(S), NEW K \in Nat,
           NEW f \in [S -> 0 .. K], NEW g \in [S -> 0 .. K],
           NEW q \in S, \A s \in S : s # q => g[s] <= f[s]
    PROVE  Total(S, K, g) <= Total(S, K, f) + K
<1> DEFINE P == PointsBelow(S, K, f)
           Q == {q} \X (1 .. K)
<1>1. /\ IsFiniteSet(1 .. K) /\ Cardinality(1 .. K) = K
  <2>1. 1 \in Int /\ K \in Int
    OBVIOUS
  <2> QED
    BY <2>1, FS_Interval
<1>2. IsFiniteSet(Q) /\ Cardinality(Q) = K
  <2>1. IsFiniteSet({q}) /\ Cardinality({q}) = 1
    BY FS_Singleton
  <2>2. IsFiniteSet(Q) /\ Cardinality(Q) = 1 * K
    BY <1>1, <2>1, FS_Product
  <2> QED
    BY <2>2
<1>3. IsFiniteSet(P)
  <2>1. IsFiniteSet(S \X (1 .. K))
    BY <1>1, FS_Product
  <2> QED
    BY <2>1, FS_Subset DEF PointsBelow
<1>4. PointsBelow(S, K, g) \subseteq P \cup Q
  <2> SUFFICES ASSUME NEW s \in S, NEW i \in 1 .. K, i <= g[s], s # q
               PROVE  i <= f[s]
    BY DEF PointsBelow
  <2>1. f[s] \in 0 .. K /\ g[s] \in 0 .. K /\ g[s] <= f[s]
    OBVIOUS
  <2> QED
    BY <2>1
<1> HIDE DEF P, Q
<1>5. /\ IsFiniteSet(P \cup Q)
      /\ Cardinality(P \cup Q) = Cardinality(P) + Cardinality(Q) - Cardinality(P \cap Q)
  BY <1>2, <1>3, FS_Union
<1>6. Cardinality(P) \in Nat /\ Cardinality(P \cap Q) \in Nat
  <2>1. IsFiniteSet(P \cap Q)
    BY <1>3, FS_Intersection
  <2> QED
    BY <1>3, <2>1, FS_CardinalityType
<1>7. /\ IsFiniteSet(PointsBelow(S, K, g))
      /\ Cardinality(PointsBelow(S, K, g)) <= Cardinality(P \cup Q)
  BY <1>4, <1>5, FS_Subset
<1>8. Cardinality(PointsBelow(S, K, g)) \in Nat
  BY <1>7, FS_CardinalityType
<1> QED
  BY <1>2, <1>5, <1>6, <1>7, <1>8 DEF Total, P

\* A sum of terms up to K, and one of zeros.
LEMMA TotalMost ==
    ASSUME NEW S, IsFiniteSet(S), NEW K \in Nat, NEW f \in [S -> 0 .. K]
    PROVE  /\ Total(S, K, f) \in Nat /\ Total(S, K, f) <= Cardinality(S) * K
           /\ (\A s \in S : f[s] = 0) => Total(S, K, f) = 0
<1>1. IsFiniteSet(S \X (1 .. K)) /\ Cardinality(S \X (1 .. K)) = Cardinality(S) * K
  <2>1. 1 \in Int /\ K \in Int
    OBVIOUS
  <2>2. IsFiniteSet(1 .. K) /\ Cardinality(1 .. K) = K
    BY <2>1, FS_Interval
  <2> QED
    BY <2>2, FS_Product
<1>2. PointsBelow(S, K, f) \subseteq S \X (1 .. K)
  BY DEF PointsBelow
<1>3. /\ IsFiniteSet(PointsBelow(S, K, f))
      /\ Cardinality(PointsBelow(S, K, f)) <= Cardinality(S \X (1 .. K))
  BY <1>1, <1>2, FS_Subset
<1>4. Cardinality(PointsBelow(S, K, f)) \in Nat
  BY <1>3, FS_CardinalityType
<1>5. ASSUME \A s \in S : f[s] = 0 PROVE Total(S, K, f) = 0
  <2>1. PointsBelow(S, K, f) = {}
    <3> SUFFICES ASSUME NEW s \in S, NEW i \in 1 .. K, i <= f[s] PROVE FALSE
      BY DEF PointsBelow
    <3>1. f[s] = 0
      BY <1>5
    <3> QED
      BY <3>1
  <2> QED
    BY <2>1, FS_EmptySet DEF Total
<1> QED
  BY <1>1, <1>3, <1>4, <1>5 DEF Total
================================================================================
