-------------------------- MODULE ShardStatsLemmas --------------------------
(***************************************************************************)
(* What the proofs about ShardStats rest on: counting and summing over     *)
(* finite sets, the buckets, what Record writes and AddShard loads, the    *)
(* state the counters are compared with, and what writing does to it.      *)
(*                                                                         *)
(* Sums are counted: a request that adds n to a counter adds n units to a  *)
(* set, and the counter is the cardinality of the set.  Induction is       *)
(* stated with a set in the place of a predicate: P is the set of the      *)
(* numbers, or of the subsets, for which the claim holds.                  *)
(***************************************************************************)
EXTENDS ShardStats, FiniteSetTheorems, WellFoundedInduction, TLAPS

\* A set of naturals that has 0 and with every number the next has them all.
LEMMA NatSetInduction ==
  ASSUME NEW P \in SUBSET Nat, 0 \in P, \A n \in P : n + 1 \in P
  PROVE  P = Nat
<1> SUFFICES ASSUME P # Nat PROVE FALSE
  OBVIOUS
<1> DEFINE T == Nat \ P
<1>1. T \subseteq Nat /\ T # {}
  BY Zenon
<1>2. PICK m \in T : \A y \in T : ~(<<y, m>> \in OpToRel(<, Nat))
  BY <1>1, WFMin, NatLessThanWellFounded, Zenon
<1>3. m \in Nat /\ m \notin P /\ m # 0
  OBVIOUS
<1>4. m - 1 \in Nat /\ m - 1 < m /\ (m - 1) + 1 = m
  BY <1>3
<1>5. m - 1 \notin T
  BY <1>2, <1>3, <1>4, Zenon DEF OpToRel
<1>6. (m - 1) + 1 \in P
  BY <1>4, <1>5, Zenon
<1> QED
  BY <1>3, <1>4, <1>6, Zenon

\* A finite set with and without one of its elements.
LEMMA WithAndWithout ==
  ASSUME NEW S, IsFiniteSet(S), NEW w
  PROVE  /\ IsFiniteSet(S \ {w}) /\ Cardinality(S) \in Nat /\ Cardinality(S \ {w}) \in Nat
         /\ Cardinality(S) = Cardinality(S \ {w}) + (IF w \in S THEN 1 ELSE 0)
<1>1. Cardinality(S) \in Nat
  BY FS_CardinalityType, Zenon
<1>2. /\ IsFiniteSet(S \ {w})
      /\ Cardinality(S \ {w}) = IF w \in S THEN Cardinality(S) - 1 ELSE Cardinality(S)
  BY FS_RemoveElement, Zenon
<1>3. Cardinality(S \ {w}) \in Nat
  BY <1>2, FS_CardinalityType, Zenon
<1> QED
  BY <1>1, <1>2, <1>3

\* Induction over the subsets of a finite set, by removing an element.
LEMMA SubsetInduction ==
  ASSUME NEW T, IsFiniteSet(T), NEW P, {} \in P,
         \A s \in SUBSET T : s # {} /\ (\A x \in s : s \ {x} \in P) => s \in P
  PROVE  \A s \in SUBSET T : s \in P
<1> DEFINE N == {n \in Nat : \A s \in SUBSET T : Cardinality(s) = n => s \in P}
<1>1. \A s \in SUBSET T : IsFiniteSet(s) /\ Cardinality(s) \in Nat
  BY FS_Subset, FS_CardinalityType, Zenon
<1>2. 0 \in N
  BY <1>1, FS_EmptySet, Zenon
<1>3. ASSUME NEW n \in N PROVE n + 1 \in N
  <2> SUFFICES ASSUME NEW s \in SUBSET T, Cardinality(s) = n + 1 PROVE s \in P
    OBVIOUS
  <2>1. s # {}
    <3>1. n + 1 # 0
      OBVIOUS
    <3>2. Cardinality({}) = 0
      BY FS_EmptySet, Zenon
    <3> QED
      BY <3>1, <3>2, Zenon
  <2>2. ASSUME NEW x \in s PROVE s \ {x} \in P
    <3>1. Cardinality(s) = Cardinality(s \ {x}) + 1 /\ Cardinality(s \ {x}) \in Nat
      BY <1>1, WithAndWithout, Zenon
    <3> QED
      BY <3>1
  <2> QED
    BY <2>1, <2>2, Zenon
<1>4. N = Nat
  <2> HIDE DEF N
  <2>1. N \in SUBSET Nat
    BY Zenon DEF N
  <2> QED
    BY <2>1, <1>2, <1>3, NatSetInduction, Zenon
<1> QED
  BY <1>1, <1>4, Zenon

-----------------------------------------------------------------------------
(* Sums.                                                                   *)

\* What a sum adds, unit by unit.
UnitsOf(f, T) == {u \in T \X Nat : u[2] # 0 /\ u[2] <= f[u[1]]}

\* The units of one element.
LEMMA OneUnits ==
  ASSUME NEW f, NEW x, f[x] \in Nat
  PROVE  /\ IsFiniteSet({x} \X (1..f[x]))
         /\ Cardinality({x} \X (1..f[x])) = f[x]
<1>1. IsFiniteSet({x}) /\ Cardinality({x}) = 1
  BY FS_Singleton, Zenon
<1>2. IsFiniteSet(1..f[x]) /\ Cardinality(1..f[x]) = f[x]
  BY FS_Interval
<1>3. /\ IsFiniteSet({x} \X (1..f[x]))
      /\ Cardinality({x} \X (1..f[x])) = Cardinality({x}) * Cardinality(1..f[x])
  BY <1>1, <1>2, FS_Product, Zenon
<1> QED
  BY <1>1, <1>2, <1>3

\* Disjoint finite sets.
LEMMA DisjointUnion ==
  ASSUME NEW S, NEW T, IsFiniteSet(S), IsFiniteSet(T), S \cap T = {}
  PROVE  /\ IsFiniteSet(S \cup T) /\ Cardinality(S) \in Nat /\ Cardinality(T) \in Nat
         /\ Cardinality(S \cup T) = Cardinality(S) + Cardinality(T)
<1>1. /\ IsFiniteSet(S \cup T)
      /\ Cardinality(S \cup T) = Cardinality(S) + Cardinality(T) - Cardinality(S \cap T)
  BY FS_Union, Zenon
<1>2. Cardinality(S \cap T) = 0
  BY FS_EmptySet, Zenon
<1>3. Cardinality(S) \in Nat /\ Cardinality(T) \in Nat
  BY FS_CardinalityType, Zenon
<1> QED
  BY <1>1, <1>2, <1>3

\* An element and its units, taken away.
LEMMA UnitsRemove ==
  ASSUME NEW f, NEW T, NEW x \in T, f[x] \in Nat, IsFiniteSet(UnitsOf(f, T \ {x}))
  PROVE  /\ IsFiniteSet(UnitsOf(f, T))
         /\ Cardinality(UnitsOf(f, T)) = f[x] + Cardinality(UnitsOf(f, T \ {x}))
<1> DEFINE A == UnitsOf(f, T \ {x})
           B == {x} \X (1..f[x])
<1>1. UnitsOf(f, T) = A \cup B /\ A \cap B = {}
  BY DEF UnitsOf
<1>2. IsFiniteSet(B) /\ Cardinality(B) = f[x]
  BY OneUnits, Zenon
<1> HIDE DEF A, B
<1>3. IsFiniteSet(A)
  BY Zenon DEF A
<1>4. IsFiniteSet(A \cup B) /\ Cardinality(A \cup B) = Cardinality(A) + Cardinality(B)
      /\ Cardinality(A) \in Nat
  BY <1>1, <1>2, <1>3, DisjointUnion, Zenon
<1>5. Cardinality(A \cup B) = f[x] + Cardinality(A)
  BY <1>2, <1>4
<1> QED
  BY <1>1, <1>4, <1>5, Zenon DEF A

LEMMA UnitsFinite ==
  ASSUME NEW T, IsFiniteSet(T), NEW f, \A x \in T : f[x] \in Nat
  PROVE  \A s \in SUBSET T : IsFiniteSet(UnitsOf(f, s))
<1> DEFINE P == {s \in SUBSET T : IsFiniteSet(UnitsOf(f, s))}
<1>1. {} \in P
  <2>1. UnitsOf(f, {}) = {}
    BY Zenon DEF UnitsOf
  <2> QED
    BY <2>1, FS_EmptySet, Zenon
<1>2. ASSUME NEW s \in SUBSET T, s # {}, \A x \in s : s \ {x} \in P
      PROVE  s \in P
  <2>1. PICK x \in s : TRUE
    BY <1>2, Zenon
  <2>2. f[x] \in Nat /\ IsFiniteSet(UnitsOf(f, s \ {x}))
    BY <1>2, <2>1, Zenon
  <2> QED
    BY <2>1, <2>2, UnitsRemove, Zenon
<1>3. \A s \in SUBSET T : s \in P
  <2> HIDE DEF P
  <2> QED
    BY <1>1, <1>2, SubsetInduction, Zenon
<1> QED
  BY <1>3, Zenon

\* The element SumFunctionOnSet takes first.
Pick(s) == CHOOSE x \in s : TRUE

\* What g has to be for SumFunctionOnSet to be read off it.
IsSum(g, f, D) ==
  g = [s \in D |-> IF s = {} THEN 0 ELSE f[Pick(s)] + g[s \ {Pick(s)}]]

LEMMA SumExpanded ==
  ASSUME NEW f, NEW T
  PROVE  SumFunctionOnSet(f, T) = (CHOOSE g : IsSum(g, f, SUBSET T))[T]
BY Zenon DEF SumFunctionOnSet, FoldFunctionOnSet, MapThenFoldSet, IsSum, Pick

LEMMA PickIn == ASSUME NEW s, s # {} PROVE Pick(s) \in s
BY Zenon DEF Pick

\* A sum of naturals over a finite set is the number of its units.
LEMMA SumIsCount ==
  ASSUME NEW T, IsFiniteSet(T), NEW f, \A x \in T : f[x] \in Nat
  PROVE  SumFunctionOnSet(f, T) = Cardinality(UnitsOf(f, T))
<1> DEFINE C(s) == Cardinality(UnitsOf(f, s))
           h == [s \in SUBSET T |-> C(s)]
<1>1. C({}) = 0
  <2>1. UnitsOf(f, {}) = {}
    BY Zenon DEF UnitsOf
  <2> QED
    BY <2>1, FS_EmptySet, Zenon
<1>2. ASSUME NEW s \in SUBSET T, s # {}
      PROVE  /\ Pick(s) \in s /\ s \ {Pick(s)} \in SUBSET T
             /\ C(s) = f[Pick(s)] + C(s \ {Pick(s)})
  <2>1. Pick(s) \in s
    BY <1>2, PickIn, Zenon
  <2>2. s \ {Pick(s)} \in SUBSET T /\ f[Pick(s)] \in Nat
    BY <2>1, Zenon
  <2>3. IsFiniteSet(UnitsOf(f, s \ {Pick(s)}))
    BY <2>2, UnitsFinite, Zenon
  <2> QED
    BY <2>1, <2>2, <2>3, UnitsRemove
<1> HIDE DEF C
<1>3. IsSum(h, f, SUBSET T)
  <2>1. \A s \in SUBSET T : h[s] = IF s = {} THEN 0 ELSE f[Pick(s)] + h[s \ {Pick(s)}]
    BY <1>1, <1>2, Zenon
  <2> QED
    BY <2>1, Zenon DEF IsSum
<1> DEFINE g == CHOOSE k : IsSum(k, f, SUBSET T)
<1>4. IsSum(g, f, SUBSET T)
  BY <1>3, Zenon
<1> HIDE DEF g, h
<1>5. \A s \in SUBSET T : g[s] = IF s = {} THEN 0 ELSE f[Pick(s)] + g[s \ {Pick(s)}]
  BY <1>4, Zenon DEF IsSum
<1> DEFINE P == {s \in SUBSET T : g[s] = C(s)}
<1>6. {} \in P
  BY <1>1, <1>5, Zenon
<1>7. ASSUME NEW s \in SUBSET T, s # {}, \A x \in s : s \ {x} \in P
      PROVE  s \in P
  BY <1>2, <1>5, <1>7, Zenon
<1>8. \A s \in SUBSET T : s \in P
  <2> HIDE DEF P
  <2> QED
    BY <1>6, <1>7, SubsetInduction, Zenon
<1>9. g[T] = C(T)
  BY <1>8, Zenon
<1> QED
  BY <1>9, SumExpanded, Zenon DEF g, C

\* Any element may be taken away from a sum.
LEMMA SumRemove ==
  ASSUME NEW T, IsFiniteSet(T), NEW f, \A x \in T : f[x] \in Nat, NEW y \in T
  PROVE  /\ SumFunctionOnSet(f, T) = f[y] + SumFunctionOnSet(f, T \ {y})
         /\ SumFunctionOnSet(f, T \ {y}) \in Nat
<1>1. IsFiniteSet(T \ {y}) /\ \A x \in T \ {y} : f[x] \in Nat
  BY FS_Subset, Zenon
<1>2. SumFunctionOnSet(f, T) = Cardinality(UnitsOf(f, T))
  BY SumIsCount, Zenon
<1>3. SumFunctionOnSet(f, T \ {y}) = Cardinality(UnitsOf(f, T \ {y}))
  BY <1>1, SumIsCount, Zenon
<1>4. IsFiniteSet(UnitsOf(f, T \ {y}))
  BY UnitsFinite, Zenon
<1>5. f[y] \in Nat
  OBVIOUS
<1>6. Cardinality(UnitsOf(f, T)) = f[y] + Cardinality(UnitsOf(f, T \ {y}))
  BY <1>4, <1>5, UnitsRemove
<1>7. Cardinality(UnitsOf(f, T \ {y})) \in Nat
  BY <1>4, FS_CardinalityType, Zenon
<1> QED
  BY <1>2, <1>3, <1>6, <1>7, Zenon

LEMMA SumEmpty ==
  ASSUME NEW f
  PROVE  SumFunctionOnSet(f, {}) = 0
<1>1. SumFunctionOnSet(f, {}) = Cardinality(UnitsOf(f, {}))
  BY SumIsCount, FS_EmptySet, Zenon
<1>2. UnitsOf(f, {}) = {}
  BY Zenon DEF UnitsOf
<1> QED
  BY <1>1, <1>2, FS_EmptySet, Zenon

LEMMA SumZero ==
  ASSUME NEW T, IsFiniteSet(T), NEW f, \A x \in T : f[x] = 0
  PROVE  SumFunctionOnSet(f, T) = 0
<1>1. SumFunctionOnSet(f, T) = Cardinality(UnitsOf(f, T))
  BY SumIsCount
<1>2. UnitsOf(f, T) = {}
  BY DEF UnitsOf
<1> QED
  BY <1>1, <1>2, FS_EmptySet, Zenon

\* A sum depends only on the values it adds.
LEMMA SumSame ==
  ASSUME NEW T, IsFiniteSet(T), NEW f, NEW e, \A x \in T : f[x] \in Nat /\ f[x] = e[x]
  PROVE  SumFunctionOnSet(f, T) = SumFunctionOnSet(e, T)
<1>1. SumFunctionOnSet(f, T) = Cardinality(UnitsOf(f, T))
  BY SumIsCount, Zenon
<1>2. SumFunctionOnSet(e, T) = Cardinality(UnitsOf(e, T))
  BY SumIsCount, Zenon
<1>3. UnitsOf(f, T) = UnitsOf(e, T)
  BY Zenon DEF UnitsOf
<1> QED
  BY <1>1, <1>2, <1>3, Zenon

\* One of the values changes.
LEMMA SumExcept ==
  ASSUME NEW T, IsFiniteSet(T), NEW f, NEW e, NEW y \in T,
         \A x \in T : f[x] \in Nat /\ e[x] \in Nat,
         \A x \in T \ {y} : f[x] = e[x]
  PROVE  /\ SumFunctionOnSet(f, T) \in Nat /\ SumFunctionOnSet(e, T) \in Nat
         /\ SumFunctionOnSet(e, T) + f[y] = SumFunctionOnSet(f, T) + e[y]
<1>1. IsFiniteSet(T \ {y}) /\ \A x \in T \ {y} : f[x] \in Nat /\ f[x] = e[x]
  BY FS_Subset, Zenon
<1>2. SumFunctionOnSet(f, T \ {y}) = SumFunctionOnSet(e, T \ {y})
  BY <1>1, SumSame, Zenon
<1>3. /\ SumFunctionOnSet(f, T) = f[y] + SumFunctionOnSet(f, T \ {y})
      /\ SumFunctionOnSet(f, T \ {y}) \in Nat
  BY SumRemove, Zenon
<1>4. SumFunctionOnSet(e, T) = e[y] + SumFunctionOnSet(e, T \ {y})
  BY SumRemove, Zenon
<1>5. f[y] \in Nat /\ e[y] \in Nat
  OBVIOUS
<1> QED
  BY <1>2, <1>3, <1>4, <1>5
-----------------------------------------------------------------------------
(* Least and greatest numbers.                                             *)

\* A set of naturals that is not empty has a least element.
LEMMA Least ==
  ASSUME NEW S \in SUBSET Nat, S # {}
  PROVE  \E m \in S : \A y \in S : m <= y
<1>1. PICK m \in S : \A y \in S : ~(<<y, m>> \in OpToRel(<, Nat))
  BY WFMin, NatLessThanWellFounded, Zenon
<1>2. \A y \in S : ~(y < m)
  BY <1>1, Zenon DEF OpToRel
<1>3. m \in Nat /\ \A y \in S : y \in Nat /\ ~(y < m)
  BY <1>2, Zenon
<1>4. \A y \in S : m <= y
  BY <1>3
<1> QED
  BY <1>4, Zenon

\* One that is bounded has a greatest element, too.
LEMMA Greatest ==
  ASSUME NEW S \in SUBSET Nat, S # {}, NEW b \in Nat, \A x \in S : x <= b
  PROVE  \E m \in S : \A y \in S : y <= m
<1> DEFINE Over == {n \in Nat : \A y \in S : y <= n}
<1>1. PICK m \in Over : \A n \in Over : m <= n
  <2>1. b \in Over /\ Over \in SUBSET Nat
    OBVIOUS
  <2> HIDE DEF Over
  <2> QED
    BY <2>1, Least, Zenon
<1>2. m \in Nat /\ \A y \in S : y <= m
  OBVIOUS
<1>3. CASE m \in S
  BY <1>2, <1>3, Zenon
<1>4. CASE m \notin S
  <2>1. \A y \in S : y \in Nat /\ y < m
    BY <1>2, <1>4
  <2>0. PICK z \in S : TRUE
    OBVIOUS
  <2>2. m # 0 /\ m - 1 \in Over
    BY <1>2, <2>1, <2>0
  <2> QED
    BY <1>1, <1>2, <2>2
<1> QED
  BY <1>3, <1>4, Zenon
-----------------------------------------------------------------------------
(* The buckets.                                                            *)

LEMMA BoundsGrow ==
  \A j \in Buckets : \A i \in 0..j : Bounds[i] \in Nat \ {0} /\ Bounds[i] <= Bounds[j]
<1> USE SnapshotsAssumption DEF Buckets
<1>0. \A i \in Buckets : Bounds[i] \in Nat \ {0}
  OBVIOUS
<1> DEFINE P == {j \in Nat : j \in Buckets => \A i \in 0..j : Bounds[i] <= Bounds[j]}
<1>1. 0 \in P
  BY <1>0
<1>2. ASSUME NEW j \in P PROVE j + 1 \in P
  <2> SUFFICES ASSUME j + 1 \in Buckets, NEW i \in 0..(j + 1) PROVE Bounds[i] <= Bounds[j + 1]
    OBVIOUS
  <2>1. j \in Buckets /\ Bounds[j] < Bounds[j + 1]
    OBVIOUS
  <2>2. CASE i = j + 1
    BY <1>0, <2>2
  <2>3. CASE i # j + 1
    <3>1. i \in 0..j /\ i \in Buckets
      BY <2>1, <2>3
    <3>2. Bounds[i] <= Bounds[j]
      BY <2>1, <3>1, Zenon
    <3> QED
      BY <1>0, <2>1, <3>1, <3>2
  <2> QED
    BY <2>2, <2>3, Zenon
<1>3. P = Nat
  <2> HIDE DEF P
  <2>1. P \in SUBSET Nat
    BY Zenon DEF P
  <2> QED
    BY <2>1, <1>1, <1>2, NatSetInduction, Zenon
<1>4. \A j \in Buckets : j \in P
  <2>1. \A j \in Buckets : j \in Nat
    OBVIOUS
  <2> QED
    BY <1>3, <2>1, Zenon
<1>5. \A j \in Buckets : \A i \in 0..j : i \in Buckets /\ Bounds[i] <= Bounds[j]
  BY <1>4
<1> QED
  BY <1>0, <1>5, Zenon

\* A latency is in the bucket whose bounds are around it.
LEMMA BucketIsAround ==
  ASSUME NEW us \in Nat
  PROVE  LET b == bucketFor(us) IN
         /\ b \in Buckets
         /\ b # 0 => Bounds[b - 1] <= us
         /\ b # NumBuckets - 1 => us < Bounds[b]
         /\ us < Bounds[NumBuckets - 2] => b # NumBuckets - 1
<1> USE SnapshotsAssumption DEF Buckets
<1>0. \A i \in Buckets : Bounds[i] \in Nat \ {0}
  OBVIOUS
<1>1. CASE us < Bounds[0]
  BY <1>1 DEF bucketFor
<1>2. CASE us >= Bounds[0] /\ us >= Bounds[NumBuckets - 2]
  BY <1>0, <1>2 DEF bucketFor
<1>3. CASE us >= Bounds[0] /\ us < Bounds[NumBuckets - 2]
  <2> DEFINE Q(i) == Bounds[i - 1] <= us /\ us < Bounds[i]
             S == {i \in Buckets : us < Bounds[i]}
  <2>1. PICK m \in S : \A y \in S : m <= y
    <3>1. NumBuckets - 2 \in S /\ S \in SUBSET Nat
      BY <1>3
    <3> HIDE DEF S
    <3> QED
      BY <3>1, Least, Zenon
  <2>2. m \in Buckets \ {0} /\ m - 1 \in Buckets /\ m - 1 \notin S
    BY <1>0, <1>3, <2>1
  <2>3. Q(m)
    BY <1>0, <2>1, <2>2
  <2> DEFINE b == CHOOSE i \in Buckets \ {0} : Q(i)
  <2>4. b \in Buckets \ {0} /\ Q(b)
    BY <2>2, <2>3, Zenon
  <2>5. bucketFor(us) = b
    <3>1. ~(us < Bounds[0]) /\ ~(us >= Bounds[NumBuckets - 2])
      BY <1>0, <1>3
    <3> QED
      BY <3>1, Zenon DEF bucketFor, Buckets
  <2> HIDE DEF b
  <2>6. b # NumBuckets - 1
    <3>1. Bounds[b - 1] < Bounds[NumBuckets - 2]
      BY <1>0, <1>3, <2>4
    <3>2. b = NumBuckets - 1 => b - 1 = NumBuckets - 2
      OBVIOUS
    <3>3. Bounds[NumBuckets - 2] \in Nat
      OBVIOUS
    <3>4. ~(Bounds[NumBuckets - 2] < Bounds[NumBuckets - 2])
      BY <3>3
    <3> QED
      BY <3>1, <3>2, <3>4, Zenon
  <2> QED
    BY <2>4, <2>5, <2>6, Zenon
<1> QED
  BY <1>0, <1>1, <1>2, <1>3

LEMMA BucketsInOrder ==
  ASSUME NEW u \in Nat, NEW v \in Nat, u <= v
  PROVE  bucketFor(u) <= bucketFor(v)
<1> DEFINE a == bucketFor(u)
           b == bucketFor(v)
<1>1. a \in Buckets /\ b \in Buckets /\ (a # 0 => Bounds[a - 1] <= u)
      /\ (b # NumBuckets - 1 => v < Bounds[b])
  BY BucketIsAround, Zenon
<1> HIDE DEF a, b
<1>2. SUFFICES ASSUME ~(a <= b) PROVE FALSE
  BY Zenon DEF a, b
<1> USE SnapshotsAssumption DEF Buckets
<1>3. a - 1 \in Buckets /\ b \in 0..(a - 1) /\ a # 0 /\ b # NumBuckets - 1
  BY <1>1, <1>2
<1>4. Bounds[b] <= Bounds[a - 1] /\ Bounds[b] \in Nat /\ Bounds[a - 1] \in Nat
  BY <1>3, BoundsGrow, Zenon
<1> QED
  BY <1>1, <1>3, <1>4
-----------------------------------------------------------------------------
(* What Record writes and AddShard loads.                                  *)

\* Which of the loads of AddShard gets a counter.
Slot(c) ==
  CASE c[1] = "hist"          -> c[2] + 1
    [] c = Total("requests")  -> NumBuckets + 1
    [] c = Total("failures")  -> NumBuckets + 2
    [] c = Total("sumUs")     -> NumBuckets + 3
    [] c = Total("maxUs")     -> NumBuckets + 4
    [] c = Total("minUs")     -> NumBuckets + 5
    [] c[1] = "class"         -> NumBuckets + 6 + c[2]
    [] c[1] = "err"           -> NumBuckets + 12

LEMMA CounterKinds ==
  ASSUME NEW c \in Counters
  PROVE  \/ \E b \in Buckets : c = <<"hist", b>>
         \/ \E i \in Classes : c = <<"class", i>>
         \/ \E k \in Kinds : c = <<"err", k>>
         \/ c \in {Total("requests"), Total("failures"), Total("sumUs"), Total("maxUs"), Total("minUs")}
BY DEF Counters, Sums, Total

LEMMA SlotOf ==
  /\ \A b \in Buckets : Slot(<<"hist", b>>) = b + 1
  /\ \A i \in Classes : Slot(<<"class", i>>) = NumBuckets + 6 + i
  /\ \A k \in Kinds : Slot(<<"err", k>>) = NumBuckets + 12
  /\ Slot(Total("requests")) = NumBuckets + 1 /\ Slot(Total("failures")) = NumBuckets + 2
  /\ Slot(Total("sumUs")) = NumBuckets + 3 /\ Slot(Total("maxUs")) = NumBuckets + 4
  /\ Slot(Total("minUs")) = NumBuckets + 5
<1>1. \A b \in Buckets : Slot(<<"hist", b>>) = b + 1
  BY Zenon DEF Slot, Total
<1>2. \A i \in Classes : Slot(<<"class", i>>) = NumBuckets + 6 + i
  BY Zenon DEF Slot, Total
<1>3. \A k \in Kinds : Slot(<<"err", k>>) = NumBuckets + 12
  BY Zenon DEF Slot, Total
<1>4. /\ Slot(Total("requests")) = NumBuckets + 1 /\ Slot(Total("failures")) = NumBuckets + 2
      /\ Slot(Total("sumUs")) = NumBuckets + 3 /\ Slot(Total("maxUs")) = NumBuckets + 4
      /\ Slot(Total("minUs")) = NumBuckets + 5
  BY Zenon DEF Slot, Total
<1> QED
  BY <1>1, <1>2, <1>3, <1>4, Zenon

LEMMA FunctionIsSeq ==
  ASSUME NEW n \in Nat, NEW S, NEW f \in [1..n -> S]
  PROVE  f \in Seq(S) /\ Len(f) = n
OBVIOUS

LEMMA Concatenated ==
  ASSUME NEW S, NEW p \in Seq(S), NEW q \in Seq(S)
  PROVE  /\ p \o q \in Seq(S) /\ Len(p \o q) = Len(p) + Len(q)
         /\ \A i \in 1..Len(p) : (p \o q)[i] = p[i]
         /\ \A k \in 1..Len(q) : (p \o q)[Len(p) + k] = q[k]
<1>1. p \o q \in Seq(S) /\ Len(p \o q) = Len(p) + Len(q)
  OBVIOUS
<1>2. \A i \in 1..Len(p) : (p \o q)[i] = p[i]
  OBVIOUS
<1>3. ASSUME NEW k \in 1..Len(q) PROVE (p \o q)[Len(p) + k] = q[k]
  OBVIOUS
<1> QED
  BY <1>1, <1>2, <1>3, Zenon

LEMMA LoadsAre ==
  /\ Len(Loads) = NumBuckets + 12
  /\ \A i \in 1..NumBuckets : Loads[i] = {<<"hist", i - 1>>}
  /\ \A k \in 1..12 : Loads[NumBuckets + k] = CounterLoads[k]
<1> DEFINE S == {HistLoads[i] : i \in 1..NumBuckets} \cup {CounterLoads[i] : i \in 1..12}
<1>1. NumBuckets \in Nat /\ 12 \in Nat
  BY SnapshotsAssumption, Zenon
<1>2. HistLoads \in [1..NumBuckets -> S] /\ \A i \in 1..NumBuckets : HistLoads[i] = {<<"hist", i - 1>>}
  BY Zenon DEF HistLoads
<1>3. CounterLoads \in [1..12 -> S]
  BY DEF CounterLoads
<1> HIDE DEF S
<1>4. HistLoads \in Seq(S) /\ Len(HistLoads) = NumBuckets
  BY <1>1, <1>2, FunctionIsSeq, Zenon
<1>5. CounterLoads \in Seq(S) /\ Len(CounterLoads) = 12
  BY <1>1, <1>3, FunctionIsSeq, Zenon
<1>6. HistLoads \in Seq(S) /\ CounterLoads \in Seq(S)
  BY <1>4, <1>5, Zenon
<1>7. /\ Len(Loads) = Len(HistLoads) + Len(CounterLoads)
      /\ \A i \in 1..Len(HistLoads) : Loads[i] = HistLoads[i]
      /\ \A k \in 1..Len(CounterLoads) : Loads[Len(HistLoads) + k] = CounterLoads[k]
  BY <1>6, Concatenated DEF Loads
<1> QED
  BY <1>2, <1>4, <1>5, <1>7, Zenon

\* Every counter is loaded once.
LEMMA LoadsBySlot ==
  /\ \A c \in Counters : Slot(c) \in 1..Len(Loads)
  /\ \A i \in 1..Len(Loads) : \A c \in Counters : c \in Loads[i] <=> Slot(c) = i
<1> USE SnapshotsAssumption
<1>0. \A b \in Buckets : b \in Nat /\ b + 1 \in 1..NumBuckets
  BY DEF Buckets
<1>1. ASSUME NEW c \in Counters, NEW b \in Buckets, c = <<"hist", b>>
      PROVE  Slot(c) = b + 1 /\ b + 1 \in 1..NumBuckets /\ b \in Nat
  BY <1>0, <1>1, SlotOf, Zenon
<1>2. ASSUME NEW c \in Counters, NEW i \in Classes, c = <<"class", i>>
      PROVE  Slot(c) = NumBuckets + (6 + i) /\ 6 + i \in 6..11
  BY <1>2, SlotOf DEF Classes, ClassOther
<1>3. ASSUME NEW c \in Counters, NEW k \in Kinds, c = <<"err", k>>
      PROVE  Slot(c) = NumBuckets + 12
  BY <1>3, SlotOf, Zenon
<1>4. ASSUME NEW c \in Counters PROVE Slot(c) \in 1..(NumBuckets + 12)
  <2>1. \A b \in Buckets : c = <<"hist", b>> => Slot(c) \in 1..(NumBuckets + 12)
    BY <1>1
  <2>2. \A i \in Classes : c = <<"class", i>> => Slot(c) \in 1..(NumBuckets + 12)
    BY <1>2
  <2>3. \A k \in Kinds : c = <<"err", k>> => Slot(c) \in 1..(NumBuckets + 12)
    BY <1>3
  <2>4. c \in {Total("requests"), Total("failures"), Total("sumUs"), Total("maxUs"), Total("minUs")}
          => Slot(c) \in 1..(NumBuckets + 12)
    BY SlotOf
  <2> QED
    BY <2>1, <2>2, <2>3, <2>4, CounterKinds, Zenon
<1>5. ASSUME NEW i \in 1..NumBuckets, NEW c \in Counters PROVE c \in Loads[i] <=> Slot(c) = i
  <2>0. Loads[i] = {<<"hist", i - 1>>}
    BY LoadsAre, Zenon
  <2>1. c \in Loads[i] <=> c = <<"hist", i - 1>>
    BY <2>0, Zenon
  <2>2. i - 1 \in Buckets /\ Slot(<<"hist", i - 1>>) = i
    BY SlotOf DEF Buckets
  <2>3. Slot(c) = i => \E b \in Buckets : c = <<"hist", b>>
    BY <1>2, <1>3, SlotOf, CounterKinds
  <2>4. Slot(c) = i => c = <<"hist", i - 1>>
    <3> SUFFICES ASSUME Slot(c) = i PROVE c = <<"hist", i - 1>>
      OBVIOUS
    <3>1. PICK b \in Buckets : c = <<"hist", b>>
      BY <2>3, Zenon
    <3>2. i = b + 1 /\ b \in Nat
      BY <1>1, <3>1, Zenon
    <3>3. i - 1 = b
      BY <3>2
    <3> QED
      BY <3>1, <3>3, Zenon
  <2> QED
    BY <2>1, <2>2, <2>4, Zenon
<1>6. ASSUME NEW k \in 1..12, NEW c \in Counters
      PROVE  c \in Loads[NumBuckets + k] <=> Slot(c) = NumBuckets + k
  <2>0. Loads[NumBuckets + k] = CounterLoads[k]
    BY LoadsAre, Zenon
  <2>1. CASE \E b \in Buckets : c = <<"hist", b>>
    <3>1. c \notin CounterLoads[k]
      BY <2>1 DEF CounterLoads, Total
    <3> QED
      BY <1>1, <2>0, <2>1, <3>1
  <2>2. CASE \E i \in Classes : c = <<"class", i>>
    <3>1. PICK i \in Classes : c = <<"class", i>>
      BY <2>2, Zenon
    <3>2. c \in CounterLoads[k] <=> k = 6 + i
      BY <3>1 DEF CounterLoads, Total, Classes, ClassOther
    <3> QED
      BY <1>2, <2>0, <3>1, <3>2
  <2>3. CASE \E l \in Kinds : c = <<"err", l>>
    <3>2. c \in CounterLoads[k] <=> k = 12
      BY <2>3 DEF CounterLoads, Total
    <3> QED
      BY <1>3, <2>0, <2>3, <3>2
  <2>4. CASE c \in {Total("requests"), Total("failures"), Total("sumUs"), Total("maxUs"), Total("minUs")}
    <3>1. /\ Total("requests") \in CounterLoads[k] <=> k = 1
          /\ Total("failures") \in CounterLoads[k] <=> k = 2
          /\ Total("sumUs") \in CounterLoads[k] <=> k = 3
          /\ Total("maxUs") \in CounterLoads[k] <=> k = 4
          /\ Total("minUs") \in CounterLoads[k] <=> k = 5
      BY DEF CounterLoads, Total
    <3> QED
      BY <2>0, <2>4, <3>1, SlotOf
  <2> QED
    BY <2>1, <2>2, <2>3, <2>4, CounterKinds, Zenon
<1>7. ASSUME NEW i \in 1..(NumBuckets + 12), NEW c \in Counters
      PROVE  c \in Loads[i] <=> Slot(c) = i
  <2>1. CASE i <= NumBuckets
    BY <2>1, <1>5
  <2>2. CASE i > NumBuckets
    <3>1. i - NumBuckets \in 1..12 /\ NumBuckets + (i - NumBuckets) = i
      BY <2>2
    <3>2. c \in Loads[NumBuckets + (i - NumBuckets)] <=> Slot(c) = NumBuckets + (i - NumBuckets)
      BY <3>1, <1>6, Zenon
    <3> QED
      BY <3>1, <3>2, Zenon
  <2> QED
    BY <2>1, <2>2
<1> QED
  BY <1>4, <1>7, LoadsAre, Zenon

LEMMA OrderIs ==
  /\ DOMAIN Order = 1..9 /\ Order[9] = "net"
  /\ \A i, j \in 1..9 : Order[i] = Order[j] => i = j
<1>1. DOMAIN Order = 1..9 /\ Order[9] = "net"
  BY DEF Order
<1>2. \A i, j \in 1..9 : Order[i] = Order[j] => i = j
  BY DEF Order
<1> QED
  BY <1>1, <1>2, Zenon

LEMMA MinIs ==
  ASSUME NEW S \in SUBSET Int, NEW m \in S, \A y \in S : m <= y
  PROVE  Min(S) = m
<1>1. Min(S) \in S /\ \A y \in S : Min(S) <= y
  BY Zenon DEF Min
<1>2. Min(S) \in Int /\ m \in Int /\ m <= Min(S) /\ Min(S) <= m
  BY <1>1, Zenon
<1> QED
  BY <1>2

LEMMA MaxIs ==
  ASSUME NEW S \in SUBSET Int, NEW m \in S, \A y \in S : y <= m
  PROVE  Max(S) = m
<1>0. \A y \in S : m >= y
  OBVIOUS
<1>1. Max(S) \in S /\ \A y \in S : Max(S) >= y
  BY <1>0, Zenon DEF Max
<1>2. Max(S) \in Int /\ m \in Int /\ m >= Max(S) /\ Max(S) >= m
  BY <1>0, <1>1, Zenon
<1> QED
  BY <1>2

\* Classify finds what really went wrong.
LEMMA ClassifyRight ==
  ASSUME NEW r \in Requests, r.x.answer # "full"
  PROVE  Classify(r.x) = r.x.why /\ r.x.why \in Kinds
<1> DEFINE x == r.x
<1>1. Honest(x) /\ x.is \in SUBSET {Order[i] : i \in 1..9}
  BY ShardStatsAssumption, OrderIs, Zenon DEF Exchanges
<1> HIDE DEF x
<1>2. CASE x.code \notin {"none", "Unknown"}
  <2>1. Classify(x) = x.why
    BY <1>1, <1>2, Zenon DEF Honest, Classify
  <2>2. x.why \in Kinds
    BY <1>1, <1>2 DEF Honest, Kinds, Order
  <2> QED
    BY <2>1, <2>2, Zenon DEF x
<1>3. CASE x.code \in {"none", "Unknown"}
  <2> DEFINE found == {i \in DOMAIN Order : Order[i] \in x.is}
  <2>0. Classify(x) = IF found = {} THEN "other" ELSE Order[Min(found)]
    BY <1>3, Zenon DEF Classify
  <2>1. CASE x.is = {} /\ x.why = "other"
    <3>1. found = {}
      BY <2>1, Zenon
    <3> QED
      BY <2>0, <2>1, <3>1, Zenon DEF x, Kinds
  <2>2. CASE x.is \in {{x.why}, {x.why, "net"}}
    <3>1. x.why \in x.is
      BY <2>2, Zenon
    <3>2. PICK i \in 1..9 : Order[i] = x.why
      BY <1>1, <3>1, Zenon
    <3>3. i \in found /\ found \in SUBSET Int
      BY <3>1, <3>2, OrderIs
    <3>4. \A j \in found : j = i \/ j = 9
      BY <2>2, <3>2, OrderIs
    <3>5. \A j \in found : i <= j
      BY <3>4
    <3> HIDE DEF found
    <3>6. Min(found) = i
      BY <3>3, <3>5, MinIs, Zenon
    <3>7. x.why \in Kinds
      BY <3>2, OrderIs, Zenon DEF Kinds
    <3> QED
      BY <2>0, <3>2, <3>3, <3>6, <3>7, Zenon DEF x
  <2> QED
    BY <1>1, <1>3, <2>1, <2>2, Zenon DEF Honest
<1> QED
  BY <1>2, <1>3, Zenon

\* No two places of a sequence have the same element.
Once(p) == \A i, j \in 1..Len(p) : p[i] = p[j] => i = j

LEMMA RangeOf ==
  ASSUME NEW S, NEW p \in Seq(S)
  PROVE  Range(p) = {p[i] : i \in 1..Len(p)} /\ Range(p) \in SUBSET S
BY DEF Range

LEMMA ConcatRange ==
  ASSUME NEW S, NEW p \in Seq(S), NEW q \in Seq(S)
  PROVE  /\ p \o q \in Seq(S)
         /\ Range(p \o q) = Range(p) \cup Range(q)
         /\ Once(p) /\ Once(q) /\ Range(p) \cap Range(q) = {} => Once(p \o q)
<1> DEFINE n == Len(p)
           m == Len(q)
           t == p \o q
<1>1. t \in Seq(S) /\ Len(t) = n + m /\ n \in Nat /\ m \in Nat
  OBVIOUS
<1>2. \A i \in 1..n : t[i] = p[i]
  BY Concatenated
<1>3. ASSUME NEW i \in (n + 1)..(n + m) PROVE i - n \in 1..m /\ t[i] = q[i - n]
  <2>1. i - n \in 1..m /\ n + (i - n) = i
    BY <1>1
  <2> QED
    BY <2>1
<1>4. \A k \in 1..m : n + k \in 1..(n + m) /\ t[n + k] = q[k]
  <2>1. \A k \in 1..m : n + k \in 1..(n + m)
    BY <1>1
  <2> QED
    BY <2>1, Concatenated
<1>5. Range(t) = {t[i] : i \in 1..(n + m)}
  BY <1>1, RangeOf, Zenon
<1>6. Range(p) = {p[i] : i \in 1..n} /\ Range(q) = {q[i] : i \in 1..m}
  BY RangeOf, Zenon
<1> HIDE DEF n, m, t
<1>7. \A i \in 1..(n + m) : i \in 1..n \/ i \in (n + 1)..(n + m)
  BY <1>1
<1>8. \A i \in 1..n : i \in 1..(n + m)
  BY <1>1
<1>9. Range(t) = Range(p) \cup Range(q)
  <2>1. ASSUME NEW x \in Range(t) PROVE x \in Range(p) \cup Range(q)
    BY <1>2, <1>3, <1>5, <1>6, <1>7, Zenon
  <2>2. ASSUME NEW x \in Range(p) PROVE x \in Range(t)
    BY <1>2, <1>5, <1>6, <1>8, Zenon
  <2>3. ASSUME NEW x \in Range(q) PROVE x \in Range(t)
    BY <1>4, <1>5, <1>6, Zenon
  <2> QED
    BY <2>1, <2>2, <2>3, Zenon
<1>10. ASSUME Once(p), Once(q), Range(p) \cap Range(q) = {}, NEW i \in 1..(n + m),
              NEW j \in 1..(n + m), t[i] = t[j]
       PROVE  i = j
  <2>0. \A k \in 1..n : p[k] \in Range(p)
    BY <1>6, Zenon
  <2>00. \A k \in 1..m : q[k] \in Range(q)
    BY <1>6, Zenon
  <2>1. CASE i \in 1..n /\ j \in 1..n
    BY <1>2, <1>10, <2>1, Zenon DEF Once, n
  <2>2. CASE i \in 1..n /\ j \in (n + 1)..(n + m)
    BY <1>2, <1>3, <1>10, <2>0, <2>00, <2>2, Zenon
  <2>3. CASE i \in (n + 1)..(n + m) /\ j \in 1..n
    BY <1>2, <1>3, <1>10, <2>0, <2>00, <2>3, Zenon
  <2>4. CASE i \in (n + 1)..(n + m) /\ j \in (n + 1)..(n + m)
    <3>1. i - n = j - n
      BY <1>3, <1>10, <2>4, Zenon DEF Once, m
    <3> QED
      BY <1>1, <3>1
  <2> QED
    BY <1>7, <2>1, <2>2, <2>3, <2>4, Zenon
<1> QED
  BY <1>1, <1>9, <1>10, Zenon DEF Once, t

\* What Do makes of an exchange.
LEMMA DoIs ==
  ASSUME NEW r \in Requests
  PROVE  /\ Do(r.x).err \in BOOLEAN /\ Do(r.x).status \in Nat
         /\ Do(r.x).err <=> r.x.answer # "full"
         /\ Good(r.x) <=> ~Do(r.x).err /\ ~(Do(r.x).status >= 400)
         /\ ClassOf(r.x) \in Classes
         /\ \A i \in Classes : InClass(r.x, i) <=> i = ClassOf(r.x)
<1> DEFINE x == r.x
           d == Do(x)
<1>1. x.proto \in {"http", "grpc"} /\ x.status \in Nat /\ x.serving \in BOOLEAN
  BY ShardStatsAssumption, Zenon DEF Exchanges
<1> HIDE DEF x
<1>2. d.status \in Nat
  BY <1>1 DEF Do, HttpDo, GrpcDo
<1>3. d.err = (x.answer # "full")
  BY <1>1, Zenon DEF Do, HttpDo, GrpcDo
<1>4. Good(x) <=> ~d.err /\ ~(d.status >= 400)
  <2>1. CASE x.proto = "grpc"
    <3>1. d.status = IF x.answer # "full" THEN 0 ELSE IF x.serving THEN 200 ELSE 503
      BY <2>1, Zenon DEF Do, GrpcDo
    <3>2. x.answer = "full" => (x.serving <=> ~(d.status >= 400))
      BY <3>1
    <3> QED
      BY <1>3, <2>1, <3>2, Zenon DEF Good
  <2>2. CASE x.proto # "grpc"
    <3>1. d.status = IF x.answer = "none" THEN 0 ELSE x.status
      BY <2>2, Zenon DEF Do, HttpDo
    <3>2. x.answer = "full" => (x.status < 400 <=> ~(d.status >= 400))
      BY <1>1, <3>1
    <3> QED
      BY <1>3, <2>2, <3>2, Zenon DEF Good
  <2> QED
    BY <2>1, <2>2, Zenon
<1> HIDE DEF d
<1>5. ClassOf(x) = IF d.err \/ d.status \notin 100..599 THEN ClassOther ELSE d.status \div 100 - 1
  BY Zenon DEF ClassOf, d
<1>6. ClassOf(x) \in Classes
  BY <1>2, <1>5 DEF Classes, ClassOther
<1>7. ASSUME NEW i \in Classes PROVE InClass(x, i) <=> i = ClassOf(x)
  <2>1. CASE d.err \/ d.status \notin 100..599
    BY <1>3, <1>5, <2>1, Zenon DEF InClass, d
  <2>2. CASE ~(d.err \/ d.status \notin 100..599)
    <3>1. InClass(x, i) <=> d.status \in (100 * (i + 1))..(100 * (i + 1) + 99)
      BY <1>3, <2>2, Zenon DEF InClass, d
    <3>2. ClassOf(x) = d.status \div 100 - 1
      BY <1>5, <2>2
    <3> QED
      BY <1>2, <2>2, <3>1, <3>2 DEF Classes, ClassOther
  <2> QED
    BY <2>1, <2>2
<1> QED
  BY <1>2, <1>3, <1>4, <1>6, <1>7, Zenon DEF x, d

\* The counters Record writes for every request, and the others.
Always(r) ==
  {<<"hist", bucketFor(r.us)>>, Total("requests"), Total("sumUs"), Total("maxUs"),
   Total("minUs")}
ByAnswer(r) ==
  IF Do(r.x).err THEN {Total("failures"), <<"class", ClassOther>>, <<"err", r.x.why>>}
  ELSE IF Do(r.x).status >= 400 THEN {<<"class", ClassOf(r.x)>>, Total("failures")}
  ELSE {<<"class", ClassOf(r.x)>>}

LEMMA RequestIs ==
  ASSUME NEW r \in Requests
  PROVE  r.us \in 0..MaxUs /\ r.us \in Nat /\ bucketFor(r.us) \in Buckets
<1>1. r.us \in 0..MaxUs /\ r.us \in Nat
  BY ShardStatsAssumption
<1> QED
  BY <1>1, BucketIsAround, Zenon

LEMMA StoresAre ==
  ASSUME NEW r \in Requests
  PROVE  /\ Stores(r) \in Seq(Counters) /\ Once(Stores(r))
         /\ Range(Stores(r)) = Always(r) \cup ByAnswer(r)
<1> DEFINE p == <<<<"hist", bucketFor(r.us)>>, Total("requests"), Total("sumUs"),
                  Total("maxUs"), Total("minUs")>>
           e == <<Total("failures"), <<"class", ClassOther>>, <<"err", ErrKind(r.x)>>>>
           f == <<<<"class", ClassOf(r.x)>>, Total("failures")>>
           g == <<<<"class", ClassOf(r.x)>>>>
           q == CASE Do(r.x).err -> e
                  [] ~Do(r.x).err /\ Do(r.x).status >= 400 -> f
                  [] OTHER -> g
<1>1. p \in Seq(Counters) /\ Once(p) /\ Range(p) = Always(r)
  <2>1. bucketFor(r.us) \in Buckets
    BY RequestIs, Zenon
  <2>2. p \in Seq(Counters)
    BY <2>1 DEF Counters, Sums, Total
  <2>3. Once(p)
    BY DEF Once, Total
  <2>4. Range(p) = Always(r)
    BY DEF Range, Always
  <2> QED
    BY <2>2, <2>3, <2>4, Zenon
<1>2. CASE Do(r.x).err
  <2>1. ErrKind(r.x) = r.x.why /\ r.x.why \in Kinds
    BY <1>2, ClassifyRight, DoIs DEF ErrKind
  <2>2. e \in Seq(Counters)
    BY <2>1 DEF Counters, Sums, Total, Classes, ClassOther
  <2>3. Once(e)
    BY DEF Once, Total
  <2>4. Range(e) = ByAnswer(r)
    BY <1>2, <2>1 DEF Range, ByAnswer
  <2>5. q = e
    BY <1>2, Zenon
  <2>6. ByAnswer(r) \cap Always(r) = {}
    BY <1>2 DEF ByAnswer, Always, Total
  <2> HIDE DEF p, q, e
  <2>7. /\ p \o q \in Seq(Counters) /\ Once(p \o q)
        /\ Range(p \o q) = Always(r) \cup ByAnswer(r)
    BY <1>1, <2>2, <2>3, <2>4, <2>5, <2>6, ConcatRange
  <2> QED
    BY <2>7, Zenon DEF Stores, p, q, e, f, g
<1>3. CASE ~Do(r.x).err /\ Do(r.x).status >= 400
  <2>1. ClassOf(r.x) \in Classes
    BY DoIs, Zenon
  <2>2. f \in Seq(Counters)
    BY <2>1 DEF Counters, Sums, Total
  <2>3. Once(f)
    BY DEF Once, Total
  <2>4. Range(f) = ByAnswer(r)
    BY <1>3 DEF Range, ByAnswer
  <2>5. q = f
    BY <1>3, Zenon
  <2>6. ByAnswer(r) \cap Always(r) = {}
    BY <1>3 DEF ByAnswer, Always, Total
  <2> HIDE DEF p, q, f
  <2>7. /\ p \o q \in Seq(Counters) /\ Once(p \o q)
        /\ Range(p \o q) = Always(r) \cup ByAnswer(r)
    BY <1>1, <2>2, <2>3, <2>4, <2>5, <2>6, ConcatRange
  <2> QED
    BY <2>7, Zenon DEF Stores, p, q, e, f, g
<1>4. CASE ~Do(r.x).err /\ ~(Do(r.x).status >= 400)
  <2>1. ClassOf(r.x) \in Classes
    BY DoIs, Zenon
  <2>2. g \in Seq(Counters)
    BY <2>1 DEF Counters, Sums, Total
  <2>3. Once(g)
    BY DEF Once, Total
  <2>4. Range(g) = ByAnswer(r)
    BY <1>4 DEF Range, ByAnswer
  <2>5. q = g
    BY <1>4, Zenon
  <2>6. ByAnswer(r) \cap Always(r) = {}
    BY <1>4 DEF ByAnswer, Always, Total
  <2> HIDE DEF p, q, g
  <2>7. /\ p \o q \in Seq(Counters) /\ Once(p \o q)
        /\ Range(p \o q) = Always(r) \cup ByAnswer(r)
    BY <1>1, <2>2, <2>3, <2>4, <2>5, <2>6, ConcatRange
  <2> QED
    BY <2>7, Zenon DEF Stores, p, q, e, f, g
<1> QED
  BY <1>2, <1>3, <1>4, Zenon

\* Record adds to each sum what the request should add to it.
LEMMA StoresRight ==
  ASSUME NEW r \in Requests, NEW c \in Sums
  PROVE  /\ Amount(c, r) = IF c \in Range(Stores(r)) THEN Added(c, r) ELSE 0
         /\ Amount(c, r) \in 0..MaxUs
<1> DEFINE w == Always(r) \cup ByAnswer(r)
<1>1. Range(Stores(r)) = w
  BY StoresAre, Zenon
<1>2. MaxUs \in Nat \ {0} /\ r.us \in 0..MaxUs
  BY RequestIs, ShardStatsAssumption, SnapshotsAssumption DEF MaxUint
<1>3. CASE \E b \in Buckets : c = <<"hist", b>>
  <2>1. PICK b \in Buckets : c = <<"hist", b>>
    BY <1>3, Zenon
  <2>2. Amount(c, r) = IF bucketFor(r.us) = b THEN 1 ELSE 0
    BY <2>1, Zenon DEF Amount, Total
  <2>3. c \in w <=> bucketFor(r.us) = b
    BY <2>1 DEF Always, ByAnswer, Total
  <2>4. Added(c, r) = 1
    BY <2>1, Zenon DEF Added, Total
  <2> QED
    BY <1>1, <1>2, <2>2, <2>3, <2>4
<1>4. CASE \E i \in Classes : c = <<"class", i>>
  <2>1. PICK i \in Classes : c = <<"class", i>>
    BY <1>4, Zenon
  <2>2. Amount(c, r) = IF InClass(r.x, i) THEN 1 ELSE 0
    BY <2>1, Zenon DEF Amount, Total
  <2>3. InClass(r.x, i) <=> i = ClassOf(r.x)
    BY DoIs, Zenon
  <2>4. Do(r.x).err => ClassOf(r.x) = ClassOther
    BY Zenon DEF ClassOf
  <2>5. c \in w <=> i = ClassOf(r.x)
    <3>1. c \notin Always(r)
      BY <2>1, Zenon DEF Always, Total
    <3>2. c \in ByAnswer(r) <=> i = ClassOf(r.x)
      BY <2>1, <2>4 DEF ByAnswer, Total
    <3> QED
      BY <3>1, <3>2, Zenon
  <2>6. Added(c, r) = 1
    BY <2>1, Zenon DEF Added, Total
  <2> QED
    BY <1>1, <1>2, <2>2, <2>3, <2>5, <2>6
<1>5. CASE \E k \in Kinds : c = <<"err", k>>
  <2>1. PICK k \in Kinds : c = <<"err", k>>
    BY <1>5, Zenon
  <2>2. Amount(c, r) = IF r.x.answer # "full" /\ r.x.why = k THEN 1 ELSE 0
    BY <2>1, Zenon DEF Amount, Total
  <2>3. c \in w <=> Do(r.x).err /\ r.x.why = k
    BY <2>1, Zenon DEF Always, ByAnswer, Total
  <2>4. Added(c, r) = 1
    BY <2>1, Zenon DEF Added, Total
  <2> QED
    BY <1>1, <1>2, <2>2, <2>3, <2>4, DoIs
<1>6. CASE c = Total("requests")
  <2>1. Amount(c, r) = 1 /\ Added(c, r) = 1 /\ c \in w
    BY <1>6, Zenon DEF Amount, Added, Always, Total
  <2> QED
    BY <1>1, <1>2, <2>1
<1>7. CASE c = Total("sumUs")
  <2>1. Amount(c, r) = r.us /\ Added(c, r) = r.us /\ c \in w
    BY <1>7, Zenon DEF Amount, Added, Always, Total
  <2> QED
    BY <1>1, <1>2, <2>1, Zenon
<1>8. CASE c = Total("failures")
  <2>1. Amount(c, r) = IF Good(r.x) THEN 0 ELSE 1
    BY <1>8, Zenon DEF Amount, Total
  <2>2. Added(c, r) = 1
    BY <1>8, Zenon DEF Added, Total
  <2>3. c \in w <=> Do(r.x).err \/ Do(r.x).status >= 400
    BY <1>8, Zenon DEF Always, ByAnswer, Total
  <2> QED
    BY <1>1, <1>2, <2>1, <2>2, <2>3, DoIs
<1>9. c \in Counters /\ c # Total("maxUs") /\ c # Total("minUs")
  BY DEF Sums, Counters, Total
<1> QED
  BY <1>3, <1>4, <1>5, <1>6, <1>7, <1>8, <1>9, CounterKinds, Zenon
-----------------------------------------------------------------------------
(* The state the counters are compared with.                               *)

\* The requests made.
Of == [e \in Entries |-> Made(e)]

\* The counters that Record has still to come to, with the request.
Waiting ==
  {w \in Counters \X Entries :
     w[2][2] = Len(log[w[2][1]]) /\ w[1] \in Range(todo[w[2][1]])}

\* The requests of the shards of L that counter c has.
Applied == [c \in Counters |-> [L \in SUBSET Shards |->
              {e \in Entries : e[1] \in L /\ <<c, e>> \notin Waiting}]]

\* What they have added to it, unit by unit, and how much that is.
Units == [c \in Sums |-> [L \in SUBSET Shards |->
            {u \in Entries \X (1..MaxUs) :
               u[1][1] \in L /\ <<c, u[1]>> \notin Waiting /\ u[2] <= Amount(c, Of[u[1]])}]]
Weight == [c \in Sums |-> [L \in SUBSET Shards |-> Cardinality(Units[c][L])]]

IsMax(v, of, E) == (v = 0 \/ \E e \in E : v = of[e].us) /\ \A e \in E : of[e].us <= v
IsMin(v, of, E) == (v = MaxUint \/ \E e \in E : v = of[e].us) /\ \A e \in E : v <= of[e].us

\* Record comes to each of its counters once, and has done so when the engine
\* is done.
TodoInv ==
  /\ IsFiniteSet(Entries) /\ Cardinality(Entries) <= MaxRecords
  /\ \A s \in Shards :
       /\ Once(todo[s])
       /\ todo[s] # <<>> =>
            log[s] # <<>> /\ Range(todo[s]) \subseteq Range(Stores(log[s][Len(log[s])]))
  /\ done => \A s \in Shards : todo[s] = <<>>

\* A shard has what Record has added to it.
ShardInv ==
  \A s \in Shards :
    /\ \A c \in Sums : shard[s][c] = Weight[c][{s}]
    /\ IsMax(shard[s][Total("maxUs")], Of, Applied[Total("maxUs")][{s}])
    /\ IsMin(shard[s][Total("minUs")], Of, Applied[Total("minUs")][{s}])

\* The shards whose counter c is in the snapshot.
Seen == [c \in Counters |-> {s \in Shards : s < from \/ (s = from /\ Slot(c) < next)}]

\* A snapshot never has more than the shards, and with the shards still to be
\* read not less than the one before.
ReadInv ==
  /\ (reader \notin {"tick", "report"} => from = pool + 1) /\ (from = pool + 1 => next = 1)
  /\ \A c \in Sums :
       /\ reader \in {"tick", "report"} => reading[c] <= Weight[c][Seen[c]]
       /\ prev # None => prev[c] <= Weight[c][Shards]
       /\ prev # None /\ reader = "tick" => prev[c] <= reading[c] + Weight[c][Shards \ Seen[c]]
  /\ TicksAreCumulative

\* After done it has all of what the shards have.
Complete(sn, seen) ==
  /\ \A c \in Sums : sn[c] = Weight[c][seen[c]]
  /\ IsMax(sn[Total("maxUs")], Of, Applied[Total("maxUs")][seen[Total("maxUs")]])
  /\ IsMin(sn[Total("minUs")], Of, Applied[Total("minUs")][seen[Total("minUs")]])

FinalInv ==
  /\ reader \in {"report", "ended"} => done
  /\ report # None \/ verdict # None => reader = "ended"
  /\ reader = "report" => Complete(reading, Seen)
  /\ reader = "ended" => report \in Snaps /\ Complete(report, [c \in Counters |-> Shards])

LEMMA EntryIs ==
  ASSUME WriteTypeOK, NEW e \in Entries
  PROVE  /\ e[1] \in Shards /\ e[2] \in 1..Len(log[e[1]]) /\ e = <<e[1], e[2]>>
         /\ Of[e] = log[e[1]][e[2]] /\ Of[e] \in Requests
<1>1. e[1] \in Shards /\ e[2] \in 1..Len(log[e[1]]) /\ e = <<e[1], e[2]>>
  BY DEF Entries
<1>2. Of[e] = log[e[1]][e[2]]
  BY Zenon DEF Of, Made
<1>3. log[e[1]] \in Seq(Requests)
  BY <1>1, Zenon DEF WriteTypeOK
<1> QED
  BY <1>1, <1>2, <1>3

LEMMA EntryIn ==
  ASSUME WriteTypeOK, NEW s \in Shards, NEW k \in 1..Len(log[s])
  PROVE  <<s, k>> \in Entries
BY DEF Entries

\* No counter can have more units than fit.
LEMMA FewUnits ==
  ASSUME TodoInv, NEW U \in SUBSET (Entries \X (1..MaxUs))
  PROVE  IsFiniteSet(U) /\ Cardinality(U) \in 0..MaxUint
<1> DEFINE A == Entries \X (1..MaxUs)
           m == Cardinality(Entries)
<1>1. MaxUs \in Nat /\ MaxRecords \in Nat /\ MaxRecords * MaxUs <= MaxUint /\ MaxUint \in Nat
  BY ShardStatsAssumption, SnapshotsAssumption DEF MaxUint
<1>2. IsFiniteSet(Entries) /\ m \in Nat /\ m <= MaxRecords
  BY FS_CardinalityType, Zenon DEF TodoInv
<1>3. IsFiniteSet(1..MaxUs) /\ Cardinality(1..MaxUs) = MaxUs
  BY <1>1, FS_Interval
<1>4. IsFiniteSet(A) /\ Cardinality(A) = m * MaxUs
  <2>1. IsFiniteSet(A) /\ Cardinality(A) = m * Cardinality(1..MaxUs)
    BY <1>2, <1>3, FS_Product, Zenon
  <2> QED
    BY <1>3, <2>1, Zenon
<1>5. m * MaxUs <= MaxRecords * MaxUs
  <2>1. ASSUME NEW a \in Nat, NEW b \in Nat, NEW k \in Nat, a <= b PROVE a * k <= b * k
    BY <2>1
  <2> HIDE DEF m
  <2> QED
    BY <1>1, <1>2, <2>1, Zenon
<1>6. IsFiniteSet(U) /\ Cardinality(U) <= Cardinality(A) /\ Cardinality(U) \in Nat
  BY <1>4, FS_Subset, FS_CardinalityType, Zenon
<1>7. m * MaxUs \in Nat
  BY <1>1, <1>2
<1> HIDE DEF m
<1>8. Cardinality(U) <= MaxUint
  BY <1>1, <1>4, <1>5, <1>6, <1>7
<1> QED
  BY <1>1, <1>6, <1>8

LEMMA UnitsCounted ==
  ASSUME TodoInv, NEW c \in Sums, NEW L \in SUBSET Shards
  PROVE  /\ IsFiniteSet(Units[c][L]) /\ Weight[c][L] = Cardinality(Units[c][L])
         /\ Weight[c][L] \in 0..MaxUint
<1>1. Units[c][L] \in SUBSET (Entries \X (1..MaxUs))
  BY Zenon DEF Units
<1>2. Weight[c][L] = Cardinality(Units[c][L])
  BY Zenon DEF Weight
<1> QED
  BY <1>1, <1>2, FewUnits, Zenon

LEMMA WeightAdd ==
  ASSUME TodoInv, NEW c \in Sums, NEW L \in SUBSET Shards, NEW s \in Shards \ L
  PROVE  /\ L \cup {s} \in SUBSET Shards /\ {s} \in SUBSET Shards
         /\ Weight[c][L \cup {s}] = Weight[c][L] + Weight[c][{s}]
<1>1. L \cup {s} \in SUBSET Shards /\ {s} \in SUBSET Shards
  OBVIOUS
<1>2. Units[c][L \cup {s}] = Units[c][L] \cup Units[c][{s}] /\ Units[c][L] \cap Units[c][{s}] = {}
  BY <1>1, Zenon DEF Units
<1>3. /\ IsFiniteSet(Units[c][L]) /\ Weight[c][L] = Cardinality(Units[c][L])
      /\ IsFiniteSet(Units[c][{s}]) /\ Weight[c][{s}] = Cardinality(Units[c][{s}])
      /\ Weight[c][L \cup {s}] = Cardinality(Units[c][L \cup {s}])
  BY <1>1, UnitsCounted, Zenon
<1>4. Cardinality(Units[c][L] \cup Units[c][{s}]) = Cardinality(Units[c][L]) + Cardinality(Units[c][{s}])
  BY <1>2, <1>3, DisjointUnion, Zenon
<1> QED
  BY <1>1, <1>2, <1>3, <1>4, Zenon

LEMMA WeightNone ==
  ASSUME NEW c \in Sums
  PROVE  Weight[c][{}] = 0
<1>1. Units[c][{}] = {}
  BY Zenon DEF Units
<1>2. Weight[c][{}] = Cardinality(Units[c][{}])
  BY Zenon DEF Weight
<1> QED
  BY <1>1, <1>2, FS_EmptySet, Zenon

\* The shards read and the others together are all.
LEMMA WeightRest ==
  ASSUME TodoInv, NEW c \in Sums, NEW L \in SUBSET Shards, NEW s \in Shards \ L
  PROVE  Weight[c][Shards \ L] = Weight[c][Shards \ (L \cup {s})] + Weight[c][{s}]
<1> DEFINE M == Shards \ (L \cup {s})
<1>1. M \in SUBSET Shards /\ s \in Shards \ M /\ M \cup {s} = Shards \ L
  OBVIOUS
<1> HIDE DEF M
<1>2. Weight[c][M \cup {s}] = Weight[c][M] + Weight[c][{s}]
  BY <1>1, WeightAdd, Zenon
<1> QED
  BY <1>1, <1>2, Zenon DEF M

LEMMA Joined ==
  ASSUME NEW of, NEW A, NEW B, NEW a \in Nat, NEW b \in Nat,
         \A e \in A \cup B : of[e].us \in Nat
  PROVE  /\ IsMax(a, of, A) /\ IsMax(b, of, B) => IsMax(Larger(a, b), of, A \cup B)
         /\ IsMin(a, of, A) /\ IsMin(b, of, B) /\ a <= MaxUint /\ b <= MaxUint
              => IsMin(Smaller(a, b), of, A \cup B)
<1>1. ASSUME IsMax(a, of, A), IsMax(b, of, B) PROVE IsMax(Larger(a, b), of, A \cup B)
  <2>1. CASE a > b
    <3>1. \A e \in B : of[e].us <= a
      BY <1>1, <2>1 DEF IsMax
    <3> QED
      BY <1>1, <2>1, <3>1, Zenon DEF IsMax, Larger
  <2>2. CASE ~(a > b)
    <3>1. \A e \in A : of[e].us <= b
      BY <1>1, <2>2 DEF IsMax
    <3> QED
      BY <1>1, <2>2, <3>1, Zenon DEF IsMax, Larger
  <2> QED
    BY <2>1, <2>2, Zenon
<1>2. ASSUME IsMin(a, of, A), IsMin(b, of, B), a <= MaxUint, b <= MaxUint
      PROVE  IsMin(Smaller(a, b), of, A \cup B)
  <2>1. CASE a < b
    <3>1. \A e \in B : a <= of[e].us
      BY <1>2, <2>1 DEF IsMin
    <3> QED
      BY <1>2, <2>1, <3>1, Zenon DEF IsMin, Smaller
  <2>2. CASE ~(a < b)
    <3>1. \A e \in A : b <= of[e].us
      BY <1>2, <2>2 DEF IsMin
    <3> QED
      BY <1>2, <2>2, <3>1, Zenon DEF IsMin, Smaller
  <2> QED
    BY <2>1, <2>2, Zenon
<1> QED
  BY <1>1, <1>2, Zenon

-----------------------------------------------------------------------------
(* The steps of the goroutines.                                            *)

\* A request begins: all its counters wait.
Begins(s, r, e) ==
  /\ e \notin Entries /\ Entries' = Entries \cup {e} /\ e[1] = s
  /\ Of'[e] = r /\ \A d \in Entries : Of'[d] = Of[d]
  /\ \A c \in Counters, d \in Entries : <<c, d>> \in Waiting' <=> <<c, d>> \in Waiting
  /\ \A c \in Counters : <<c, e>> \in Waiting' <=> c \in Range(Stores(r))

LEMMA RecordBegins ==
  ASSUME WriteTypeOK, TodoInv, NEW s \in Shards, Record(s)
  PROVE  \E r \in Requests : \E e : Begins(s, r, e)
<1> DEFINE n == Len(log[s])
           e == <<s, n + 1>>
<1>1. PICK r \in Requests : log' = [log EXCEPT ![s] = Append(@, r)]
                            /\ todo' = [todo EXCEPT ![s] = Stores(r)]
  BY Zenon DEF Record
<1>2. pool' = pool /\ todo[s] = <<>>
  BY Zenon DEF Record
<1>3. Shards' = Shards
  BY <1>2, Zenon DEF Shards
<1>4. log[s] \in Seq(Requests) /\ n \in Nat
  BY DEF WriteTypeOK
<1>5. /\ \A t \in Shards \ {s} : log'[t] = log[t] /\ todo'[t] = todo[t]
      /\ log'[s] = Append(log[s], r) /\ todo'[s] = Stores(r)
  BY <1>1, Zenon DEF WriteTypeOK
<1>6. Len(log'[s]) = n + 1 /\ log'[s][n + 1] = r /\ \A k \in 1..n : log'[s][k] = log[s][k]
  BY <1>4, <1>5
<1>7. e \notin Entries
  BY <1>4 DEF Entries
<1>8. Entries' = Entries \cup {e}
  <2>1. Entries' = UNION {{t} \X (1..Len(log'[t])) : t \in Shards}
    BY <1>3, Zenon DEF Entries
  <2>2. ASSUME NEW d \in Entries' PROVE d \in Entries \cup {e}
    <3>1. PICK t \in Shards : d \in {t} \X (1..Len(log'[t]))
      BY <2>1, Zenon
    <3>2. CASE t = s
      BY <1>4, <1>6, <3>1, <3>2 DEF Entries
    <3>3. CASE t # s
      BY <1>5, <3>1, <3>3, Zenon DEF Entries
    <3> QED
      BY <3>2, <3>3, Zenon
  <2>3. ASSUME NEW d \in Entries PROVE d \in Entries'
    <3>1. PICK t \in Shards : d \in {t} \X (1..Len(log[t]))
      BY Zenon DEF Entries
    <3>2. CASE t = s
      BY <1>4, <1>6, <2>1, <3>1, <3>2
    <3>3. CASE t # s
      BY <1>5, <2>1, <3>1, <3>3, Zenon
    <3> QED
      BY <3>2, <3>3, Zenon
  <2>4. e \in Entries'
    BY <1>4, <1>6, <2>1
  <2> QED
    BY <2>2, <2>3, <2>4, Zenon
<1>9. \A d \in Entries' : Of'[d] = log'[d[1]][d[2]]
  BY Zenon DEF Of, Made
<1>10. e \in Entries' /\ Of'[e] = r
  BY <1>6, <1>8, <1>9, Zenon
<1>11. ASSUME NEW d \in Entries PROVE Of'[d] = Of[d]
  <2>1. d[1] \in Shards /\ d[2] \in 1..Len(log[d[1]]) /\ Of[d] = log[d[1]][d[2]]
    BY EntryIs, Zenon
  <2>2. Of'[d] = log'[d[1]][d[2]]
    BY <1>8, <1>9, Zenon
  <2>3. CASE d[1] = s
    BY <1>6, <2>1, <2>2, <2>3, Zenon
  <2>4. CASE d[1] # s
    BY <1>5, <2>1, <2>2, <2>4, Zenon
  <2> QED
    BY <2>3, <2>4, Zenon
<1>12. ASSUME NEW c \in Counters, NEW d \in Entries'
       PROVE  <<c, d>> \in Waiting' <=> d[2] = Len(log'[d[1]]) /\ c \in Range(todo'[d[1]])
  BY Zenon DEF Waiting
<1>13. ASSUME NEW c \in Counters, NEW d \in Entries
       PROVE  <<c, d>> \in Waiting' <=> <<c, d>> \in Waiting
  <2>1. d[1] \in Shards /\ d[2] \in 1..Len(log[d[1]]) /\ d \in Entries'
    BY <1>8, EntryIs, Zenon
  <2>2. <<c, d>> \in Waiting <=> d[2] = Len(log[d[1]]) /\ c \in Range(todo[d[1]])
    BY Zenon DEF Waiting
  <2>3. CASE d[1] = s
    <3>1. d[2] # n + 1
      BY <1>4, <2>1, <2>3
    <3>2. c \notin Range(todo[s])
      BY <1>2 DEF Range
    <3> QED
      BY <1>6, <1>12, <2>1, <2>2, <2>3, <3>1, <3>2, Zenon
  <2>4. CASE d[1] # s
    BY <1>5, <1>12, <2>1, <2>2, <2>4, Zenon
  <2> QED
    BY <2>3, <2>4, Zenon
<1>14. ASSUME NEW c \in Counters PROVE <<c, e>> \in Waiting' <=> c \in Range(Stores(r))
  <2>1. e[1] = s /\ e[2] = n + 1
    OBVIOUS
  <2> HIDE DEF e
  <2> QED
    BY <1>5, <1>6, <1>10, <1>12, <2>1, Zenon
<1> HIDE DEF e
<1>15. e[1] = s
  BY Zenon DEF e
<1> QED
  BY <1>7, <1>8, <1>10, <1>11, <1>13, <1>14, <1>15, Zenon DEF Begins

\* One counter gets the request that is recorded.
Adds(s, c, e) ==
  /\ e \in Entries /\ Entries' = Entries /\ e[1] = s /\ Of' = Of
  /\ c \in Counters /\ c \in Range(Stores(Of[e]))
  /\ <<c, e>> \in Waiting /\ Waiting' = Waiting \ {<<c, e>>}
  /\ \A d \in Counters : shard'[s][d] = IF d = c THEN Combine(c, shard[s][c], Added(c, Of[e]))
                                        ELSE shard[s][d]
  /\ \A t \in Shards \ {s} : shard'[t] = shard[t]

LEMMA HeadAndTail ==
  ASSUME NEW S, NEW q \in Seq(S), q # <<>>, Once(q)
  PROVE  /\ Head(q) \in S /\ Tail(q) \in Seq(S) /\ Once(Tail(q))
         /\ Head(q) \in Range(q) /\ Range(Tail(q)) = Range(q) \ {Head(q)}
<1> DEFINE n == Len(q)
           t == Tail(q)
<1>1. n \in Nat \ {0} /\ Head(q) = q[1] /\ q[1] \in S /\ t \in Seq(S) /\ Len(t) = n - 1
  OBVIOUS
<1>2. \A i \in 1..(n - 1) : t[i] = q[i + 1]
  OBVIOUS
<1>3. Range(q) = {q[i] : i \in 1..n} /\ Range(t) = {t[i] : i \in 1..(n - 1)}
  <2>1. Range(t) = {t[i] : i \in 1..Len(t)}
    BY <1>1, RangeOf, Zenon
  <2> QED
    BY <1>1, <2>1, RangeOf, Zenon
<1>4. \A i, j \in 1..n : q[i] = q[j] => i = j
  BY Zenon DEF Once
<1> HIDE DEF n, t
<1>5. Once(t)
  <2>1. \A i, j \in 1..(n - 1) : t[i] = t[j] => i = j
    BY <1>1, <1>2, <1>4
  <2> QED
    BY <1>1, <2>1, Zenon DEF Once
<1>6. q[1] \in Range(q)
  BY <1>1, <1>3
<1>7. Range(t) = Range(q) \ {q[1]}
  <2>1. ASSUME NEW x \in Range(t) PROVE x \in Range(q) \ {q[1]}
    <3>1. PICK i \in 1..(n - 1) : x = q[i + 1]
      BY <1>2, <1>3, Zenon
    <3>2. i + 1 \in 1..n /\ 1 \in 1..n /\ i + 1 # 1
      BY <1>1
    <3> QED
      BY <1>3, <1>4, <3>1, <3>2, Zenon
  <2>2. ASSUME NEW x \in Range(q), x # q[1] PROVE x \in Range(t)
    <3>1. PICK i \in 1..n : x = q[i]
      BY <1>3, Zenon
    <3>2. i - 1 \in 1..(n - 1) /\ (i - 1) + 1 = i
      BY <1>1, <2>2, <3>1
    <3>3. t[i - 1] = x
      BY <1>2, <3>1, <3>2, Zenon
    <3> QED
      BY <1>3, <3>2, <3>3, Zenon
  <2> QED
    BY <2>1, <2>2, Zenon
<1> QED
  BY <1>1, <1>5, <1>6, <1>7, Zenon DEF t

LEMMA StoreAdds ==
  ASSUME WriteTypeOK, TodoInv, NEW s \in Shards, Store(s)
  PROVE  \E c, e : Adds(s, c, e)
<1> DEFINE n == Len(log[s])
           e == <<s, n>>
           c == Head(todo[s])
<1>1. /\ shard' = [shard EXCEPT ![s][c] = Combine(c, @, Added(c, log[s][n]))]
      /\ todo' = [todo EXCEPT ![s] = Tail(@)]
      /\ pool' = pool /\ log' = log /\ todo[s] # <<>>
  BY Zenon DEF Store
<1>2. Shards' = Shards /\ Entries' = Entries
  BY <1>1, Zenon DEF Shards, Entries
<1>3. Of' = Of
  BY <1>1, <1>2, Zenon DEF Of, Made
<1>4. todo[s] \in Seq(Counters) /\ Once(todo[s]) /\ log[s] # <<>> /\ log[s] \in Seq(Requests)
      /\ Range(todo[s]) \subseteq Range(Stores(log[s][n]))
  BY <1>1, Zenon DEF WriteTypeOK, TodoInv
<1>5. n \in Nat \ {0} /\ e \in Entries
  <2>1. n \in Nat \ {0}
    BY <1>4
  <2>2. n \in 1..n
    BY <2>1
  <2> QED
    BY <2>1, <2>2, EntryIn, Zenon
<1>6. c \in Counters /\ c \in Range(todo[s]) /\ Range(Tail(todo[s])) = Range(todo[s]) \ {c}
  BY <1>1, <1>4, HeadAndTail, Zenon
<1>7. Of[e] = log[s][n] /\ e[1] = s /\ e[2] = n
  BY <1>5, EntryIs, Zenon
<1>8. todo'[s] = Tail(todo[s]) /\ \A t \in Shards \ {s} : todo'[t] = todo[t]
  BY <1>1, Zenon DEF WriteTypeOK
<1>9. /\ \A d \in Counters : shard'[s][d] = IF d = c THEN Combine(c, shard[s][c], Added(c, log[s][n]))
                                           ELSE shard[s][d]
      /\ \A t \in Shards \ {s} : shard'[t] = shard[t]
  <2> HIDE DEF c, n
  <2> QED
    BY <1>1, Zenon DEF WriteTypeOK, Snaps
<1> HIDE DEF c, n, e
<1>10. \A d \in Counters, f \in Entries :
         /\ <<d, f>> \in Waiting <=> f[2] = Len(log[f[1]]) /\ d \in Range(todo[f[1]])
         /\ <<d, f>> \in Waiting' <=> f[2] = Len(log[f[1]]) /\ d \in Range(todo'[f[1]])
  BY <1>1, <1>2, Zenon DEF Waiting
<1>11. Waiting \in SUBSET (Counters \X Entries) /\ Waiting' \in SUBSET (Counters \X Entries)
  BY <1>2, Zenon DEF Waiting
<1>12. <<c, e>> \in Waiting
  BY <1>5, <1>6, <1>7, <1>10, Zenon DEF n
<1>13. ASSUME NEW d \in Counters, NEW f \in Entries
       PROVE  <<d, f>> \in Waiting' <=> <<d, f>> \in Waiting /\ <<d, f>> # <<c, e>>
  <2>1. f[1] \in Shards /\ f = <<f[1], f[2]>>
    BY EntryIs, Zenon
  <2>2. CASE f[1] # s
    BY <1>7, <1>8, <1>10, <2>1, <2>2, Zenon
  <2>3. CASE f[1] = s /\ f[2] # n
    BY <1>7, <1>10, <2>1, <2>3, Zenon DEF n
  <2>4. CASE f[1] = s /\ f[2] = n
    <3>1. f = e
      BY <2>1, <2>4, Zenon DEF e
    <3>2. <<d, f>> = <<c, e>> <=> d = c
      BY <3>1, Zenon
    <3> QED
      BY <1>6, <1>8, <1>10, <2>4, <3>2, Zenon DEF n
  <2> QED
    BY <2>2, <2>3, <2>4, Zenon
<1>14. Waiting' = Waiting \ {<<c, e>>}
  BY <1>11, <1>13
<1>15. c \in Range(Stores(Of[e]))
  BY <1>4, <1>6, <1>7, Zenon DEF n
<1>16. /\ \A d \in Counters : shard'[s][d] = IF d = c THEN Combine(c, shard[s][c], Added(c, Of[e]))
                                            ELSE shard[s][d]
       /\ \A t \in Shards \ {s} : shard'[t] = shard[t]
  BY <1>7, <1>9, Zenon
<1>17. Adds(s, c, e)
  BY <1>2, <1>3, <1>5, <1>6, <1>7, <1>12, <1>14, <1>15, <1>16, Zenon DEF Adds
<1> QED
  BY <1>17, Zenon

Extremes == {Total("maxUs"), Total("minUs")}

LEMMA KindsOfCounters ==
  /\ Sums \subseteq Counters /\ Extremes \subseteq Counters /\ Counters = Sums \cup Extremes
  /\ Sums \cap Extremes = {} /\ Total("maxUs") # Total("minUs")
  /\ Total("requests") \in Sums /\ Total("failures") \in Sums /\ Total("sumUs") \in Sums
  /\ \A b \in Buckets : <<"hist", b>> \in Sums
BY DEF Counters, Sums, Extremes, Total

LEMMA BeginsKeeps ==
  ASSUME NEW s \in Shards, NEW r \in Requests, NEW e, Begins(s, r, e), Shards' = Shards
  PROVE  /\ \A c \in Sums, L \in SUBSET Shards : Weight'[c][L] = Weight[c][L]
         /\ \A c \in Extremes, L \in SUBSET Shards : Applied'[c][L] = Applied[c][L]
<1>1. ASSUME NEW c \in Sums, NEW L \in SUBSET Shards PROVE Units'[c][L] = Units[c][L]
  <2>1. Units'[c][L] = {u \in Entries' \X (1..MaxUs) :
                          u[1][1] \in L /\ <<c, u[1]>> \notin Waiting' /\ u[2] <= Amount(c, Of'[u[1]])}
    BY Zenon DEF Units
  <2>2. Units[c][L] = {u \in Entries \X (1..MaxUs) :
                          u[1][1] \in L /\ <<c, u[1]>> \notin Waiting /\ u[2] <= Amount(c, Of[u[1]])}
    BY Zenon DEF Units
  <2>3. c \in Counters
    BY KindsOfCounters, Zenon
  <2>4. ASSUME NEW u \in Entries \X (1..MaxUs) PROVE u \in Units'[c][L] <=> u \in Units[c][L]
    <3>1. u[1] \in Entries /\ u \in Entries' \X (1..MaxUs)
      BY Zenon DEF Begins
    <3>2. Of'[u[1]] = Of[u[1]] /\ (<<c, u[1]>> \in Waiting' <=> <<c, u[1]>> \in Waiting)
      BY <2>3, <3>1, Zenon DEF Begins
    <3> QED
      BY <2>1, <2>2, <3>1, <3>2, Zenon
  <2>5. ASSUME NEW k \in 1..MaxUs PROVE <<e, k>> \notin Units'[c][L]
    <3>1. Of'[e] = r /\ (<<c, e>> \in Waiting' <=> c \in Range(Stores(r)))
      BY <2>3, Zenon DEF Begins
    <3>2. c \notin Range(Stores(r)) => Amount(c, r) = 0
      BY StoresRight, Zenon
    <3>3. <<e, k>>[1] = e /\ <<e, k>>[2] = k
      OBVIOUS
    <3>4. c \notin Range(Stores(r)) => ~(k <= Amount(c, Of'[e]))
      BY <3>1, <3>2
    <3> QED
      BY <2>1, <3>1, <3>3, <3>4, Zenon
  <2>6. \A u \in Entries' \X (1..MaxUs) : u \in Entries \X (1..MaxUs) \/ \E k \in 1..MaxUs : u = <<e, k>>
    BY DEF Begins
  <2>7. /\ Units'[c][L] \subseteq Entries' \X (1..MaxUs)
        /\ Units[c][L] \subseteq Entries \X (1..MaxUs)
    BY <2>1, <2>2, Zenon
  <2> QED
    BY <2>4, <2>5, <2>6, <2>7
<1>2. ASSUME NEW c \in Sums, NEW L \in SUBSET Shards PROVE Weight'[c][L] = Weight[c][L]
  BY <1>1, Zenon DEF Weight
<1>3. ASSUME NEW c \in Extremes, NEW L \in SUBSET Shards PROVE Applied'[c][L] = Applied[c][L]
  <2>1. c \in Counters /\ c \in Range(Stores(r))
    <3>1. Range(Stores(r)) = Always(r) \cup ByAnswer(r)
      BY StoresAre, Zenon
    <3>2. c \in Always(r)
      BY Zenon DEF Always, Extremes
    <3> QED
      BY <3>1, <3>2, KindsOfCounters, Zenon
  <2>2. Applied'[c][L] = {d \in Entries' : d[1] \in L /\ <<c, d>> \notin Waiting'}
    BY <2>1, Zenon DEF Applied
  <2>3. Applied[c][L] = {d \in Entries : d[1] \in L /\ <<c, d>> \notin Waiting}
    BY <2>1, Zenon DEF Applied
  <2>4. <<c, e>> \in Waiting' /\ Entries' = Entries \cup {e}
        /\ \A d \in Entries : <<c, d>> \in Waiting' <=> <<c, d>> \in Waiting
    BY <2>1, Zenon DEF Begins
  <2> QED
    BY <2>2, <2>3, <2>4, Zenon
<1> QED
  BY <1>2, <1>3, Zenon

LEMMA AddsOne ==
  ASSUME WriteTypeOK, TodoInv, NEW s \in Shards, NEW c, NEW e, Adds(s, c, e), Shards' = Shards
  PROVE  /\ \A d \in Sums, L \in SUBSET Shards :
              /\ Weight'[d][L] = Weight[d][L] + (IF d = c /\ s \in L THEN Added(c, Of[e]) ELSE 0)
              /\ Weight'[d][L] \in 0..MaxUint
         /\ \A d \in Extremes, L \in SUBSET Shards :
              Applied'[d][L] = IF d = c /\ s \in L THEN Applied[d][L] \cup {e} ELSE Applied[d][L]
<1>1. /\ e \in Entries /\ Entries' = Entries /\ e[1] = s /\ Of' = Of
      /\ c \in Counters /\ c \in Range(Stores(Of[e]))
      /\ <<c, e>> \in Waiting /\ Waiting' = Waiting \ {<<c, e>>}
  BY Zenon DEF Adds
<1>2. \A d \in Counters, f \in Entries :
        <<d, f>> \in Waiting' <=> <<d, f>> \in Waiting /\ ~(d = c /\ f = e)
  BY <1>1, Zenon
<1>3. Of[e] \in Requests
  BY <1>1, EntryIs, Zenon
<1>4. ASSUME NEW d \in Sums, NEW L \in SUBSET Shards
      PROVE  /\ Weight'[d][L] = Weight[d][L] + (IF d = c /\ s \in L THEN Added(c, Of[e]) ELSE 0)
             /\ Weight'[d][L] \in 0..MaxUint
  <2> DEFINE U == Units[d][L]
             N == {e} \X (1..Amount(d, Of[e]))
  <2>1. Units'[d][L] = {u \in Entries \X (1..MaxUs) :
                          u[1][1] \in L /\ <<d, u[1]>> \notin Waiting' /\ u[2] <= Amount(d, Of[u[1]])}
    BY <1>1, Zenon DEF Units
  <2>2. U = {u \in Entries \X (1..MaxUs) :
                          u[1][1] \in L /\ <<d, u[1]>> \notin Waiting /\ u[2] <= Amount(d, Of[u[1]])}
    BY Zenon DEF Units
  <2>3. d \in Counters
    BY KindsOfCounters, Zenon
  <2>4. IsFiniteSet(U) /\ Weight[d][L] = Cardinality(U) /\ Weight[d][L] \in 0..MaxUint
    BY UnitsCounted, Zenon
  <2>5. Weight'[d][L] = Cardinality(Units'[d][L])
    BY Zenon DEF Weight
  <2>6. Amount(d, Of[e]) \in 0..MaxUs
    BY <1>3, StoresRight, Zenon
  <2> HIDE DEF U, N
  <2>7. CASE ~(d = c /\ s \in L)
    <3>1. \A u \in Entries \X (1..MaxUs) : u[1] \in Entries
      OBVIOUS
    <3>2. \A u \in Entries \X (1..MaxUs) :
            u[1][1] \in L => (<<d, u[1]>> \in Waiting' <=> <<d, u[1]>> \in Waiting)
      BY <1>1, <1>2, <2>3, <2>7, <3>1, Zenon
    <3>3. Units'[d][L] = U
      BY <2>1, <2>2, <3>2, Zenon
    <3>4. Weight'[d][L] = Weight[d][L]
      BY <2>4, <2>5, <3>3, Zenon
    <3> QED
      BY <2>4, <2>7, <3>4
  <2>8. CASE d = c /\ s \in L
    <3>1. Units'[d][L] = U \cup N
      <4>1. ASSUME NEW u \in Entries \X (1..MaxUs) PROVE u \in Units'[d][L] <=> u \in U \/ u \in N
        <5>1. u[1] \in Entries /\ u[2] \in 1..MaxUs /\ u = <<u[1], u[2]>>
          OBVIOUS
        <5>2. u \in N <=> u[1] = e /\ u[2] <= Amount(d, Of[e])
          BY <2>6, <5>1 DEF N
        <5>3. u \in Units'[d][L] <=>
                u[1][1] \in L /\ <<d, u[1]>> \notin Waiting' /\ u[2] <= Amount(d, Of[u[1]])
          BY <2>1, Zenon
        <5>4. u \in U <=>
                u[1][1] \in L /\ <<d, u[1]>> \notin Waiting /\ u[2] <= Amount(d, Of[u[1]])
          BY <2>2, Zenon
        <5>5. <<d, u[1]>> \in Waiting' <=> <<d, u[1]>> \in Waiting /\ u[1] # e
          BY <1>2, <2>3, <2>8, <5>1, Zenon
        <5> QED
          BY <1>1, <2>8, <5>2, <5>3, <5>4, <5>5, Zenon
      <4>2. Units'[d][L] \subseteq Entries \X (1..MaxUs) /\ U \subseteq Entries \X (1..MaxUs)
        BY <2>1, <2>2, Zenon
      <4>3. N \subseteq Entries \X (1..MaxUs)
        <5>1. 1..Amount(d, Of[e]) \subseteq 1..MaxUs
          BY <2>6, ShardStatsAssumption, SnapshotsAssumption DEF MaxUint
        <5> QED
          BY <1>1, <5>1, Zenon DEF N
      <4> QED
        BY <4>1, <4>2, <4>3, Zenon
    <3>2. U \cap N = {}
      BY <1>1, <2>2, <2>8, Zenon DEF N
    <3>3. IsFiniteSet(N) /\ Cardinality(N) = Amount(d, Of[e])
      <4> DEFINE g == [x \in {e} |-> Amount(d, Of[e])]
      <4>1. g[e] = Amount(d, Of[e]) /\ g[e] \in Nat
        BY <2>6
      <4> HIDE DEF g
      <4>2. IsFiniteSet({e} \X (1..g[e])) /\ Cardinality({e} \X (1..g[e])) = g[e]
        BY <4>1, OneUnits, Zenon
      <4> QED
        BY <4>1, <4>2, Zenon DEF N
    <3>4. Cardinality(U \cup N) = Cardinality(U) + Cardinality(N)
      BY <2>4, <3>2, <3>3, DisjointUnion, Zenon
    <3>5. Amount(d, Of[e]) = Added(c, Of[e])
      BY <1>1, <1>3, <2>8, StoresRight, Zenon
    <3>6. Units'[d][L] \in SUBSET (Entries \X (1..MaxUs))
      BY <2>1, Zenon
    <3>7. Cardinality(Units'[d][L]) \in 0..MaxUint
      BY <3>6, FewUnits, Zenon
    <3>8. Weight'[d][L] = Weight[d][L] + Added(c, Of[e])
      BY <2>4, <2>5, <3>1, <3>3, <3>4, <3>5, Zenon
    <3> QED
      BY <2>5, <2>8, <3>7, <3>8, Zenon
  <2> QED
    BY <2>7, <2>8, Zenon
<1>5. ASSUME NEW d \in Extremes, NEW L \in SUBSET Shards
      PROVE  Applied'[d][L] = IF d = c /\ s \in L THEN Applied[d][L] \cup {e} ELSE Applied[d][L]
  <2>1. d \in Counters
    BY KindsOfCounters, Zenon
  <2>2. Applied'[d][L] = {f \in Entries : f[1] \in L /\ <<d, f>> \notin Waiting'}
    BY <1>1, <2>1, Zenon DEF Applied
  <2>3. Applied[d][L] = {f \in Entries : f[1] \in L /\ <<d, f>> \notin Waiting}
    BY <2>1, Zenon DEF Applied
  <2>4. \A f \in Entries : <<d, f>> \in Waiting' <=> <<d, f>> \in Waiting /\ ~(d = c /\ f = e)
    BY <1>2, <2>1, Zenon
  <2>5. CASE d = c /\ s \in L
    BY <1>1, <2>2, <2>3, <2>4, <2>5
  <2>6. CASE ~(d = c /\ s \in L)
    BY <1>1, <2>2, <2>3, <2>4, <2>6, Zenon
  <2> QED
    BY <2>5, <2>6, Zenon
<1> QED
  BY <1>4, <1>5, Zenon

WriteInv == WriteTypeOK /\ TodoInv /\ ShardInv

\* Counters only grow.
Grown ==
  /\ Shards' = Shards
  /\ \A c \in Sums, L \in SUBSET Shards :
       Weight[c][L] \in Nat /\ Weight'[c][L] \in Nat /\ Weight[c][L] <= Weight'[c][L]

LEMMA EntryUs ==
  ASSUME WriteTypeOK, NEW e \in Entries
  PROVE  Of[e].us \in 0..MaxUint /\ Of[e].us \in Nat
<1>1. Of[e] \in Requests
  BY EntryIs, Zenon
<1>2. Of[e].us \in 0..MaxUs /\ MaxUs \in 1..MaxUint
  BY <1>1, ShardStatsAssumption, Zenon
<1> QED
  BY <1>2, SnapshotsAssumption DEF MaxUint

LEMMA CombineIs ==
  /\ \A a, b \in 0..MaxUint, c \in Counters : Combine(c, a, b) \in 0..MaxUint
  /\ \A c \in Sums : \A a, b \in 0..MaxUint : a + b \in 0..MaxUint => Combine(c, a, b) = a + b
  /\ \A a, b : Combine(Total("maxUs"), a, b) = Larger(a, b)
  /\ \A a, b : Combine(Total("minUs"), a, b) = Smaller(a, b)
<1>1. W \in Nat \ {0} /\ MaxUint = W - 1
  BY SnapshotsAssumption, Zenon DEF MaxUint
<1>2. \A a, b \in 0..MaxUint : Larger(a, b) \in 0..MaxUint /\ Smaller(a, b) \in 0..MaxUint
  BY <1>1, Zenon DEF Larger, Smaller
<1>3. \A a, b \in 0..MaxUint :
        Plus(a, b) \in 0..MaxUint /\ (a + b \in 0..MaxUint => Plus(a, b) = a + b)
  BY <1>1 DEF Plus
<1>4. \A c \in Sums : c # Total("maxUs") /\ c # Total("minUs")
  BY KindsOfCounters, Zenon DEF Extremes
<1>5. \A c \in Sums : \A a, b : Combine(c, a, b) = Plus(a, b)
  BY <1>4, Zenon DEF Combine
<1>6. \A a, b : Combine(Total("maxUs"), a, b) = Larger(a, b)
  BY KindsOfCounters, Zenon DEF Combine
<1>7. \A a, b : Combine(Total("minUs"), a, b) = Smaller(a, b)
  BY KindsOfCounters, Zenon DEF Combine
<1>8. \A c \in Counters : c \in Sums \/ c = Total("maxUs") \/ c = Total("minUs")
  BY KindsOfCounters, Zenon DEF Extremes
<1>9. \A a, b \in 0..MaxUint, c \in Counters : Combine(c, a, b) \in 0..MaxUint
  <2> TAKE a, b \in 0..MaxUint, c \in Counters
  <2>1. Larger(a, b) \in 0..MaxUint /\ Smaller(a, b) \in 0..MaxUint /\ Plus(a, b) \in 0..MaxUint
    BY <1>2, <1>3, Zenon
  <2>2. Combine(c, a, b) \in {Larger(a, b), Smaller(a, b), Plus(a, b)}
    BY <1>5, <1>6, <1>7, <1>8, Zenon
  <2> QED
    BY <2>1, <2>2, Zenon
<1>10. \A c \in Sums : \A a, b \in 0..MaxUint : a + b \in 0..MaxUint => Combine(c, a, b) = a + b
  BY <1>3, <1>5, Zenon
<1> QED
  BY <1>6, <1>7, <1>9, <1>10, Zenon
-----------------------------------------------------------------------------
(* The steps of the goroutines.                                            *)

\* A goroutine begins a request and does the operations of Record.
LEMMA RecordKeeps ==
  ASSUME WriteInv, NEW s \in Shards, Record(s)
  PROVE  WriteInv' /\ Grown
<1> USE DEF WriteInv
<1>1. PICK r \in Requests : log' = [log EXCEPT ![s] = Append(@, r)]
                            /\ todo' = [todo EXCEPT ![s] = Stores(r)]
  BY Zenon DEF Record
<1>2. pool' = pool /\ shard' = shard /\ done' = done /\ ~done
  BY Zenon DEF Record
<1>3. Shards' = Shards
  BY <1>2, Zenon DEF Shards
<1>4. Stores(r) \in Seq(Counters) /\ Once(Stores(r))
  BY StoresAre, Zenon
<1>5. log[s] \in Seq(Requests)
  BY Zenon DEF WriteTypeOK
<1>6. Append(log[s], r) \in Seq(Requests) /\ Append(log[s], r) # <<>>
      /\ Append(log[s], r)[Len(Append(log[s], r))] = r
  BY <1>5
<1>7. WriteTypeOK'
  BY <1>1, <1>2, <1>3, <1>4, <1>6 DEF WriteTypeOK
<1>8. PICK q \in Requests, e \in {x \in Entries' : TRUE} : Begins(s, q, e)
  <2>1. PICK q \in Requests : \E e : Begins(s, q, e)
    BY RecordBegins, Zenon
  <2>2. PICK e : Begins(s, q, e)
    BY <2>1, Zenon
  <2>3. e \in Entries'
    BY <2>2, Zenon DEF Begins
  <2> QED
    BY <2>2, <2>3, Zenon
<1>9. /\ log'[s] = Append(log[s], r) /\ todo'[s] = Stores(r)
      /\ \A t \in Shards \ {s} : log'[t] = log[t] /\ todo'[t] = todo[t]
  BY <1>1, Zenon DEF WriteTypeOK
<1>10. TodoInv'
  <2>1. Entries' = Entries \cup {e} /\ e \notin Entries
    BY <1>8, Zenon DEF Begins
  <2>2. IsFiniteSet(Entries) /\ Cardinality(Entries) < MaxRecords
    BY Zenon DEF Record, TodoInv
  <2>3. IsFiniteSet(Entries') /\ Cardinality(Entries') = Cardinality(Entries) + 1
    BY <2>1, <2>2, FS_AddElement
  <2>4. Cardinality(Entries') <= MaxRecords
    BY <2>2, <2>3, FS_CardinalityType, ShardStatsAssumption
  <2>5. ASSUME NEW t \in Shards
        PROVE  Once(todo'[t]) /\ (todo'[t] # <<>> =>
                 log'[t] # <<>> /\ Range(todo'[t]) \subseteq Range(Stores(log'[t][Len(log'[t])])))
    <3>1. CASE t = s
      <4>1. log'[t][Len(log'[t])] = r /\ log'[t] # <<>> /\ todo'[t] = Stores(r)
        BY <1>6, <1>9, <3>1, Zenon
      <4> QED
        BY <1>4, <4>1, Zenon
    <3>2. CASE t # s
      BY <1>9, <3>2, Zenon DEF TodoInv
    <3> QED
      BY <3>1, <3>2, Zenon
  <2> QED
    BY <1>2, <1>3, <2>3, <2>4, <2>5, Zenon DEF TodoInv
<1>11. /\ \A c \in Sums, L \in SUBSET Shards : Weight'[c][L] = Weight[c][L]
       /\ \A c \in Extremes, L \in SUBSET Shards : Applied'[c][L] = Applied[c][L]
  BY <1>3, <1>8, BeginsKeeps, Zenon
<1>12. ShardInv'
  <2>1. ASSUME NEW t \in Shards
        PROVE  /\ \A c \in Sums : shard'[t][c] = Weight'[c][{t}]
               /\ IsMax(shard'[t][Total("maxUs")], Of', Applied'[Total("maxUs")][{t}])
               /\ IsMin(shard'[t][Total("minUs")], Of', Applied'[Total("minUs")][{t}])
    <3>1. {t} \in SUBSET Shards
      OBVIOUS
    <3>2. \A c \in Sums : shard'[t][c] = Weight'[c][{t}]
      BY <1>2, <1>11, <3>1, Zenon DEF ShardInv
    <3>3. \A c \in Extremes : Applied'[c][{t}] = Applied[c][{t}]
                              /\ \A d \in Applied[c][{t}] : Of'[d] = Of[d]
      <4>1. \A c \in Extremes : Applied[c][{t}] \subseteq Entries
        BY <3>1, KindsOfCounters, Zenon DEF Applied
      <4> QED
        BY <1>8, <1>11, <3>1, <4>1, Zenon DEF Begins
    <3>4. IsMax(shard'[t][Total("maxUs")], Of', Applied'[Total("maxUs")][{t}])
      <4>1. IsMax(shard[t][Total("maxUs")], Of, Applied[Total("maxUs")][{t}])
        BY Zenon DEF ShardInv
      <4>2. Total("maxUs") \in Extremes
        BY Zenon DEF Extremes
      <4> QED
        BY <1>2, <3>3, <4>1, <4>2, Zenon DEF IsMax
    <3>5. IsMin(shard'[t][Total("minUs")], Of', Applied'[Total("minUs")][{t}])
      <4>1. IsMin(shard[t][Total("minUs")], Of, Applied[Total("minUs")][{t}])
        BY Zenon DEF ShardInv
      <4>2. Total("minUs") \in Extremes
        BY Zenon DEF Extremes
      <4> QED
        BY <1>2, <3>3, <4>1, <4>2, Zenon DEF IsMin
    <3> QED
      BY <3>2, <3>4, <3>5, Zenon
  <2> QED
    BY <1>3, <2>1, Zenon DEF ShardInv
<1>13. Grown
  <2>1. ASSUME NEW c \in Sums, NEW L \in SUBSET Shards
        PROVE  Weight[c][L] \in Nat /\ Weight'[c][L] \in Nat /\ Weight[c][L] <= Weight'[c][L]
    <3>1. Weight[c][L] \in Nat /\ Weight'[c][L] = Weight[c][L]
      BY <1>11, UnitsCounted
    <3> QED
      BY <3>1
  <2> QED
    BY <1>3, <2>1, Zenon DEF Grown
<1> QED
  BY <1>7, <1>10, <1>12, <1>13, Zenon

LEMMA StoreKeeps ==
  ASSUME WriteInv, NEW s \in Shards, Store(s)
  PROVE  WriteInv' /\ Grown
<1> USE DEF WriteInv
<1>1. pool' = pool /\ log' = log /\ done' = done /\ todo[s] # <<>>
      /\ todo' = [todo EXCEPT ![s] = Tail(@)]
  BY Zenon DEF Store
<1>2. Shards' = Shards
  BY <1>1, Zenon DEF Shards
<1>3. PICK c \in Counters, e \in Entries : Adds(s, c, e)
  <2>1. PICK c, e : Adds(s, c, e)
    BY StoreAdds, Zenon
  <2>2. c \in Counters /\ e \in Entries
    BY <2>1, Zenon DEF Adds
  <2> QED
    BY <2>1, <2>2, Zenon
<1>4. Of[e].us \in 0..MaxUint /\ Added(c, Of[e]) \in 0..MaxUint
  <2>1. Of[e].us \in 0..MaxUint
    BY EntryUs, Zenon
  <2>2. 1 \in 0..MaxUint
    BY ShardStatsAssumption, SnapshotsAssumption DEF MaxUint
  <2> QED
    BY <2>1, <2>2, Zenon DEF Added
<1>5. /\ \A d \in Counters : shard'[s][d] = IF d = c THEN Combine(c, shard[s][c], Added(c, Of[e]))
                                            ELSE shard[s][d]
      /\ \A t \in Shards \ {s} : shard'[t] = shard[t]
      /\ Of' = Of /\ Entries' = Entries
  BY <1>3, Zenon DEF Adds
<1>6. \A t \in Shards, d \in Counters : shard[t][d] \in 0..MaxUint
  BY Zenon DEF WriteTypeOK, Snaps
<1>7. todo[s] \in Seq(Counters) /\ Once(todo[s])
      /\ Tail(todo[s]) \in Seq(Counters) /\ Once(Tail(todo[s]))
      /\ Range(Tail(todo[s])) \subseteq Range(todo[s])
  <2>1. todo[s] \in Seq(Counters) /\ Once(todo[s])
    BY Zenon DEF WriteTypeOK, TodoInv
  <2> QED
    BY <1>1, <2>1, HeadAndTail, Zenon
<1>8. WriteTypeOK'
  <2>1. shard' \in [Shards -> Snaps]
    <3> DEFINE h == Head(todo[s])
               v == Combine(h, shard[s][h], Added(h, log[s][Len(log[s])]))
    <3>1. shard' = [shard EXCEPT ![s][h] = v]
      BY <1>5, Zenon DEF Store, WriteTypeOK
    <3>2. shard \in [Shards -> [Counters -> 0..MaxUint]]
      BY Zenon DEF WriteTypeOK, Snaps
    <3> HIDE DEF h, v
    <3>3. DOMAIN shard' = Shards /\ \A t \in Shards : shard'[t] \in [Counters -> 0..MaxUint] \/ t = s
      BY <3>1, <3>2, Zenon
    <3>4. shard'[s] = [shard[s] EXCEPT ![h] = v]
      BY <3>1, <3>2, Zenon
    <3>5. \A d \in Counters : shard'[s][d] \in 0..MaxUint
      <4>1. Combine(c, shard[s][c], Added(c, Of[e])) \in 0..MaxUint
        BY <1>4, <1>6, CombineIs, Zenon
      <4> QED
        BY <1>5, <1>6, <4>1, Zenon
    <3>6. shard[s] \in [Counters -> 0..MaxUint]
      BY <3>2, Zenon
    <3>7. shard'[s] \in [Counters -> 0..MaxUint]
      BY <3>4, <3>5, <3>6, Zenon
    <3>8. shard' = [t \in Shards |-> shard'[t]]
      BY <3>1, <3>2, Zenon
    <3>9. \A t \in Shards : shard'[t] \in [Counters -> 0..MaxUint]
      BY <3>3, <3>7, Zenon
    <3> QED
      BY <3>8, <3>9, Zenon DEF Snaps
  <2>2. todo' \in [Shards -> Seq(Counters)]
    BY <1>1, <1>7, Zenon DEF WriteTypeOK
  <2> QED
    BY <1>1, <1>2, <2>1, <2>2, Zenon DEF WriteTypeOK
<1>9. todo'[s] = Tail(todo[s]) /\ \A t \in Shards \ {s} : todo'[t] = todo[t]
  BY <1>1, Zenon DEF WriteTypeOK
<1>10. TodoInv'
  <2>1. ASSUME NEW t \in Shards
        PROVE  Once(todo'[t]) /\ (todo'[t] # <<>> =>
                 log[t] # <<>> /\ Range(todo'[t]) \subseteq Range(Stores(log[t][Len(log[t])])))
    <3>1. CASE t = s
      <4>1. log[s] # <<>> /\ Range(todo[s]) \subseteq Range(Stores(log[s][Len(log[s])]))
        BY <1>1, Zenon DEF TodoInv
      <4> QED
        BY <1>7, <1>9, <3>1, <4>1, Zenon
    <3>2. CASE t # s
      BY <1>9, <3>2, Zenon DEF TodoInv
    <3> QED
      BY <3>1, <3>2, Zenon
  <2>2. ~done
    BY <1>1, Zenon DEF TodoInv
  <2> QED
    BY <1>1, <1>2, <1>5, <2>1, <2>2, Zenon DEF TodoInv
<1>11. /\ \A d \in Sums, L \in SUBSET Shards :
            /\ Weight'[d][L] = Weight[d][L] + (IF d = c /\ s \in L THEN Added(c, Of[e]) ELSE 0)
            /\ Weight'[d][L] \in 0..MaxUint
       /\ \A d \in Extremes, L \in SUBSET Shards :
            Applied'[d][L] = IF d = c /\ s \in L THEN Applied[d][L] \cup {e} ELSE Applied[d][L]
  BY <1>2, <1>3, AddsOne
<1>12. Grown
  <2>1. ASSUME NEW d \in Sums, NEW L \in SUBSET Shards
        PROVE  Weight[d][L] \in Nat /\ Weight'[d][L] \in Nat /\ Weight[d][L] <= Weight'[d][L]
    <3>1. Weight[d][L] \in Nat
      BY UnitsCounted
    <3>2. Weight'[d][L] = Weight[d][L] + (IF d = c /\ s \in L THEN Added(c, Of[e]) ELSE 0)
      BY <1>11, Zenon
    <3> QED
      BY <1>4, <3>1, <3>2
  <2> QED
    BY <1>2, <2>1, Zenon DEF Grown
<1>13. ASSUME NEW t \in Shards, NEW d \in Sums PROVE shard'[t][d] = Weight'[d][{t}]
  <2>1. {t} \in SUBSET Shards /\ d \in Counters /\ shard[t][d] = Weight[d][{t}]
    BY KindsOfCounters, Zenon DEF ShardInv
  <2>2. Weight[d][{t}] \in 0..MaxUint
    BY <2>1, UnitsCounted, Zenon
  <2>3. CASE t = s /\ d = c
    <3>1. Weight'[d][{t}] = Weight[d][{t}] + Added(c, Of[e]) /\ Weight'[d][{t}] \in 0..MaxUint
      BY <1>11, <2>1, <2>3, Zenon
    <3>2. shard'[t][d] = Combine(c, shard[t][d], Added(c, Of[e]))
      BY <1>5, <2>1, <2>3, Zenon
    <3>3. Added(c, Of[e]) \in 0..MaxUint
      BY <1>4, Zenon
    <3>4. Combine(d, Weight[d][{t}], Added(c, Of[e])) = Weight[d][{t}] + Added(c, Of[e])
      BY <2>2, <3>1, <3>3, CombineIs, Zenon
    <3>5. Combine(c, shard[t][d], Added(c, Of[e])) = Combine(d, Weight[d][{t}], Added(c, Of[e]))
      BY <2>1, <2>3, Zenon
    <3>6. shard'[t][d] = Weight[d][{t}] + Added(c, Of[e])
      BY <3>2, <3>4, <3>5, Zenon
    <3> QED
      BY <3>1, <3>6, Zenon
  <2>4. CASE ~(t = s /\ d = c)
    <3>1. shard'[t][d] = shard[t][d]
      BY <1>5, <2>1, <2>4, Zenon
    <3>2. Weight'[d][{t}] = Weight[d][{t}]
      BY <1>11, <2>1, <2>2, <2>4
    <3> QED
      BY <2>1, <3>1, <3>2, Zenon
  <2> QED
    BY <2>3, <2>4, Zenon
<1>14. ASSUME NEW t \in Shards, NEW d \in Extremes
       PROVE  /\ ~(t = s /\ d = c) => shard'[t][d] = shard[t][d] /\ Applied'[d][{t}] = Applied[d][{t}]
              /\ t = s /\ d = c => /\ shard'[t][d] = Combine(d, shard[t][d], Of[e].us)
                                   /\ Applied'[d][{t}] = Applied[d][{t}] \cup {e}
              /\ Applied[d][{t}] \subseteq Entries
  <2>1. {t} \in SUBSET Shards /\ d \in Counters
    BY KindsOfCounters, Zenon
  <2>2. Added(d, Of[e]) = Of[e].us
    BY Zenon DEF Added, Extremes
  <2>3. Applied'[d][{t}] = IF d = c /\ s \in {t} THEN Applied[d][{t}] \cup {e} ELSE Applied[d][{t}]
    BY <1>11, <2>1, Zenon
  <2>4. shard'[t][d] = IF t = s /\ d = c THEN Combine(c, shard[t][d], Added(d, Of[e])) ELSE shard[t][d]
    BY <1>5, <2>1, Zenon
  <2>5. Applied[d][{t}] \subseteq Entries
    BY <2>1, Zenon DEF Applied
  <2> QED
    BY <2>2, <2>3, <2>4, <2>5, Zenon
<1>15. \A d \in Entries : Of[d].us \in Nat
  BY EntryUs, Zenon
<1>16. \A x \in 0..MaxUint : x \in Nat /\ x <= MaxUint
  BY SnapshotsAssumption DEF MaxUint
<1>17. ASSUME NEW t \in Shards
       PROVE  IsMax(shard'[t][Total("maxUs")], Of, Applied'[Total("maxUs")][{t}])
  <2> DEFINE d == Total("maxUs")
  <2>1. d \in Extremes /\ d \in Counters
    BY KindsOfCounters, Zenon DEF Extremes
  <2>2. IsMax(shard[t][d], Of, Applied[d][{t}])
    BY Zenon DEF ShardInv
  <2>3. shard[t][d] \in Nat /\ Of[e].us \in Nat
    BY <1>4, <1>6, <1>16, <2>1, Zenon
  <2>4. IsMax(Of[e].us, Of, {e})
    BY <2>3 DEF IsMax
  <2>5. \A f \in Applied[d][{t}] \cup {e} : Of[f].us \in Nat
    BY <1>14, <1>15, <2>1, Zenon
  <2>6. IsMax(Larger(shard[t][d], Of[e].us), Of, Applied[d][{t}] \cup {e})
    BY <2>2, <2>3, <2>4, <2>5, Joined
  <2>7. Combine(d, shard[t][d], Of[e].us) = Larger(shard[t][d], Of[e].us)
    BY CombineIs, Zenon
  <2> HIDE DEF d
  <2>8. IsMax(shard'[t][d], Of, Applied'[d][{t}])
    <3>1. CASE t = s /\ d = c
      BY <1>14, <2>1, <2>6, <2>7, <3>1, Zenon
    <3>2. CASE ~(t = s /\ d = c)
      BY <1>14, <2>1, <2>2, <3>2, Zenon
    <3> QED
      BY <3>1, <3>2
  <2> QED
    BY <2>8, Zenon DEF d
<1>18. ASSUME NEW t \in Shards
       PROVE  IsMin(shard'[t][Total("minUs")], Of, Applied'[Total("minUs")][{t}])
  <2> DEFINE d == Total("minUs")
  <2>1. d \in Extremes /\ d \in Counters
    BY KindsOfCounters, Zenon DEF Extremes
  <2>2. IsMin(shard[t][d], Of, Applied[d][{t}])
    BY Zenon DEF ShardInv
  <2>3. shard[t][d] \in Nat /\ Of[e].us \in Nat /\ shard[t][d] <= MaxUint /\ Of[e].us <= MaxUint
    BY <1>4, <1>6, <1>16, <2>1, Zenon
  <2>4. IsMin(Of[e].us, Of, {e})
    BY <2>3 DEF IsMin
  <2>5. \A f \in Applied[d][{t}] \cup {e} : Of[f].us \in Nat
    BY <1>14, <1>15, <2>1, Zenon
  <2>6. IsMin(Smaller(shard[t][d], Of[e].us), Of, Applied[d][{t}] \cup {e})
    BY <2>2, <2>3, <2>4, <2>5, Joined
  <2>7. Combine(d, shard[t][d], Of[e].us) = Smaller(shard[t][d], Of[e].us)
    BY CombineIs, Zenon
  <2> HIDE DEF d
  <2>8. IsMin(shard'[t][d], Of, Applied'[d][{t}])
    <3>1. CASE t = s /\ d = c
      BY <1>14, <2>1, <2>6, <2>7, <3>1, Zenon
    <3>2. CASE ~(t = s /\ d = c)
      BY <1>14, <2>1, <2>2, <3>2, Zenon
    <3> QED
      BY <3>1, <3>2, Zenon
  <2> QED
    BY <2>8, Zenon DEF d
<1>19. ShardInv'
  BY <1>2, <1>5, <1>13, <1>17, <1>18, Zenon DEF ShardInv
<1> QED
  BY <1>8, <1>10, <1>12, <1>19

Same ==
  /\ Shards' = Shards /\ Entries' = Entries /\ Of' = Of /\ Waiting' = Waiting
  /\ Applied' = Applied /\ Units' = Units /\ Weight' = Weight

LEMMA Unwritten ==
  ASSUME UNCHANGED <<pool, shard, log, todo>>
  PROVE  Same
<1>1. pool' = pool /\ shard' = shard /\ log' = log /\ todo' = todo
  OBVIOUS
<1>2. Shards' = Shards /\ Entries' = Entries
  BY <1>1, Zenon DEF Shards, Entries
<1>3. Of' = Of /\ Waiting' = Waiting
  BY <1>1, <1>2, Zenon DEF Of, Made, Waiting
<1>4. Applied' = Applied /\ Units' = Units
  BY <1>2, <1>3, Zenon DEF Applied, Units
<1>5. Weight' = Weight
  BY <1>2, <1>4, Zenon DEF Weight
<1> QED
  BY <1>2, <1>3, <1>4, <1>5, Zenon DEF Same

LEMMA ReaderKeeps ==
  ASSUME WriteInv, UNCHANGED writeVars
  PROVE  WriteInv' /\ Same
<1>1. pool' = pool /\ shard' = shard /\ log' = log /\ todo' = todo /\ done' = done
  BY Zenon DEF writeVars
<1>2. Same
  BY <1>1, Unwritten, Zenon
<1>3. WriteTypeOK'
  BY <1>1, <1>2, Zenon DEF Same, WriteTypeOK, WriteInv
<1>4. TodoInv'
  BY <1>1, <1>2, Zenon DEF Same, TodoInv, WriteInv
<1>5. ShardInv'
  BY <1>1, <1>2, Zenon DEF Same, ShardInv, WriteInv
<1> QED
  BY <1>2, <1>3, <1>4, <1>5, Zenon DEF WriteInv

LEMMA FinishKeeps ==
  ASSUME WriteInv, Finish
  PROVE  WriteInv' /\ Grown /\ Same
<1>1. /\ pool' = pool /\ shard' = shard /\ log' = log /\ todo' = todo /\ done' = TRUE
      /\ \A s \in Shards : todo[s] = <<>>
  BY Zenon DEF Finish
<1>2. Same
  BY <1>1, Unwritten, Zenon
<1>3. WriteTypeOK'
  BY <1>1, <1>2, Zenon DEF Same, WriteTypeOK, WriteInv
<1>4. TodoInv'
  BY <1>1, <1>2, Zenon DEF Same, TodoInv, WriteInv
<1>5. ShardInv'
  BY <1>1, <1>2, Zenon DEF Same, ShardInv, WriteInv
<1>6. Grown
  <2>1. ASSUME NEW c \in Sums, NEW L \in SUBSET Shards
        PROVE  Weight[c][L] \in Nat /\ Weight[c][L] <= Weight[c][L]
    <3>1. Weight[c][L] \in 0..MaxUint
      BY UnitsCounted, Zenon DEF WriteInv
    <3> QED
      BY <3>1
  <2> QED
    BY <1>2, <2>1, Zenon DEF Grown, Same
<1> QED
  BY <1>2, <1>3, <1>4, <1>5, <1>6, Zenon DEF WriteInv
=============================================================================
