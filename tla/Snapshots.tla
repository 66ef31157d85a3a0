----------------------------- MODULE Snapshots ------------------------------
(***************************************************************************)
(* The values of titanload's stats package: the latency buckets and the    *)
(* Snapshot with Merge, Sub and Percentile.  A shard has the same counters *)
(* and is modelled by the same function, from counters to numbers.         *)
(*                                                                         *)
(* The bounds of the buckets are growth^i microseconds in the code; here   *)
(* they are any increasing numbers, no two of which in a row differ by     *)
(* more than Growth.  The byte counter is left out, it is a sum like SumUs.*)
(***************************************************************************)
EXTENDS Transport, Integers, FiniteSetsExt, Functions

CONSTANTS
  NumBuckets,  \* NumBuckets
  Bounds,      \* the upper bound of each bucket, that of the first is 1us
  Growth,      \* growth, in percent
  W            \* counters are unsigned integers modulo W, 2^64 in the code

Buckets == 0..(NumBuckets - 1)

ASSUME SnapshotsAssumption ==
  /\ NumBuckets \in Nat \ {0, 1, 2} /\ W \in Nat \ {0} /\ Growth \in Nat
  /\ Bounds \in [Buckets -> Nat \ {0}]
  /\ \A i \in Buckets \ {0} :
       Bounds[i - 1] < Bounds[i] /\ 100 * Bounds[i] <= Growth * Bounds[i - 1]

ClassOther == 5
Classes == 0..ClassOther
MaxUint == W - 1

\* The bucket of a latency; the last one has no upper bound.
bucketFor(us) ==
  IF us < Bounds[0] THEN 0
  ELSE IF us >= Bounds[NumBuckets - 2] THEN NumBuckets - 1
  ELSE CHOOSE i \in Buckets \ {0} : Bounds[i - 1] <= us /\ us < Bounds[i]

BucketUpper(i) == Bounds[i]

\* The counters that are sums, and all of them.
Total(f) == <<"total", f>>
Sums ==
  ({"hist"} \X Buckets) \cup ({"class"} \X Classes) \cup ({"err"} \X Kinds)
    \cup ({"total"} \X {"requests", "failures", "sumUs"})
Counters == Sums \cup {Total("maxUs"), Total("minUs")}

NewSnapshot == [c \in Counters |-> IF c = Total("minUs") THEN MaxUint ELSE 0]

Plus(a, b) == (a + b) % W
Minus(a, b) == (a - b) % W
Larger(a, b) == IF a > b THEN a ELSE b
Smaller(a, b) == IF a < b THEN a ELSE b

\* What a counter that is a becomes with b.
Combine(c, a, b) ==
  CASE c = Total("maxUs") -> Larger(a, b)
    [] c = Total("minUs") -> Smaller(a, b)
    [] OTHER              -> Plus(a, b)

\* The maximum is that of the snapshot merged last.
MergeLastMax(sn, o) ==
  [c \in Counters |-> IF c = Total("maxUs") THEN o[c] ELSE Combine(c, sn[c], o[c])]

\* The minimum of a snapshot without requests says nothing.
Merge(sn, o) ==
  [c \in Counters |->
     IF c = Total("minUs") /\ o[Total("requests")] = 0 THEN sn[c]
     ELSE Combine(c, sn[c], o[c])]

\* prev - sn
SubSwapped(sn, prev) ==
  [c \in Counters |-> IF c \in Sums THEN Minus(prev[c], sn[c]) ELSE sn[c]]

\* The delta between two snapshots; minimum and maximum stay those of sn.
Sub(sn, prev) ==
  [c \in Counters |-> IF c \in Sums THEN Minus(sn[c], prev[c]) ELSE sn[c]]

\* ceil(q * total) for q in per mille, at least 1
Rank(q, total) == Larger(1, (q * total + 999) \div 1000)

\* How many requests are in the buckets up to b.
Upto(sn, b) == SumFunctionOnSet(sn, {"hist"} \X (0..b))

\* The bucket in which the request of that rank is.
RankBucket(sn, q) ==
  LET rank == Rank(q, Upto(sn, NumBuckets - 1))
  IN Min({b \in Buckets : Upto(sn, b) >= rank})

\* The bound of the bucket is reported as it is.
PercentileUncapped(sn, q) ==
  IF Upto(sn, NumBuckets - 1) = 0 THEN 0 ELSE BucketUpper(RankBucket(sn, q))

\* The upper bound of that bucket, but never above the maximum seen.
Percentile(sn, q) ==
  IF Upto(sn, NumBuckets - 1) = 0 THEN 0
  ELSE IF sn[Total("maxUs")] > 0
       THEN Smaller(BucketUpper(RankBucket(sn, q)), sn[Total("maxUs")])
       ELSE BucketUpper(RankBucket(sn, q))
=============================================================================
