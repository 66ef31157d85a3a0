-------------------------- MODULE ShardStatsProofs --------------------------
(***************************************************************************)
(* The inductive invariant of ShardStats and the theorems that follow: for *)
(* any number of goroutines, requests, ticks and buckets, and any bounds   *)
(* of the buckets, ticks never wrap, a torn histogram is ahead of the      *)
(* requests by little, and what the report and the merged snapshots say,   *)
(* in counters, percentiles and the verdict, is what was done.             *)
(***************************************************************************)
EXTENDS ShardStatsSteps

(* The invariant, and what it says of the ticks.                           *)

\* The exit code is what the gates said of the report.
VerdictInv ==
  verdict # None =>
    /\ verdict.exit = 0 => ~Check(verdict.slo, report, verdict.elapsed)
    /\ verdict.exit = 2 => Check(verdict.slo, report, verdict.elapsed)

StatsInv == WriteInv /\ ReadTypeOK /\ ReadInv /\ FinalInv /\ LagInv /\ VerdictInv

LEMMA StatsInvInit == Init => StatsInv
<1> SUFFICES ASSUME Init PROVE StatsInv
  OBVIOUS
<1>1. /\ pool \in 1..MaxShards /\ shard = [s \in Shards |-> NewSnapshot]
      /\ log = [s \in Shards |-> <<>>] /\ todo = [s \in Shards |-> <<>>] /\ done = FALSE
      /\ reading = NewSnapshot /\ from = pool + 1 /\ next = 1 /\ reader = "idle"
      /\ prev = None /\ interval = None /\ ticks = 0 /\ report = None /\ verdict = None
  BY Zenon DEF Init
<1>2. pool \in Nat /\ pool + 1 \in 1..(pool + 1)
  BY <1>1, ShardStatsAssumption
<1>3. WriteTypeOK
  <2>1. shard \in [Shards -> Snaps]
    BY <1>1, NewSnapshotIs, Zenon
  <2>2. log \in [Shards -> Seq(Requests)] /\ todo \in [Shards -> Seq(Counters)]
    BY <1>1
  <2> QED
    BY <1>1, <2>1, <2>2, Zenon DEF WriteTypeOK
<1>4. 1 \in 1..Len(Loads)
  BY LoadsAre, SnapshotsAssumption
<1>5. ReadTypeOK
  BY <1>1, <1>2, <1>4, NewSnapshotIs, Zenon DEF ReadTypeOK
<1>6. \A s \in Shards : shard[s] = NewSnapshot /\ log[s] = <<>> /\ todo[s] = <<>>
  BY <1>1, Zenon
<1>7. Entries = {}
  BY <1>6 DEF Entries
<1>8. TodoInv
  <2>1. IsFiniteSet(Entries) /\ Cardinality(Entries) <= MaxRecords
    <3>1. IsFiniteSet({}) /\ Cardinality({}) = 0
      BY FS_EmptySet, Zenon
    <3> QED
      BY <1>7, <3>1, ShardStatsAssumption
  <2>2. \A s \in Shards : Once(todo[s])
    BY <1>6 DEF Once
  <2> QED
    BY <1>6, <2>1, <2>2, Zenon DEF TodoInv
<1>9. ShardInv
  <2>1. ASSUME NEW s \in Shards
        PROVE  /\ \A c \in Sums : shard[s][c] = Weight[c][{s}]
               /\ IsMax(shard[s][Total("maxUs")], Of, Applied[Total("maxUs")][{s}])
               /\ IsMin(shard[s][Total("minUs")], Of, Applied[Total("minUs")][{s}])
    <3>1. {s} \in SUBSET Shards
      OBVIOUS
    <3>2. ASSUME NEW c \in Sums PROVE shard[s][c] = Weight[c][{s}]
      <4>1. Units[c][{s}] = {}
        BY <1>7, <3>1, Zenon DEF Units
      <4>2. Weight[c][{s}] = Cardinality(Units[c][{s}])
        BY <3>1, Zenon DEF Weight
      <4> QED
        BY <1>6, <4>1, <4>2, NewSnapshotIs, FS_EmptySet, Zenon
    <3>3. \A c \in Extremes : Applied[c][{s}] = {}
      BY <1>7, <3>1, KindsOfCounters, Zenon DEF Applied
    <3>4. Total("maxUs") \in Extremes /\ Total("minUs") \in Extremes
      BY Zenon DEF Extremes
    <3>5. IsMax(0, Of, {}) /\ IsMin(MaxUint, Of, {})
      BY Zenon DEF IsMax, IsMin
    <3>6. shard[s][Total("maxUs")] = 0 /\ shard[s][Total("minUs")] = MaxUint
      BY <1>6, NewSnapshotIs, Zenon
    <3> QED
      BY <3>2, <3>3, <3>4, <3>5, <3>6, Zenon
  <2> QED
    BY <2>1, Zenon DEF ShardInv
<1>10. ReadInv
  BY <1>1, Zenon DEF ReadInv, TicksAreCumulative
<1>11. FinalInv
  BY <1>1, Zenon DEF FinalInv
<1>12. LagInv /\ VerdictInv
  BY <1>1, Zenon DEF LagInv, VerdictInv
<1> QED
  BY <1>3, <1>5, <1>8, <1>9, <1>10, <1>11, <1>12 DEF StatsInv, WriteInv

LEMMA VerdictKept ==
  ASSUME VerdictInv, verdict' = verdict, report' = report
  PROVE  VerdictInv'
BY Zenon DEF VerdictInv

LEMMA StatsInvWrites ==
  ASSUME StatsInv, Finish \/ \E s \in Shards : Record(s) \/ Store(s)
  PROVE  StatsInv'
<1> USE DEF StatsInv
<1>1. UNCHANGED <<pool, readVars>>
  BY Zenon DEF Finish, Record, Store
<1>2. WriteInv' /\ Grown
  BY FinishKeeps, RecordKeeps, StoreKeeps, Zenon
<1>3. ~done
  <2>1. ASSUME NEW s \in Shards, Store(s) PROVE ~done
    BY <2>1, Zenon DEF Store, WriteInv, TodoInv
  <2> QED
    BY <2>1, Zenon DEF Finish, Record
<1>4. ReadTypeOK' /\ ReadInv' /\ FinalInv'
  BY <1>1, <1>2, <1>3, ReadsByWriter
<1>5. LagInv'
  BY <1>1, <1>2, LagWrites, Zenon
<1>6. VerdictInv'
  <2>1. verdict' = verdict /\ report' = report
    BY <1>1, Zenon DEF readVars
  <2> QED
    BY <2>1, VerdictKept, Zenon
<1> QED
  BY <1>2, <1>4, <1>5, <1>6

LEMMA StatsInvReads ==
  ASSUME StatsInv, StartTick \/ Load \/ Tick \/ StartReport
  PROVE  StatsInv'
<1> USE DEF StatsInv
<1>1. UNCHANGED writeVars /\ verdict' = verdict /\ report' = report
  BY Zenon DEF StartTick, StartReport, StartSnapshot, Load, Tick
<1>2. WriteInv'
  BY <1>1, ReaderKeeps, Zenon
<1>3. ReadTypeOK' /\ ReadInv' /\ FinalInv'
  BY StartReads, LoadReads, TickReads, Zenon
<1>4. LagInv'
  BY LagStart, LagLoad, LagTick, Zenon
<1>5. VerdictInv'
  BY <1>1, VerdictKept, Zenon
<1> QED
  BY <1>2, <1>3, <1>4, <1>5

LEMMA StatsInvReport ==
  ASSUME StatsInv, Report
  PROVE  StatsInv'
<1> USE DEF StatsInv
<1>1. UNCHANGED writeVars /\ report' = reading /\ reader' = "ended" /\ prev' = prev
  BY Zenon DEF Report
<1>2. WriteInv' /\ Same /\ log' = log
  BY <1>1, ReaderKeeps, Zenon DEF writeVars
<1>3. ReadTypeOK' /\ ReadInv' /\ FinalInv'
  BY ReportReads, Zenon
<1>4. LagInv'
  <2>1. Active' = Active
    BY <1>2, Zenon DEF Active, Same
  <2>2. reader' # "tick"
    BY <1>1, Zenon
  <2> QED
    BY <1>1, <2>1, <2>2, Zenon DEF LagInv
<1>5. VerdictInv'
  <2>1. PICK slo \in SLOs, elapsed \in Elapsed, written \in BOOLEAN :
          verdict' = [slo |-> slo, elapsed |-> elapsed,
                      exit |-> IF ~written THEN 1
                               ELSE IF Check(slo, reading, elapsed) THEN 2 ELSE 0]
    BY Zenon DEF Report
  <2>2. /\ verdict'.slo = slo /\ verdict'.elapsed = elapsed
        /\ verdict'.exit = 0 => ~Check(slo, reading, elapsed)
        /\ verdict'.exit = 2 => Check(slo, reading, elapsed)
    BY <2>1
  <2>3. /\ verdict'.exit = 0 => ~Check(verdict'.slo, report', verdict'.elapsed)
        /\ verdict'.exit = 2 => Check(verdict'.slo, report', verdict'.elapsed)
    BY <1>1, <2>2, Zenon
  <2> QED
    BY <2>3, Zenon DEF VerdictInv
<1> QED
  BY <1>2, <1>3, <1>4, <1>5

\* The invariant of recording and reading: Record has come to each counter of a
\* request once, a shard has what Record added, a snapshot what it has read.
THEOREM StatsInvariant == Spec => []StatsInv
<1>1. StatsInv /\ [Next]_vars => StatsInv'
  <2> SUFFICES ASSUME StatsInv, [Next]_vars PROVE StatsInv'
    OBVIOUS
  <2>1. CASE Finish \/ \E s \in Shards : Record(s) \/ Store(s)
    BY <2>1, StatsInvWrites
  <2>2. CASE StartTick \/ Load \/ Tick \/ StartReport
    BY <2>2, StatsInvReads
  <2>3. CASE Report
    BY <2>3, StatsInvReport, Zenon
  <2>4. CASE UNCHANGED vars
    <3>1. UNCHANGED writeVars /\ UNCHANGED readVars
      BY <2>4, Zenon DEF vars
    <3>2. /\ pool' = pool /\ reading' = reading /\ from' = from /\ next' = next /\ reader' = reader
          /\ prev' = prev /\ interval' = interval /\ ticks' = ticks /\ report' = report
          /\ verdict' = verdict /\ done' = done /\ log' = log
      BY <3>1, Zenon DEF readVars, writeVars
    <3>3. WriteInv' /\ Same
      BY <3>1, ReaderKeeps, Zenon DEF StatsInv
    <3>4. ReadTypeOK'
      BY <3>2, Zenon DEF StatsInv, ReadTypeOK
    <3>5. Seen' = Seen /\ Active' = Active /\ Ahead' = Ahead
      BY <3>2, <3>3, Zenon DEF Seen, Active, Ahead, Same
    <3>6. ReadInv'
      BY <3>2, <3>3, <3>5, Zenon DEF StatsInv, ReadInv, TicksAreCumulative, Same
    <3>7. FinalInv'
      BY <3>2, <3>3, <3>5, Zenon DEF StatsInv, FinalInv, Complete, Same
    <3>8. LagInv'
      BY <3>2, <3>5, Zenon DEF StatsInv, LagInv
    <3>9. VerdictInv'
      BY <3>2, VerdictKept, Zenon DEF StatsInv
    <3> QED
      BY <3>3, <3>4, <3>6, <3>7, <3>8, <3>9 DEF StatsInv
  <2> QED
    BY <2>1, <2>2, <2>3, <2>4 DEF Next, Rest
<1> QED
  BY <1>1, StatsInvInit, PTL DEF Spec

\* The types, and every counter is an unsigned integer of its width.
THEOREM StatsTypeCorrect == Spec => []TypeOK
<1>1. StatsInv => TypeOK
  BY DEF StatsInv, WriteInv, TypeOK
<1> QED
  BY <1>1, StatsInvariant, PTL

\* No tick of the dashboard wraps around, whatever the goroutines do between
\* its loads and between the ticks.
THEOREM TicksNeverWrap == Spec => []TicksAreCumulative
<1>1. StatsInv => TicksAreCumulative
  BY DEF StatsInv, ReadInv
<1> QED
  BY <1>1, StatsInvariant, PTL

\* The histogram of a torn snapshot is ahead of its request counter by at most
\* one request for each goroutine that has recorded any.
THEOREM HistogramLagsLittle == Spec => []HistogramLag
<1>1. StatsInv => HistogramLag
  BY Zenon DEF StatsInv, LagInv, HistogramLag, Upto, Hists, Active
<1> QED
  BY <1>1, StatsInvariant, PTL

-----------------------------------------------------------------------------
(* The report.                                                             *)

\* After done nothing waits, and the units are those of the requests made.
LEMMA AllApplied ==
  ASSUME WriteInv, done
  PROVE  /\ Waiting = {}
         /\ \A c \in Counters, L \in SUBSET Shards : Applied[c][L] = {e \in Entries : e[1] \in L}
         /\ \A c \in Counters : Applied[c][Shards] = Entries
<1>1. \A s \in Shards : todo[s] = <<>>
  BY Zenon DEF WriteInv, TodoInv
<1>2. \A e \in Entries : e[1] \in Shards
  BY EntryIs, Zenon DEF WriteInv
<1>3. \A s \in Shards : Range(todo[s]) = {}
  BY <1>1 DEF Range
<1>4. Waiting = {}
  <2>1. ASSUME NEW w \in Waiting PROVE FALSE
    <3>1. w[2] \in Entries /\ w[1] \in Range(todo[w[2][1]])
      BY Zenon DEF Waiting
    <3> QED
      BY <1>2, <1>3, <3>1, Zenon
  <2> QED
    BY <2>1, Zenon
<1>5. \A c \in Counters, L \in SUBSET Shards : Applied[c][L] = {e \in Entries : e[1] \in L}
  BY <1>4, Zenon DEF Applied
<1>6. ASSUME NEW c \in Counters PROVE Applied[c][Shards] = Entries
  <2>1. Shards \in SUBSET Shards
    OBVIOUS
  <2>2. Applied[c][Shards] = {e \in Entries : e[1] \in Shards}
    BY <1>5, <2>1, Zenon
  <2> QED
    BY <1>2, <2>2
<1> QED
  BY <1>4, <1>5, <1>6

LEMMA FinalWeight ==
  ASSUME WriteInv, done, NEW c \in Sums
  PROVE  Weight[c][Shards] = SumFunction([e \in Entries |-> Amount(c, Made(e))])
<1> DEFINE f == [e \in Entries |-> Amount(c, Made(e))]
<1>1. \A e \in Entries : f[e] = Amount(c, Of[e]) /\ f[e] \in 0..MaxUs
  <2>1. \A e \in Entries : Of[e] = Made(e) /\ Of[e] \in Requests
    BY EntryIs, Zenon DEF Of, WriteInv
  <2>2. \A e \in Entries : Amount(c, Of[e]) \in 0..MaxUs
    BY <2>1, StoresRight, Zenon
  <2> QED
    BY <2>1, <2>2, Zenon
<1>2. MaxUs \in Nat /\ IsFiniteSet(Entries)
  BY ShardStatsAssumption, SnapshotsAssumption DEF WriteInv, TodoInv, MaxUint
<1>3. SumFunction(f) = SumFunctionOnSet(f, Entries)
  BY Zenon DEF SumFunction
<1> HIDE DEF f
<1>4. \A e \in Entries : f[e] \in Nat
  BY <1>1, <1>2
<1>5. SumFunctionOnSet(f, Entries) = Cardinality(UnitsOf(f, Entries))
  BY <1>2, <1>4, SumIsCount, Zenon
<1>6. Shards \in SUBSET Shards /\ Waiting = {} /\ \A e \in Entries : e[1] \in Shards
  BY AllApplied, EntryIs, Zenon DEF WriteInv
<1>7. Units[c][Shards] = {u \in Entries \X (1..MaxUs) :
                            u[1][1] \in Shards /\ <<c, u[1]>> \notin Waiting /\ u[2] <= Amount(c, Of[u[1]])}
  BY <1>6, Zenon DEF Units
<1>8. Units[c][Shards] = {u \in Entries \X (1..MaxUs) : u[2] <= f[u[1]]}
  BY <1>1, <1>6, <1>7
<1>9. UnitsOf(f, Entries) = {u \in Entries \X (1..MaxUs) : u[2] <= f[u[1]]}
  <2>1. ASSUME NEW e \in Entries, NEW k \in Nat PROVE k # 0 /\ k <= f[e] <=> k \in 1..MaxUs /\ k <= f[e]
    BY <1>1, <1>2
  <2> QED
    BY <1>2, <2>1 DEF UnitsOf
<1>10. Weight[c][Shards] = Cardinality(Units[c][Shards])
  BY <1>6, Zenon DEF Weight
<1> QED
  BY <1>3, <1>5, <1>8, <1>9, <1>10, Zenon DEF f

\* A snapshot that has all that the shards have is exact.
LEMMA CompleteIsExact ==
  ASSUME WriteInv, done, NEW sn \in Snaps, Complete(sn, [c \in Counters |-> Shards])
  PROVE  sn = Exact
<1> DEFINE all == [c \in Counters |-> Shards]
<1>1. Total("maxUs") \in Counters /\ Total("minUs") \in Counters /\ Sums \subseteq Counters
      /\ Total("maxUs") # Total("minUs")
      /\ \A c \in Sums : c # Total("maxUs") /\ c # Total("minUs")
  BY KindsOfCounters, Zenon DEF Extremes
<1>2. \A c \in Sums : sn[c] = Weight[c][Shards]
  <2>1. \A c \in Sums : sn[c] = Weight[c][all[c]]
    BY Zenon DEF Complete
  <2>2. \A c \in Sums : all[c] = Shards
    BY <1>1, Zenon
  <2> HIDE DEF all
  <2> QED
    BY <2>1, <2>2, Zenon
<1>3. IsMax(sn[Total("maxUs")], Of, Entries) /\ IsMin(sn[Total("minUs")], Of, Entries)
  <2>1. \A c \in Counters : Applied[c][Shards] = Entries
    BY AllApplied, Zenon
  <2>2. all[Total("maxUs")] = Shards /\ all[Total("minUs")] = Shards
    BY <1>1, Zenon
  <2>3. /\ IsMax(sn[Total("maxUs")], Of, Applied[Total("maxUs")][all[Total("maxUs")]])
        /\ IsMin(sn[Total("minUs")], Of, Applied[Total("minUs")][all[Total("minUs")]])
    BY Zenon DEF Complete
  <2> HIDE DEF all
  <2> QED
    BY <1>1, <2>1, <2>2, <2>3, Zenon
<1>4. \A e \in Entries : Of[e] = Made(e) /\ Of[e].us \in 0..MaxUint
  BY EntryUs, Zenon DEF WriteInv, Of
<1>5. MaxUint \in Nat /\ sn[Total("maxUs")] \in 0..MaxUint /\ sn[Total("minUs")] \in 0..MaxUint
  BY <1>1, SnapshotsAssumption DEF Snaps, MaxUint
<1>6. Latencies = {Of[e].us : e \in Entries} /\ Latencies \subseteq 0..MaxUint
  BY <1>4, Zenon DEF Latencies
<1>7. sn[Total("maxUs")] = Max(Latencies \cup {0})
  <2> DEFINE m == sn[Total("maxUs")]
             S == Latencies \cup {0}
  <2>1. S \in SUBSET Int
    BY <1>5, <1>6
  <2>2. m \in S
    BY <1>3, <1>6, Zenon DEF IsMax
  <2>3. \A y \in S : y <= m
    BY <1>3, <1>5, <1>6 DEF IsMax
  <2> HIDE DEF m, S
  <2>4. Max(S) = m
    BY <2>1, <2>2, <2>3, MaxIs
  <2> QED
    BY <2>4, Zenon DEF m, S
<1>8. sn[Total("minUs")] = Min(Latencies \cup {MaxUint})
  <2> DEFINE m == sn[Total("minUs")]
             S == Latencies \cup {MaxUint}
  <2>1. S \in SUBSET Int
    BY <1>5, <1>6
  <2>2. m \in S
    BY <1>3, <1>6 DEF IsMin
  <2>3. \A y \in S : m <= y
    BY <1>3, <1>5, <1>6 DEF IsMin
  <2> HIDE DEF m, S
  <2>4. Min(S) = m
    BY <2>1, <2>2, <2>3, MinIs
  <2> QED
    BY <2>4, Zenon DEF m, S
<1>9. ASSUME NEW c \in Counters PROVE sn[c] = Exact[c]
  <2>1. CASE c = Total("maxUs")
    BY <1>1, <1>7, <2>1, Zenon DEF Exact
  <2>2. CASE c = Total("minUs")
    BY <1>1, <1>8, <2>2, Zenon DEF Exact
  <2>3. CASE c \in Sums
    <3>1. sn[c] = SumFunction([e \in Entries |-> Amount(c, Made(e))])
      BY <1>2, <2>3, FinalWeight, Zenon
    <3>2. c # Total("maxUs") /\ c # Total("minUs")
      BY <1>1, <2>3, Zenon
    <3> QED
      BY <3>1, <3>2, Zenon DEF Exact
  <2>4. c \in Sums \/ c = Total("maxUs") \/ c = Total("minUs")
    BY Zenon DEF Counters
  <2> QED
    BY <2>1, <2>2, <2>3, <2>4, Zenon
<1>10. sn = [c \in Counters |-> sn[c]] /\ Exact = [c \in Counters |-> Exact[c]]
  <2>1. sn = [c \in Counters |-> sn[c]]
    BY Zenon DEF Snaps
  <2>2. Exact = [c \in Counters |-> Exact[c]]
    BY SMT DEF Exact
  <2> QED
    BY <2>1, <2>2, Zenon
<1> QED
  BY <1>9, <1>10, Zenon

\* The report is exact: it has every request once in each of its counters,
\* although goroutines record without a lock, for any number of them.
THEOREM ReportIsExact == Spec => []FinalExact
<1>1. StatsInv => FinalExact
  <2> SUFFICES ASSUME StatsInv, report # None PROVE report = Exact
    BY Zenon DEF FinalExact
  <2>1. done /\ report \in Snaps /\ Complete(report, [c \in Counters |-> Shards])
    BY Zenon DEF StatsInv, FinalInv
  <2> QED
    BY <2>1, CompleteIsExact, Zenon DEF StatsInv
<1> QED
  BY <1>1, StatsInvariant, PTL

\* Extremes and complete snapshots are determined by what they are about.
LEMMA OneExtreme ==
  ASSUME NEW of, NEW E, \A e \in E : of[e].us \in 0..MaxUint,
         NEW a \in 0..MaxUint, NEW b \in 0..MaxUint
  PROVE  /\ IsMax(a, of, E) /\ IsMax(b, of, E) => a = b
         /\ IsMin(a, of, E) /\ IsMin(b, of, E) => a = b
<1>1. MaxUint \in Nat
  BY SnapshotsAssumption DEF MaxUint
<1> QED
  BY <1>1 DEF IsMax, IsMin

LEMMA OneComplete ==
  ASSUME WriteInv, NEW sn \in Snaps, NEW o \in Snaps, NEW L \in SUBSET Shards,
         Complete(sn, [c \in Counters |-> L]), Complete(o, [c \in Counters |-> L])
  PROVE  sn = o
<1> DEFINE seen == [c \in Counters |-> L]
           max == Total("maxUs")
           min == Total("minUs")
<1>1. /\ max \in Counters /\ min \in Counters /\ Sums \subseteq Counters
      /\ \A c \in Counters : c \in Sums \/ c = max \/ c = min
  BY Zenon DEF Counters
<1>2. \A c \in Counters : seen[c] = L
  OBVIOUS
<1>3. /\ \A c \in Sums : sn[c] = Weight[c][seen[c]] /\ o[c] = Weight[c][seen[c]]
      /\ IsMax(sn[max], Of, Applied[max][seen[max]]) /\ IsMax(o[max], Of, Applied[max][seen[max]])
      /\ IsMin(sn[min], Of, Applied[min][seen[min]]) /\ IsMin(o[min], Of, Applied[min][seen[min]])
  BY Zenon DEF Complete
<1>4. \A c \in Counters : sn[c] \in 0..MaxUint /\ o[c] \in 0..MaxUint
  BY Zenon DEF Snaps
<1>5. sn = [c \in Counters |-> sn[c]] /\ o = [c \in Counters |-> o[c]]
  BY Zenon DEF Snaps
<1> HIDE DEF seen, max, min
<1>6. \A c \in Counters : Applied[c][seen[c]] \subseteq Entries
  BY <1>2, Zenon DEF Applied
<1>7. \A e \in Entries : Of[e].us \in 0..MaxUint
  BY EntryUs, Zenon DEF WriteInv
<1>8. \A e \in Applied[max][seen[max]] : Of[e].us \in 0..MaxUint
  BY <1>1, <1>6, <1>7, Zenon
<1>9. \A e \in Applied[min][seen[min]] : Of[e].us \in 0..MaxUint
  BY <1>1, <1>6, <1>7, Zenon
<1>10. sn[max] = o[max]
  BY <1>1, <1>3, <1>4, <1>8, OneExtreme
<1>11. sn[min] = o[min]
  BY <1>1, <1>3, <1>4, <1>9, OneExtreme
<1>12. \A c \in Counters : sn[c] = o[c]
  BY <1>1, <1>3, <1>10, <1>11, Zenon
<1> QED
  BY <1>5, <1>12, Zenon

\* A shard that counts no request has none, once nothing waits.
LEMMA NoRequests ==
  ASSUME WriteInv, done, NEW s \in Shards, Weight[Total("requests")][{s}] = 0
  PROVE  Applied[Total("minUs")][{s}] = {}
<1> DEFINE req == Total("requests")
<1>1. /\ req \in Sums /\ Total("minUs") \in Counters /\ {s} \in SUBSET Shards
      /\ req[1] = "total" /\ req[2] = "requests"
  BY KindsOfCounters, Zenon DEF Extremes, Total
<1>2. Waiting = {} /\ Applied[Total("minUs")][{s}] = {e \in Entries : e[1] \in {s}}
  BY <1>1, AllApplied, Zenon
<1>3. \A e \in Entries : Amount(req, Of[e]) = 1
  BY Zenon DEF Amount, Total
<1>4. ASSUME NEW e \in Entries, e[1] \in {s} PROVE FALSE
  <2>1. Units[req][{s}] = {u \in Entries \X (1..MaxUs) :
                             u[1][1] \in {s} /\ <<req, u[1]>> \notin Waiting /\ u[2] <= Amount(req, Of[u[1]])}
    BY <1>1, Zenon DEF Units
  <2>2. 1 \in 1..MaxUs
    BY ShardStatsAssumption, SnapshotsAssumption DEF MaxUint
  <2>3. <<e, 1>> \in Units[req][{s}]
    BY <1>2, <1>3, <1>4, <2>1, <2>2
  <2>4. IsFiniteSet(Units[req][{s}]) /\ Cardinality(Units[req][{s}]) = 0
    BY <1>1, UnitsCounted, Zenon DEF WriteInv
  <2>5. Units[req][{s}] = {}
    BY <2>4, FS_EmptySet, Zenon
  <2> QED
    BY <2>3, <2>5, Zenon
<1> QED
  BY <1>2, <1>4, Zenon

\* Merge adds one shard to a snapshot that is complete for others.
LEMMA MergeAdds ==
  ASSUME WriteInv, done, NEW L \in SUBSET Shards, NEW s \in Shards \ L,
         NEW sn \in Snaps, Complete(sn, [c \in Counters |-> L])
  PROVE  /\ L \cup {s} \in SUBSET Shards /\ Merge(sn, shard[s]) \in Snaps
         /\ Complete(Merge(sn, shard[s]), [c \in Counters |-> L \cup {s}])
<1> DEFINE seen == [c \in Counters |-> L]
           both == [c \in Counters |-> L \cup {s}]
           o == shard[s]
           merged == Merge(sn, o)
           max == Total("maxUs")
           min == Total("minUs")
           req == Total("requests")
<1>1. /\ max \in Counters /\ min \in Counters /\ Sums \subseteq Counters /\ req \in Sums
      /\ max # min /\ \A c \in Sums : c # max /\ c # min
  BY KindsOfCounters DEF Extremes
<1>2. L \cup {s} \in SUBSET Shards /\ {s} \in SUBSET Shards
  OBVIOUS
<1>3. /\ \A c \in Counters : seen[c] = L /\ both[c] = L \cup {s}
      /\ \A c \in Counters : merged[c] = IF c = min /\ o[req] = 0 THEN sn[c] ELSE Combine(c, sn[c], o[c])
  BY Zenon DEF Merge
<1>4. merged = [c \in Counters |-> IF c = min /\ o[req] = 0 THEN sn[c] ELSE Combine(c, sn[c], o[c])]
  BY Zenon DEF Merge
<1>5. /\ \A c \in Sums : sn[c] = Weight[c][seen[c]]
      /\ IsMax(sn[max], Of, Applied[max][seen[max]]) /\ IsMin(sn[min], Of, Applied[min][seen[min]])
  BY Zenon DEF Complete
<1>6. /\ \A c \in Sums : o[c] = Weight[c][{s}]
      /\ IsMax(o[max], Of, Applied[max][{s}]) /\ IsMin(o[min], Of, Applied[min][{s}])
  BY Zenon DEF WriteInv, ShardInv
<1>7. \A c \in Counters : sn[c] \in 0..MaxUint /\ o[c] \in 0..MaxUint
  BY Zenon DEF Snaps, WriteInv, WriteTypeOK
<1> HIDE DEF seen, both, o, merged, max, min, req
<1>8. MaxUint \in Nat
  BY SnapshotsAssumption DEF MaxUint
<1>9. merged \in Snaps
  <2>1. \A c \in Counters : (IF c = min /\ o[req] = 0 THEN sn[c] ELSE Combine(c, sn[c], o[c])) \in 0..MaxUint
    BY <1>7, CombineIs, Zenon
  <2> QED
    BY <1>4, <2>1, Zenon DEF Snaps
<1>10. ASSUME NEW c \in Sums PROVE merged[c] = Weight[c][both[c]]
  <2>1. c \in Counters /\ c # min
    BY <1>1, Zenon
  <2>2. merged[c] = Combine(c, Weight[c][L], Weight[c][{s}])
    <3>1. merged[c] = Combine(c, sn[c], o[c])
      BY <1>3, <2>1, Zenon
    <3>2. seen[c] = L /\ sn[c] = Weight[c][seen[c]] /\ o[c] = Weight[c][{s}]
      BY <1>3, <1>5, <1>6, <2>1, Zenon
    <3> QED
      BY <3>1, <3>2, Zenon
  <2>3. Weight[c][L \cup {s}] = Weight[c][L] + Weight[c][{s}]
    BY WeightAdd, Zenon DEF WriteInv
  <2>4. Weight[c][L] \in 0..MaxUint /\ Weight[c][{s}] \in 0..MaxUint /\ Weight[c][L \cup {s}] \in 0..MaxUint
    BY <1>2, UnitsCounted DEF WriteInv
  <2>5. Combine(c, Weight[c][L], Weight[c][{s}]) = Weight[c][L] + Weight[c][{s}]
    BY <2>3, <2>4, CombineIs, Zenon
  <2> QED
    BY <1>3, <2>1, <2>2, <2>3, <2>5, Zenon
<1>11. \A c \in Counters : Applied[c][L \cup {s}] = Applied[c][L] \cup Applied[c][{s}]
  BY <1>2, Zenon DEF Applied
<1>12. \A c \in Counters : \A e \in Applied[c][L] \cup Applied[c][{s}] : Of[e].us \in Nat
  <2>1. \A c \in Counters : Applied[c][L] \cup Applied[c][{s}] \subseteq Entries
    BY <1>2, Zenon DEF Applied
  <2>2. \A e \in Entries : Of[e].us \in Nat
    BY EntryUs, Zenon DEF WriteInv
  <2> QED
    BY <2>1, <2>2, Zenon
<1>13. \A c \in Counters : sn[c] \in Nat /\ o[c] \in Nat /\ sn[c] <= MaxUint /\ o[c] <= MaxUint
  BY <1>7, <1>8
<1>14. IsMax(merged[max], Of, Applied[max][both[max]])
  <2>1. IsMax(Larger(sn[max], o[max]), Of, Applied[max][L] \cup Applied[max][{s}])
    <3>1. IsMax(sn[max], Of, Applied[max][L])
      BY <1>1, <1>3, <1>5, Zenon
    <3> QED
      BY <1>1, <1>6, <1>12, <1>13, <3>1, Joined
  <2>2. merged[max] = Larger(sn[max], o[max])
    BY <1>1, <1>3, CombineIs, Zenon DEF max
  <2> QED
    BY <1>1, <1>3, <1>11, <2>1, <2>2, Zenon
<1>15. IsMin(merged[min], Of, Applied[min][both[min]])
  <2>1. IsMin(sn[min], Of, Applied[min][L])
    BY <1>1, <1>3, <1>5, Zenon
  <2>2. CASE o[req] = 0
    <3>1. Weight[req][{s}] = 0
      BY <1>1, <1>6, <2>2, Zenon
    <3>2. Applied[min][{s}] = {}
      BY <3>1, NoRequests, Zenon DEF req, min
    <3>3. Applied[min][L \cup {s}] = Applied[min][L]
      BY <1>1, <1>11, <3>2
    <3>4. merged[min] = sn[min]
      BY <1>1, <1>3, <2>2, Zenon
    <3> QED
      BY <1>1, <1>3, <2>1, <3>3, <3>4, Zenon
  <2>3. CASE o[req] # 0
    <3>1. IsMin(Smaller(sn[min], o[min]), Of, Applied[min][L] \cup Applied[min][{s}])
      BY <1>1, <1>6, <1>12, <1>13, <2>1, Joined
    <3>2. merged[min] = Smaller(sn[min], o[min])
      BY <1>1, <1>3, <2>3, CombineIs, Zenon DEF min
    <3> QED
      BY <1>1, <1>3, <1>11, <3>1, <3>2, Zenon
  <2> QED
    BY <2>2, <2>3, Zenon
<1>16. Complete(merged, both)
  BY <1>10, <1>14, <1>15, Zenon DEF Complete, max, min
<1> QED
  BY <1>2, <1>9, <1>16, Zenon DEF merged, both, o

LEMMA NothingMerged ==
  Complete(NewSnapshot, [c \in Counters |-> {}])
<1> DEFINE none == [c \in Counters |-> {}]
<1>1. Total("maxUs") \in Counters /\ Total("minUs") \in Counters /\ Sums \subseteq Counters
  BY KindsOfCounters, Zenon DEF Extremes
<1>2. \A c \in Counters : none[c] = {}
  OBVIOUS
<1> HIDE DEF none
<1>3. \A c \in Counters : Applied[c][none[c]] = {}
  BY <1>2, Zenon DEF Applied
<1>4. \A c \in Sums : Weight[c][none[c]] = 0
  BY <1>1, <1>2, WeightNone, Zenon
<1>5. IsMax(0, Of, {}) /\ IsMin(MaxUint, Of, {})
  BY Zenon DEF IsMax, IsMin
<1> QED
  BY <1>1, <1>3, <1>4, <1>5, NewSnapshotIs, Zenon DEF Complete, none

\* Shard by shard there is one snapshot that is complete up to it, and it is
\* what Merge makes of them.
LEMMA MergedIsComplete ==
  ASSUME WriteInv, done
  PROVE  Merged \in Snaps /\ Complete(Merged, [c \in Counters |-> Shards])
<1> DEFINE UpTo(n, sn) == sn \in Snaps /\ Complete(sn, [c \in Counters |-> 1..n])
           P == {n \in Nat : n <= pool => \E sn : UpTo(n, sn)}
<1>1. pool \in Nat /\ Shards = 1..pool
  BY ShardStatsAssumption DEF WriteInv, WriteTypeOK, Shards
<1>2. UpTo(0, NewSnapshot)
  <2>1. 1..0 = {}
    OBVIOUS
  <2> QED
    BY <2>1, NothingMerged, NewSnapshotIs, Zenon
<1>3. ASSUME NEW n \in Nat, n + 1 <= pool, NEW sn, UpTo(n, sn)
      PROVE  UpTo(n + 1, Merge(sn, shard[n + 1]))
  <2>1. 1..n \in SUBSET Shards /\ n + 1 \in Shards \ (1..n) /\ 1..(n + 1) = (1..n) \cup {n + 1}
    BY <1>1, <1>3
  <2>2. sn \in Snaps /\ Complete(sn, [c \in Counters |-> 1..n])
    BY <1>3, Zenon
  <2>3. /\ Merge(sn, shard[n + 1]) \in Snaps
        /\ Complete(Merge(sn, shard[n + 1]), [c \in Counters |-> (1..n) \cup {n + 1}])
    BY <2>1, <2>2, MergeAdds, Zenon
  <2> QED
    BY <2>1, <2>3, Zenon
<1>4. \A n \in 0..pool : \A a, b : UpTo(n, a) /\ UpTo(n, b) => a = b
  <2> TAKE n \in 0..pool
  <2>1. 1..n \in SUBSET Shards
    BY <1>1
  <2> QED
    BY <2>1, OneComplete, Zenon
<1> HIDE DEF UpTo
<1>5. P = Nat
  <2>1. P \in SUBSET Nat /\ 0 \in P
    BY <1>2, Zenon
  <2>2. \A n \in P : n + 1 \in P
    <3> TAKE n \in P
    <3>1. n \in Nat /\ n + 1 \in Nat
      OBVIOUS
    <3>2. CASE ~(n + 1 <= pool)
      BY <3>1, <3>2
    <3>3. CASE n + 1 <= pool
      <4>1. n <= pool
        BY <1>1, <3>1, <3>3
      <4>2. PICK sn : UpTo(n, sn)
        BY <4>1, Zenon
      <4>3. UpTo(n + 1, Merge(sn, shard[n + 1]))
        BY <1>3, <3>1, <3>3, <4>2, Zenon
      <4> QED
        BY <3>1, <4>3, Zenon
    <3> QED
      BY <3>2, <3>3, Zenon
  <2> HIDE DEF P
  <2> QED
    BY <2>1, <2>2, NatSetInduction, Zenon
<1>6. \A n \in 0..pool : \E sn : UpTo(n, sn)
  <2> TAKE n \in 0..pool
  <2>1. n \in Nat /\ n <= pool
    BY <1>1
  <2>2. n \in P
    <3> HIDE DEF P
    <3> QED
      BY <1>5, <2>1, Zenon
  <2> QED
    BY <2>1, <2>2, Zenon
<1> DEFINE first(n) == CHOOSE sn : UpTo(n, sn)
           h == [n \in 0..pool |-> first(n)]
<1>7. \A n \in 0..pool : UpTo(n, h[n])
  <2> TAKE n \in 0..pool
  <2>1. UpTo(n, first(n))
    BY <1>6, Zenon
  <2> HIDE DEF first
  <2> QED
    BY <2>1, Zenon
<1>8. h = [n \in 0..pool |-> h[n]]
  <2> HIDE DEF first
  <2> QED
    BY Zenon
<1> HIDE DEF h
<1>9. ASSUME NEW n \in 0..pool, n # 0
      PROVE  n - 1 \in 0..pool /\ \A sn : UpTo(n - 1, sn) => UpTo(n, Merge(sn, shard[n]))
  <2>1. n - 1 \in Nat /\ n - 1 \in 0..pool /\ (n - 1) + 1 = n /\ (n - 1) + 1 <= pool
    BY <1>1, <1>9
  <2>2. ASSUME NEW sn, UpTo(n - 1, sn) PROVE UpTo(n, Merge(sn, shard[n]))
    <3>1. UpTo((n - 1) + 1, Merge(sn, shard[(n - 1) + 1]))
      BY <1>3, <2>1, <2>2
    <3> QED
      BY <2>1, <3>1
  <2> QED
    BY <2>1, <2>2, Zenon
<1> DEFINE Step(f, n) == IF n = 0 THEN NewSnapshot ELSE Merge(f[n - 1], shard[n])
           upto == CHOOSE f : f = [n \in 0..pool |-> Step(f, n)]
<1>10. \A n \in 0..pool : h[n] = Step(h, n)
  <2> TAKE n \in 0..pool
  <2>1. CASE n = 0
    BY <1>2, <1>4, <1>7, <2>1
  <2>2. CASE n # 0
    <3>1. n - 1 \in 0..pool /\ \A sn : UpTo(n - 1, sn) => UpTo(n, Merge(sn, shard[n]))
      BY <1>9, <2>2, Zenon
    <3>2. UpTo(n, Merge(h[n - 1], shard[n]))
      BY <1>7, <3>1, Zenon
    <3> QED
      BY <1>4, <1>7, <2>2, <3>2, Zenon
  <2> QED
    BY <2>1, <2>2, Zenon
<1>11. Merged = upto[pool]
  BY Zenon DEF Merged
<1> HIDE DEF Step
<1>12. h = [n \in 0..pool |-> Step(h, n)]
  BY <1>8, <1>10, Zenon
<1>13. upto = [n \in 0..pool |-> Step(upto, n)]
  BY <1>12, Zenon
<1> HIDE DEF upto
<1>14. \A n \in 0..pool : upto[n] = Step(upto, n)
  BY <1>13, Zenon
<1> DEFINE Q == {n \in Nat : n <= pool => UpTo(n, upto[n])}
<1>15. Q = Nat
  <2>1. Q \in SUBSET Nat /\ 0 \in Q
    <3>1. 0 \in 0..pool
      BY <1>1
    <3>2. upto[0] = NewSnapshot
      BY <1>14, <3>1, Zenon DEF Step
    <3> QED
      BY <1>2, <3>2, Zenon
  <2>2. \A n \in Q : n + 1 \in Q
    <3> TAKE n \in Q
    <3>1. n \in Nat /\ n + 1 \in Nat
      OBVIOUS
    <3>2. CASE ~(n + 1 <= pool)
      BY <3>1, <3>2, Zenon
    <3>3. CASE n + 1 <= pool
      <4>1. n <= pool /\ n + 1 \in 0..pool /\ n + 1 # 0 /\ (n + 1) - 1 = n
        BY <1>1, <3>1, <3>3
      <4>2. UpTo(n, upto[n])
        BY <4>1, Zenon
      <4>3. upto[n + 1] = Merge(upto[n], shard[n + 1])
        <5>1. upto[n + 1] = Merge(upto[(n + 1) - 1], shard[n + 1])
          BY <1>14, <4>1, Zenon DEF Step
        <5> QED
          BY <4>1, <5>1, Zenon
      <4>4. UpTo(n + 1, Merge(upto[n], shard[n + 1]))
        BY <1>3, <3>1, <3>3, <4>2, Zenon
      <4> QED
        BY <3>1, <4>3, <4>4, Zenon
    <3> QED
      BY <3>2, <3>3, Zenon
  <2> HIDE DEF Q
  <2> QED
    BY <2>1, <2>2, NatSetInduction, Zenon
<1>16. UpTo(pool, upto[pool])
  BY <1>1, <1>15
<1> QED
  BY <1>1, <1>11, <1>16, Zenon DEF UpTo

\* Merging the final snapshots of workers, each of which has recorded its own
\* requests, is as exact as the report of one that made them all.
THEOREM MergedIsExact == Spec => []MergeExact
<1>1. StatsInv => MergeExact
  <2> SUFFICES ASSUME StatsInv, report # None PROVE Merged = Exact
    BY Zenon DEF MergeExact
  <2>1. done /\ WriteInv
    BY Zenon DEF StatsInv, FinalInv
  <2>2. Merged \in Snaps /\ Complete(Merged, [c \in Counters |-> Shards])
    BY <2>1, MergedIsComplete, Zenon
  <2> QED
    BY <2>1, <2>2, CompleteIsExact
<1> QED
  BY <1>1, StatsInvariant, PTL

-----------------------------------------------------------------------------
(* Percentiles: the buckets against the latencies themselves. *)

\* A counter that goes up by one for some requests counts those.
LEMMA CountsOf ==
  ASSUME WriteInv, done, NEW c \in Sums, NEW S \in SUBSET Entries,
         \A e \in Entries : Amount(c, Of[e]) = IF e \in S THEN 1 ELSE 0
  PROVE  Weight[c][Shards] = Cardinality(S) /\ IsFiniteSet(S)
<1>1. Shards \in SUBSET Shards /\ Waiting = {} /\ \A e \in Entries : e[1] \in Shards
  BY AllApplied, EntryIs, Zenon DEF WriteInv
<1>2. Units[c][Shards] = {u \in Entries \X (1..MaxUs) :
                            u[1][1] \in Shards /\ <<c, u[1]>> \notin Waiting /\ u[2] <= Amount(c, Of[u[1]])}
  BY <1>1, Zenon DEF Units
<1>3. MaxUs \in Nat /\ 1 \in 1..MaxUs
  BY ShardStatsAssumption, SnapshotsAssumption DEF MaxUint
<1>4. Units[c][Shards] = S \X {1}
  <2>1. ASSUME NEW e \in Entries, NEW k \in 1..MaxUs PROVE k <= Amount(c, Of[e]) <=> e \in S /\ k = 1
    BY <1>3
  <2>2. Units[c][Shards] = {u \in Entries \X (1..MaxUs) : u[1] \in S /\ u[2] = 1}
    BY <1>1, <1>2, <2>1, Zenon
  <2> QED
    BY <1>3, <2>2, Zenon
<1>5. IsFiniteSet(S)
  BY FS_Subset, Zenon DEF WriteInv, TodoInv
<1>6. IsFiniteSet({1}) /\ Cardinality({1}) = 1
  BY FS_Singleton, Zenon
<1>7. Cardinality(S \X {1}) = Cardinality(S) * Cardinality({1}) /\ Cardinality(S) \in Nat
  BY <1>5, <1>6, FS_Product, FS_CardinalityType
<1>8. Weight[c][Shards] = Cardinality(Units[c][Shards])
  BY <1>1 DEF Weight
<1>9. Cardinality(S \X {1}) = Cardinality(S)
  BY <1>6, <1>7
<1> QED
  BY <1>4, <1>5, <1>8, <1>9, Zenon

\* What the report says of the requests, the failures and the buckets.
LEMMA ReportCounts ==
  ASSUME StatsInv, reader = "ended"
  PROVE  /\ report[Total("requests")] = Cardinality(Entries)
         /\ report[Total("failures")] = Cardinality({e \in Entries : ~Good(Of[e].x)})
         /\ \A b \in Buckets :
              report[<<"hist", b>>] = Cardinality({e \in Entries : bucketFor(Of[e].us) = b})
<1>1. done /\ WriteInv /\ Complete(report, [c \in Counters |-> Shards])
  BY Zenon DEF StatsInv, FinalInv
<1>2. \A c \in Sums : report[c] = Weight[c][Shards]
  <2> DEFINE all == [c \in Counters |-> Shards]
  <2>1. \A c \in Sums : report[c] = Weight[c][all[c]]
    BY <1>1, Zenon DEF Complete
  <2>2. \A c \in Sums : all[c] = Shards
    BY KindsOfCounters, Zenon
  <2> HIDE DEF all
  <2> QED
    BY <2>1, <2>2, Zenon
<1>3. report[Total("requests")] = Cardinality(Entries)
  <2>1. \A e \in Entries : Amount(Total("requests"), Of[e]) = IF e \in Entries THEN 1 ELSE 0
    BY Zenon DEF Amount, Total
  <2> QED
    BY <1>1, <1>2, <2>1, CountsOf, KindsOfCounters
<1>4. report[Total("failures")] = Cardinality({e \in Entries : ~Good(Of[e].x)})
  <2> DEFINE S == {e \in Entries : ~Good(Of[e].x)}
  <2>1. \A e \in Entries : Amount(Total("failures"), Of[e]) = IF Good(Of[e].x) THEN 0 ELSE 1
    BY Zenon DEF Amount, Total
  <2>2. \A e \in Entries : Amount(Total("failures"), Of[e]) = IF e \in S THEN 1 ELSE 0
    BY <2>1, Zenon
  <2>3. S \in SUBSET Entries
    OBVIOUS
  <2> HIDE DEF S
  <2>4. report[Total("failures")] = Cardinality(S)
    BY <1>1, <1>2, <2>2, <2>3, CountsOf, KindsOfCounters
  <2> QED
    BY <2>4, Zenon DEF S
<1>5. ASSUME NEW b \in Buckets
      PROVE  report[<<"hist", b>>] = Cardinality({e \in Entries : bucketFor(Of[e].us) = b})
  <2> DEFINE S == {e \in Entries : bucketFor(Of[e].us) = b}
             c == <<"hist", b>>
  <2>1. c \in Sums /\ c[1] = "hist" /\ c[2] = b
        /\ c # Total("sumUs") /\ c # Total("requests") /\ c # Total("failures")
    BY KindsOfCounters, Zenon DEF Total
  <2> HIDE DEF c
  <2>2. \A e \in Entries : Amount(c, Of[e]) = IF bucketFor(Of[e].us) = b THEN 1 ELSE 0
    <3>1. "hist" # "class" /\ "hist" # "err"
      OBVIOUS
    <3> QED
      BY <2>1, <3>1, Zenon DEF Amount
  <2>3. \A e \in Entries : Amount(c, Of[e]) = IF e \in S THEN 1 ELSE 0
    BY <2>2, Zenon
  <2>4. S \in SUBSET Entries
    OBVIOUS
  <2> HIDE DEF S
  <2>5. report[c] = Cardinality(S)
    BY <1>1, <1>2, <2>1, <2>3, <2>4, CountsOf, Zenon
  <2> QED
    BY <2>5, Zenon DEF S, c
<1> QED
  BY <1>3, <1>4, <1>5, Zenon

\* The histogram of the report up to a bucket counts the requests up to there.
InBuckets(b) == {e \in Entries : bucketFor(Of[e].us) <= b}

LEMMA UptoCounts ==
  ASSUME StatsInv, reader = "ended", NEW b \in Buckets
  PROVE  Upto(report, b) = Cardinality(InBuckets(b)) /\ IsFiniteSet(InBuckets(b))
<1> DEFINE T(n) == {"hist"} \X (0..n)
           at(n) == {e \in Entries : bucketFor(Of[e].us) = n}
           P == {n \in Nat : n < NumBuckets => Upto(report, n) = Cardinality(InBuckets(n))}
<1>1. WriteInv /\ IsFiniteSet(Entries) /\ NumBuckets \in Nat /\ Buckets = 0..(NumBuckets - 1)
  BY SnapshotsAssumption, Zenon DEF StatsInv, WriteInv, TodoInv, Buckets
<1>2. \A n : IsFiniteSet(at(n)) /\ IsFiniteSet(InBuckets(n))
  <2>1. \A n : at(n) \in SUBSET Entries /\ InBuckets(n) \in SUBSET Entries
    BY Zenon DEF InBuckets
  <2> HIDE DEF at
  <2> QED
    BY <1>1, <2>1, FS_Subset
<1>3. \A e \in Entries : bucketFor(Of[e].us) \in Nat
  <2>1. \A e \in Entries : Of[e].us \in Nat
    BY <1>1, EntryUs, Zenon DEF WriteInv
  <2>2. \A e \in Entries : bucketFor(Of[e].us) \in Buckets
    BY <2>1, BucketIsAround, Zenon
  <2> QED
    BY <1>1, <2>2
<1>4. ASSUME NEW n \in Nat, n < NumBuckets
      PROVE  /\ IsFiniteSet(T(n)) /\ <<"hist", n>> \in T(n) /\ \A x \in T(n) : report[x] \in Nat
             /\ report[<<"hist", n>>] = Cardinality(at(n))
  <2>1. IsFiniteSet(0..n) /\ IsFiniteSet({"hist"})
    <3>1. \A k \in Int : IsFiniteSet(0..k)
      BY FS_Interval
    <3>2. n \in Int
      BY <1>4
    <3>3. IsFiniteSet({"hist"})
      BY FS_Singleton, Zenon
    <3> QED
      BY <3>1, <3>2, <3>3, Zenon
  <2>2. IsFiniteSet(T(n))
    BY <2>1, FS_Product, Zenon
  <2>3. \A k \in 0..n : k \in Buckets
    BY <1>1, <1>4
  <2>4. n \in 0..n
    BY <1>4
  <2>5. \A k \in Buckets : report[<<"hist", k>>] = Cardinality(at(k))
    BY ReportCounts, Zenon
  <2>6. \A k \in Buckets : Cardinality(at(k)) \in Nat
    <3> HIDE DEF at
    <3> QED
      BY <1>2, FS_CardinalityType
  <2>7. \A x \in T(n) : \E k \in 0..n : x = <<"hist", k>>
    OBVIOUS
  <2> HIDE DEF at
  <2>8. \A x \in T(n) : report[x] \in Nat
    BY <2>3, <2>5, <2>6, <2>7, Zenon
  <2> QED
    BY <2>2, <2>3, <2>4, <2>5, <2>8
<1>5. P = Nat
  <2>1. 0 \in P
    <3>1. T(0) \ {<<"hist", 0>>} = {} /\ 0 < NumBuckets
      BY SnapshotsAssumption
    <3>2. InBuckets(0) = at(0)
      BY <1>3 DEF InBuckets
    <3>3. /\ IsFiniteSet(T(0)) /\ <<"hist", 0>> \in T(0) /\ \A x \in T(0) : report[x] \in Nat
          /\ report[<<"hist", 0>>] = Cardinality(at(0)) /\ report[<<"hist", 0>>] \in Nat
      BY <1>4, <3>1, Zenon
    <3> HIDE DEF T, at
    <3>4. SumFunctionOnSet(report, T(0)) = report[<<"hist", 0>>] + SumFunctionOnSet(report, T(0) \ {<<"hist", 0>>})
      BY <3>3, SumRemove
    <3>5. SumFunctionOnSet(report, T(0) \ {<<"hist", 0>>}) = 0
      BY <3>1, SumEmpty
    <3>6. SumFunctionOnSet(report, T(0)) = Cardinality(InBuckets(0))
      BY <3>2, <3>3, <3>4, <3>5
    <3>7. Upto(report, 0) = Cardinality(InBuckets(0))
      BY <3>6, Zenon DEF Upto, T
    <3> QED
      BY <3>7, Zenon
  <2>2. \A n \in P : n + 1 \in P
    <3> TAKE n \in P
    <3>1. n \in Nat /\ n + 1 \in Nat
      OBVIOUS
    <3>2. CASE ~(n + 1 < NumBuckets)
      BY <3>1, <3>2, Zenon
    <3>3. CASE n + 1 < NumBuckets
      <4> DEFINE y == <<"hist", n + 1>>
      <4>1. n < NumBuckets
        BY <1>1, <3>1, <3>3
      <4>2. Upto(report, n) = Cardinality(InBuckets(n))
        BY <4>1, Zenon
      <4>3. /\ IsFiniteSet(T(n + 1)) /\ y \in T(n + 1) /\ \A x \in T(n + 1) : report[x] \in Nat
            /\ report[y] = Cardinality(at(n + 1))
        BY <1>4, <3>1, <3>3, Zenon
      <4>4. T(n + 1) \ {y} = T(n)
        <5>1. (0..(n + 1)) \ {n + 1} = 0..n
          BY <3>1
        <5> QED
          BY <5>1
      <4>5. InBuckets(n + 1) = InBuckets(n) \cup at(n + 1) /\ InBuckets(n) \cap at(n + 1) = {}
        BY <1>3, <3>1 DEF InBuckets
      <4> HIDE DEF T, at, y
      <4>6. Cardinality(InBuckets(n + 1)) = Cardinality(InBuckets(n)) + Cardinality(at(n + 1))
            /\ Cardinality(InBuckets(n)) \in Nat /\ Cardinality(at(n + 1)) \in Nat
        BY <1>2, <4>5, DisjointUnion, Zenon
      <4>7. SumFunctionOnSet(report, T(n + 1)) = report[y] + SumFunctionOnSet(report, T(n + 1) \ {y})
        BY <4>3, SumRemove, Zenon
      <4>8. SumFunctionOnSet(report, T(n)) = Cardinality(InBuckets(n))
        BY <4>2, Zenon DEF Upto, T
      <4>9. SumFunctionOnSet(report, T(n + 1)) = Cardinality(at(n + 1)) + Cardinality(InBuckets(n))
        BY <4>3, <4>4, <4>7, <4>8, Zenon
      <4>10. SumFunctionOnSet(report, T(n + 1)) = Cardinality(InBuckets(n + 1))
        BY <4>6, <4>9
      <4>11. Upto(report, n + 1) = Cardinality(InBuckets(n + 1))
        BY <4>10, Zenon DEF Upto, T
      <4> QED
        BY <3>1, <4>11, Zenon
    <3> QED
      BY <3>2, <3>3, Zenon
  <2>3. P \in SUBSET Nat
    OBVIOUS
  <2> HIDE DEF P
  <2> QED
    BY <2>1, <2>2, <2>3, NatSetInduction, Zenon
<1>6. b \in Nat /\ b < NumBuckets
  BY <1>1
<1>7. b \in P
  BY <1>5, <1>6, Zenon
<1> QED
  BY <1>2, <1>6, <1>7, Zenon

Ranks == {1, 500, 950, 990, 1000}

LEMMA RankIs ==
  ASSUME NEW n \in Nat \ {0}, NEW q \in Ranks
  PROVE  Rank(q, n) \in 1..n
<1>1. CASE q = 1
  BY <1>1 DEF Rank, Larger
<1>2. CASE q = 500
  BY <1>2 DEF Rank, Larger
<1>3. CASE q = 950
  BY <1>3 DEF Rank, Larger
<1>4. CASE q = 990
  BY <1>4 DEF Rank, Larger
<1>5. CASE q = 1000
  BY <1>5 DEF Rank, Larger
<1> QED
  BY <1>1, <1>2, <1>3, <1>4, <1>5 DEF Ranks

\* The latency of the request of a rank is one that was recorded.
LEMMA ExactIs ==
  ASSUME WriteInv, Entries # {}, NEW q \in Ranks
  PROVE  LET x == ExactPercentile(q)
             upto(u) == {e \in Entries : Of[e].us <= u}
             rank == Rank(q, Cardinality(Entries))
         IN /\ x \in Latencies /\ Cardinality(upto(x)) >= rank
            /\ \A u \in Latencies : Cardinality(upto(u)) >= rank => x <= u
<1> DEFINE upto(u) == {e \in Entries : Of[e].us <= u}
           rank == Rank(q, Cardinality(Entries))
           S == {u \in Latencies : Cardinality(upto(u)) >= rank}
<1>1. Latencies = {Of[e].us : e \in Entries}
  BY Zenon DEF Latencies, Of
<1>2. \A e \in Entries : Of[e].us \in Nat /\ Of[e].us <= MaxUint
  <2>1. MaxUint \in Nat
    BY SnapshotsAssumption DEF MaxUint
  <2> QED
    BY <2>1, EntryUs DEF WriteInv
<1>3. IsFiniteSet(Entries)
  BY Zenon DEF WriteInv, TodoInv
<1>4. Cardinality(Entries) \in Nat \ {0}
  BY <1>3, FS_CardinalityType, FS_EmptySet, Zenon
<1>5. rank \in 1..Cardinality(Entries)
  BY <1>4, RankIs, Zenon
<1>6. PICK m \in Latencies : \A u \in Latencies : u <= m
  <2>1. Latencies \in SUBSET Nat /\ Latencies # {} /\ \A u \in Latencies : u <= MaxUint
    BY <1>1, <1>2, Zenon
  <2>2. MaxUint \in Nat
    BY SnapshotsAssumption DEF MaxUint
  <2> QED
    BY <2>1, <2>2, Greatest, Zenon
<1>7. upto(m) = Entries
  BY <1>1, <1>6, Zenon
<1>8. ExactPercentile(q) = Min(S)
  <2>1. \A u : {e \in Entries : Made(e).us <= u} = upto(u)
    BY Zenon DEF Of
  <2> HIDE DEF upto
  <2>2. ExactPercentile(q) = Min({u \in Latencies : Cardinality({e \in Entries : Made(e).us <= u}) >= rank})
    BY Zenon DEF ExactPercentile
  <2>3. \A u : {e \in Entries : Made(e).us <= u} = upto(u)
    BY <2>1, Zenon
  <2>4. {u \in Latencies : Cardinality({e \in Entries : Made(e).us <= u}) >= rank} = S
    BY <2>3, Zenon
  <2> QED
    BY <2>2, <2>4, Zenon
<1> HIDE DEF upto, rank
<1>9. m \in S
  BY <1>4, <1>5, <1>6, <1>7
<1>10. S \in SUBSET Nat
  BY <1>1, <1>2
<1>11. PICK x \in S : \A u \in S : x <= u
  BY <1>9, <1>10, Least
<1>12. Min(S) = x
  <2>1. S \in SUBSET Int
    BY <1>10
  <2> HIDE DEF S
  <2> QED
    BY <1>11, <2>1, MinIs
<1>13. x \in Latencies /\ Cardinality(upto(x)) >= rank
       /\ \A u \in Latencies : Cardinality(upto(u)) >= rank => x <= u
  BY <1>11, Zenon
<1>14. ExactPercentile(q) = x
  BY <1>8, <1>12, Zenon
<1> QED
  BY <1>13, <1>14, Zenon DEF upto, rank

\* The bucket of the rank is the bucket of the request of that rank.
LEMMA RankBucketIs ==
  ASSUME StatsInv, reader = "ended", Entries # {}, NEW q \in Ranks
  PROVE  /\ ExactPercentile(q) \in Latencies /\ Latencies \subseteq Nat
         /\ RankBucket(report, q) = bucketFor(ExactPercentile(q))
         /\ Upto(report, NumBuckets - 1) = Cardinality(Entries) /\ Cardinality(Entries) # 0
<1> DEFINE upto(u) == {e \in Entries : Of[e].us <= u}
           rank == Rank(q, Cardinality(Entries))
           x == ExactPercentile(q)
           B == {b \in Buckets : Upto(report, b) >= rank}
<1>1. WriteInv /\ IsFiniteSet(Entries) /\ Latencies = {Of[e].us : e \in Entries}
  BY Zenon DEF StatsInv, WriteInv, TodoInv, Latencies, Of
<1>2. \A e \in Entries : Of[e].us \in Nat /\ bucketFor(Of[e].us) \in Buckets
  <2>1. \A e \in Entries : Of[e].us \in Nat
    BY <1>1, EntryUs, Zenon DEF WriteInv
  <2> QED
    BY <2>1, BucketIsAround, Zenon
<1>3. /\ x \in Latencies /\ Cardinality(upto(x)) >= rank
      /\ \A u \in Latencies : Cardinality(upto(u)) >= rank => x <= u
  BY <1>1, ExactIs, Zenon
<1>4. Cardinality(Entries) \in Nat \ {0}
  BY <1>1, FS_CardinalityType, FS_EmptySet, Zenon
<1>5. rank \in 1..Cardinality(Entries)
  BY <1>4, RankIs, Zenon
<1>6. NumBuckets - 1 \in Buckets /\ Buckets \subseteq Nat /\ \A b \in Buckets : b <= NumBuckets - 1
  BY SnapshotsAssumption DEF Buckets
<1>7. Upto(report, NumBuckets - 1) = Cardinality(Entries)
  <2>1. InBuckets(NumBuckets - 1) = Entries
    BY <1>2, <1>6 DEF InBuckets
  <2>2. Upto(report, NumBuckets - 1) = Cardinality(InBuckets(NumBuckets - 1))
    BY <1>6, UptoCounts, Zenon
  <2> QED
    BY <2>1, <2>2, Zenon
<1>8. RankBucket(report, q) = Min(B)
  BY <1>7, Zenon DEF RankBucket
<1>9. Latencies \subseteq Nat /\ x \in Nat
  BY <1>1, <1>2, <1>3
<1>10. \A b \in Buckets : Upto(report, b) = Cardinality(InBuckets(b)) /\ IsFiniteSet(InBuckets(b))
                          /\ Cardinality(InBuckets(b)) \in Nat
  <2>1. \A b \in Buckets : Upto(report, b) = Cardinality(InBuckets(b)) /\ IsFiniteSet(InBuckets(b))
    BY UptoCounts, Zenon
  <2> QED
    BY <2>1, FS_CardinalityType
<1>11. \A u : IsFiniteSet(upto(u)) /\ Cardinality(upto(u)) \in Nat
  <2>1. \A u : upto(u) \in SUBSET Entries
    OBVIOUS
  <2> HIDE DEF upto
  <2> QED
    BY <1>1, <2>1, FS_Subset, FS_CardinalityType
<1> HIDE DEF x, rank
<1>12. bucketFor(x) \in B
  <2>1. bucketFor(x) \in Buckets
    BY <1>9, BucketIsAround, Zenon
  <2>2. upto(x) \in SUBSET InBuckets(bucketFor(x))
    BY <1>2, <1>9, BucketsInOrder DEF InBuckets
  <2> HIDE DEF upto
  <2>3. Cardinality(upto(x)) <= Cardinality(InBuckets(bucketFor(x)))
    BY <1>10, <2>1, <2>2, FS_Subset
  <2>4. Cardinality(InBuckets(bucketFor(x))) >= rank
    BY <1>3, <1>4, <1>5, <1>10, <1>11, <2>1, <2>3
  <2> QED
    BY <1>10, <2>1, <2>4
<1>13. ASSUME NEW b \in B PROVE bucketFor(x) <= b
  <2>1. b \in Buckets /\ Cardinality(InBuckets(b)) >= rank
    BY <1>10, Zenon
  <2>2. InBuckets(b) # {}
    <3>1. Cardinality(InBuckets(b)) # 0
      BY <1>4, <1>5, <1>10, <2>1
    <3> QED
      BY <3>1, FS_EmptySet, Zenon
  <2> DEFINE us == {Of[e].us : e \in InBuckets(b)}
  <2>3. us \in SUBSET Latencies /\ us # {} /\ \A u \in us : bucketFor(u) <= b
    BY <1>1, <2>2, Zenon DEF InBuckets
  <2>4. PICK y \in us : \A u \in us : u <= y
    <3>1. us \in SUBSET Nat
      BY <1>9, <2>3, Zenon
    <3>2. MaxUint \in Nat /\ \A u \in us : u <= MaxUint
      <4>1. MaxUint \in Nat
        BY SnapshotsAssumption DEF MaxUint
      <4>2. \A e \in Entries : Of[e].us \in 0..MaxUint
        BY <1>1, EntryUs, Zenon DEF WriteInv
      <4> QED
        BY <1>1, <2>3, <4>1, <4>2
    <3> HIDE DEF us
    <3> QED
      BY <2>3, <3>1, <3>2, Greatest, Zenon
  <2>5. InBuckets(b) \in SUBSET upto(y)
    BY <2>4, Zenon DEF InBuckets
  <2>6. y \in Latencies /\ y \in Nat /\ bucketFor(y) <= b
    BY <1>9, <2>3, <2>4, Zenon
  <2> HIDE DEF upto
  <2>7. Cardinality(InBuckets(b)) <= Cardinality(upto(y))
    BY <1>11, <2>5, FS_Subset
  <2>8. Cardinality(upto(y)) >= rank
    BY <1>4, <1>5, <1>10, <1>11, <2>1, <2>7
  <2>9. x <= y
    BY <1>3, <2>6, <2>8, Zenon
  <2>10. bucketFor(x) <= bucketFor(y)
    BY <1>9, <2>6, <2>9, BucketsInOrder, Zenon
  <2>11. bucketFor(x) \in Nat /\ bucketFor(y) \in Nat /\ b \in Nat
    <3>1. bucketFor(x) \in Buckets /\ bucketFor(y) \in Buckets
      BY <1>9, <2>6, BucketIsAround, Zenon
    <3>2. b \in Buckets
      BY <2>1, Zenon
    <3>3. \A k \in Buckets : k \in Nat
      BY <1>6, Zenon
    <3> QED
      BY <3>1, <3>2, <3>3, Zenon
  <2>12. bucketFor(y) <= b
    BY <2>6, Zenon
  <2>13. \A i, j, k \in Nat : i <= j /\ j <= k => i <= k
    OBVIOUS
  <2> QED
    BY <2>10, <2>11, <2>12, <2>13, Zenon
<1>14. Min(B) = bucketFor(x)
  <2>1. B \in SUBSET Int
    <3>1. B \subseteq Buckets /\ Buckets \subseteq Nat
      BY <1>6, Zenon
    <3> HIDE DEF B
    <3> QED
      BY <3>1
  <2> HIDE DEF B
  <2> QED
    BY <1>12, <1>13, <2>1, MinIs
<1> QED
  BY <1>3, <1>4, <1>7, <1>8, <1>9, <1>14, Zenon DEF x

\* A bound is at most Growth percent of a latency in its bucket.
LEMMA BoundIsNear ==
  ASSUME NEW us \in Nat
  PROVE  /\ Bounds[bucketFor(us)] \in Nat
         /\ 100 * Bounds[bucketFor(us)] <= Growth * Larger(us, Bounds[0])
<1> DEFINE b == bucketFor(us)
           near == Larger(us, Bounds[0])
<1>1. b \in Buckets /\ (b # 0 => Bounds[b - 1] <= us)
  BY BucketIsAround, Zenon
<1> HIDE DEF b
<1>2. NumBuckets \in Nat \ {0, 1, 2} /\ Growth \in Nat /\ Buckets = 0..(NumBuckets - 1)
  BY SnapshotsAssumption, Zenon DEF Buckets
<1>3. \A i \in Buckets : Bounds[i] \in Nat
  BY SnapshotsAssumption, Zenon
<1>4. 0 \in Buckets /\ 1 \in Buckets /\ 1 # 0 /\ 1 - 1 = 0
  BY <1>2
<1>5. near \in Nat /\ near >= us /\ near >= Bounds[0]
  BY <1>3, <1>4 DEF Larger
<1> HIDE DEF near
<1>6. \A m, n \in Nat : m <= n => Growth * m <= Growth * n
  BY <1>2
<1>7. \A i \in Buckets \ {0} : Bounds[i - 1] < Bounds[i] /\ 100 * Bounds[i] <= Growth * Bounds[i - 1]
  BY SnapshotsAssumption, Zenon
<1>8. 100 * Bounds[b] <= Growth * near
  <2>1. CASE b = 0
    <3>1. Bounds[0] < Bounds[1] /\ 100 * Bounds[1] <= Growth * Bounds[0]
      <4>1. Bounds[1 - 1] < Bounds[1] /\ 100 * Bounds[1] <= Growth * Bounds[1 - 1]
        BY <1>4, <1>7, Zenon
      <4> QED
        BY <1>4, <4>1, Zenon
    <3>2. Growth * Bounds[0] <= Growth * near
      BY <1>3, <1>4, <1>5, <1>6
    <3>3. Growth * Bounds[0] \in Nat /\ Growth * near \in Nat /\ Bounds[0] \in Nat /\ Bounds[1] \in Nat
      BY <1>2, <1>3, <1>4, <1>5
    <3> QED
      BY <2>1, <3>1, <3>2, <3>3
  <2>2. CASE b # 0
    <3>1. 100 * Bounds[b] <= Growth * Bounds[b - 1]
      BY <1>1, <1>7, <2>2
    <3>2. b - 1 \in Buckets
      BY <1>1, <1>2, <2>2
    <3>3. Bounds[b - 1] \in Nat /\ Bounds[b - 1] <= near /\ Bounds[b] \in Nat
      BY <1>1, <1>3, <1>5, <2>2, <3>2
    <3>4. Growth * Bounds[b - 1] <= Growth * near
      BY <1>5, <1>6, <3>3
    <3>5. Growth * Bounds[b - 1] \in Nat /\ Growth * near \in Nat /\ 100 * Bounds[b] \in Nat
      BY <1>2, <1>5, <3>3
    <3> QED
      BY <3>1, <3>4, <3>5
  <2> QED
    BY <2>1, <2>2
<1> QED
  BY <1>1, <1>3, <1>8, Zenon DEF b, near

\* A latency of 0 is in the first bucket.
LEMMA FirstBucket ==
  ASSUME NEW us \in Nat, us <= 0
  PROVE  Bounds[bucketFor(us)] = Bounds[0]
<1> DEFINE b == bucketFor(us)
<1>1. b \in Buckets /\ (b # 0 => Bounds[b - 1] <= us)
  BY BucketIsAround, Zenon
<1>2. \A i \in Buckets : Bounds[i] \in Nat \ {0}
  BY SnapshotsAssumption, Zenon
<1> HIDE DEF b
<1>3. b # 0 => b - 1 \in Buckets
  BY <1>1, SnapshotsAssumption DEF Buckets
<1>4. b = 0
  BY <1>1, <1>2, <1>3
<1> QED
  BY <1>4, Zenon DEF b

\* A percentile of the report, against the request of its rank.
LEMMA PercentileIs ==
  ASSUME StatsInv, reader = "ended", Entries # {}, NEW q \in Ranks
  PROVE  Accurate(q) /\ ExactPercentile(q) \in Nat /\ Percentile(report, q) \in Nat
<1> DEFINE x == ExactPercentile(q)
           b == bucketFor(x)
           max == report[Total("maxUs")]
           p == Percentile(report, q)
<1>1. /\ x \in Latencies /\ Latencies \subseteq Nat /\ RankBucket(report, q) = b
      /\ Upto(report, NumBuckets - 1) # 0
  BY RankBucketIs, Zenon
<1>2. p = IF max > 0 THEN Smaller(Bounds[b], max) ELSE Bounds[b]
  BY <1>1, Zenon DEF Percentile, BucketUpper
<1>3. x \in Nat
  BY <1>1, Zenon
<1>4. b \in Buckets /\ (b # NumBuckets - 1 => x < Bounds[b])
  BY <1>3, BucketIsAround, Zenon
<1>5. Bounds[b] \in Nat /\ 100 * Bounds[b] <= Growth * Larger(x, Bounds[0])
  BY <1>3, BoundIsNear, Zenon
<1>6. max \in Nat /\ x <= max
  <2>1. done /\ WriteInv /\ report \in Snaps /\ Complete(report, [c \in Counters |-> Shards])
    BY Zenon DEF StatsInv, FinalInv
  <2>2. report = Exact
    BY <2>1, CompleteIsExact, Zenon
  <2>3. Total("maxUs") \in Counters /\ MaxUint \in Nat
    BY KindsOfCounters, SnapshotsAssumption DEF Extremes, MaxUint
  <2>4. max \in 0..MaxUint
    BY <2>1, <2>3, Zenon DEF Snaps
  <2>5. IsMax(max, Of, Applied[Total("maxUs")][Shards])
    <3> DEFINE all == [c \in Counters |-> Shards]
    <3>1. all[Total("maxUs")] = Shards
      BY <2>3, Zenon
    <3>2. IsMax(max, Of, Applied[Total("maxUs")][all[Total("maxUs")]])
      BY <2>1, Zenon DEF Complete
    <3> HIDE DEF all
    <3> QED
      BY <3>1, <3>2, Zenon
  <2>6. Applied[Total("maxUs")][Shards] = Entries
    BY <2>1, <2>3, AllApplied
  <2>7. Latencies = {Of[e].us : e \in Entries}
    BY Zenon DEF Latencies, Of
  <2>8. x <= max
    BY <1>1, <2>5, <2>6, <2>7 DEF IsMax
  <2> QED
    BY <2>3, <2>4, <2>8
<1> HIDE DEF b, max, p, x
<1>7. p \in Nat /\ p <= Bounds[b] /\ p <= IF max > 0 THEN max ELSE Bounds[0]
  <2>1. max = 0 => Bounds[b] = Bounds[0]
    BY <1>3, <1>6, FirstBucket DEF b
  <2> QED
    BY <1>2, <1>5, <1>6, <2>1 DEF Smaller
<1>8. p >= Smaller(x, Bounds[NumBuckets - 1])
  <2>1. Bounds[NumBuckets - 1] \in Nat /\ Smaller(x, Bounds[NumBuckets - 1]) \in Nat
    BY <1>3, SnapshotsAssumption DEF Smaller, Buckets
  <2>2. Smaller(x, Bounds[NumBuckets - 1]) <= Bounds[b]
    BY <1>3, <1>4, <1>5, <2>1 DEF Smaller
  <2>3. Smaller(x, Bounds[NumBuckets - 1]) <= max
    BY <1>3, <1>6, <2>1 DEF Smaller
  <2> HIDE DEF Smaller
  <2> QED
    <3>1. p = Bounds[b] \/ p = max
      BY <1>2, Zenon DEF Smaller
    <3> QED
      BY <1>5, <1>6, <2>2, <2>3, <3>1, Zenon
<1>9. 100 * p <= Growth * Larger(x, Bounds[0])
  <2>1. Larger(x, Bounds[0]) \in Nat /\ Growth \in Nat
    BY <1>3, SnapshotsAssumption DEF Larger, Buckets
  <2>2. Growth * Larger(x, Bounds[0]) \in Nat
    BY <2>1
  <2> QED
    BY <1>5, <1>7, <2>2
<1> QED
  BY <1>3, <1>7, <1>8, <1>9, Zenon DEF Accurate, max, p, x

\* Every percentile of a report with requests is within one bucket of the
\* latency of the request of that rank, or is the bound of the last bucket if
\* that is smaller, and is not above the maximum unless that is 0, for every
\* table of bucket bounds that grows by at most Growth percent from one to the
\* next.
THEOREM PercentilesAreAccurate == Spec => []PercentileAccurate
<1>1. StatsInv => PercentileAccurate
  <2> SUFFICES ASSUME StatsInv, report # None, Entries # {}, NEW q \in Ranks PROVE Accurate(q)
    BY DEF PercentileAccurate, Ranks
  <2>1. reader = "ended"
    BY Zenon DEF StatsInv, FinalInv
  <2> QED
    BY <2>1, PercentileIs
<1> QED
  BY <1>1, StatsInvariant, PTL

-----------------------------------------------------------------------------
(* The verdict. *)

LEMMA NoEntries ==
  ASSUME StatsInv, reader = "ended", Entries = {}, NEW q
  PROVE  Percentile(report, q) = 0
<1>1. NumBuckets - 1 \in Buckets
  BY SnapshotsAssumption DEF Buckets
<1>2. Upto(report, NumBuckets - 1) = Cardinality(InBuckets(NumBuckets - 1))
  BY <1>1, UptoCounts, Zenon
<1>3. InBuckets(NumBuckets - 1) = {}
  BY Zenon DEF InBuckets
<1>4. Upto(report, NumBuckets - 1) = 0
  BY <1>2, <1>3, FS_EmptySet
<1> QED
  BY <1>4, Zenon DEF Percentile

\* A latency gate against the requests: a gate below the bound of the last bucket
\* finds a percentile that is really too high, and one that any gate finds is too
\* high up to one bucket.
LEMMA GateIs ==
  ASSUME StatsInv, reader = "ended", NEW q \in Ranks, NEW limit \in Nat
  PROVE  LET found == limit > 0 /\ Percentile(report, q) > limit
             x == ExactPercentile(q)
             n == Cardinality(Entries)
         IN /\ limit > 0 /\ limit < Bounds[NumBuckets - 1] /\ n > 0 /\ x > limit => found
            /\ found => limit > 0 /\ n > 0 /\ Growth * Larger(x, Bounds[0]) > 100 * limit
<1> DEFINE x == ExactPercentile(q)
           p == Percentile(report, q)
           n == Cardinality(Entries)
           g == Growth * Larger(x, Bounds[0])
<1>1. IsFiniteSet(Entries)
  BY Zenon DEF StatsInv, WriteInv, TodoInv
<1>2. n \in Nat /\ (n = 0 <=> Entries = {})
  BY <1>1, FS_CardinalityType, FS_EmptySet
<1>3. CASE Entries = {}
  <2>1. p = 0 /\ n = 0
    BY <1>2, <1>3, NoEntries
  <2> QED
    BY <2>1
<1>4. CASE Entries # {}
  <2>1. Accurate(q) /\ x \in Nat /\ p \in Nat
    BY <1>4, PercentileIs, Zenon
  <2>2. p >= Smaller(x, Bounds[NumBuckets - 1]) /\ 100 * p <= g
    BY <2>1, Zenon DEF Accurate
  <2>3. n > 0
    BY <1>2, <1>4
  <2>4. g \in Nat
    <3>1. Growth \in Nat /\ Bounds[0] \in Nat
      BY SnapshotsAssumption DEF Buckets
    <3>2. Larger(x, Bounds[0]) \in Nat
      BY <2>1, <3>1, Zenon DEF Larger
    <3> QED
      BY <3>1, <3>2
  <2> HIDE DEF x, p, n, g
  <2>5. limit > 0 /\ limit < Bounds[NumBuckets - 1] /\ n > 0 /\ x > limit => limit > 0 /\ p > limit
    <3>1. Bounds[NumBuckets - 1] \in Nat
      BY SnapshotsAssumption DEF Buckets
    <3> QED
      BY <2>1, <2>2, <3>1 DEF Smaller
  <2>6. limit > 0 /\ p > limit => limit > 0 /\ n > 0 /\ g > 100 * limit
    BY <2>1, <2>2, <2>3, <2>4
  <2> QED
    BY <2>5, <2>6, Zenon DEF x, p, n, g
<1> QED
  BY <1>3, <1>4

\* The exit code is right: a run that ends with 0 was within every gate, those
\* on latency from the bound of the last bucket on excepted, and one that ends
\* with 2 broke one, the latency gates up to one bucket, whatever the gates, the
\* requests and the duration were.
THEOREM ExitCodeIsRight == Spec => []VerdictIsRight
<1>1. ASSUME StatsInv, verdict # None PROVE VerdictIsRight
  <2> DEFINE slo == verdict.slo
             n == Cardinality(Entries)
             failed == Cardinality({e \in Entries : ~Good(Made(e).x)})
             gates == {<<950, slo.p95>>, <<990, slo.p99>>}
             slow(g) == 0 < g[2] /\ g[2] < Bounds[NumBuckets - 1]
                          /\ n > 0 /\ ExactPercentile(g[1]) > g[2]
             notFast(g) == g[2] > 0 /\ n > 0
                             /\ Growth * Larger(ExactPercentile(g[1]), Bounds[0]) > 100 * g[2]
             failing == slo.errPct > 0 /\ 100 * failed > slo.errPct * n
             lagging == slo.minRPS > 0 /\ n < slo.minRPS * verdict.elapsed
             found(g) == g[2] > 0 /\ Percentile(report, g[1]) > g[2]
  <2>1. reader = "ended"
    BY <1>1, Zenon DEF StatsInv, FinalInv
  <2>2. /\ verdict.elapsed \in Nat /\ slo.errPct \in Nat /\ slo.minRPS \in Nat
        /\ slo.p95 \in Nat /\ slo.p99 \in Nat
    BY <1>1, ShardStatsAssumption DEF StatsInv, ReadTypeOK
  <2>3. report[Total("requests")] = n /\ report[Total("failures")] = failed
    <3>1. {e \in Entries : ~Good(Made(e).x)} = {e \in Entries : ~Good(Of[e].x)}
      BY Zenon DEF Of
    <3>2. /\ report[Total("requests")] = Cardinality(Entries)
          /\ report[Total("failures")] = Cardinality({e \in Entries : ~Good(Of[e].x)})
      BY <1>1, <2>1, ReportCounts, Zenon
    <3> QED
      BY <3>1, <3>2, Zenon
  <2>4. n \in Nat /\ failed \in Nat
    <3>1. IsFiniteSet(Entries)
      BY <1>1, Zenon DEF StatsInv, WriteInv, TodoInv
    <3>2. IsFiniteSet({e \in Entries : ~Good(Made(e).x)})
      BY <3>1, FS_Subset, Zenon
    <3> QED
      BY <3>1, <3>2, FS_CardinalityType
  <2>5. \A g \in gates : (slow(g) => found(g)) /\ (found(g) => notFast(g))
    <3>1. \A q \in Ranks, limit \in Nat :
            (slow(<<q, limit>>) => found(<<q, limit>>)) /\ (found(<<q, limit>>) => notFast(<<q, limit>>))
      BY <1>1, <2>1, GateIs
    <3>2. 950 \in Ranks /\ 990 \in Ranks
      BY DEF Ranks
    <3> HIDE DEF slow, found, notFast, slo
    <3> QED
      BY <2>2, <3>1, <3>2
  <2>6. Check(slo, report, verdict.elapsed)
          <=> \/ \E g \in gates : found(g)
              \/ failing
              \/ slo.minRPS > 0 /\ (verdict.elapsed = 0 \/ n < slo.minRPS * verdict.elapsed)
    <3>1. (\E g \in gates : found(g))
            <=> \/ slo.p95 > 0 /\ Percentile(report, 950) > slo.p95
                \/ slo.p99 > 0 /\ Percentile(report, 990) > slo.p99
      <4> HIDE DEF slo
      <4> QED
        OBVIOUS
    <3>2. report[Total("failures")] * 100 = 100 * failed
      <4> HIDE DEF failed
      <4> QED
        BY <2>3, <2>4
    <3>3. (report[Total("failures")] * 100 > slo.errPct * report[Total("requests")])
            <=> (100 * failed > slo.errPct * n)
      <4> HIDE DEF slo, n, failed
      <4> QED
        BY <2>3, <3>2, Zenon
    <3>4. (report[Total("requests")] < slo.minRPS * verdict.elapsed) <=> (n < slo.minRPS * verdict.elapsed)
      <4> HIDE DEF slo, n
      <4> QED
        BY <2>3, Zenon
    <3>5. Check(slo, report, verdict.elapsed)
            <=> \/ slo.p95 > 0 /\ Percentile(report, 950) > slo.p95
                \/ slo.p99 > 0 /\ Percentile(report, 990) > slo.p99
                \/ slo.errPct > 0
                     /\ report[Total("failures")] * 100 > slo.errPct * report[Total("requests")]
                \/ slo.minRPS > 0
                     /\ (verdict.elapsed = 0 \/ report[Total("requests")] < slo.minRPS * verdict.elapsed)
      <4> HIDE DEF slo
      <4> QED
        BY Zenon DEF Check
    <3> HIDE DEF slo, n, failed, gates, found
    <3> QED
      BY <3>1, <3>3, <3>4, <3>5, SMT
  <2>7. /\ verdict.exit = 0 => ~Check(slo, report, verdict.elapsed)
        /\ verdict.exit = 2 => Check(slo, report, verdict.elapsed)
    BY <1>1, Zenon DEF StatsInv, VerdictInv
  <2>8. verdict.elapsed = 0 => ~lagging
    <3> HIDE DEF n, slo
    <3> QED
      BY <2>2, <2>4
  <2>9. /\ verdict.exit = 0 => ~failing /\ ~lagging /\ \A g \in gates : ~slow(g)
        /\ verdict.exit = 2 =>
             \/ failing \/ lagging \/ \E g \in gates : notFast(g)
             \/ slo.minRPS > 0 /\ verdict.elapsed = 0
    <3> HIDE DEF slo, n, failed, gates, slow, notFast, found
    <3> QED
      BY <2>5, <2>6, <2>7, <2>8, Zenon
  <2> QED
    BY <2>9, Zenon DEF VerdictIsRight
<1>2. StatsInv => VerdictIsRight
  BY <1>1 DEF VerdictIsRight
<1> QED
  BY <1>2, StatsInvariant, PTL
=============================================================================
