----------------------------- MODULE ShardStats -----------------------------
(***************************************************************************)
(* Recording and reading at the same time: every goroutine of the engine   *)
(* records into its own Shard, one atomic operation after the other, while *)
(* the reporter folds the shards into a Snapshot, one load after the       *)
(* other, for the dashboard's ticks and at last for the report, from which *)
(* titanload run makes its exit code.                                      *)
(***************************************************************************)
EXTENDS Snapshots, Sequences

CONSTANTS
  MaxShards,   \* bound: goroutines of the engine, one shard each
  Requests,    \* requests: the latency us in microseconds, and the exchange x
  MaxUs,       \* bound: the latency of a request
  MaxRecords,  \* bound: requests of all goroutines
  MaxTicks,    \* bound: ticks while so many goroutines record
  SLOs,        \* gates: p95, p99 in microseconds, errPct in percent, minRPS
  Elapsed,     \* how long a run takes, in seconds
  None         \* no snapshot, no exit

\* A latency fits a counter, and so does the sum of all.
ASSUME ShardStatsAssumption ==
  /\ MaxShards \in Nat \ {0} /\ Elapsed \subseteq Nat
  /\ \A r \in Requests :
       r.us \in 0..MaxUs /\ r.x \in Exchanges /\ (r.x.answer # "full" => Honest(r.x))
  /\ SLOs \subseteq [p95 : Nat, p99 : Nat, errPct : Nat, minRPS : Nat]
  /\ MaxTicks \in [1..MaxShards -> Nat]
  /\ MaxRecords \in Nat /\ MaxUs \in 1..MaxUint /\ MaxRecords * MaxUs <= MaxUint

VARIABLES
  pool,      \* cfg.Concurrency
  shard,     \* the shards
  log,       \* the requests of each goroutine: it is recording the last one,
  todo,      \* as long as there are operations of Record it has still to do
  done,      \* the engine is done
  reading,   \* the snapshot AddShard is filling
  from,      \* the shard it reads
  next,      \* the next of its loads
  reader,    \* idle, tick, report, ended
  prev,      \* the snapshot of the last tick
  interval,  \* what that tick showed
  ticks,     \* ticks so far
  report,    \* the final snapshot
  verdict    \* the gates, the time the run took, and the exit code

writeVars == <<pool, shard, log, todo, done>>
readVars == <<reading, from, next, reader, prev, interval, ticks, report, verdict>>
vars == <<writeVars, readVars>>

\* One for each goroutine of the pool.
Shards == 1..pool

Init ==
  /\ pool \in 1..MaxShards
  /\ shard = [s \in Shards |-> NewSnapshot]
  /\ log = [s \in Shards |-> <<>>]
  /\ todo = [s \in Shards |-> <<>>]
  /\ done = FALSE
  /\ reading = NewSnapshot /\ from = pool + 1 /\ next = 1 /\ reader = "idle"
  /\ prev = None /\ interval = None /\ ticks = 0
  /\ report = None /\ verdict = None

\* The requests made: the k-th of goroutine s is <<s, k>>.
Entries == UNION {{s} \X (1..Len(log[s])) : s \in Shards}
Made(e) == log[e[1]][e[2]]
-----------------------------------------------------------------------------
(* Record                                                                  *)

ClassOf(x) ==
  IF Do(x).err \/ Do(x).status \notin 100..599 THEN ClassOther ELSE Do(x).status \div 100 - 1

\* An error of the transport is a failure only without a status.
StoresStatusFirst(r) ==
  <<<<"hist", bucketFor(r.us)>>, Total("requests"), Total("sumUs"), Total("maxUs"),
    Total("minUs")>> \o
  CASE Do(r.x).status >= 400 ->
         <<<<"class", ClassOf(r.x)>>, Total("failures")>>
    [] Do(r.x).err /\ Do(r.x).status = 0 ->
         <<Total("failures"), <<"class", ClassOther>>, <<"err", ErrKind(r.x)>>>>
    [] OTHER -> <<<<"class", ClassOf(r.x)>>>>

\* The counters Record adds to, in its order.
Stores(r) ==
  <<<<"hist", bucketFor(r.us)>>, Total("requests"), Total("sumUs"), Total("maxUs"),
    Total("minUs")>> \o
  CASE Do(r.x).err ->
         <<Total("failures"), <<"class", ClassOther>>, <<"err", ErrKind(r.x)>>>>
    [] ~Do(r.x).err /\ Do(r.x).status >= 400 ->
         <<<<"class", ClassOf(r.x)>>, Total("failures")>>
    [] OTHER -> <<<<"class", ClassOf(r.x)>>>>

Record(s) ==
  /\ ~done /\ todo[s] = <<>>
  /\ Cardinality(Entries) < MaxRecords
  /\ \E r \in Requests :
       /\ log' = [log EXCEPT ![s] = Append(@, r)]
       /\ todo' = [todo EXCEPT ![s] = Stores(r)]
  /\ UNCHANGED <<pool, shard, done, readVars>>

\* What Record adds to a counter.
Added(c, r) ==
  IF c \in {Total("sumUs"), Total("maxUs"), Total("minUs")} THEN r.us ELSE 1

\* One operation.  The compare-and-swap loops of the maximum and the minimum
\* succeed at once: nobody else writes the shard.
Store(s) ==
  /\ todo[s] # <<>>
  /\ LET c == Head(todo[s])
     IN shard' = [shard EXCEPT ![s][c] = Combine(c, @, Added(c, log[s][Len(log[s])]))]
  /\ todo' = [todo EXCEPT ![s] = Tail(@)]
  /\ UNCHANGED <<pool, log, done, readVars>>

\* The goroutines are gone and done is closed: LoadEngine!Finish.
Finish ==
  /\ ~done /\ \A s \in Shards : todo[s] = <<>>
  /\ done' = TRUE
  /\ UNCHANGED <<pool, shard, log, todo, readVars>>
-----------------------------------------------------------------------------
(* Snapshot, AddShard and their callers                                    *)

HistLoads == [i \in 1..NumBuckets |-> {<<"hist", i - 1>>}]
CounterLoads ==
  <<{Total("requests")}, {Total("failures")}, {Total("sumUs")}, {Total("maxUs")},
    {Total("minUs")}, {<<"class", 0>>}, {<<"class", 1>>}, {<<"class", 2>>},
    {<<"class", 3>>}, {<<"class", 4>>}, {<<"class", 5>>}, {"err"} \X Kinds>>

\* The counters first, the histogram last.
LoadsHistLast == CounterLoads \o HistLoads

\* What AddShard loads, in its order; the kinds of errors are read under a
\* lock, in one step.
Loads == HistLoads \o CounterLoads

Loaded(sn, sh, C) ==
  [c \in Counters |-> IF c \in C THEN Combine(c, sn[c], sh[c]) ELSE sn[c]]

\* Engine.Snapshot: all shards, one after the other.
StartSnapshot ==
  /\ reading' = NewSnapshot /\ from' = 1 /\ next' = 1
  /\ UNCHANGED writeVars

Load ==
  /\ from <= pool
  /\ reading' = Loaded(reading, shard[from], Loads[next])
  /\ IF next < Len(Loads) THEN next' = next + 1 /\ UNCHANGED from
     ELSE next' = 1 /\ from' = from + 1
  /\ UNCHANGED <<writeVars, reader, prev, interval, ticks, report, verdict>>

\* A tick of the dashboard, the last one after done.
StartTick ==
  /\ reader = "idle"
  /\ ticks < MaxTicks[pool] + (IF done THEN 1 ELSE 0)
  /\ reader' = "tick" /\ ticks' = ticks + 1
  /\ StartSnapshot
  /\ UNCHANGED <<prev, interval, report, verdict>>

\* What the tick shows is the difference to the tick before.
Tick ==
  /\ reader = "tick" /\ from > pool
  /\ interval' = IF prev = None THEN Merge(NewSnapshot, reading) ELSE Sub(reading, prev)
  /\ prev' = reading
  /\ reader' = "idle" /\ reading' = NewSnapshot
  /\ UNCHANGED <<writeVars, from, next, ticks, report, verdict>>

\* The dashboard has returned, and its state with it: the engine is done.
StartReport ==
  /\ reader = "idle" /\ done
  /\ reader' = "report"
  /\ prev' = None /\ interval' = None /\ ticks' = 0
  /\ StartSnapshot
  /\ UNCHANGED <<report, verdict>>

\* SLO.Check with the median in place of the 95th percentile.
CheckMedian(slo, sn, elapsed) ==
  \/ slo.p95 > 0 /\ Percentile(sn, 500) > slo.p95
  \/ slo.p99 > 0 /\ Percentile(sn, 990) > slo.p99
  \/ slo.errPct > 0 /\ sn[Total("failures")] * 100 > slo.errPct * sn[Total("requests")]
  \/ slo.minRPS > 0 /\ (elapsed = 0 \/ sn[Total("requests")] < slo.minRPS * elapsed)

\* SLO.Check finds a violation: gates that are 0 are off, ErrorRate is 0
\* without requests, and RPS is 0 when no time has passed.
Check(slo, sn, elapsed) ==
  \/ slo.p95 > 0 /\ Percentile(sn, 950) > slo.p95
  \/ slo.p99 > 0 /\ Percentile(sn, 990) > slo.p99
  \/ slo.errPct > 0 /\ sn[Total("failures")] * 100 > slo.errPct * sn[Total("requests")]
  \/ slo.minRPS > 0 /\ (elapsed = 0 \/ sn[Total("requests")] < slo.minRPS * elapsed)

\* Build and finish: the summary may not be written, and the gates decide.
Report ==
  /\ reader = "report" /\ from > pool
  /\ report' = reading
  /\ \E slo \in SLOs, elapsed \in Elapsed, written \in BOOLEAN :
       verdict' = [slo |-> slo, elapsed |-> elapsed,
                   exit |-> IF ~written THEN 1
                            ELSE IF Check(slo, reading, elapsed) THEN 2 ELSE 0]
  /\ reader' = "ended" /\ reading' = NewSnapshot
  /\ UNCHANGED <<writeVars, from, next, prev, interval, ticks>>

Rest == reader = "ended" /\ UNCHANGED vars

Next ==
  \/ \E s \in Shards : Record(s) \/ Store(s)
  \/ Finish
  \/ StartTick \/ Load \/ Tick \/ StartReport \/ Report
  \/ Rest

Spec == Init /\ [][Next]_vars
-----------------------------------------------------------------------------
(* Properties.                                                             *)

Snaps == [Counters -> 0..MaxUint]

WriteTypeOK ==
  /\ pool \in 1..MaxShards /\ shard \in [Shards -> Snaps]
  /\ log \in [Shards -> Seq(Requests)] /\ todo \in [Shards -> Seq(Counters)]
  /\ done \in BOOLEAN

ReadTypeOK ==
  /\ reading \in Snaps /\ from \in 1..(pool + 1) /\ next \in 1..Len(Loads)
  /\ reader \in {"idle", "tick", "report", "ended"} /\ ticks \in Nat
  /\ {prev, interval, report} \subseteq Snaps \cup {None}
  /\ verdict \in [slo : SLOs, elapsed : Elapsed, exit : 0..2] \cup {None}

\* The types; every counter is an unsigned integer.
TypeOK == WriteTypeOK /\ ReadTypeOK

\* The exchange was as it should be.
Good(x) ==
  x.answer = "full" /\ IF x.proto = "grpc" THEN x.serving ELSE x.status < 400

\* The class of the response: its status by hundreds, or other.
InClass(x, i) ==
  IF x.answer = "full" /\ Do(x).status \in 100..599
  THEN Do(x).status \in (100 * (i + 1))..(100 * (i + 1) + 99)
  ELSE i = ClassOther

\* What a request should add to a counter that is a sum.
Amount(c, r) ==
  CASE c = Total("sumUs")    -> r.us
    [] c = Total("requests") -> 1
    [] c = Total("failures") -> IF Good(r.x) THEN 0 ELSE 1
    [] c[1] = "hist"         -> IF bucketFor(r.us) = c[2] THEN 1 ELSE 0
    [] c[1] = "class"        -> IF InClass(r.x, c[2]) THEN 1 ELSE 0
    [] c[1] = "err"          -> IF r.x.answer # "full" /\ r.x.why = c[2] THEN 1 ELSE 0

Latencies == {Made(e).us : e \in Entries}

\* The snapshot that says what was really done.
Exact ==
  [c \in Counters |->
     CASE c = Total("maxUs") -> Max(Latencies \cup {0})
       [] c = Total("minUs") -> Min(Latencies \cup {MaxUint})
       [] OTHER              -> SumFunction([e \in Entries |-> Amount(c, Made(e))])]

\* The report is exact: the snapshot taken after done has every request, once,
\* in each of its counters, although recording uses no lock; a response that is
\* cut is one failure, and every error is counted under what went wrong.
FinalExact == report # None => report = Exact

\* The snapshots of all shards, merged one after the other.
Merged ==
  LET upto[n \in 0..pool] == IF n = 0 THEN NewSnapshot ELSE Merge(upto[n - 1], shard[n])
  IN upto[pool]

\* "the aggregated p99 is exact across workers": merging the final snapshots of
\* workers, with Merge, gives what one engine that made all the requests would
\* have reported.
MergeExact == report # None => Merged = Exact

\* No tick of a local run wraps around: a snapshot taken while goroutines record
\* is in no counter behind the snapshot of the tick before, so Sub never goes
\* below 0.
TicksAreCumulative == interval # None => \A c \in Sums : interval[c] <= prev[c]

\* A snapshot of live shards is torn, but its histogram is ahead of its request
\* counter by at most one request for each goroutine that has recorded any.
HistogramLag ==
  prev # None =>
    Upto(prev, NumBuckets - 1)
      <= prev[Total("requests")] + Cardinality({s \in Shards : log[s] # <<>>})

\* The latency of the request of that rank.
ExactPercentile(q) ==
  LET rank == Rank(q, Cardinality(Entries))
  IN Min({u \in Latencies : Cardinality({e \in Entries : Made(e).us <= u}) >= rank})

\* The report's percentile against the request of that rank: it is not below it,
\* nor, when the request is beyond the last bucket, below the bound of that
\* bucket (60.7s in the code), which is all the histogram keeps of it; it is
\* not more than one bucket width above it; and it is not above the maximum,
\* except that the bound of the first bucket, 1us, is reported when the maximum
\* is 0 (histogram.go:236 takes 0 for "no maximum").
Accurate(q) ==
  LET exact == ExactPercentile(q)
      p == Percentile(report, q)
      max == report[Total("maxUs")]
  IN /\ p >= Smaller(exact, Bounds[NumBuckets - 1])
     /\ 100 * p <= Growth * Larger(exact, Bounds[0])
     /\ p <= IF max > 0 THEN max ELSE Bounds[0]

\* "Percentiles are within ±2% and never exceed the observed max"
\* (docs/titanload.md:141).  This holds for every report with requests from the
\* first bucket to the last; what is reported below the one and beyond the other
\* Accurate says.
PercentileAccurate ==
  report # None /\ Entries # {} => \A q \in {1, 500, 950, 990, 1000} : Accurate(q)

\* "titanload can fail a CI stage (exit code 2) when performance regresses": a
\* run that ends with 0 really was within every gate that is set, but for gates
\* on latency at or above the bound of the last bucket (60.7s in the code),
\* which no percentile ever exceeds; one that ends with 2 really broke a gate,
\* one on latency up to one bucket width.  A run without a request is within
\* the gates on latency and errors.
VerdictIsRight ==
  verdict # None =>
    LET slo == verdict.slo
        n == Cardinality(Entries)
        failed == Cardinality({e \in Entries : ~Good(Made(e).x)})
        gates == {<<950, slo.p95>>, <<990, slo.p99>>}
        slow(g) == 0 < g[2] /\ g[2] < Bounds[NumBuckets - 1]
                     /\ n > 0 /\ ExactPercentile(g[1]) > g[2]
        notFast(g) == g[2] > 0 /\ n > 0
                        /\ Growth * Larger(ExactPercentile(g[1]), Bounds[0]) > 100 * g[2]
        failing == slo.errPct > 0 /\ 100 * failed > slo.errPct * n
        lagging == slo.minRPS > 0 /\ n < slo.minRPS * verdict.elapsed
    IN /\ verdict.exit = 0 => ~failing /\ ~lagging /\ \A g \in gates : ~slow(g)
       /\ verdict.exit = 2 =>
            \/ failing \/ lagging \/ \E g \in gates : notFast(g)
            \/ slo.minRPS > 0 /\ verdict.elapsed = 0
=============================================================================
