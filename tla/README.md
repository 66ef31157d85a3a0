# TitanEdge: TLA+ models, checks and proofs

TitanEdge is an HTTP API with an event pipeline behind it (Kafka, PostgreSQL, Redis) and
`titanload`, the distributed load generator that measures it. This directory holds TLA+ modules
for the parts of it that have state and concurrency, the TLC configurations that check small
instances of them, and TLAPS proofs of the central properties for every value of the constants.
`PROJECT.json` maps every definition to the source lines it models and lists runs, mutants,
hazards, findings and theorems.

## The system

| Part | Code | State | Operations | What makes it hard |
|---|---|---|---|---|
| Event producer | `internal/events`, `publishEvent` and `createItem` in `internal/api/handlers.go`, `serve` in `cmd/api/main.go` | produce buffer, answers, metrics, phase of the process | publish, insert then publish, acknowledge, drain, flush, close, crash | bound tested before use, callbacks after the answer, timeouts at shutdown |
| Event consumer | `internal/worker` | pending batch, positions, committed offsets, rollups, live counters | poll, aggregate, flush, commit, stop, crash, rejoin | two sinks and a commit without a transaction, rebalances, eviction, a cancelled context |
| Load coordinator and workers | `internal/titanload/distributed` | registrations, job, states, snapshots, done; worker's place in `runOnce` | register, job, report, markLost, deadline, retry | lost answers, late reports, dead workers |
| Load engine | `internal/titanload/engine` | goroutines, `issued`, token channel, pacer, its ticker, context | issue, request, pace, stop, finish | races for the last request, a pacer blocked on a full channel, missed ticks, truncated schedules |
| Transports, statistics, SLO gates | `internal/titanload/engine/transport.go`, `stats`, `dashboard`, `report`, `finish` in `cmd/titanload/main.go` | shards, snapshots, verdict and exit code | do, classify, record, snapshot, merge, subtract, percentile, check | an answer that is cut, lock-free reads of what is being written, unsigned subtraction, gates on bucket bounds |
| Schema migration | `internal/store` (`Migrate`) | advisory lock, transaction, `schema_migrations` | lock, check, execute, record, commit, unlock | replicas at once, crashes between any two statements |
| API server life | `serve` in `cmd/api/main.go`, `internal/grpcserver` | phase, requests in flight at three servers, signal, timeout, exit code | boot, wait for PostgreSQL, migrate, connect, serve, drain, close | a signal at any moment, a lost connection, streams that never end |
| Readiness | `internal/api/server.go` (`Ready`) | mutex, cached answer | probe, check, cache | thundering herd, one caller's context used for all |
| API request path | `internal/api` (middleware and handlers) | admission tokens, Redis entries, rows, memoised count | ping, get, list, create, stats, shed, panic | tokens on every way out, a cache beside a database |
| Others | configuration, observability, web, deployment | | | not modelled, see below |

The API writes events, Kafka carries them, the consumer counts them: `EventProducer` ends with a
record in the topic, `EventConsumer` begins with one. A titanload worker runs one engine, the
engine's goroutines record in shards, and the coordinator merges the snapshots: `LoadCoordinator`
abstracts the engine to a counter and an end, which is what `LoadEngine` and `ShardStats` show of
it (`DoneIsComplete`, `FinalExact`).

Three specifications are built on another one and shown to implement it:

| Detailed | Abstract | How |
|---|---|---|
| `EventConsumer` | `EventDelivery` | `INSTANCE` with the committed positions and the rollups; property `ImplementsDelivery` of the run `consumer`, theorem `DeliveryImplemented` |
| `PacedEngine` | `LoadEngine` | extends it and adds a clock; theorem `PacedImplements` |
| `ApiLifecycle` | `SchemaMigration` | extends it: the replica is one of the runs of `Migrate`; theorem `LifecycleImplements` |

## Modules

Actions keep the names of the functions they model. A failing or blocking call is its own step, so
that everything else may happen before and after it. Definitions whose comment describes a wrong
behaviour (`FlushFailIgnored`, `RegisterAnytime`, ...) are the mutants: each stands before the
definition it would replace, and no specification uses it.

**EventConsumer** (`worker.go`). Pods run `Consumer.Run`: `PollRecords`, `PollTimeout`,
`PollError`, then `FlushStore`/`StoreDone`/`FlushFail` (the upsert takes effect before its answer
arrives), `IncrBy`, `Commit`/`CommitFail`/`CommitFenced`, each ending in Reset and AllowRebalance.
`Stop` cancels the context under whatever call is running; `LeaveLoop` is the last flush, with a
context of its own. `Close` is the deferred `client.Close()`; after a last flush that failed,
rebalances are still blocked and it hangs, until Kubernetes ends the pod (`Kill`, external). The
consumer group (`Assign`, `Revoke`, `Evict`, `Rejoin`) is external and
follows the options `NewConsumer` gives: no autocommit, rebalances blocked from a poll to
`AllowRebalance`, commits fenced by generation. A record is its partition and position; the
rollups are kept as one counter per record, of which every real rollup is a sum.

**EventDelivery** is what the consumer promises, without pods, groups or faults: batches are added
to the rollups, and a committed position moves forward only, over events that are in the rollups.

**EventProducer** (`events.go`, `handlers.go`, `cmd/api/main.go`). A request is one record.
`Publish` and `TryProduce` are two steps because the code tests the bound and then produces. The
Kafka client (`AppendRecord`, `Resend`, `Acked`, `Refused`) is external: leader acknowledgement, no
idempotent writes. `Shutdown`, `Drained`, `Closed`, `Exit` are the end of `serve` and the deferred
`Kafka.Close`.

**LoadCoordinator** (`distributed.go`, `distributed/worker.go`). The handlers are one step each,
since each holds the mutex. Messages are a set of reports that are delivered in any order, dropped,
delivered without an answer, or given up by their sender and delivered later. A snapshot is its
request count.

**LoadEngine** (`engine.go`). Goroutines of `worker`, the pacer, the token channel by its length,
the context by a flag. The schedule of the open model is a number of requests due, which grows at
each tick.

**PacedEngine** (`engine.go`) adds the clock: a ticker whose channel holds one tick, so that a
stalled pacer misses ticks, and `ExpectedRequests` and `ScheduleOffset` themselves, with and without
a ramp. Rates are fractions; the model computes exactly and truncates where the code does.

**Transport** (`transport.go`). What `Do` of the HTTP and the gRPC requester makes of an exchange
(an answer that is complete, cut or missing), and `Classify`, which takes the first kind of error
that applies, in the order of the code.

**Snapshots**, **ShardStats** (`histogram.go`, `dashboard.go`, `report.go`, `main.go`). `Snapshots`
has the pure operators: `bucketFor`, `Merge`, `Sub`, `Percentile`, with counters modulo W and any
increasing table of bucket bounds in which each is at most `Growth`/100 times the one before. In
`ShardStats` goroutines do the operations of `Record` one at a time while a reader does the loads
of `AddShard` one at a time. After the last request `Report` takes the final snapshot, applies
`SLO.Check` and sets the exit code.

**SchemaMigration** (`store.go`). A run of `Migrate` is a PostgreSQL session with lock and
transaction; a lost client leaves a session that the server ends later. Connections may be lost and
statements may fail any number of times.

**ApiLifecycle** (`cmd/api/main.go`). One replica, `Pod`, from its configuration to its exit code:
`Boot`, `WaitForPostgres`, `MigrateReturns` or `MigrateLost` around its run of `SchemaMigration`,
`Connect`, three servers that accept requests until their drain begins, `StopServing` on a signal or
when a server breaks, the drains in the order of the code under one timeout (`HttpDrained`,
`GrpcDrained`, `MetricsDrained`), and `ProcessEnds` when the deferred `pg.Close` has waited for the
queries that still run. Other runs of `Migrate`, of replicas or of the migration job, go on beside it.

**ReadinessProbe** (`server.go`). `Ready` under its mutex, with the context of the prober that
runs the checks.

**ApiRequests** (`middleware.go`, `handlers.go`). A handler is one step per call to PostgreSQL or
Redis; `Admit` and `Shed` are the admission controller, `Panic` the recoverer and the deferred calls.
Readiness and publishing have modules of their own.

The `MC*` modules give TLC its constants; the `*Proofs` modules, `ShardStatsLemmas` and
`ShardStatsSteps` hold the theorems and lemmas.

## Runs

| Run | Bounds | Result |
|---|---|---|
| `consumer` | 2 pods, a partition with an event and an undecodable record, batches of 2, 2 faults, 1 rebalance | implements `EventDelivery`, batches never outlive their partition, Redis after PostgreSQL, extra counts only for faults, everything drained in the end |
| `producer` | 3 events, 1 create, a buffer of 2, 2 faults | bound kept, events only for rows that exist, one metric per record, a clean stop loses nothing, accepted records are settled |
| `coordinator` | 2 workers, 1 expected, 3 registrations, a budget of 1, 1 fault, with and without a duration, daemons or not | requests counted once and, without overtaking, all of them; done only when all have finished, and they stay so; budget met; a run completes, by its deadline or because silent workers are marked lost |
| `engine` | 3 goroutines, 3 requests, open model at 2/3 and 3/2 requests per unit, no ramp or one of 5 units, ticks every 2 units, stalls of up to 6, clock up to 14; closed model; with and without duration | budget kept, done means complete, never early, at most one request late after a stall, always ends |
| `stats` | one goroutine with a live tick or two without, 2 requests of 8 kinds, 4 buckets with bounds 1, 2, 4, 8 (`Growth` 200), latencies up to 9, 24 sets of gates, elapsed time 0 or 2 | final report and merge exact, errors classified, percentiles accurate, ticks never wrap, live histogram at most one request per goroutine ahead, exit code as the gates ask |
| `lifecycle` | a replica with 2 migrations beside a run with 1, any number of failures, 1 request in flight per server | exactly once, in order, one at a time; serves only a migrated schema; drains gracefully; every run ends; stops when asked |
| `api` | probed: 2 probers, 2 dependencies, 2 faults; used: 2 connections, 2 items, 2 tokens with any set of dependencies (but a bus beside a store and a cache) or 1 token with a store | one round of checks per expiry, ready only if all was found up, probes are answered, pod comes back; tokens exact, created items are found and lookups return the row asked for, every request ends |
| `consumer_scale_in` | no faults, a stop | **violated**, finding 1 |
| `producer_backpressure` | 2 events, a buffer of 1 | **violated**, finding 2 |
| `coordinator_late_report` | 1 fault | **violated**, finding 3 |
| `coordinator_budget` | 2 workers, 2 expected, a budget of 3, no faults | **violated**, finding 4 |
| `engine_pacing` | as `engine`, no ramp | **violated**, finding 5 |

Why the bounds are enough to be interesting. Two pods are what a rebalance, an eviction and a
double delivery need; two faults allow a failed write *and* a crash or an eviction after it; the
undecodable record makes positions advance without a batch, so an empty flush has to commit. A
buffer of 2 with four requests fills while two more are between test and produce. Two workers are
what "all finished", double registration and a budget that does not divide need, and three ids leave
one that nobody owns. Three requests for three goroutines leave none to spare for one that counts
wrongly, and up to 21 wanted by the schedule fill the channel of three. The two rates do not divide
the ticker's period, the ramp ends between two ticks, and a stall of 6 misses two ticks. In `stats`
the latencies are below one microsecond, inside a bucket and beyond the last bucket, a timeout comes
as a cut body and as a gRPC code, and every gate is off or set where the requests can be on either
side of it, one also at the bound of the last bucket; W = 64 is large enough that only an error wraps. In `lifecycle` two runs of different
releases are what the lock and the order need, and one request per server what a drain needs; a
third run multiplies the states by about twenty and adds only another waiter, which the proofs cover.
In `api` a pod is probed or it is used, chosen at the start: `ReadinessProbe` and `ApiRequests` share
no variable, and their interleavings would only multiply the states. Two clients are what a queue at
each mutex, a race for the last token and a stale entry in Redis need.
`MaxFaults`, `MaxRebalances`, `MaxIds`, `MaxStarted`, `MaxWant`, `MaxTime`, `MaxStall`, `MaxRecords`,
`MaxTicks` and `MaxBusy` are bounds of the models, not of the code. The proofs lift what they cover
to any number of pods, partitions, records, workers, goroutines, shards, buckets, runs, requests and
faults.

Deadlock is checked except in `engine` and `lifecycle`, where everything comes to an end and a run
stuck earlier violates a liveness property. No run uses symmetry.

## Fairness

Nothing obliges a fault, a stop, a rebalance, a cancellation or a request to happen. Beyond weak
fairness of processes that run and of timers:

- *EventConsumer*: strong fairness of `PollRecords` and `Rejoin`, of all pods together. A poll may time out or end with
  an error any number of times, but a broker that has records delivers them in the end, and a
  client that is again and again free to rejoin does so (franz-go does it in a background goroutine).
  Weak fairness of `Kill`: a pod that hangs in `Close` is ended after `terminationGracePeriodSeconds`
  (30 in `charts/platform/templates/worker.yaml`). Without it `EventuallyDrained` would not hold.
- *LoadCoordinator*: strong fairness of `SendFinal`: the worker's `select` chooses at random
  between `e.Done()` and the ticker, so the first is not passed over for ever. A report that is not
  dropped arrives.
- *PacedEngine*: weak fairness only; each request has its own timeout and the clock goes on.
- *ApiLifecycle*: strong fairness of granting the lock, PostgreSQL's queue for the advisory lock;
  weak fairness of `serve`, of its timer, of sessions and of queries. A cancelled context ends a
  pending `Migrate`. No request has to end: a stream or a handler may hang for ever, and
  `StopsWhenAsked` holds all the same. It does assume that PostgreSQL answers queries: `pg.Close`
  waits for them beyond `SHUTDOWN_TIMEOUT`.
- *ReadinessProbe*, *ApiRequests*: strong fairness of taking the mutex, which Go hands to the
  longest waiter after a millisecond. The handlers' database calls have no timeout of their own;
  `RequestsEnd` assumes that they end, at the latest when the client hangs up.

## Proofs

Everything below is proved by TLAPS for all values of the constants that satisfy the modules'
`ASSUME`s. These only give constants their types (and keep `None` and its like apart), but for the
statistics: bucket bounds increase, each at most
`Growth`/100 times the one before; no latency is above `MaxUs`, and a run
makes at most `MaxRecords` requests with `MaxRecords * MaxUs` at most the largest value of a counter, so
that `SumUs`, of 64 bits in the code, does not wrap; and the error of a
failed exchange wraps, or carries as its gRPC code, what went wrong (`Honest`). Each invariant is a conjunction that is inductive although the property is not.

- **EventConsumerProofs.** `PendingBatchSafe` needs `GroupInv`: besides the property, a member's
  client agrees with the coordinator about who owns a partition (`OwnersAgree`), a pod that is
  down holds nothing, and a member has polled at least as far as the committed position
  (`PositionsAhead`). The last is what makes `CommitsMonotone` follow: a commit is fenced, so it
  comes from a member, and moves to its position. `DeliveredAtLeastOnce` and `LiveCountersSafe` need
  `CountInv`: whatever a pod has polled is in its batch or in the rollups (`PolledIsSafe`), and
  after the upsert the whole batch is in the rollups (`FlushedIsCounted`).
- **EventConsumerProofs, EventDelivery.** `DeliveryImplemented` puts these invariants together: an
  upsert is a `Count` of the abstract specification because a batch has an event at most once and
  only valid ones (`BatchIsValid`), a commit, acknowledged or not, is a `Commit` because it moves forward over counted events, and every other step is a stutter.
  `ExtraCountsPaid` (`ExtraCountsNeedFaults`) keeps a budget for every event (`BudgetInv`): its
  count, plus the pods that may still count it (`Claims`: those with it in an unwritten batch, and
  the evicted ones that do not know and have yet to poll it), plus one if the group will deliver
  it, is at most 1 plus the faults plus the cancelled calls. Every action moves at most one pod, so
  a step is judged by what it adds for that pod (`Balanced`): a poll turns the delivery into a
  claim, an upsert a claim into a count, the end of a pod gives a claim back to the group, and only a fault
  or a cancelled call raises the sum.
- **ApiLifecycleProofs, EventProducer.** `BufferSafe` (the buffer is finite and bounded), `EventsFollowItems`
  (a create that is about to publish has its row) and `CountedOnceAlways` (a record not yet
  produced, or in the buffer, has not been counted). `CleanStopSafe` (`CleanStopDelivers`) needs
  `StopInv`: a shutdown that is not cut short finds no handler left when `Flush` starts, the buffer
  is empty once the client is closed, and until then what was answered with 202 is buffered, in the
  topic, or was refused by a broker fault.
- **LoadCoordinatorProofs.** `CoordInv` says whose each id is (`IdInv`), that a report on its way
  carries the id its worker still has and no more than it has done (`MsgInv`), that a snapshot
  belongs to the id its worker still has, so no worker has two (`SnapInv`), that an id whose worker
  still polls is ready and not finished (`PollInv`, which is why `handleJob` revives nobody), and
  when the job is out and done is set (`RunInv`, `FreshInv`, `DoneInv`). From it
  `CountedAtMostOnce`, `DoneIsFinished` and `FinishedForGood`. The totals need `SumInv` on top: an
  engine runs only between the job and the final report (`EngineInv`), so a final report counts all
  its worker did (`FinalInv`); a worker that gave no call up has one tick on its way at most and none
  beside a final report (`TickInv`), so an id that is done has the final snapshot
  (`ExactInv`); and the share is that of the ids given out, spent by every engine nobody stopped
  (`ShareInv`). From it `TotalsExact` (`ExactWithoutOvertaking`) and `BudgetIsMet` (`BudgetMet`):
  the requests `Snapshot` counts, each an id and a number, are mapped one to one to the requests the
  workers made along the worker of the id; and when every share was spent they are all pairs of an id
  and a number up to the share, so at least the budget.
- **EngineProofs, LoadEngine.** `EngineInv`: requests started are those recorded plus those in flight;
  `issued` counts the starts and those who met the end of the budget; a goroutine leaves only when
  the run is over; tokens sent and not taken are in the channel. From it `BudgetKept`,
  `FinalIsComplete` and `OnSchedule`.
- **EngineProofs, PacedEngine.** First lemmas about the schedule for every rate, ramp and time, one for each
  side of the ramp's end: if `ExpectedRequests` wants request n by a time, `ScheduleOffset(n)` is
  not after it, and if `ScheduleOffset(n)` is before a time, n requests are wanted by then. Then
  `PacedInv`: the pacer sends what is wanted by the last tick it received, and between ticks has
  sent no less. From it `ScheduleKept` (`NeverEarly`) and `CatchesUp` (`AtMostOneLate`).
  `PacedImplements` (`PacedSpec => Spec` of `LoadEngine`) carries the theorems about `LoadEngine`
  over (`PacedSafe`).
- **ApiLifecycleProofs, SchemaMigration and ApiLifecycle.** `MigrateInv`: a session past the lock has it (`LockInv`) and the
  migrations before its index are applied (`AtInv`). From it `ExactlyOnce`, `Exclusive`,
  `SuccessIsComplete`. `LifecycleImplements`: every step of a replica is a step of `SchemaMigration`
  or leaves its variables alone. `ReplicaServesMigrated` follows from `SuccessIsComplete` and from
  migrations never going away (`SchemaInv`); `ReplicaDrains` from `DrainInv`: a server accepts nothing once its drain
  has begun, and past it has nothing in flight unless the time was up.
- **ApiProofs, ReadinessProbe.** `RoundInv`: the result of a running round is that of the dependencies it has
  checked, and the cached one that of a whole round. `CreditInv`: there is a round to
  spend exactly when no answer is fresh and no round runs. From them `ReadyIsFound` and `NoHerd`.
- **ApiProofs, ApiRequests.** `RequestInv`: Redis holds under a key only the committed row of that key and
  only committed rows are acknowledged (`StoreInv`), and which places have an item, which of them a
  committed one (`ItemInv`). From it `LookupsRight`. `SlotsCounted` needs that every step
  of a handler either stays inside or leaves and gives its token back (`StepShape`).
- **ShardStatsLemmas, ShardStatsSteps, ShardStatsProofs.** The properties compare sums that the code
  builds up piece by piece with sums over all requests. The proofs count instead: a request that
  adds n to a counter is n units of a set (`Units`), a sum is the cardinality of its units
  (`SumIsCount`), and adding is a disjoint union. Induction over finite sets and numbers is stated
  with a set in place of the predicate (`NatSetInduction`, `SubsetInduction`), which the prover can
  instantiate. `StatsInv` has six parts. `WriteInv`: `Record` comes to each counter of a request
  once (`TodoInv`), and a counter of a shard is the weight of the requests whose turn at it has come
  (`ShardInv`), for the maximum and the minimum their extreme. `ReadInv`: the counters loaded so far
  (`Seen`) have no more than the shards, and with the shards still to be loaded not less than the
  snapshot before; this gives `TicksNeverWrap` (`TicksAreCumulative`) although everything moves
  between two loads. `LagInv` follows the histogram of a torn snapshot shard by shard: what was read
  is ahead of the request counter by at most one request per shard that has any, because `Record` fills the
  bucket before it counts the request and `AddShard` reads in the same order; this gives
  `HistogramLagsLittle` (`HistogramLag`). `FinalInv`: after done a snapshot has exactly what its shards
  have. `VerdictInv` ties the exit code to the gates, `ReadTypeOK` gives the types.
  `ReportIsExact` (`FinalExact`) then needs only that nothing is waiting after done, and that
  `Classify` names what went wrong (`ClassifyRight`). `MergedIsExact` (`MergeExact`) is an induction
  over the shards merged so far; a shard without requests must leave the minimum alone.
  `PercentilesAreAccurate` (`PercentileAccurate`): the buckets up to b hold the requests
  that `bucketFor` puts there (`UptoCounts`) and keep their order, so the bucket of a rank is that of the request of that rank
  (`RankBucketIs`), and its bound is within `Growth` of the latency (`BoundIsNear`). Beyond the last
  bucket the percentile is that bucket's bound, and a maximum of 0 is reported as the bound of the
  first (`FirstBucket`). `ExitCodeIsRight` (`VerdictIsRight`) carries this through `SLO.Check`, so
  that the only gates left out are those on latency at or above the last bound.

Type correctness is proved for each of these components too (`TypeCorrect`, `MigrateTypeCorrect`,
`ReadyTypeCorrect`, `StatsTypeCorrect`), which is why no run spends time on it. The inductive invariants were model-checked with the bounds of the
runs, `SumInv` also with two faults, before they were proved.

Only model-checked: liveness, because fairness is beyond the prover (`EventuallyDrained`,
`AcceptedIsSettled`, `RunCompletes`, `RunEnds`, `EveryRunEnds`, `StopsWhenAsked`, `ProbesAnswered`,
`PodComesBack`, `RequestsEnd`). Every safety property of the passing runs is also a theorem.

## Findings

1. *A scale-in can count events twice* (`worker.go:202`). The flush in the loop uses the context
   that SIGTERM cancels. If PostgreSQL has applied the upsert but the answer is cut off, the batch
   is kept and the final flush writes it again. `docs/architecture.md:96` says a scale-in does not
   double-count.
2. *A full buffer can be answered with 202* (`events.go:93`). `Publish` tests the buffer and then
   calls `TryProduce`; if it filled in between, only the callback learns that the record was
   dropped. `events.go:65-66` and `docs/architecture.md:86` promise an error and 503.
3. *A late tick replaces the final snapshot* (`distributed.go:197`). A report that its worker gave
   up and that is handled after the final one overwrites it, and the summary misses
   requests. `distributed.go:13-14` says the aggregation is exact. `ExactWithoutOvertaking` is what does
   hold.
4. *A distributed run exceeds its budget* (`distributed.go:320`). `Run` divides `-n` among the workers
   rounding up, and each spends its share: two workers asked for 3 requests make 4.
   `docs/titanload.md:60`, among the flags of run and coordinator, says "Stop after N requests
   (exact)". `BudgetMet` is what does hold: never less than asked for, and less than one request per
   worker more.
5. *Requests of the open model are sent one interarrival time late* (`engine.go:291`). `pace` sends
   request n when `ExpectedRequests` has reached n + 1, but its intended send time is
   `ScheduleOffset(n)`, when it reaches n; the latency is measured from that time and is
   too long by as much. `engine.go:279` says one token per request at the intended send time.
   `AtMostOneLate` is what does hold.

Noted while modelling, without a run: with no store, a failed `IncrBy` is only logged and the
offsets are committed (`worker.go:121`), so delivery is then at most once for the counters; a last
flush that fails returns before `AllowRebalance`, so the deferred `client.Close()` (`worker.go:160`)
hangs and the pod keeps its partitions until it is killed; when every latency is below 1µs the
observed maximum is 0, which `Percentile` takes for "no maximum" (`histogram.go:236`), and it reports
1µs, above the maximum, although `docs/titanload.md:141` and `histogram.go:237` say never; a
latency beyond the last bucket is reported as 60.7s, so a gate on latency from there on is never
broken and a run that exceeds it exits with 0 (`report.go:28`), although `docs/titanload.md:71` says
"Fail with exit 2 when exceeded"; in coordinator mode a late report (finding 3) also makes the merged
snapshot go back, and the dashboard's difference to it wraps (`histogram.go:201`): `TicksAreCumulative`
is about a local engine; a run without a duration has no deadline, and `markLost` skips
workers that never reported (`distributed.go:365`), so `RunCompletes` asks for a duration or a
report of every worker; a live snapshot loads requests before failures, so its error rate may exceed 1 for a tick
(`histogram.go:139-140`); a prober that hangs up during the checks makes the pod "not ready" for
everybody for a second (`server.go:123`); a killed API pod loses its produce buffer, and no metric
counts the records answered with 202 in it (`events.go:93`); the unlock of `Migrate` ignores its
error, so a connection lost there still counts as success, rightly, since everything is
committed (`store.go:206`); `pg.Close` waits for queries without a limit, and the handlers' queries
have no timeout of their own, so a stop may take longer than `SHUTDOWN_TIMEOUT` (`cmd/api/main.go:124`);
a `titanload` run with no request at all passes the latency and error gates (`report.go:28`).

## Abstractions

- Time is the order of events; a timeout is a step that may come whenever its call is pending, and
  one that could only expire because of a disturbance counts as a fault.
- Payloads, names, logging, metrics other than the published counter, and HTTP details are left out.
- In `stats` the bucket growth is 2 and not 1.02, so that four buckets cover the cases; accuracy
  is stated, and proved, relative to any growth. Bytes are left out, they are summed like `SumUs`.
- The code computes the schedule in floating point; `PacedEngine` computes with fractions and
  truncates. Rounding of floats next to a whole number is not modelled.
- A request of `ApiLifecycle` is one of a number in flight at a server, with or without a query
  running; what its handler does is in `ApiRequests`.

## Not modelled

- Configuration: read once; its values are constants and initial choices, its errors the exit 1
  of `Boot`. Observability: no behaviour depends on it.
- Rendering: the dashboard's screen, the exporter's gauges, the summary's text and JSON.
- The set-up of HTTP and gRPC clients, redirects and connection pools of the transports.
- The composition of the coordinator with its command's dashboard and final report: with the
  network of `LoadCoordinator` it is beyond TLC's reach, and its two halves, reports
  to snapshots and snapshots to the exit code, are in `LoadCoordinator` and `ShardStats`. The
  dashboard tells workers apart by name, so two workers with one host name would be subtracted from each other's
  snapshots; names are distinct in the models.
- A module that joins producer and consumer: they share nothing but the topic, in which a record
  written twice is simply two records.
- The web dashboard, which polls and draws, and the deployment (Helm, Terraform, Ansible, NGINX,
  Envoy, pipelines), whose effects on the code, restarts, scale-in, probes and concurrent
  migrations, are actions of the models above.
