--------------------------- MODULE EventConsumer ---------------------------
(***************************************************************************)
(* The event consumer of internal/worker: the poll / aggregate / flush /   *)
(* commit loop of Consumer.Run, run by several pods of one Kafka consumer  *)
(* group, with the group coordinator (external) that assigns, revokes and  *)
(* fences.                                                                 *)
(*                                                                         *)
(* A record is identified by its partition and its position in it.  What   *)
(* the code stores as per-minute, per-type counters is kept here as one    *)
(* counter per record, so that a lost or a double-counted event is         *)
(* visible; every rollup is a sum of these counters.                       *)
(***************************************************************************)
EXTENDS Naturals, Sequences, FiniteSets

CONSTANTS
  Workers,        \* worker pods
  Partitions,     \* partitions of titan.events
  Log,            \* the records of each partition, in order
  Invalid,        \* a record that does not decode, or has no type
  NoWorker,       \* owner of an unassigned partition
  FlushSize,      \* WORKER_FLUSH_SIZE
  HasStore,       \* Sink.Store # nil
  HasCache,       \* Sink.Cache # nil
  MaxFaults,      \* bound: crashes, evictions, failed writes and commits
  MaxRebalances   \* bound: revocations by the group coordinator

ASSUME ConsumerAssumption ==
  /\ NoWorker \notin Workers
  /\ \A p \in Partitions : Len(Log[p]) \in Nat
  /\ FlushSize \in Nat \ {0}
  /\ HasStore \in BOOLEAN /\ HasCache \in BOOLEAN
  /\ MaxFaults \in Nat /\ MaxRebalances \in Nat

VARIABLES
  pc,          \* where each pod is in Run
  mode,        \* "run", "stopping" (ctx cancelled), "final" (last flush)
  agg,         \* Aggregator: how often each record is in the pending batch
  held,        \* partitions the client of a pod believes it owns
  pos,         \* last position polled, per pod and partition
  blocked,     \* polled since the last AllowRebalance
  member,      \* the broker accepts the pod's generation
  owner,       \* group coordinator: partition -> pod
  committed,   \* committed position of each partition
  counted,     \* PostgreSQL: how often each record is in event_rollups
  displayed,   \* records some Redis counter includes
  faults,      \* infrastructure faults so far
  cancels,     \* calls that failed because ctx was cancelled
  rebalances   \* revocations so far

vars == <<pc, mode, agg, held, pos, blocked, member, owner, committed,
          counted, displayed, faults, cancels, rebalances>>

clientVars == <<held, pos, member, owner>>
sinkVars == <<counted, displayed>>
boundVars == <<faults, cancels, rebalances>>

Rec == UNION {{p} \X (1..Len(Log[p])) : p \in Partitions}
Positions == UNION {0..Len(Log[p]) : p \in Partitions}
Valid(r) == Log[r[1]][r[2]] # Invalid
EmptyBatch == [r \in Rec |-> 0]
NoPositions == [p \in Partitions |-> 0]
-----------------------------------------------------------------------------
(* Aggregator *)

\* The records a poll that advances pod w to positions np hands to Add.
Delivered(w, np) ==
  {r \in Rec : r[1] \in held[w] /\ pos[w][r[1]] < r[2] /\ r[2] <= np[r[1]] /\ Valid(r)}

Add(batch, recs) == [r \in Rec |-> IF r \in recs THEN batch[r] + 1 ELSE batch[r]]

BatchLen(batch) == Cardinality(UNION {{r} \X (1..batch[r]) : r \in Rec})

Batch(w) == {r \in Rec : agg[w][r] > 0}
-----------------------------------------------------------------------------
Init ==
  /\ pc = [w \in Workers |-> "poll"]
  /\ mode = [w \in Workers |-> "run"]
  /\ agg = [w \in Workers |-> EmptyBatch]
  /\ held = [w \in Workers |-> {}]
  /\ pos = [w \in Workers |-> NoPositions]
  /\ blocked = [w \in Workers |-> FALSE]
  /\ member = [w \in Workers |-> TRUE]
  /\ owner = [p \in Partitions |-> NoWorker]
  /\ committed = [p \in Partitions |-> 0]
  /\ counted = EmptyBatch
  /\ displayed = {}
  /\ faults = 0 /\ cancels = 0 /\ rebalances = 0

\* A call of pod w fails: the context of the poll loop was cancelled under
\* it, or the service behind it failed.
CallFails(w) ==
  \/ mode[w] = "stopping" /\ cancels' = cancels + 1 /\ UNCHANGED faults
  \/ faults < MaxFaults /\ faults' = faults + 1 /\ UNCHANGED cancels

Goto(w, where) == pc' = [pc EXCEPT ![w] = where]
-----------------------------------------------------------------------------
(* Consumer.Run: polling *)

\* How far a poll of pod w may advance: at least one record, at most
\* FlushSize, and only in partitions the client holds.
PollTargets(w) ==
  {np \in [Partitions -> Positions] :
     /\ \A p \in Partitions :
          /\ pos[w][p] <= np[p]
          /\ np[p] <= Len(Log[p])
          /\ p \notin held[w] => np[p] = pos[w][p]
     /\ np # pos[w]
     /\ Cardinality({r \in Rec : pos[w][r[1]] < r[2] /\ r[2] <= np[r[1]]}) <= FlushSize}

\* PollRecords returns records; a full batch is flushed at once, a smaller
\* one when the flush interval has passed.
PollRecords(w) ==
  /\ pc[w] = "poll" /\ mode[w] = "run"
  /\ \E np \in PollTargets(w) :
       LET batch == Add(agg[w], Delivered(w, np)) IN
       /\ agg' = [agg EXCEPT ![w] = batch]
       /\ pos' = [pos EXCEPT ![w] = np]
       /\ \/ Goto(w, "flush")
          \/ BatchLen(batch) < FlushSize /\ UNCHANGED pc
  /\ blocked' = [blocked EXCEPT ![w] = TRUE]
  /\ UNCHANGED <<mode, held, member, owner, committed, sinkVars, boundVars>>

\* The poll times out after the flush interval with nothing to deliver.
PollTimeout(w) ==
  /\ pc[w] = "poll" /\ mode[w] = "run"
  /\ Goto(w, "flush")
  /\ blocked' = [blocked EXCEPT ![w] = TRUE]
  /\ UNCHANGED <<mode, agg, clientVars, committed, sinkVars, boundVars>>

\* The poll returns early with nothing but fetch errors, which are logged.
PollError(w) ==
  /\ pc[w] = "poll" /\ mode[w] = "run"
  /\ blocked' = [blocked EXCEPT ![w] = TRUE]
  /\ UNCHANGED <<pc, mode, agg, clientVars, committed, sinkVars, boundVars>>

\* SIGTERM (scale-in, rollout) cancels ctx; one other pod is left running.
Stop(w) ==
  /\ pc[w] # "down" /\ mode[w] = "run"
  /\ \E v \in Workers \ {w} : mode[v] = "run"
  /\ mode' = [mode EXCEPT ![w] = "stopping"]
  /\ UNCHANGED <<pc, agg, blocked, clientVars, committed, sinkVars, boundVars>>

\* The loop sees ctx.Err() and goes on to the last flush, with a context of
\* its own.
LeaveLoop(w) ==
  /\ pc[w] = "poll" /\ mode[w] = "stopping"
  /\ mode' = [mode EXCEPT ![w] = "final"]
  /\ Goto(w, "flush")
  /\ UNCHANGED <<agg, blocked, clientVars, committed, sinkVars, boundVars>>
-----------------------------------------------------------------------------
(* Sink.flush and flushAndCommit *)

\* Back to the loop, or to the deferred client.Close().
AfterFlush(w) == Goto(w, IF mode[w] = "final" THEN "close" ELSE "poll")

\* Mutant: an empty batch ends flushAndCommit without a commit.
FlushEmptySkippingCommit(w) ==
  /\ pc[w] = "flush" /\ Batch(w) = {}
  /\ blocked' = [blocked EXCEPT ![w] = FALSE]
  /\ AfterFlush(w)
  /\ UNCHANGED <<mode, agg, clientVars, committed, sinkVars, boundVars>>

\* An empty batch is not written: flush returns nil at once.
FlushEmpty(w) ==
  /\ pc[w] = "flush" /\ Batch(w) = {}
  /\ Goto(w, "commit")
  /\ UNCHANGED <<mode, agg, blocked, clientVars, committed, sinkVars, boundVars>>

\* The upsert of AddRollups: one statement, all of the batch or nothing.
AddRollups(w) == counted' = [r \in Rec |-> counted[r] + agg[w][r]]

\* The statement takes effect; its answer is still to come.  A call that
\* starts with a cancelled context is not sent.
FlushStore(w) ==
  /\ pc[w] = "flush" /\ Batch(w) # {} /\ HasStore /\ mode[w] # "stopping"
  /\ AddRollups(w)
  /\ Goto(w, "stored")
  /\ UNCHANGED <<mode, agg, blocked, clientVars, committed, displayed, boundVars>>

\* The store has answered, or there is none.
StoreDone(w) ==
  /\ pc[w] = IF HasStore THEN "stored" ELSE "flush"
  /\ Batch(w) # {}
  /\ Goto(w, "incr")
  /\ UNCHANGED <<mode, agg, blocked, clientVars, committed, sinkVars, boundVars>>

\* Mutant: the error of AddRollups is logged and the flush goes on.
FlushFailIgnored(w) ==
  /\ pc[w] \in {"flush", "stored"} /\ Batch(w) # {} /\ HasStore
  /\ CallFails(w)
  /\ Goto(w, "incr")
  /\ UNCHANGED <<mode, agg, blocked, clientVars, committed, sinkVars, rebalances>>

\* Mutant: the batch is reset although the flush failed.
FlushFailDropping(w) ==
  /\ pc[w] \in {"flush", "stored"} /\ Batch(w) # {} /\ HasStore
  /\ CallFails(w)
  /\ agg' = [agg EXCEPT ![w] = EmptyBatch]
  /\ AfterFlush(w)
  /\ UNCHANGED <<mode, blocked, clientVars, committed, sinkVars, rebalances>>

\* AddRollups returns an error, before or after the statement took effect:
\* the batch is kept, nothing is committed, rebalances stay blocked.
FlushFail(w) ==
  /\ pc[w] \in {"flush", "stored"} /\ Batch(w) # {} /\ HasStore
  /\ CallFails(w)
  /\ AfterFlush(w)
  /\ UNCHANGED <<mode, agg, blocked, clientVars, committed, sinkVars, rebalances>>

\* Mutant: a failure of Redis fails the flush, which is then retried.
IncrByFailing(w) ==
  /\ pc[w] = "incr"
  /\ \/ displayed' = displayed \cup Batch(w) /\ Goto(w, "commit")
     \/ UNCHANGED displayed /\ AfterFlush(w)
  /\ UNCHANGED <<mode, agg, blocked, clientVars, committed, counted, boundVars>>

\* The pipelined increments are no transaction: when the call fails, any part
\* of them may have been applied.
Increments(w) == IF HasCache THEN SUBSET Batch(w) ELSE {{}}

\* A failure of Redis is logged only.
IncrBy(w) ==
  /\ pc[w] = "incr"
  /\ \E S \in Increments(w) : displayed' = displayed \cup S
  /\ Goto(w, "commit")
  /\ UNCHANGED <<mode, agg, blocked, clientVars, committed, counted, boundVars>>

\* Mutant: no Reset before AllowRebalance.
AllowWithoutReset(w) ==
  /\ blocked' = [blocked EXCEPT ![w] = FALSE]
  /\ AfterFlush(w)
  /\ UNCHANGED agg

\* What follows CommitUncommittedOffsets whether it failed or not.
ResetAndAllow(w) ==
  /\ agg' = [agg EXCEPT ![w] = EmptyBatch]
  /\ blocked' = [blocked EXCEPT ![w] = FALSE]
  /\ AfterFlush(w)

CommitUpTo(w, S) ==
  committed' = [p \in Partitions |-> IF p \in S THEN pos[w][p] ELSE committed[p]]

Commit(w) ==
  /\ pc[w] = "commit" /\ member[w]
  /\ CommitUpTo(w, held[w])
  /\ ResetAndAllow(w)
  /\ UNCHANGED <<mode, clientVars, sinkVars, boundVars>>

\* The commit fails for some partitions, or its answer is lost.
CommitFail(w) ==
  /\ pc[w] = "commit" /\ member[w]
  /\ CallFails(w)
  /\ \E S \in SUBSET held[w] : CommitUpTo(w, S)
  /\ ResetAndAllow(w)
  /\ UNCHANGED <<mode, clientVars, sinkVars, rebalances>>

\* Mutant: offsets are committed outside the group's generation.
CommitUnfenced(w) ==
  /\ pc[w] = "commit" /\ ~member[w]
  /\ CommitUpTo(w, held[w])
  /\ ResetAndAllow(w)
  /\ UNCHANGED <<mode, clientVars, sinkVars, boundVars>>

\* The broker refuses the commit of a pod it has evicted.
CommitFenced(w) ==
  /\ pc[w] = "commit" /\ ~member[w]
  /\ ResetAndAllow(w)
  /\ UNCHANGED <<mode, clientVars, committed, sinkVars, boundVars>>
-----------------------------------------------------------------------------
(* Process and consumer group (external) *)

Release(w) == owner' = [p \in Partitions |-> IF owner[p] = w THEN NoWorker ELSE owner[p]]

\* The process of pod w is gone, with its batch and its membership.
Exit(w) ==
  /\ Goto(w, "down")
  /\ agg' = [agg EXCEPT ![w] = EmptyBatch]
  /\ blocked' = [blocked EXCEPT ![w] = FALSE]
  /\ held' = [held EXCEPT ![w] = {}]
  /\ pos' = [pos EXCEPT ![w] = NoPositions]
  /\ member' = [member EXCEPT ![w] = FALSE]
  /\ Release(w)
  /\ UNCHANGED <<mode, committed, sinkVars, cancels, rebalances>>

\* client.Close() leaves the group and Run returns.  Leaving revokes the
\* partitions, which waits for AllowRebalance like any rebalance: after a
\* failed last flush, which returned before AllowRebalance, it hangs.
Close(w) == pc[w] = "close" /\ ~blocked[w] /\ Exit(w) /\ UNCHANGED faults

\* Kubernetes kills the pod whose Close hangs when its grace period is over.
Kill(w) == pc[w] = "close" /\ blocked[w] /\ Exit(w) /\ UNCHANGED faults

Crash(w) ==
  /\ pc[w] # "down" /\ faults < MaxFaults
  /\ faults' = faults + 1
  /\ Exit(w)

\* Kubernetes restarts a crashed pod, which joins the group with a new client.
Restart(w) ==
  /\ pc[w] = "down" /\ mode[w] = "run"
  /\ Goto(w, "poll")
  /\ member' = [member EXCEPT ![w] = TRUE]
  /\ UNCHANGED <<mode, agg, held, pos, blocked, owner, committed, sinkVars, boundVars>>

\* The coordinator gives a free partition to a member, which starts at the
\* committed position.
Assign(p, w) ==
  /\ owner[p] = NoWorker /\ member[w]
  /\ owner' = [owner EXCEPT ![p] = w]
  /\ held' = [held EXCEPT ![w] = @ \cup {p}]
  /\ pos' = [pos EXCEPT ![w][p] = committed[p]]
  /\ UNCHANGED <<pc, mode, agg, blocked, member, committed, sinkVars, boundVars>>

\* A rebalance takes p from w: blocked from a poll to AllowRebalance.
Revoke(p, w) ==
  /\ owner[p] = w /\ member[w] /\ ~blocked[w]
  /\ rebalances < MaxRebalances /\ rebalances' = rebalances + 1
  /\ owner' = [owner EXCEPT ![p] = NoWorker]
  /\ held' = [held EXCEPT ![w] = @ \ {p}]
  /\ pos' = [pos EXCEPT ![w][p] = 0]
  /\ UNCHANGED <<pc, mode, agg, blocked, member, committed, sinkVars, faults, cancels>>

\* The session or rebalance timeout of a live pod expires at the broker; the
\* pod does not know.
Evict(w) ==
  /\ pc[w] # "down" /\ member[w] /\ faults < MaxFaults
  /\ faults' = faults + 1
  /\ member' = [member EXCEPT ![w] = FALSE]
  /\ Release(w)
  /\ UNCHANGED <<pc, mode, agg, held, pos, blocked, committed, sinkVars, cancels, rebalances>>

\* The client of an evicted pod drops its partitions and joins again.
Rejoin(w) ==
  /\ pc[w] # "down" /\ ~member[w] /\ ~blocked[w]
  /\ member' = [member EXCEPT ![w] = TRUE]
  /\ held' = [held EXCEPT ![w] = {}]
  /\ pos' = [pos EXCEPT ![w] = NoPositions]
  /\ UNCHANGED <<pc, mode, agg, blocked, owner, committed, sinkVars, boundVars>>
-----------------------------------------------------------------------------
Next ==
  \/ \E w \in Workers :
       \/ PollRecords(w) \/ PollTimeout(w) \/ PollError(w) \/ Stop(w) \/ LeaveLoop(w)
       \/ FlushEmpty(w) \/ FlushStore(w) \/ StoreDone(w) \/ FlushFail(w) \/ IncrBy(w)
       \/ Commit(w) \/ CommitFail(w) \/ CommitFenced(w)
       \/ Close(w) \/ Kill(w) \/ Crash(w) \/ Restart(w) \/ Evict(w) \/ Rejoin(w)
  \/ \E w \in Workers, p \in Partitions : Assign(p, w) \/ Revoke(p, w)

Spec == Init /\ [][Next]_vars

\* What a pod does next outside a poll.
Proceed(w) ==
  \/ LeaveLoop(w) \/ FlushEmpty(w) \/ FlushStore(w) \/ StoreDone(w) \/ IncrBy(w)
  \/ Commit(w) \/ CommitFenced(w) \/ Close(w) \/ Kill(w) \/ Restart(w)
  \/ mode[w] = "stopping" /\ FlushFail(w)

\* A pod that runs takes its steps and one whose Close hangs is killed in the
\* end (terminationGracePeriodSeconds, charts/platform); a broker that has records for a client
\* delivers them again and again, and its heartbeats get through again and
\* again; a free partition is assigned.  Nothing obliges a fault, a stop or a
\* rebalance to happen.
Fairness ==
  /\ SF_vars(\E w \in Workers : PollRecords(w) \/ Rejoin(w))
  /\ \A w \in Workers : WF_vars(PollTimeout(w) \/ Proceed(w))
  /\ \A p \in Partitions : WF_vars(\E w \in Workers : Assign(p, w))

FairSpec == Spec /\ Fairness
-----------------------------------------------------------------------------
(* Properties *)

\* The types of the state of Consumer.Run, the group and the sinks; positions
\* committed for a partition are never negative.
TypeOK ==
  /\ pc \in [Workers -> {"poll", "flush", "stored", "incr", "commit", "close", "down"}]
  /\ mode \in [Workers -> {"run", "stopping", "final"}]
  /\ agg \in [Workers -> [Rec -> Nat]]
  /\ held \in [Workers -> SUBSET Partitions]
  /\ pos \in [Workers -> [Partitions -> Nat]]
  /\ blocked \in [Workers -> BOOLEAN]
  /\ member \in [Workers -> BOOLEAN]
  /\ owner \in [Partitions -> Workers \cup {NoWorker}]
  /\ committed \in [Partitions -> Nat]
  /\ counted \in [Rec -> Nat]
  /\ displayed \subseteq Rec
  /\ faults \in Nat /\ cancels \in Nat /\ rebalances \in Nat

\* At-least-once: a valid event whose offset is committed is in the rollups,
\* whatever crashed, failed, was evicted or was rebalanced on the way
\* (offsets are committed only after a successful flush, worker.go:164-176).
AtLeastOnce ==
  HasStore => \A r \in Rec :
    Valid(r) /\ r[2] <= committed[r[1]] => counted[r] >= 1

\* Rebalances are blocked until pending aggregates are persisted: a pending
\* batch holds each event once, and only events of partitions the pod still
\* holds at positions it has polled, so no batch survives the loss of its
\* partition and is joined by a redelivery of the same event.
PendingBatchIsOwn ==
  \A w \in Workers, r \in Rec :
    agg[w][r] > 0 => /\ agg[w][r] = 1
                     /\ blocked[w]
                     /\ r[1] \in held[w] /\ r[2] <= pos[w][r[1]]

\* An event is counted twice only if something failed: every extra count of
\* an event is paid for by a fault or a cancelled call.  A Redis failure is
\* no reason to count again (worker.go:119-120).
ExtraCountsNeedFaults ==
  \A r \in Rec : counted[r] <= 1 + faults + cancels

\* The live counters never include an event the rollups do not include yet:
\* PostgreSQL is written first.
LiveCountersFollowStore ==
  HasStore => \A r \in displayed : counted[r] >= 1

\* No commit, by whatever pod and however late, moves a partition back.
CommitsNeverRegress ==
  [][\A p \in Partitions : committed'[p] >= committed[p]]_vars

Delivery == INSTANCE EventDelivery
  WITH Records <- Rec, ValidRecords <- {r \in Rec : Valid(r)}

\* The pods implement EventDelivery: seen from the rollups and the committed
\* offsets, every step of every pod, in whatever order they fail, are evicted,
\* rebalanced and restarted, adds a batch of valid events, each of them once,
\* or moves offsets forward over events that are in the rollups ("Delivery is
\* at-least-once", worker.go:4).
ImplementsDelivery == Delivery!Spec

\* Once faults and rebalances are over, every valid event is counted and
\* every partition is committed to its end; in particular a commit that
\* failed is made up for by a later flush of an empty batch, and a pod that
\* hangs in Close with its partitions (worker.go:160, after a last flush that
\* failed) holds them only until it is killed.
EventuallyDrained ==
  <>[](/\ \A r \in Rec : Valid(r) => counted[r] >= 1
       /\ \A p \in Partitions : committed[p] = Len(Log[p]))

\* "a scale-in by KEDA does not double-count" (docs/architecture.md:96): with
\* no fault of the infrastructure, stopping pods counts no event twice.
ScaleInCountsOnce ==
  faults = 0 => \A r \in Rec : counted[r] <= 1
=============================================================================
