-------------------------- MODULE LoadCoordinator --------------------------
(***************************************************************************)
(* titanload's distributed mode: the coordinator (handleRegister,          *)
(* handleJob, handleReport, Run, markLost), the remote workers (runOnce)   *)
(* and the network between them, which loses answers, drops reports and    *)
(* delivers them late.                                                     *)
(*                                                                         *)
(* A snapshot is abstracted to its cumulative request count; the wall      *)
(* clock to which timeouts may expire: a timeout of a call that nothing    *)
(* disturbs, the 15 seconds of a worker that keeps reporting, and the      *)
(* deadline of a run in which nothing failed, cost a fault.                *)
(***************************************************************************)
EXTENDS Naturals, FiniteSets

CONSTANTS
  Workers,        \* worker processes
  Expect,         \* --expect-workers
  Budget,         \* MaxRequests of the run
  FinalAttempts,  \* how often runOnce sends the final report (5 in the code)
  None,           \* nil
  MaxIds,         \* bound: registrations
  MaxFaults       \* bound: crashes, lost and delayed messages

ASSUME CoordinatorAssumption ==
  /\ Expect \in Nat \ {0} /\ Budget \in Nat \ {0}
  /\ FinalAttempts \in Nat \ {0}
  /\ None \notin Nat
  /\ MaxIds \in Nat /\ MaxFaults \in Nat

VARIABLES
  duration,  \* Config.Duration > 0
  loop,      \* WorkerOptions.Loop
  order,     \* coordinator: number of registrations, ids are 1..order
  name,      \* coordinator: which worker registered an id
  state,     \* coordinator: ready, running, done, failed, lost
  snap,      \* coordinator: latest snapshot of each id
  share,     \* request budget in the job, None while the job is nil
  done,      \* coordinator: the done channel is closed
  run,       \* coordinator: waiting, running, returned, reported
  cause,     \* why Run returned: done, deadline, cancelled
  wpc,       \* worker: where runOnce is
  wid,       \* worker: the id it was given
  progress,  \* worker: requests its engine has recorded
  engine,    \* worker: off, on, done
  sent,      \* worker: reports of the final snapshot so far
  msgs,      \* reports on their way
  overtaken, \* a report was given up by its sender while still on its way
  faults

coordVars == <<order, name, state, snap, share, done, run, cause>>
workerVars == <<wpc, wid, progress, engine, sent>>
vars == <<duration, loop, coordVars, workerVars, msgs, overtaken, faults>>

Ids == 1..MaxIds
Finished == {"done", "failed", "lost"}

Init ==
  /\ duration \in BOOLEAN /\ loop \in BOOLEAN
  /\ order = 0
  /\ name = [i \in Ids |-> None]
  /\ state = [i \in Ids |-> "none"]
  /\ snap = [i \in Ids |-> None]
  /\ share = None
  /\ done = FALSE
  /\ run = "waiting"
  /\ cause = "none"
  /\ wpc = [w \in Workers |-> "register"]
  /\ wid = [w \in Workers |-> 0]
  /\ progress = [w \in Workers |-> 0]
  /\ engine = [w \in Workers |-> "off"]
  /\ sent = [w \in Workers |-> 0]
  /\ msgs = {}
  /\ overtaken = FALSE
  /\ faults = 0

Fault == faults < MaxFaults /\ faults' = faults + 1
Goto(w, l) == wpc' = [wpc EXCEPT ![w] = l]

\* RunWorker after runOnce: re-register in daemon mode, else exit.
Again == IF loop THEN "register" ELSE "ended"

Released == share # None

\* The coordinator's server answers until the process ends.
Listening == run # "reported"
-----------------------------------------------------------------------------
(* Registration and the job.                                               *)

\* handleRegister gives out the next id, also after the release.
RegisterAnytime(w) ==
  /\ Listening /\ order < MaxIds
  /\ order' = order + 1
  /\ name' = [name EXCEPT ![order'] = w]
  /\ state' = [state EXCEPT ![order'] = "ready"]
  /\ UNCHANGED <<snap, share, done, run, cause>>

\* handleRegister: the next id, unless the job is out (409, the worker retries).
handleRegister(w) ==
  /\ Listening /\ ~Released
  /\ order < MaxIds
  /\ order' = order + 1
  /\ name' = [name EXCEPT ![order'] = w]
  /\ state' = [state EXCEPT ![order'] = "ready"]
  /\ UNCHANGED <<snap, share, done, run, cause>>

Register(w) ==
  /\ wpc[w] = "register"
  /\ handleRegister(w)
  /\ wid' = [wid EXCEPT ![w] = order']
  /\ Goto(w, "poll")
  /\ UNCHANGED <<duration, loop, progress, engine, sent, msgs, overtaken, faults>>

\* The answer is lost: the worker registers again and the first id is nobody's.
RegisterLost(w) ==
  /\ wpc[w] = "register"
  /\ handleRegister(w)
  /\ Fault
  /\ UNCHANGED <<duration, loop, workerVars, msgs, overtaken>>

\* The remainder of the division is dropped.
ShareRoundedDown(n) == Budget \div n

\* Each of n workers gets its part of the budget, rounded up.
Share(n) == (Budget + n - 1) \div n

\* Run: enough workers registered, the job is released.
Release ==
  /\ run = "waiting" /\ order >= Expect
  /\ share' = Share(order)
  /\ run' = "running"
  /\ UNCHANGED <<duration, loop, order, name, state, snap, done, cause, workerVars, msgs, overtaken, faults>>

\* handleJob once the job is released: whatever the state was, it is running.
handleJob(i) ==
  /\ Listening /\ Released
  /\ state' = [state EXCEPT ![i] = "running"]
  /\ UNCHANGED <<order, name, snap, share, done, run, cause>>

\* The worker gets the job and, after the start delay, starts its engine.
GetJob(w) ==
  /\ wpc[w] = "poll"
  /\ handleJob(wid[w])
  /\ engine' = [engine EXCEPT ![w] = "on"]
  /\ Goto(w, "run")
  /\ UNCHANGED <<duration, loop, wid, progress, sent, msgs, overtaken, faults>>

\* The answer with the job is lost, or the worker is stopped in the start
\* delay: runOnce returns and nothing is reported.
JobLost(w) ==
  /\ wpc[w] = "poll"
  /\ handleJob(wid[w])
  /\ Fault
  /\ Goto(w, Again)
  /\ UNCHANGED <<duration, loop, wid, progress, engine, sent, msgs, overtaken>>

\* The long poll fails before the coordinator sees it: runOnce returns.
PollFails(w) ==
  /\ wpc[w] = "poll"
  /\ Fault
  /\ Goto(w, Again)
  /\ UNCHANGED <<duration, loop, coordVars, wid, progress, engine, sent, msgs, overtaken>>

\* A report: of a tick (try 0), final (try 1, 2, ...), or of an error.
Report(w, kind, try) ==
  [w |-> w, id |-> wid[w], kind |-> kind, try |-> try,
   snap |-> IF kind = "error" THEN None ELSE progress[w]]

\* engine.New fails on the worker: the error is sent once and runOnce returns.
EngineFails(w) ==
  /\ wpc[w] = "poll"
  /\ handleJob(wid[w])
  /\ Fault
  /\ msgs' = msgs \cup {Report(w, "error", 0)}
  /\ Goto(w, Again)
  /\ UNCHANGED <<duration, loop, wid, progress, engine, sent, overtaken>>
-----------------------------------------------------------------------------
(* The worker while its engine runs, and its reports.                      *)

\* Requests in flight are still recorded after the engine is done.
WorkAfterDone(w) ==
  /\ engine[w] # "off" /\ progress[w] < share
  /\ progress' = [progress EXCEPT ![w] = @ + 1]
  /\ UNCHANGED <<duration, loop, coordVars, wpc, wid, engine, sent, msgs, overtaken, faults>>

\* The engine records one more request.
Work(w) ==
  /\ engine[w] = "on" /\ progress[w] < share
  /\ progress' = [progress EXCEPT ![w] = @ + 1]
  /\ UNCHANGED <<duration, loop, coordVars, wpc, wid, engine, sent, msgs, overtaken, faults>>

\* The engine is done: budget spent or duration over.
EngineDone(w) ==
  /\ engine[w] = "on"
  /\ progress[w] = share \/ duration
  /\ engine' = [engine EXCEPT ![w] = "done"]
  /\ UNCHANGED <<duration, loop, coordVars, wpc, wid, progress, sent, msgs, overtaken, faults>>

\* SIGTERM on the worker ends its engine early.
Interrupt(w) ==
  /\ engine[w] = "on"
  /\ Fault
  /\ engine' = [engine EXCEPT ![w] = "done"]
  /\ UNCHANGED <<duration, loop, coordVars, wpc, wid, progress, sent, msgs, overtaken>>

SendTick(w) ==
  /\ wpc[w] = "run"
  /\ msgs' = msgs \cup {Report(w, "tick", 0)}
  /\ Goto(w, "tick")
  /\ UNCHANGED <<duration, loop, coordVars, wid, progress, engine, sent, overtaken, faults>>

SendFinal(w) ==
  /\ wpc[w] = "run" /\ engine[w] = "done"
  /\ sent' = [sent EXCEPT ![w] = 1]
  /\ msgs' = msgs \cup {Report(w, "final", 1)}
  /\ Goto(w, "final")
  /\ UNCHANGED <<duration, loop, coordVars, wid, progress, engine, overtaken, faults>>

\* The report the worker is waiting for an answer to.
Awaits(m) ==
  \/ m.kind = "tick" /\ wpc[m.w] = "tick"
  \/ m.kind = "final" /\ wpc[m.w] = "final" /\ m.try = sent[m.w]

\* The sender gives up on the call: after a tick it goes on, the final report
\* is tried again.
GiveUp(w) ==
  \/ /\ wpc[w] = "tick"
     /\ Goto(w, "run")
     /\ UNCHANGED <<sent, msgs>>
  \/ /\ wpc[w] = "final" /\ sent[w] < FinalAttempts
     /\ sent' = [sent EXCEPT ![w] = @ + 1]
     /\ msgs' = msgs \cup {Report(w, "final", sent[w] + 1)}
     /\ UNCHANGED wpc
  \/ /\ wpc[w] = "final" /\ sent[w] = FinalAttempts
     /\ Goto(w, Again)
     /\ UNCHANGED <<sent, msgs>>

\* The report, or its answer, was lost.
Timeout(w) ==
  /\ ~\E m \in msgs : m.w = w /\ Awaits(m)
  /\ GiveUp(w)
  /\ UNCHANGED <<duration, loop, coordVars, wid, progress, engine, overtaken, faults>>

\* The report is slow: it is given up but will still arrive.
TimeoutEarly(w) ==
  /\ \E m \in msgs : m.w = w /\ Awaits(m)
  /\ Fault
  /\ GiveUp(w)
  /\ overtaken' = TRUE
  /\ UNCHANGED <<duration, loop, coordVars, wid, progress, engine>>

Crash(w) ==
  /\ wpc[w] \notin {"dead", "ended"}
  /\ Fault
  /\ Goto(w, "dead")
  /\ engine' = [engine EXCEPT ![w] = "off"]
  /\ UNCHANGED <<duration, loop, coordVars, wid, progress, sent, msgs, overtaken>>
-----------------------------------------------------------------------------
(* The coordinator: reports, silence, deadline, end.                       *)

allFinished(st) == Released /\ order > 0 /\ \A i \in 1..order : st[i] \in Finished

\* A report adds to what the worker has reported before.
handleReportAdding(m) ==
  /\ Listening
  /\ snap' = [snap EXCEPT ![m.id] =
                IF m.snap = None THEN @ ELSE IF @ = None THEN m.snap ELSE @ + m.snap]
  /\ state' = [state EXCEPT ![m.id] =
                 IF m.kind = "error" THEN "failed"
                 ELSE IF m.kind = "final" THEN "done" ELSE @]
  /\ done' = (done \/ allFinished(state'))
  /\ UNCHANGED <<order, name, share, run, cause>>

\* While the run is on, a report makes its worker a running worker again.
handleReportReviving(m) ==
  /\ Listening
  /\ snap' = [snap EXCEPT ![m.id] = IF m.snap = None THEN @ ELSE m.snap]
  /\ state' = [state EXCEPT ![m.id] =
                 IF m.kind = "error" THEN "failed"
                 ELSE IF m.kind = "final" THEN "done"
                 ELSE IF done THEN @ ELSE "running"]
  /\ done' = (done \/ allFinished(state'))
  /\ UNCHANGED <<order, name, share, run, cause>>

\* handleReport: the snapshot replaces the previous one, in order of arrival.
handleReport(m) ==
  /\ Listening
  /\ snap' = [snap EXCEPT ![m.id] = IF m.snap = None THEN @ ELSE m.snap]
  /\ state' = [state EXCEPT ![m.id] =
                 IF m.kind = "error" THEN "failed"
                 ELSE IF m.kind = "final" THEN "done" ELSE @]
  /\ done' = (done \/ allFinished(state'))
  /\ UNCHANGED <<order, name, share, run, cause>>

\* The report arrives and its sender, if it still waits, gets the answer.
Deliver(m) ==
  /\ handleReport(m)
  /\ msgs' = msgs \ {m}
  /\ IF Awaits(m)
     THEN Goto(m.w, IF m.kind = "tick" THEN "run" ELSE Again)
     ELSE UNCHANGED wpc
  /\ UNCHANGED <<duration, loop, wid, progress, engine, sent, overtaken, faults>>

\* It arrives, but the answer does not.
DeliverUnanswered(m) ==
  /\ handleReport(m)
  /\ Fault
  /\ msgs' = msgs \ {m}
  /\ UNCHANGED <<duration, loop, workerVars, overtaken>>

Drop(m) ==
  /\ Fault
  /\ msgs' = msgs \ {m}
  /\ UNCHANGED <<duration, loop, coordVars, workerVars, overtaken>>

\* A worker that is still in its report loop is heard every second.
Reporting(i) ==
  \E w \in Workers : wid[w] = i /\ wpc[w] \in {"run", "tick", "final"}

\* markLost on a tick of Run: running workers that have reported at least once
\* and then were silent for 15 seconds.
markLost(S) ==
  /\ run = "running" /\ S # {}
  /\ \A i \in S : i <= order /\ state[i] = "running" /\ snap[i] # None
  /\ state' = [i \in Ids |-> IF i \in S THEN "lost" ELSE state[i]]
  /\ done' = (done \/ allFinished(state'))
  /\ UNCHANGED <<order, name, snap, share, run, cause>>

SilentLost ==
  /\ markLost({i \in 1..order : state[i] = "running" /\ snap[i] # None /\ ~Reporting(i)})
  /\ UNCHANGED <<duration, loop, workerVars, msgs, overtaken, faults>>

\* Reports of a live worker failed to get through for 15 seconds.
LiveLost(i) ==
  /\ Reporting(i)
  /\ markLost({i})
  /\ Fault
  /\ UNCHANGED <<duration, loop, workerVars, msgs, overtaken>>

\* The ways Run returns.  The deadline exists only for a run with a duration.
Return(why) ==
  /\ run' = "returned" /\ cause' = why
  /\ UNCHANGED <<duration, loop, order, name, snap, share, workerVars, msgs, overtaken, faults>>

\* The deadline forgets workers that never fetched the job.
DeadlineRunningOnly ==
  /\ run = "running"
  /\ duration /\ faults > 0
  /\ state' = [i \in Ids |-> IF state[i] = "running" THEN "lost" ELSE state[i]]
  /\ done' = (done \/ allFinished(state'))
  /\ UNCHANGED <<duration, loop, order, name, snap, share, run, cause, workerVars, msgs, overtaken, faults>>

Deadline ==
  /\ run = "running"
  /\ duration /\ faults > 0
  /\ state' = [i \in Ids |-> IF state[i] \in {"running", "ready"} THEN "lost" ELSE state[i]]
  /\ done' = TRUE
  /\ Return("deadline")

Cancel ==
  /\ run \in {"waiting", "running"}
  /\ done' = (done \/ run = "running")
  /\ UNCHANGED state
  /\ Return("cancelled")

RunReturns ==
  /\ run = "running" /\ done
  /\ UNCHANGED <<state, done>>
  /\ Return("done")

\* cmdCoordinator: the summary is built from coord.Snapshot() and the process
\* ends.
Finish ==
  /\ run = "returned"
  /\ run' = "reported"
  /\ UNCHANGED <<duration, loop, order, name, state, snap, share, done, cause, workerVars, msgs, overtaken, faults>>

\* Once the coordinator is gone, what the workers still do is of no effect.
Rest == ~Listening /\ UNCHANGED vars

Next ==
  \/ \E w \in Workers :
       \/ Register(w) \/ RegisterLost(w) \/ GetJob(w) \/ JobLost(w)
       \/ PollFails(w) \/ EngineFails(w) \/ Work(w) \/ EngineDone(w)
       \/ Interrupt(w) \/ SendTick(w) \/ SendFinal(w)
       \/ Timeout(w) \/ TimeoutEarly(w) \/ Crash(w)
  \/ \E m \in msgs : Deliver(m)
  \/ \E m \in msgs : DeliverUnanswered(m)
  \/ \E m \in msgs : Drop(m)
  \/ \E i \in Ids : LiveLost(i)
  \/ Release \/ SilentLost \/ Deadline \/ Cancel \/ RunReturns \/ Finish
  \/ Rest

Spec == Init /\ [][Next]_vars

\* Processes that live keep running, what is neither dropped nor delayed
\* arrives, and time passes.  Nothing makes anybody cancel.
Fairness ==
  /\ \A w \in Workers :
       /\ WF_vars(Register(w) \/ GetJob(w) \/ JobLost(w) \/ EngineFails(w))
       /\ WF_vars(Work(w) \/ EngineDone(w))
       /\ WF_vars(Timeout(w) \/ \E m \in msgs : m.w = w /\ Deliver(m))
  /\ SF_vars(\E w \in Workers : SendFinal(w))
  /\ WF_vars(Release \/ SilentLost \/ Deadline \/ RunReturns \/ Finish)

FairSpec == Spec /\ Fairness
-----------------------------------------------------------------------------
(* Properties.                                                             *)

Reports ==
  [w : Workers, id : Ids, kind : {"tick", "final", "error"},
   try : 0..FinalAttempts, snap : Nat \cup {None}]

\* The types of the coordinator, its workers and the network; ids stay within
\* the registrations and no final report is tried more than FinalAttempts times.
TypeOK ==
  /\ duration \in BOOLEAN /\ loop \in BOOLEAN
  /\ order \in 0..MaxIds
  /\ name \in [Ids -> Workers \cup {None}]
  /\ state \in [Ids -> Finished \cup {"none", "ready", "running"}]
  /\ snap \in [Ids -> Nat \cup {None}]
  /\ share \in Nat \cup {None}
  /\ done \in BOOLEAN
  /\ run \in {"waiting", "running", "returned", "reported"}
  /\ cause \in {"none", "done", "deadline", "cancelled"}
  /\ wpc \in [Workers -> {"register", "poll", "run", "tick", "final", "ended", "dead"}]
  /\ wid \in [Workers -> 0..MaxIds]
  /\ progress \in [Workers -> Nat]
  /\ engine \in [Workers -> {"off", "on", "done"}]
  /\ sent \in [Workers -> 0..FinalAttempts]
  /\ msgs \subseteq Reports
  /\ overtaken \in BOOLEAN
  /\ faults \in 0..MaxFaults

\* The run is over, by itself, only when every registered worker has finished,
\* failed or been lost: nobody joins after the release, and no late report
\* brings a worker back.
DoneMeansFinished ==
  done /\ cause \notin {"deadline", "cancelled"} =>
    \A i \in 1..order : state[i] \in Finished

\* While the run is on, a worker that was counted as finished stays so,
\* although its late and repeated reports are still handled.
FinishedStays ==
  [][~done => \A i \in Ids : state[i] \in Finished => state'[i] \in Finished]_vars

\* Snapshots are cumulative: however often a report is repeated, and whatever
\* answers are lost, the coordinator never counts a request twice or one that
\* was not made, and no worker's requests are under two ids.
NoDoubleCounting ==
  \A i \in Ids : snap[i] # None =>
    /\ snap[i] <= progress[name[i]]
    /\ \A j \in Ids : j # i /\ snap[j] # None => name[j] # name[i]

\* coord.Snapshot(): the sum of the snapshots, as the number of requests they
\* stand for, n of an id whose snapshot says n.
Counted == UNION {{i} \X (1..snap[i]) : i \in {j \in Ids : snap[j] # None}}
Snapshot == Cardinality(Counted)

\* The requests the engines made.
Requests == UNION {{w} \X (1..progress[w]) : w \in Workers}
Made == Cardinality(Requests)
AllDone == cause = "done" /\ \A i \in 1..order : state[i] = "done"

\* When every worker delivered its final report and none of its reports was
\* overtaken by a later one, the summary counts exactly the requests made,
\* although answers and reports were lost and repeated.
ExactWithoutOvertaking ==
  run = "reported" /\ AllDone /\ ~overtaken => Snapshot = Made

\* "Stop after N requests (exact)" (docs/titanload.md:60, -n of run and
\* coordinator): an undisturbed run without a duration makes the requests asked
\* for, however many workers share them.
BudgetExact ==
  run = "reported" /\ AllDone /\ faults = 0 /\ ~duration => Snapshot = Budget

\* What the rounding of the shares (distributed.go:320) keeps of BudgetExact: an
\* undisturbed run without a duration makes at least the requests asked for,
\* and fewer than one per worker too many.
BudgetMet ==
  run = "reported" /\ AllDone /\ faults = 0 /\ ~duration =>
    Budget <= Snapshot /\ Snapshot < Budget + order

\* Once the job is released the run completes (titanload.md: "A worker that
\* stops reporting for 15s is marked `lost`; the run still completes"), whoever
\* is lost: by its deadline if it has a duration, and without one if every
\* worker has reported at least once, because markLost sees the silent ones.
RunCompletes ==
  Released /\ (duration \/ \A i \in 1..order : snap[i] # None) ~> done

\* "aggregation is exact rather than averaged" (package comment): when every
\* worker is done the summary counts the requests they made.
ExactAggregation ==
  run = "reported" /\ AllDone => Snapshot = Made

=============================================================================
