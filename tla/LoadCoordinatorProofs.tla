----------------------- MODULE LoadCoordinatorProofs -----------------------
(***************************************************************************)
(* Proofs about LoadCoordinator for any number of workers, registrations,  *)
(* requests and faults.                                                    *)
(***************************************************************************)
EXTENDS LoadCoordinator, TLAPS

\* A worker past its registration holds an id the coordinator gave to it; the
\* job is out once it runs.
IdInv ==
  \A w \in Workers :
    /\ wpc[w] \in {"poll", "run", "tick", "final"} =>
         wid[w] \in 1..order /\ name[wid[w]] = w
    /\ wpc[w] \in {"run", "tick", "final"} => Released

\* A report on its way carries the id its sender still has, the job is out, the
\* sender is past polling for it, and the snapshot is one its engine had.
MsgInv ==
  \A m \in msgs :
    /\ Released /\ wpc[m.w] # "poll"
    /\ m.id \in 1..order /\ name[m.id] = m.w /\ wid[m.w] = m.id
    /\ m.snap # None => m.snap <= progress[m.w]

\* A snapshot the coordinator has is one of the worker that holds the id.
SnapInv ==
  \A i \in Ids : snap[i] # None =>
    /\ Released
    /\ name[i] \in Workers /\ wid[name[i]] = i
    /\ snap[i] <= progress[name[i]]

\* Run gives its cause when it returns, and the job is out while it runs.
RunInv ==
  /\ run \in {"waiting", "running"} => cause = "none"
  /\ run = "running" => Released
  /\ cause \in {"deadline", "done"} => done

\* Until the deadline, an id whose worker still polls is ready, not finished.
PollInv ==
  cause # "deadline" =>
    \A w \in Workers : wpc[w] = "poll" => state[wid[w]] = "ready"

\* Nothing is known of an id that was not given out.
FreshInv == \A i \in Ids : i > order => state[i] = "none"

DoneInv ==
  /\ DoneMeansFinished
  /\ done => Released

\* All of it; it carries NoDoubleCounting, DoneMeansFinished and FinishedStays.
CoordInv ==
  /\ TypeOK /\ IdInv /\ MsgInv /\ SnapInv
  /\ RunInv /\ PollInv /\ FreshInv /\ DoneInv

\* Only an engine that was started makes requests, and only for an id the
\* coordinator knows.
EngineInv ==
  \A w \in Workers :
    /\ engine[w] = "on" => wpc[w] \in {"run", "tick"}
    /\ engine[w] # "off" => Released
    /\ progress[w] > 0 => Released /\ wid[w] \in 1..order /\ name[wid[w]] = w

\* Once a worker has sent its final report its engine stands still, so every
\* final report counts all its requests.
FinalInv ==
  /\ \A w \in Workers :
       /\ sent[w] > 0 => Released /\ wpc[w] \notin {"poll", "run", "tick"}
       /\ wpc[w] = "final" => sent[w] > 0
  /\ \A m \in msgs :
       m.kind = "final" => sent[m.w] > 0 /\ m.snap = progress[m.w]

\* A worker waits for the answer to its tick before it goes on: unless it gave
\* one up, at most one is on its way, and none once the final report was sent.
TickInv ==
  ~overtaken =>
    \A m \in msgs : m.kind = "tick" =>
      /\ wpc[m.w] \in {"tick", "dead"} /\ sent[m.w] = 0
      /\ \A n \in msgs : n.kind = "tick" /\ n.w = m.w => n = m

\* An id that is done has the snapshot of a final report, or, if reports
\* overtake each other, an older one.
ExactInv ==
  \A i \in Ids :
    /\ snap[i] # None => i <= order
    /\ state[i] = "done" =>
         /\ snap[i] # None /\ sent[name[i]] > 0
         /\ ~overtaken => snap[i] = progress[name[i]]

\* Everybody who may register has done so when the budget is divided; if nothing
\* goes wrong an engine without a duration stops when its share is spent.
ShareInv ==
  /\ Released => order > 0 /\ share = Share(order)
  /\ faults = 0 => ~overtaken
  /\ faults = 0 => \A w \in Workers : sent[w] > 0 => engine[w] = "done"
  /\ faults = 0 /\ ~duration =>
       \A w \in Workers : engine[w] = "done" => progress[w] = share

SumInv == EngineInv /\ FinalInv /\ TickInv /\ ExactInv /\ ShareInv

StaysStep ==
  ~done => \A i \in Ids : state[i] \in Finished => state'[i] \in Finished
-----------------------------------------------------------------------------
(* Type correctness.                                                       *)

LEMMA TypeInit == Init => TypeOK /\ IdInv
<1> SUFFICES ASSUME Init PROVE TypeOK /\ IdInv
  OBVIOUS
<1>1. done \in BOOLEAN /\ overtaken \in BOOLEAN /\ duration \in BOOLEAN /\ loop \in BOOLEAN
  BY Zenon DEF Init
<1>2. order \in 0..MaxIds /\ faults \in 0..MaxFaults
  BY CoordinatorAssumption DEF CoordinatorAssumption, Init
<1>3. wid \in [Workers -> 0..MaxIds] /\ sent \in [Workers -> 0..FinalAttempts]
  BY CoordinatorAssumption DEF CoordinatorAssumption, Init
<1> QED
  BY <1>1, <1>2, <1>3, Zenon DEF Init, TypeOK, IdInv, Ids, Reports, Finished

LEMMA ShareIsNat ==
  ASSUME NEW n \in Nat \ {0}
  PROVE  Share(n) \in Nat
  BY CoordinatorAssumption, SMTT(30) DEF CoordinatorAssumption, Share

\* What giving up a call does to the worker and to the network.
LEMMA GiveUpType ==
  ASSUME TypeOK, IdInv, NEW w \in Workers, GiveUp(w)
  PROVE  /\ wpc' \in [Workers -> {"register", "poll", "run", "tick", "final", "ended", "dead"}]
         /\ sent' \in [Workers -> 0..FinalAttempts]
         /\ msgs' \subseteq Reports
<1> USE CoordinatorAssumption DEF CoordinatorAssumption, TypeOK, IdInv, Goto, Again
<1>1. CASE wpc[w] = "tick"
  BY <1>1, Zenon DEF GiveUp
<1>2. CASE wpc[w] = "final" /\ sent[w] < FinalAttempts
  <2>1. Report(w, "final", sent[w] + 1) \in Reports
    BY <1>2 DEF Report, Reports, Ids
  <2> QED
    BY <1>2, <2>1 DEF GiveUp
<1>3. CASE wpc[w] = "final" /\ sent[w] = FinalAttempts
  BY <1>3 DEF GiveUp
<1> QED
  BY <1>1, <1>2, <1>3, Zenon DEF GiveUp

\* What handleReport does to the coordinator's state.
LEMMA ReportType ==
  ASSUME TypeOK, NEW m \in msgs, handleReport(m)
  PROVE  /\ state' \in [Ids -> Finished \cup {"none", "ready", "running"}]
         /\ snap' \in [Ids -> Nat \cup {None}]
         /\ done' \in BOOLEAN
<1> USE DEF TypeOK, Reports, handleReport, Finished
<1>1. m \in Reports
  OBVIOUS
<1>2. state' \in [Ids -> Finished \cup {"none", "ready", "running"}]
  BY <1>1, Zenon
<1>3. snap' \in [Ids -> Nat \cup {None}]
  BY <1>1, Zenon
<1>4. done' \in BOOLEAN
  BY Zenon
<1> QED
  BY <1>2, <1>3, <1>4, Zenon

LEMMA TypeNext ==
  ASSUME TypeOK, IdInv, [Next]_vars
  PROVE  TypeOK'
<1> USE CoordinatorAssumption DEF CoordinatorAssumption, TypeOK, IdInv, Ids, Finished,
      Reports, Fault, Goto, Again, Released, coordVars, workerVars
<1>1. ASSUME NEW w \in Workers, Register(w) PROVE TypeOK'
  BY <1>1 DEF Register, handleRegister
<1>2. ASSUME NEW w \in Workers, RegisterLost(w) PROVE TypeOK'
  BY <1>2, SMTT(30) DEF RegisterLost, handleRegister
<1>3. ASSUME NEW w \in Workers, GetJob(w) PROVE TypeOK'
  BY <1>3 DEF GetJob, handleJob
<1>4. ASSUME NEW w \in Workers, JobLost(w) PROVE TypeOK'
  BY <1>4 DEF JobLost, handleJob
<1>5. ASSUME NEW w \in Workers, PollFails(w) PROVE TypeOK'
  BY <1>5 DEF PollFails
<1>6. ASSUME NEW w \in Workers, EngineFails(w) PROVE TypeOK'
  BY <1>6 DEF EngineFails, handleJob, Report
<1>7. ASSUME NEW w \in Workers, Work(w) PROVE TypeOK'
  BY <1>7 DEF Work
<1>8. ASSUME NEW w \in Workers, EngineDone(w) PROVE TypeOK'
  BY <1>8, ZenonT(30) DEF EngineDone
<1>9. ASSUME NEW w \in Workers, Interrupt(w) PROVE TypeOK'
  BY <1>9, SMTT(30) DEF Interrupt
<1>10. ASSUME NEW w \in Workers, SendTick(w) PROVE TypeOK'
  BY <1>10 DEF SendTick, Report
<1>11. ASSUME NEW w \in Workers, SendFinal(w) PROVE TypeOK'
  BY <1>11 DEF SendFinal, Report
<1>12. ASSUME NEW w \in Workers, Timeout(w) PROVE TypeOK'
  <2>1. GiveUp(w)
    BY <1>12, Zenon DEF Timeout
  <2>2. /\ wpc' \in [Workers -> {"register", "poll", "run", "tick", "final", "ended", "dead"}]
        /\ sent' \in [Workers -> 0..FinalAttempts]
        /\ msgs' \subseteq Reports
    BY <2>1, GiveUpType, Zenon
  <2>3. UNCHANGED <<duration, loop, coordVars, wid, progress, engine, overtaken, faults>>
    BY <1>12, Zenon DEF Timeout
  <2> QED
    BY <2>2, <2>3, Zenon
<1>13. ASSUME NEW w \in Workers, TimeoutEarly(w) PROVE TypeOK'
  <2>1. GiveUp(w)
    BY <1>13, Zenon DEF TimeoutEarly
  <2>2. /\ wpc' \in [Workers -> {"register", "poll", "run", "tick", "final", "ended", "dead"}]
        /\ sent' \in [Workers -> 0..FinalAttempts]
        /\ msgs' \subseteq Reports
    BY <2>1, GiveUpType, Zenon
  <2>3. overtaken' \in BOOLEAN /\ faults' \in 0..MaxFaults
    BY <1>13 DEF TimeoutEarly
  <2>4. UNCHANGED <<duration, loop, coordVars, wid, progress, engine>>
    BY <1>13, Zenon DEF TimeoutEarly
  <2> QED
    BY <2>2, <2>3, <2>4, Zenon
<1>14. ASSUME NEW w \in Workers, Crash(w) PROVE TypeOK'
  <2>1. faults' \in 0..MaxFaults
    BY <1>14 DEF Crash
  <2> QED
    BY <1>14, <2>1, ZenonT(30) DEF Crash
<1>15. ASSUME NEW m \in msgs, Deliver(m) PROVE TypeOK'
  <2>1. handleReport(m)
    BY <1>15, Zenon DEF Deliver
  <2>2. /\ state' \in [Ids -> Finished \cup {"none", "ready", "running"}]
        /\ snap' \in [Ids -> Nat \cup {None}]
        /\ done' \in BOOLEAN
    BY <2>1, ReportType, Zenon
  <2>3. wpc' \in [Workers -> {"register", "poll", "run", "tick", "final", "ended", "dead"}]
    BY <1>15, ZenonT(30) DEF Deliver, Goto, Again
  <2>4. UNCHANGED <<duration, loop, order, name, share, run, cause, wid, progress, engine, sent,
                    overtaken, faults>>
    BY <1>15, Zenon DEF Deliver, handleReport
  <2>5. msgs' \subseteq Reports
    BY <1>15, Zenon DEF Deliver
  <2> QED
    BY <2>2, <2>3, <2>4, <2>5, Zenon
<1>16. ASSUME NEW m \in msgs, DeliverUnanswered(m) PROVE TypeOK'
  <2>1. handleReport(m)
    BY <1>16, Zenon DEF DeliverUnanswered
  <2>2. /\ state' \in [Ids -> Finished \cup {"none", "ready", "running"}]
        /\ snap' \in [Ids -> Nat \cup {None}]
        /\ done' \in BOOLEAN
    BY <2>1, ReportType, Zenon
  <2>3. UNCHANGED <<duration, loop, order, name, share, run, cause, workerVars, overtaken>>
    BY <1>16, Zenon DEF DeliverUnanswered, handleReport
  <2>4. msgs' \subseteq Reports /\ faults' \in 0..MaxFaults
    BY <1>16 DEF DeliverUnanswered
  <2> QED
    BY <2>2, <2>3, <2>4, Zenon
<1>17. ASSUME NEW m \in msgs, Drop(m) PROVE TypeOK'
  <2>1. faults' \in 0..MaxFaults
    BY <1>17 DEF Drop
  <2> QED
    BY <1>17, <2>1, ZenonT(30) DEF Drop
<1>18. ASSUME NEW i \in Ids, LiveLost(i) PROVE TypeOK'
  BY <1>18 DEF LiveLost, markLost
<1>19. CASE Release
  <2>1. order \in Nat \ {0}
    BY <1>19 DEF Release
  <2>2. share' \in Nat
    BY <1>19, <2>1, ShareIsNat, Zenon DEF Release
  <2> QED
    BY <1>19, <2>2, Zenon DEF Release
<1>20. CASE SilentLost
  BY <1>20 DEF SilentLost, markLost
<1>21. CASE Deadline
  BY <1>21, Zenon DEF Deadline, Return
<1>22. CASE Cancel
  BY <1>22, Zenon DEF Cancel, Return
<1>23. CASE RunReturns
  BY <1>23, Zenon DEF RunReturns, Return
<1>24. CASE Finish
  BY <1>24, Zenon DEF Finish
<1>25. CASE UNCHANGED vars
  BY <1>25 DEF vars, coordVars, workerVars
<1> QED
  BY <1>1, <1>2, <1>3, <1>4, <1>5, <1>6, <1>7, <1>8, <1>9, <1>10, <1>11, <1>12, <1>13,
     <1>14, <1>15, <1>16, <1>17, <1>18, <1>19, <1>20, <1>21, <1>22, <1>23, <1>24, <1>25, ZenonT(60)
  DEF Next, Rest

LEMMA IdNext ==
  ASSUME TypeOK, IdInv, [Next]_vars
  PROVE  IdInv'
<1>t. /\ order \in Nat /\ MaxIds \in Nat /\ DOMAIN name = 1..MaxIds
      /\ DOMAIN wpc = Workers /\ DOMAIN wid = Workers
  BY CoordinatorAssumption DEF CoordinatorAssumption, TypeOK, Ids
<1>f. ASSUME UNCHANGED <<wpc, wid, order, name, share>>
      PROVE  IdInv'
  BY <1>f, Zenon DEF IdInv, Released
<1>1. ASSUME NEW w \in Workers, Register(w) \/ RegisterLost(w) PROVE IdInv'
  BY <1>1, <1>t, SMTT(30)
  DEF IdInv, Released, Register, handleRegister, Goto, RegisterLost, workerVars
<1>2. ASSUME NEW w \in Workers, GetJob(w) \/ JobLost(w) \/ EngineFails(w)
      PROVE  IdInv'
  BY <1>2, <1>t, Zenon
  DEF IdInv, Released, GetJob, handleJob, Goto, JobLost, Again, EngineFails
<1>3. ASSUME NEW w \in Workers, PollFails(w) \/ Crash(w) PROVE IdInv'
  BY <1>3, <1>t, Zenon
  DEF IdInv, Released, PollFails, coordVars, Goto, Again, Crash
<1>4. ASSUME NEW w \in Workers, SendTick(w) \/ SendFinal(w) PROVE IdInv'
  BY <1>4, <1>t, Zenon DEF IdInv, Released, SendTick, coordVars, Goto, SendFinal
<1>5. ASSUME NEW w \in Workers, Timeout(w) \/ TimeoutEarly(w) PROVE IdInv'
  BY <1>5, <1>t, Zenon
  DEF IdInv, Released, Timeout, coordVars, GiveUp, Goto, Again, TimeoutEarly
<1>6. ASSUME NEW w \in Workers, Work(w) \/ EngineDone(w) \/ Interrupt(w)
      PROVE  IdInv'
  BY <1>6, <1>f, Zenon DEF Work, coordVars, EngineDone, Interrupt
<1>7. ASSUME NEW m \in msgs, Deliver(m) PROVE IdInv'
  BY <1>7, <1>t, Zenon
  DEF IdInv, Released, Deliver, handleReport, Goto, Again, Awaits
<1>8. ASSUME NEW m \in msgs, DeliverUnanswered(m) \/ Drop(m) PROVE IdInv'
  BY <1>8, <1>f, Zenon
  DEF DeliverUnanswered, handleReport, workerVars, Drop, coordVars
<1>9. ASSUME NEW i \in Ids, LiveLost(i) PROVE IdInv'
  BY <1>9, <1>f, Zenon DEF LiveLost, markLost, workerVars
<1>10. CASE Release
  BY <1>10, <1>t, ShareIsNat, CoordinatorAssumption, SMTT(30)
  DEF IdInv, Released, Release, workerVars, CoordinatorAssumption
<1>11. CASE SilentLost \/ Deadline \/ Cancel \/ RunReturns \/ Finish
        \/ UNCHANGED vars
  BY <1>11, <1>f, Zenon
  DEF SilentLost, markLost, workerVars, Deadline, Return, Cancel, RunReturns,
      Finish, vars, coordVars
<1> QED
  BY <1>1, <1>2, <1>3, <1>4, <1>5, <1>6, <1>7, <1>8, <1>9, <1>10, <1>11,
     Zenon DEF Next, Rest

-----------------------------------------------------------------------------
(* Nothing is counted twice.                                               *)

LEMMA MsgNext ==
  ASSUME TypeOK, IdInv, MsgInv, [Next]_vars
  PROVE  MsgInv'
<1>t. /\ order \in 0..MaxIds /\ MaxIds \in Nat /\ DOMAIN name = 1..MaxIds
      /\ DOMAIN wpc = Workers /\ DOMAIN wid = Workers /\ progress \in [Workers -> Nat]
      /\ \A m \in msgs : m.w \in Workers /\ (m.snap # None => m.snap \in Nat)
  BY CoordinatorAssumption, Zenon DEF CoordinatorAssumption, TypeOK, Ids, Reports
<1>f. ASSUME UNCHANGED <<share, wpc, wid, order, name, progress, msgs>>
      PROVE  MsgInv'
  BY <1>f, Zenon DEF MsgInv, Released
<1>1. ASSUME NEW w \in Workers, Register(w) \/ RegisterLost(w) PROVE MsgInv'
  BY <1>1, <1>t, Zenon
  DEF MsgInv, Released, Register, handleRegister, Goto, RegisterLost, workerVars
<1>2. ASSUME NEW w \in Workers, GetJob(w) \/ JobLost(w) \/ EngineFails(w)
      PROVE  MsgInv'
  BY <1>2, <1>t, SMTT(30)
  DEF MsgInv, IdInv, Released, Report, GetJob, handleJob, Goto, JobLost, Again,
      EngineFails
<1>3. ASSUME NEW w \in Workers, PollFails(w) \/ Crash(w) PROVE MsgInv'
  BY <1>3, <1>t, Zenon
  DEF MsgInv, Released, PollFails, coordVars, Goto, Again, Crash
<1>4. ASSUME NEW w \in Workers, Work(w) PROVE MsgInv'
  BY <1>4, <1>t, SMTT(30) DEF MsgInv, Released, Work, coordVars
<1>5. ASSUME NEW w \in Workers, EngineDone(w) \/ Interrupt(w) PROVE MsgInv'
  BY <1>5, <1>f, Zenon DEF EngineDone, coordVars, Interrupt
<1>6. ASSUME NEW w \in Workers, SendTick(w) \/ SendFinal(w) PROVE MsgInv'
  BY <1>6, <1>t, SMTT(30)
  DEF MsgInv, IdInv, Released, Report, SendTick, coordVars, Goto, SendFinal
<1>7. ASSUME NEW w \in Workers, Timeout(w) \/ TimeoutEarly(w) PROVE MsgInv'
  BY <1>7, <1>t, SMTT(30)
  DEF MsgInv, IdInv, Released, Report, Timeout, coordVars, GiveUp, Goto, Again,
      TimeoutEarly
<1>8. ASSUME NEW m \in msgs, Deliver(m) PROVE MsgInv'
  BY <1>8, <1>t, Zenon
  DEF MsgInv, Released, Deliver, handleReport, Goto, Again, Awaits
<1>9. ASSUME NEW m \in msgs, DeliverUnanswered(m) \/ Drop(m) PROVE MsgInv'
  BY <1>9, <1>t, Zenon
  DEF MsgInv, Released, DeliverUnanswered, handleReport, workerVars, Drop,
      coordVars
<1>10. ASSUME NEW i \in Ids, LiveLost(i) PROVE MsgInv'
  BY <1>10, <1>f, Zenon DEF LiveLost, markLost, workerVars
<1>11. CASE Release
  BY <1>11, <1>t, ShareIsNat, CoordinatorAssumption, SMTT(30)
  DEF MsgInv, Released, Release, workerVars, CoordinatorAssumption
<1>12. CASE SilentLost \/ Deadline \/ Cancel \/ RunReturns \/ Finish
        \/ UNCHANGED vars
  BY <1>12, <1>f, Zenon
  DEF SilentLost, markLost, workerVars, Deadline, Return, Cancel, RunReturns,
      Finish, vars, coordVars
<1> QED
  BY <1>1, <1>2, <1>3, <1>4, <1>5, <1>6, <1>7, <1>8, <1>9, <1>10, <1>11, <1>12,
     Zenon DEF Next, Rest


LEMMA SnapNext ==
  ASSUME TypeOK, IdInv, MsgInv, SnapInv, [Next]_vars
  PROVE  SnapInv'
<1>t. /\ order \in 0..MaxIds /\ MaxIds \in Nat /\ Ids = 1..MaxIds /\ DOMAIN name = Ids
      /\ DOMAIN wid = Workers /\ progress \in [Workers -> Nat]
      /\ snap \in [Ids -> Nat \cup {None}] /\ \A m \in msgs : m.w \in Workers
  BY CoordinatorAssumption, Zenon DEF CoordinatorAssumption, TypeOK, Ids, Reports
<1>f. ASSUME UNCHANGED <<share, name, wid, progress, snap>>
      PROVE  SnapInv'
  BY <1>f, Zenon DEF SnapInv, Released
<1>1. ASSUME NEW w \in Workers, Register(w) \/ RegisterLost(w) PROVE SnapInv'
  BY <1>1, <1>t, Zenon
  DEF SnapInv, Released, Register, handleRegister, Goto, RegisterLost, workerVars
<1>2. ASSUME NEW w \in Workers, Work(w) PROVE SnapInv'
  BY <1>2, <1>t, SMTT(30) DEF SnapInv, Released, Work, coordVars
<1>3. ASSUME NEW w \in Workers, GetJob(w) \/ JobLost(w) \/ EngineFails(w) \/ PollFails(w)
        \/ Crash(w) PROVE SnapInv'
  BY <1>3, <1>f, Zenon
  DEF GetJob, handleJob, JobLost, EngineFails, PollFails, coordVars, Crash
<1>4. ASSUME NEW w \in Workers, EngineDone(w) \/ Interrupt(w) \/ SendTick(w) \/ SendFinal(w)
        \/ Timeout(w) \/ TimeoutEarly(w) PROVE SnapInv'
  BY <1>4, <1>f, Zenon
  DEF EngineDone, coordVars, Interrupt, SendTick, SendFinal, Timeout, TimeoutEarly
<1>5. ASSUME NEW m \in msgs, Deliver(m) \/ DeliverUnanswered(m) PROVE SnapInv'
  BY <1>5, <1>t, SMTT(30)
  DEF SnapInv, MsgInv, Released, Deliver, handleReport, Goto, Again, Awaits,
      DeliverUnanswered, workerVars
<1>6. ASSUME NEW m \in msgs, Drop(m) PROVE SnapInv'
  BY <1>6, <1>f, Zenon DEF Drop, coordVars, workerVars
<1>7. ASSUME NEW i \in Ids, LiveLost(i) PROVE SnapInv'
  BY <1>7, <1>f, Zenon DEF LiveLost, markLost, workerVars
<1>8. CASE Release
  BY <1>8, <1>t, ShareIsNat, CoordinatorAssumption, SMTT(30)
  DEF SnapInv, Released, Release, workerVars, CoordinatorAssumption
<1>9. CASE SilentLost \/ Deadline \/ Cancel \/ RunReturns \/ Finish
        \/ UNCHANGED vars
  BY <1>9, <1>f, Zenon
  DEF SilentLost, markLost, workerVars, Deadline, Return, Cancel, RunReturns,
      Finish, vars, coordVars
<1> QED
  BY <1>1, <1>2, <1>3, <1>4, <1>5, <1>6, <1>7, <1>8, <1>9, Zenon DEF Next, Rest


-----------------------------------------------------------------------------
(* The run ends when all have ended.                                       *)

\* What a step does to the coordinator's own state.
CoordStep ==
  \/ UNCHANGED coordVars
  \/ \E w \in Workers : handleRegister(w)
  \/ \E w \in Workers : wpc[w] = "poll" /\ handleJob(wid[w])
  \/ \E m \in msgs : handleReport(m)
  \/ \E S : markLost(S)
  \/ Release \/ Deadline \/ Cancel \/ RunReturns \/ Finish

LEMMA StepIsCoordStep == ASSUME [Next]_vars PROVE CoordStep
<1>1. ASSUME NEW w \in Workers, Register(w) \/ RegisterLost(w) PROVE CoordStep
  BY <1>1, Zenon DEF CoordStep, Register, RegisterLost
<1>2. ASSUME NEW w \in Workers, GetJob(w) \/ JobLost(w) \/ EngineFails(w)
      PROVE  CoordStep
  BY <1>2, Zenon DEF CoordStep, GetJob, JobLost, EngineFails
<1>3. ASSUME NEW w \in Workers, PollFails(w) \/ Crash(w) \/ Work(w) \/ EngineDone(w)
        \/ Interrupt(w) \/ SendTick(w) \/ SendFinal(w) \/ Timeout(w) \/ TimeoutEarly(w)
      PROVE  CoordStep
  BY <1>3, Zenon
  DEF CoordStep, PollFails, Crash, Work, EngineDone, Interrupt, SendTick, SendFinal,
      Timeout, TimeoutEarly
<1>4. ASSUME NEW m \in msgs, Deliver(m) \/ DeliverUnanswered(m) \/ Drop(m)
      PROVE  CoordStep
  BY <1>4, Zenon DEF CoordStep, Deliver, DeliverUnanswered, Drop
<1>5. ASSUME NEW i \in Ids, LiveLost(i) PROVE CoordStep
  BY <1>5, Zenon DEF CoordStep, LiveLost
<1>6. CASE SilentLost
  BY <1>6, Zenon DEF CoordStep, SilentLost
<1>7. CASE Release \/ Deadline \/ Cancel \/ RunReturns \/ Finish \/ UNCHANGED vars
  BY <1>7, Zenon DEF CoordStep, vars
<1> QED
  BY <1>1, <1>2, <1>3, <1>4, <1>5, <1>6, <1>7, Zenon DEF Next, Rest

LEMMA RunNext ==
  ASSUME TypeOK, RunInv, CoordStep
  PROVE  RunInv'
<1>1. CASE UNCHANGED <<share, run, cause>> /\ (done => done')
  BY <1>1, Zenon DEF RunInv, Released
<1>2. ASSUME NEW w \in Workers, handleRegister(w) \/ handleJob(wid[w]) PROVE RunInv'
  BY <1>1, <1>2, Zenon DEF handleRegister, handleJob
<1>3. ASSUME NEW m \in msgs, handleReport(m) PROVE RunInv'
  BY <1>1, <1>3, Zenon DEF handleReport
<1>4. ASSUME NEW S, markLost(S) PROVE RunInv'
  BY <1>1, <1>4, Zenon DEF markLost
<1>5. CASE Release
  <2>1. order \in Nat \ {0} /\ None \notin Nat
    BY <1>5, CoordinatorAssumption DEF CoordinatorAssumption, TypeOK, Release
  <2> QED
    BY <1>5, <2>1, ShareIsNat, Zenon DEF Release, RunInv, Released
<1>6. CASE Deadline \/ Cancel \/ RunReturns \/ Finish
  BY <1>6, Zenon DEF Deadline, Cancel, RunReturns, Finish, Return, RunInv, Released
<1> QED
  BY <1>1, <1>2, <1>3, <1>4, <1>5, <1>6 DEF CoordStep, coordVars

LEMMA DoneNext ==
  ASSUME TypeOK, IdInv, MsgInv, RunInv, PollInv, DoneInv, CoordStep
  PROVE  DoneInv'
<1>t. /\ order \in 0..MaxIds /\ MaxIds \in Nat /\ Ids = 1..MaxIds /\ DOMAIN state = Ids
  BY CoordinatorAssumption, Zenon DEF CoordinatorAssumption, TypeOK, Ids
<1>1. CASE UNCHANGED coordVars
  BY <1>1, Zenon DEF coordVars, DoneInv, DoneMeansFinished, Released
<1>2. ASSUME NEW w \in Workers, handleRegister(w) PROVE DoneInv'
  BY <1>2, Zenon DEF handleRegister, DoneInv, DoneMeansFinished, Released
<1>3. ASSUME NEW w \in Workers, wpc[w] = "poll", handleJob(wid[w]) PROVE DoneInv'
  <2>1. wid[w] \in 1..order /\ (cause # "deadline" => state[wid[w]] = "ready")
    BY <1>3, Zenon DEF IdInv, PollInv
  <2> QED
    BY <1>3, <1>t, <2>1, Zenon DEF handleJob, DoneInv, DoneMeansFinished, Finished, Released
\* What was finished stays so, and done is closed only if all have finished.
<1>4. ASSUME UNCHANGED <<order, share, cause>>, done' = (done \/ allFinished(state')),
             \A j \in 1..order : state[j] \in Finished => state'[j] \in Finished
      PROVE  DoneInv'
  <2>1. CASE done
    BY <1>4, <2>1, ZenonT(30) DEF DoneInv, DoneMeansFinished, Released
  <2>2. CASE ~done
    BY <1>4, <2>2, ZenonT(30) DEF DoneInv, DoneMeansFinished, Released, allFinished
  <2> QED
    BY <2>1, <2>2, Zenon
<1>5. ASSUME NEW m \in msgs, handleReport(m) PROVE DoneInv'
  <2>1. \A j \in 1..order : state[j] \in Finished => state'[j] \in Finished
    BY <1>5, <1>t DEF handleReport, Finished
  <2> QED
    BY <1>4, <1>5, <2>1, Zenon DEF handleReport
<1>6. ASSUME NEW S, markLost(S) PROVE DoneInv'
  <2>1. \A j \in 1..order : state[j] \in Finished => state'[j] \in Finished
    BY <1>6, <1>t DEF markLost, Finished
  <2> QED
    BY <1>4, <1>6, <2>1, Zenon DEF markLost
<1>7. CASE Release
  <2>1. order \in Nat \ {0} /\ None \notin Nat
    BY <1>7, CoordinatorAssumption DEF CoordinatorAssumption, TypeOK, Release
  <2> QED
    BY <1>7, <2>1, ShareIsNat, Zenon DEF Release, DoneInv, DoneMeansFinished, Released
<1>8. CASE Deadline \/ Cancel
  BY <1>8, Zenon
  DEF Deadline, Cancel, Return, RunInv, DoneInv, DoneMeansFinished, Released
<1>9. CASE RunReturns \/ Finish
  BY <1>9, SMTT(30)
  DEF RunReturns, Finish, Return, RunInv, DoneInv, DoneMeansFinished, Released
<1> QED
  BY <1>1, <1>2, <1>3, <1>5, <1>6, <1>7, <1>8, <1>9, Zenon DEF CoordStep

LEMMA FreshNext ==
  ASSUME TypeOK, IdInv, MsgInv, FreshInv, CoordStep
  PROVE  FreshInv'
<1>t. /\ order \in 0..MaxIds /\ MaxIds \in Nat /\ Ids = 1..MaxIds /\ DOMAIN state = Ids
  BY CoordinatorAssumption, Zenon DEF CoordinatorAssumption, TypeOK, Ids
<1>1. CASE UNCHANGED coordVars
  BY <1>1, Zenon DEF coordVars, FreshInv
<1>2. ASSUME NEW w \in Workers, handleRegister(w) PROVE FreshInv'
  BY <1>2, <1>t DEF handleRegister, FreshInv
<1>3. ASSUME NEW w \in Workers, wpc[w] = "poll", handleJob(wid[w]) PROVE FreshInv'
  BY <1>3, <1>t DEF handleJob, FreshInv, IdInv
<1>4. ASSUME NEW m \in msgs, handleReport(m) PROVE FreshInv'
  BY <1>4, <1>t DEF handleReport, FreshInv, MsgInv
<1>5. ASSUME NEW S, markLost(S) PROVE FreshInv'
  BY <1>5, <1>t, Zenon DEF markLost, FreshInv
<1>6. CASE Release \/ Deadline \/ Cancel \/ RunReturns \/ Finish
  BY <1>6, <1>t, Zenon DEF Release, Deadline, Cancel, RunReturns, Finish, Return, FreshInv
<1> QED
  BY <1>1, <1>2, <1>3, <1>4, <1>5, <1>6, Zenon DEF CoordStep

LEMMA StaysNext ==
  ASSUME TypeOK, IdInv, RunInv, PollInv, FreshInv, CoordStep
  PROVE  StaysStep
<1>t. /\ order \in 0..MaxIds /\ MaxIds \in Nat /\ Ids = 1..MaxIds /\ DOMAIN state = Ids
  BY CoordinatorAssumption, Zenon DEF CoordinatorAssumption, TypeOK, Ids
<1> USE DEF StaysStep, Finished
<1>1. CASE UNCHANGED state
  BY <1>1, Zenon
<1>2. ASSUME NEW w \in Workers, handleRegister(w) PROVE StaysStep
  BY <1>2, <1>t DEF handleRegister, FreshInv
<1>3. ASSUME NEW w \in Workers, wpc[w] = "poll", handleJob(wid[w]) PROVE StaysStep
  BY <1>3, <1>t, Zenon DEF handleJob, IdInv, RunInv, PollInv
<1>4. ASSUME NEW m \in msgs, handleReport(m) PROVE StaysStep
  BY <1>4, <1>t, Zenon DEF handleReport
<1>5. ASSUME NEW S, markLost(S) PROVE StaysStep
  BY <1>5, <1>t, Zenon DEF markLost
<1>6. CASE Release \/ Deadline \/ Cancel \/ RunReturns \/ Finish
  BY <1>6, <1>t, Zenon DEF Release, Deadline, Cancel, RunReturns, Finish
<1> QED
  BY <1>1, <1>2, <1>3, <1>4, <1>5, <1>6, Zenon DEF CoordStep, coordVars


LEMMA PollNext ==
  ASSUME TypeOK, IdInv, MsgInv, RunInv, PollInv, [Next]_vars
  PROVE  PollInv'
<1>t. /\ order \in 0..MaxIds /\ MaxIds \in Nat /\ Ids = 1..MaxIds /\ DOMAIN state = Ids
      /\ DOMAIN name = Ids /\ DOMAIN wpc = Workers /\ DOMAIN wid = Workers
  BY CoordinatorAssumption, Zenon DEF CoordinatorAssumption, TypeOK, Ids
<1>f. ASSUME UNCHANGED <<cause, wpc, state, wid>>
      PROVE  PollInv'
  BY <1>f, Zenon DEF PollInv
<1>1. ASSUME NEW w \in Workers, Register(w) \/ RegisterLost(w) PROVE PollInv'
  BY <1>1, <1>t, SMTT(30)
  DEF PollInv, IdInv, Register, handleRegister, Goto, RegisterLost, workerVars
<1>2. ASSUME NEW w \in Workers, GetJob(w) \/ JobLost(w) \/ EngineFails(w)
      PROVE  PollInv'
  BY <1>2, <1>t, SMTT(30)
  DEF PollInv, IdInv, GetJob, handleJob, Goto, JobLost, Again, EngineFails
<1>3. ASSUME NEW w \in Workers, PollFails(w) \/ Crash(w) PROVE PollInv'
  BY <1>3, <1>t, Zenon DEF PollInv, PollFails, coordVars, Goto, Again, Crash
<1>4. ASSUME NEW w \in Workers, Work(w) \/ EngineDone(w) \/ Interrupt(w)
      PROVE  PollInv'
  BY <1>4, <1>f, Zenon DEF Work, coordVars, EngineDone, Interrupt
<1>5. ASSUME NEW w \in Workers, SendTick(w) \/ SendFinal(w) PROVE PollInv'
  BY <1>5, <1>t, Zenon DEF PollInv, SendTick, coordVars, Goto, SendFinal
<1>6. ASSUME NEW w \in Workers, Timeout(w) \/ TimeoutEarly(w) PROVE PollInv'
  BY <1>6, <1>t, Zenon
  DEF PollInv, Timeout, coordVars, GiveUp, Goto, Again, TimeoutEarly
<1>7. ASSUME NEW m \in msgs, Deliver(m) \/ DeliverUnanswered(m) PROVE PollInv'
  BY <1>7, <1>t, SMTT(30)
  DEF PollInv, IdInv, MsgInv, Deliver, handleReport, Goto, Again, Awaits,
      DeliverUnanswered, workerVars
<1>8. ASSUME NEW m \in msgs, Drop(m) PROVE PollInv'
  BY <1>8, <1>f, Zenon DEF Drop, coordVars, workerVars
<1>9. ASSUME NEW i \in Ids, LiveLost(i) PROVE PollInv'
  BY <1>9, <1>t, SMTT(30) DEF PollInv, IdInv, LiveLost, markLost, workerVars
<1>10. CASE SilentLost
  BY <1>10, <1>t, SMTT(30) DEF PollInv, IdInv, SilentLost, markLost, workerVars
<1>11. CASE Deadline \/ Cancel \/ RunReturns \/ Finish
  BY <1>11, <1>t, Zenon
  DEF PollInv, RunInv, Deadline, Return, workerVars, Cancel, RunReturns, Finish
<1>12. CASE Release \/ UNCHANGED vars
  BY <1>12, <1>f, Zenon DEF Release, workerVars, vars, coordVars
<1> QED
  BY <1>1, <1>2, <1>3, <1>4, <1>5, <1>6, <1>7, <1>8, <1>9, <1>10, <1>11, <1>12,
     Zenon DEF Next, Rest

-----------------------------------------------------------------------------
(* The totals of the summary.                                              *)

\* What giving up a call does.
LEMMA GiveUpEffect ==
  ASSUME TypeOK, NEW w \in Workers, GiveUp(w)
  PROVE  /\ \A v \in Workers \ {w} : wpc'[v] = wpc[v] /\ sent'[v] = sent[v]
         /\ \/ wpc[w] = "tick" /\ wpc'[w] = "run" /\ sent'[w] = sent[w] /\ msgs' = msgs
            \/ /\ wpc[w] = "final" /\ wpc'[w] = "final" /\ sent'[w] = sent[w] + 1
               /\ msgs' = msgs \cup {Report(w, "final", sent[w] + 1)}
            \/ /\ wpc[w] = "final" /\ wpc'[w] \in {"register", "ended"}
               /\ sent'[w] = sent[w] /\ msgs' = msgs
  BY Zenon DEF TypeOK, GiveUp, Goto, Again

LEMMA EngineNext ==
  ASSUME TypeOK, IdInv, EngineInv, [Next]_vars
  PROVE  EngineInv'
<1>t. /\ order \in 0..MaxIds /\ MaxIds \in Nat /\ DOMAIN name = 1..MaxIds
      /\ DOMAIN wpc = Workers /\ DOMAIN wid = Workers /\ DOMAIN engine = Workers
      /\ progress \in [Workers -> Nat]
  BY CoordinatorAssumption, Zenon DEF CoordinatorAssumption, TypeOK, Ids
<1>f. ASSUME UNCHANGED <<engine, wpc, progress, share, wid, order, name>>
      PROVE  EngineInv'
  BY <1>f, Zenon DEF EngineInv, Released
<1>g. ASSUME NEW w \in Workers, UNCHANGED <<progress, share, wid, order, name>>,
             \A v \in Workers : v # w => engine'[v] = engine[v] /\ wpc'[v] = wpc[v],
             engine'[w] = "on" => wpc'[w] \in {"run", "tick"},
             engine'[w] # "off" => Released
      PROVE  EngineInv'
  BY <1>g, Zenon DEF EngineInv, Released
<1>1. ASSUME NEW w \in Workers, Register(w) \/ RegisterLost(w) PROVE EngineInv'
  BY <1>1, <1>t, Zenon
  DEF EngineInv, Released, Register, handleRegister, Goto, RegisterLost, workerVars
<1>2. ASSUME NEW w \in Workers, GetJob(w) \/ JobLost(w) \/ EngineFails(w)
      PROVE  EngineInv'
  <2>1. /\ UNCHANGED <<progress, share, wid, order, name>> /\ Released
        /\ \A v \in Workers : v # w => engine'[v] = engine[v] /\ wpc'[v] = wpc[v]
    BY <1>2, <1>t, Zenon DEF GetJob, JobLost, EngineFails, handleJob, Goto
  <2>2. \/ wpc'[w] = "run"
        \/ engine' = engine /\ wpc[w] = "poll"
    BY <1>2, <1>t, Zenon DEF GetJob, JobLost, EngineFails, Goto
  <2>3. engine'[w] = "on" => wpc'[w] \in {"run", "tick"}
    BY <2>2, Zenon DEF EngineInv
  <2> QED
    BY <1>g, <2>1, <2>3, Zenon
<1>3. ASSUME NEW w \in Workers, PollFails(w) \/ Crash(w) PROVE EngineInv'
  <2>1. /\ UNCHANGED <<progress, share, wid, order, name>>
        /\ \A v \in Workers : v # w => engine'[v] = engine[v] /\ wpc'[v] = wpc[v]
    BY <1>3, <1>t, Zenon DEF PollFails, coordVars, Goto, Crash
  <2>2. engine'[w] # "off" => engine' = engine /\ wpc[w] = "poll"
    BY <1>3, <1>t, Zenon DEF PollFails, Crash
  <2>3. engine'[w] # "on" /\ (engine'[w] # "off" => Released)
    BY <2>2, Zenon DEF EngineInv
  <2> QED
    BY <1>g, <2>1, <2>3, Zenon
<1>4. ASSUME NEW w \in Workers, Work(w) PROVE EngineInv'
  BY <1>4, <1>t, Zenon DEF EngineInv, IdInv, Released, Work, coordVars
<1>5. ASSUME NEW w \in Workers, EngineDone(w) \/ Interrupt(w) PROVE EngineInv'
  BY <1>5, <1>t, Zenon DEF EngineInv, Released, EngineDone, coordVars, Interrupt
<1>6. ASSUME NEW w \in Workers, SendTick(w) \/ SendFinal(w) PROVE EngineInv'
  BY <1>6, <1>t, Zenon
  DEF EngineInv, Released, SendTick, coordVars, Goto, SendFinal
<1>7. ASSUME NEW w \in Workers, Timeout(w) \/ TimeoutEarly(w) PROVE EngineInv'
  BY <1>7, <1>t, Zenon
  DEF EngineInv, Released, Timeout, coordVars, GiveUp, Goto, Again, TimeoutEarly
<1>8. ASSUME NEW m \in msgs, Deliver(m) PROVE EngineInv'
  BY <1>8, <1>t, Zenon
  DEF EngineInv, Released, Deliver, handleReport, Goto, Again, Awaits
<1>9. ASSUME NEW m \in msgs, DeliverUnanswered(m) \/ Drop(m) PROVE EngineInv'
  BY <1>9, <1>f, Zenon
  DEF DeliverUnanswered, handleReport, workerVars, Drop, coordVars
<1>10. ASSUME NEW i \in Ids, LiveLost(i) PROVE EngineInv'
  BY <1>10, <1>f, Zenon DEF LiveLost, markLost, workerVars
<1>11. CASE Release
  BY <1>11, <1>t, ShareIsNat, CoordinatorAssumption, SMTT(30)
  DEF EngineInv, Released, Release, workerVars, CoordinatorAssumption
<1>12. CASE SilentLost \/ Deadline \/ Cancel \/ RunReturns \/ Finish
        \/ UNCHANGED vars
  BY <1>12, <1>f, Zenon
  DEF SilentLost, markLost, workerVars, Deadline, Return, Cancel, RunReturns,
      Finish, vars, coordVars
<1> QED
  BY <1>1, <1>2, <1>3, <1>4, <1>5, <1>6, <1>7, <1>8, <1>9, <1>10, <1>11, <1>12,
     Zenon DEF Next, Rest


LEMMA FinalNext ==
  ASSUME TypeOK, IdInv, MsgInv, EngineInv, FinalInv, [Next]_vars
  PROVE  FinalInv'
<1>t. /\ order \in Nat /\ DOMAIN wpc = Workers /\ DOMAIN progress = Workers
      /\ sent \in [Workers -> Nat] /\ \A m \in msgs : m.w \in Workers
  BY CoordinatorAssumption DEF CoordinatorAssumption, TypeOK, Ids, Reports
<1>f. ASSUME UNCHANGED <<sent, share, wpc, msgs, progress>>
      PROVE  FinalInv'
  BY <1>f, Zenon DEF FinalInv, Released
<1>1. ASSUME NEW w \in Workers, Register(w) \/ RegisterLost(w) PROVE FinalInv'
  BY <1>1, <1>t, Zenon
  DEF FinalInv, Released, Register, handleRegister, Goto, RegisterLost, workerVars
<1>2. ASSUME NEW w \in Workers, GetJob(w) \/ JobLost(w) \/ EngineFails(w)
      PROVE  FinalInv'
  BY <1>2, <1>t, SMTT(30)
  DEF FinalInv, Released, Report, GetJob, handleJob, Goto, JobLost, Again,
      EngineFails
<1>3. ASSUME NEW w \in Workers, PollFails(w) \/ Crash(w) PROVE FinalInv'
  BY <1>3, <1>t, Zenon
  DEF FinalInv, Released, PollFails, coordVars, Goto, Again, Crash
<1>4. ASSUME NEW w \in Workers, Work(w) PROVE FinalInv'
  BY <1>4, <1>t, Zenon DEF FinalInv, EngineInv, Released, Work, coordVars
<1>5. ASSUME NEW w \in Workers, EngineDone(w) \/ Interrupt(w) PROVE FinalInv'
  BY <1>5, <1>f, Zenon DEF EngineDone, coordVars, Interrupt
<1>6. ASSUME NEW w \in Workers, SendTick(w) \/ SendFinal(w) PROVE FinalInv'
  BY <1>6, <1>t, SMTT(30)
  DEF FinalInv, IdInv, Released, Report, SendTick, coordVars, Goto, SendFinal
<1>7. ASSUME NEW w \in Workers, Timeout(w) \/ TimeoutEarly(w) PROVE FinalInv'
  BY <1>7, <1>t, SMTT(30)
  DEF FinalInv, IdInv, Released, Report, Timeout, coordVars, GiveUp, Goto, Again,
      TimeoutEarly
<1>8. ASSUME NEW m \in msgs, Deliver(m) PROVE FinalInv'
  BY <1>8, <1>t, Zenon
  DEF FinalInv, Released, Deliver, handleReport, Goto, Again, Awaits
<1>9. ASSUME NEW m \in msgs, DeliverUnanswered(m) \/ Drop(m) PROVE FinalInv'
  BY <1>9, <1>t, Zenon
  DEF FinalInv, Released, DeliverUnanswered, handleReport, workerVars, Drop,
      coordVars
<1>10. ASSUME NEW i \in Ids, LiveLost(i) PROVE FinalInv'
  BY <1>10, <1>f, Zenon DEF LiveLost, markLost, workerVars
<1>11. CASE Release
  BY <1>11, <1>t, ShareIsNat, CoordinatorAssumption, SMTT(30)
  DEF FinalInv, Released, Release, workerVars, CoordinatorAssumption
<1>12. CASE SilentLost \/ Deadline \/ Cancel \/ RunReturns \/ Finish
        \/ UNCHANGED vars
  BY <1>12, <1>f, Zenon
  DEF SilentLost, markLost, workerVars, Deadline, Return, Cancel, RunReturns,
      Finish, vars, coordVars
<1> QED
  BY <1>1, <1>2, <1>3, <1>4, <1>5, <1>6, <1>7, <1>8, <1>9, <1>10, <1>11, <1>12,
     Zenon DEF Next, Rest


\* A step that sends no tick and lets the senders of ticks wait, or die.
LEMMA TickFrame ==
  ASSUME TypeOK, TickInv, overtaken' = overtaken,
         \A m \in msgs' : m.kind = "tick" =>
           /\ m \in msgs /\ sent'[m.w] = sent[m.w]
           /\ wpc'[m.w] = wpc[m.w] \/ wpc'[m.w] = "dead"
  PROVE  TickInv'
<1> SUFFICES ASSUME ~overtaken PROVE TickInv'
  BY Zenon DEF TickInv
<1>1. \A m \in msgs : m.kind = "tick" =>
        /\ wpc[m.w] \in {"tick", "dead"} /\ sent[m.w] = 0
        /\ \A n \in msgs : n.kind = "tick" /\ n.w = m.w => n = m
  BY Zenon DEF TickInv
<1>2. \A m \in msgs' : m.kind = "tick" =>
        /\ wpc'[m.w] \in {"tick", "dead"} /\ sent'[m.w] = 0
        /\ \A n \in msgs' : n.kind = "tick" /\ n.w = m.w => n = m
  BY <1>1, Zenon
<1> QED
  BY <1>2, Zenon DEF TickInv

LEMMA TickNext ==
  ASSUME TypeOK, MsgInv, FinalInv, TickInv, [Next]_vars
  PROVE  TickInv'
<1>t. /\ DOMAIN wpc = Workers /\ sent \in [Workers -> Nat] /\ \A m \in msgs : m.w \in Workers
  BY CoordinatorAssumption DEF CoordinatorAssumption, TypeOK, Ids, Reports
<1>f. ASSUME UNCHANGED <<overtaken, msgs, wpc, sent>>
      PROVE  TickInv'
  BY <1>f, Zenon DEF TickInv
<1>1. ASSUME NEW w \in Workers, Register(w) \/ RegisterLost(w) PROVE TickInv'
  BY <1>1, <1>t, SMTT(30)
  DEF TickInv, Register, handleRegister, Goto, RegisterLost, workerVars
<1>2. ASSUME NEW w \in Workers, GetJob(w) \/ JobLost(w) \/ EngineFails(w) \/ PollFails(w)
        \/ Crash(w) PROVE TickInv'
  <2>1. /\ overtaken' = overtaken /\ sent' = sent
        /\ \A v \in Workers : wpc'[v] \in {wpc[v], "dead"} \/ wpc[v] = "poll"
    BY <1>2, <1>t, Zenon DEF GetJob, JobLost, EngineFails, PollFails, Crash, Goto
  <2>2. \A m \in msgs' : m.kind = "tick" => m \in msgs
    BY <1>2, SMTT(30) DEF GetJob, JobLost, EngineFails, PollFails, Crash, Report
  <2>3. \A m \in msgs : wpc[m.w] # "poll"
    BY Zenon DEF MsgInv
  <2> QED
    BY <1>t, <2>1, <2>2, <2>3, TickFrame, Zenon
<1>3. ASSUME NEW w \in Workers, Work(w) \/ EngineDone(w) \/ Interrupt(w)
      PROVE  TickInv'
  BY <1>3, <1>f, Zenon DEF Work, coordVars, EngineDone, Interrupt
<1>4. ASSUME NEW w \in Workers, SendTick(w) PROVE TickInv'
  BY <1>4, <1>t, SMTT(30) DEF TickInv, FinalInv, Report, SendTick, coordVars, Goto
<1>5. ASSUME NEW w \in Workers, SendFinal(w) PROVE TickInv'
  BY <1>5, <1>t, SMTT(30) DEF TickInv, Report, SendFinal, coordVars, Goto
<1>6. ASSUME NEW w \in Workers, Timeout(w) \/ TimeoutEarly(w) PROVE TickInv'
  <2> SUFFICES ASSUME ~overtaken' PROVE TickInv'
    BY Zenon DEF TickInv
  <2>1. /\ GiveUp(w) /\ overtaken' = overtaken
        /\ ~\E m \in msgs : m.w = w /\ Awaits(m)
    BY <1>6, Zenon DEF Timeout, TimeoutEarly
  <2>2. /\ \A v \in Workers \ {w} : wpc'[v] = wpc[v] /\ sent'[v] = sent[v]
        /\ wpc[w] \in {"tick", "final"}
        /\ msgs' = msgs \/ msgs' = msgs \cup {Report(w, "final", sent[w] + 1)}
    BY <2>1, GiveUpEffect, Zenon
  <2>3. \A m \in msgs : m.w \in Workers /\ (m.kind = "tick" => m.w # w)
    <3> SUFFICES ASSUME NEW m \in msgs, m.kind = "tick", m.w = w PROVE FALSE
      BY <1>t, Zenon
    <3>1. wpc[w] # "tick"
      BY <2>1, Zenon DEF Awaits
    <3>2. sent[w] > 0 /\ sent[w] \in Nat
      BY <1>t, <2>2, <3>1, Zenon DEF FinalInv
    <3>3. sent[w] = 0
      BY <2>1, Zenon DEF TickInv
    <3> QED
      BY <3>2, <3>3
  <2>4. \A m \in msgs' : m.kind = "tick" => m \in msgs
    BY <2>2, SMTT(30) DEF Report
  <2> QED
    BY <2>1, <2>2, <2>3, <2>4, TickFrame, Zenon
<1>7. ASSUME NEW m \in msgs, Deliver(m) PROVE TickInv'
  BY <1>7, <1>t, Zenon DEF TickInv, Deliver, handleReport, Goto, Again, Awaits
<1>8. ASSUME NEW m \in msgs, DeliverUnanswered(m) \/ Drop(m) PROVE TickInv'
  BY <1>8, <1>t, Zenon
  DEF TickInv, DeliverUnanswered, handleReport, workerVars, Drop, coordVars
<1>9. ASSUME NEW i \in Ids, LiveLost(i) PROVE TickInv'
  BY <1>9, <1>f, Zenon DEF LiveLost, markLost, workerVars
<1>10. CASE SilentLost \/ Release \/ Deadline \/ Cancel \/ RunReturns
        \/ Finish \/ UNCHANGED vars
  BY <1>10, <1>f, Zenon
  DEF SilentLost, markLost, workerVars, Release, Deadline, Return, Cancel,
      RunReturns, Finish, vars, coordVars
<1> QED
  BY <1>1, <1>2, <1>3, <1>4, <1>5, <1>6, <1>7, <1>8, <1>9, <1>10,
     Zenon DEF Next, Rest


LEMMA ExactNext ==
  ASSUME TypeOK, IdInv, MsgInv, SnapInv, EngineInv, FinalInv, TickInv, ExactInv,
         [Next]_vars
  PROVE  ExactInv'
<1>t. /\ order \in 0..MaxIds /\ MaxIds \in Nat /\ Ids = 1..MaxIds /\ DOMAIN name = Ids
      /\ DOMAIN state = Ids /\ DOMAIN snap = Ids
      /\ sent \in [Workers -> Nat] /\ progress \in [Workers -> Nat]
      /\ None \notin Nat /\ overtaken \in BOOLEAN
  BY CoordinatorAssumption DEF CoordinatorAssumption, TypeOK, Ids
<1>m. \A m \in msgs : /\ m.id \in Ids /\ m.w \in Workers
                      /\ m.kind \in {"tick", "final", "error"}
  BY Zenon DEF TypeOK, Reports
<1>s. \A i \in Ids : snap[i] # None => name[i] \in Workers
  BY Zenon DEF SnapInv
<1>f. ASSUME /\ UNCHANGED <<snap, order, sent, name, overtaken, progress>>
             /\ \A i \in Ids : state'[i] \in {state[i], "running", "lost"}
      PROVE  ExactInv'
  BY <1>f, <1>t, <1>s, Zenon DEF ExactInv
<1>1. ASSUME NEW w \in Workers, Register(w) \/ RegisterLost(w) PROVE ExactInv'
  <2>1. /\ UNCHANGED <<snap, sent, overtaken, progress>> /\ order' = order + 1
        /\ name' = [name EXCEPT ![order'] = w] /\ state' = [state EXCEPT ![order'] = "ready"]
    BY <1>1, Zenon DEF Register, RegisterLost, handleRegister, workerVars
  <2> QED
    BY <1>t, <1>s, <2>1, SMTT(30) DEF ExactInv
<1>2. ASSUME NEW w \in Workers, GetJob(w) \/ JobLost(w) \/ EngineFails(w)
      PROVE  ExactInv'
  <2>1. \A j \in Ids : state'[j] \in {state[j], "running", "lost"}
    BY <1>2, <1>t, Zenon DEF GetJob, JobLost, EngineFails, handleJob
  <2> QED
    BY <1>2, <1>f, <2>1, Zenon DEF GetJob, JobLost, EngineFails, handleJob
<1>3. ASSUME NEW w \in Workers, PollFails(w) \/ Crash(w) \/ EngineDone(w) \/ Interrupt(w)
        \/ SendTick(w) PROVE ExactInv'
  BY <1>3, <1>f, Zenon
  DEF PollFails, coordVars, Crash, EngineDone, Interrupt, SendTick
<1>4. ASSUME NEW w \in Workers, Work(w) PROVE ExactInv'
  <2>1. /\ UNCHANGED <<snap, order, state, sent, name, overtaken>>
        /\ \A v \in Workers \ {w} : progress'[v] = progress[v]
    BY <1>4, <1>t, Zenon DEF Work, coordVars
  <2>2. ~(sent[w] > 0)
    BY <1>4, Zenon DEF Work, EngineInv, FinalInv
  <2> QED
    BY <1>t, <1>s, <2>1, <2>2, Zenon DEF ExactInv
<1>h. ASSUME UNCHANGED <<snap, order, state, name, progress>>, ~overtaken' => ~overtaken,
             \A v \in Workers : sent[v] > 0 => sent'[v] > 0
      PROVE  ExactInv'
  <2> SUFFICES ASSUME NEW i \in Ids
               PROVE  /\ snap[i] # None => i <= order
                      /\ state[i] = "done" =>
                           /\ snap[i] # None /\ sent'[name[i]] > 0
                           /\ ~overtaken' => snap[i] = progress[name[i]]
    BY <1>h, Zenon DEF ExactInv
  <2> QED
    BY <1>h, <1>s, Zenon DEF ExactInv
<1>5. ASSUME NEW w \in Workers, SendFinal(w) PROVE ExactInv'
  <2>1. UNCHANGED <<snap, order, state, name, overtaken, progress>>
    BY <1>5, Zenon DEF SendFinal, coordVars
  <2>2. \A v \in Workers : sent[v] > 0 => sent'[v] > 0
    BY <1>5, <1>t DEF SendFinal
  <2> QED
    BY <1>h, <2>1, <2>2, Zenon
<1>6. ASSUME NEW w \in Workers, Timeout(w) \/ TimeoutEarly(w) PROVE ExactInv'
  <2>1. UNCHANGED <<snap, order, state, name, progress>> /\ GiveUp(w)
    BY <1>6, Zenon DEF Timeout, TimeoutEarly, coordVars
  <2>2. ~overtaken' => ~overtaken
    BY <1>6, Zenon DEF Timeout, TimeoutEarly
  <2>3. \A v \in Workers : sent[v] > 0 => sent'[v] > 0
    BY <1>t, <2>1, GiveUpEffect
  <2> QED
    BY <1>h, <2>1, <2>2, <2>3, Zenon
<1>7. ASSUME NEW m \in msgs, Deliver(m) \/ DeliverUnanswered(m) PROVE ExactInv'
  <2>1. handleReport(m) /\ UNCHANGED <<sent, overtaken, progress>>
    BY <1>7, Zenon DEF Deliver, DeliverUnanswered, workerVars
  <2>2. /\ UNCHANGED <<order, name>>
        /\ \A i \in Ids \ {m.id} : state'[i] = state[i] /\ snap'[i] = snap[i]
        /\ snap'[m.id] = IF m.snap = None THEN snap[m.id] ELSE m.snap
        /\ state'[m.id] = IF m.kind = "error" THEN "failed"
                          ELSE IF m.kind = "final" THEN "done" ELSE state[m.id]
    BY <1>t, <1>m, <2>1, Zenon DEF handleReport
  <2>3. /\ m.id <= order /\ name[m.id] = m.w
        /\ m.kind = "final" => sent[m.w] > 0 /\ m.snap = progress[m.w] /\ m.snap # None
        /\ m.kind = "tick" /\ ~overtaken => sent[m.w] = 0
    BY <1>t, <1>m DEF MsgInv, FinalInv, TickInv
  <2> QED
    BY <1>t, <1>m, <1>s, <2>1, <2>2, <2>3, SMTT(30) DEF ExactInv
<1>8. ASSUME NEW m \in msgs, Drop(m) PROVE ExactInv'
  BY <1>8, <1>f, Zenon DEF Drop, coordVars, workerVars
<1>9. ASSUME NEW i \in Ids, LiveLost(i) PROVE ExactInv'
  <2>1. \A j \in Ids : state'[j] \in {state[j], "running", "lost"}
    BY <1>9, Zenon DEF LiveLost, markLost
  <2> QED
    BY <1>9, <1>f, <2>1, Zenon DEF LiveLost, markLost, workerVars
<1>10. CASE SilentLost
  <2>1. \A j \in Ids : state'[j] \in {state[j], "running", "lost"}
    BY <1>10, Zenon DEF SilentLost, markLost
  <2> QED
    BY <1>10, <1>f, <2>1, Zenon DEF SilentLost, markLost, workerVars
<1>11. CASE Deadline
  <2>1. \A j \in Ids : state'[j] \in {state[j], "running", "lost"}
    BY <1>11, Zenon DEF Deadline
  <2> QED
    BY <1>11, <1>f, <2>1, Zenon DEF Deadline, Return, workerVars
<1>12. CASE Release \/ Cancel \/ RunReturns \/ Finish \/ UNCHANGED vars
  BY <1>12, <1>f, Zenon
  DEF Release, workerVars, Cancel, Return, RunReturns, Finish, vars, coordVars
<1> QED
  BY <1>1, <1>2, <1>3, <1>4, <1>5, <1>6, <1>7, <1>8, <1>9, <1>10, <1>11, <1>12,
     Zenon DEF Next, Rest


LEMMA ShareNext ==
  ASSUME TypeOK, IdInv, EngineInv, FinalInv, ShareInv, [Next]_vars
  PROVE  ShareInv'
<1>t. /\ order \in Nat /\ faults \in Nat /\ sent \in [Workers -> Nat]
      /\ DOMAIN engine = Workers /\ DOMAIN progress = Workers /\ overtaken \in BOOLEAN /\ duration \in BOOLEAN
  BY CoordinatorAssumption DEF CoordinatorAssumption, TypeOK, Ids
<1>f. ASSUME /\ UNCHANGED <<share, order, overtaken, sent, engine, duration, progress>>
             /\ faults' \in {faults, faults + 1}
      PROVE  ShareInv'
  BY <1>f, <1>t DEF ShareInv, Released
<1>1. ASSUME NEW w \in Workers, Register(w) \/ RegisterLost(w) PROVE ShareInv'
  BY <1>1, <1>t, SMTT(30)
  DEF ShareInv, Released, Register, handleRegister, Goto, RegisterLost, workerVars,
      Fault
<1>2. ASSUME NEW w \in Workers, GetJob(w) PROVE ShareInv'
  BY <1>2, <1>t, Zenon DEF ShareInv, FinalInv, Released, GetJob, handleJob, Goto
<1>3. ASSUME NEW w \in Workers, Crash(w) PROVE ShareInv'
  BY <1>3, <1>t, SMTT(30) DEF ShareInv, Released, Crash, coordVars, Goto, Fault
<1>4. ASSUME NEW w \in Workers, JobLost(w) \/ EngineFails(w) \/ PollFails(w) \/ SendTick(w)
      PROVE  ShareInv'
  BY <1>4, <1>f, Zenon
  DEF JobLost, handleJob, Fault, EngineFails, PollFails, coordVars, SendTick
<1>5. ASSUME NEW w \in Workers, Work(w) PROVE ShareInv'
  BY <1>5, <1>t, Zenon DEF ShareInv, Released, Work, coordVars
<1>6. ASSUME NEW w \in Workers, EngineDone(w) PROVE ShareInv'
  BY <1>6, <1>t, Zenon DEF ShareInv, Released, EngineDone, coordVars
<1>7. ASSUME NEW w \in Workers, Interrupt(w) PROVE ShareInv'
  BY <1>7, <1>t, SMTT(30) DEF ShareInv, Released, Interrupt, coordVars, Fault
<1>8. ASSUME NEW w \in Workers, SendFinal(w) PROVE ShareInv'
  BY <1>8, <1>t, Zenon
  DEF ShareInv, FinalInv, EngineInv, Released, SendFinal, coordVars, Goto
<1>9. ASSUME NEW w \in Workers, Timeout(w) PROVE ShareInv'
  BY <1>9, <1>t, Zenon
  DEF ShareInv, FinalInv, Released, Timeout, coordVars, GiveUp, Goto, Again
<1>10. ASSUME NEW w \in Workers, TimeoutEarly(w) PROVE ShareInv'
  BY <1>10, <1>t, SMTT(30)
  DEF ShareInv, FinalInv, Released, TimeoutEarly, coordVars, GiveUp, Goto, Again,
      Fault
<1>11. ASSUME NEW m \in msgs, Deliver(m) \/ DeliverUnanswered(m) \/ Drop(m)
      PROVE  ShareInv'
  BY <1>11, <1>f, Zenon
  DEF Deliver, handleReport, DeliverUnanswered, workerVars, Fault, Drop, coordVars
<1>12. ASSUME NEW i \in Ids, LiveLost(i) PROVE ShareInv'
  BY <1>12, <1>f, Zenon DEF LiveLost, markLost, workerVars, Fault
<1>13. CASE Release
  BY <1>13, <1>t, ShareIsNat, CoordinatorAssumption, SMTT(30)
  DEF ShareInv, EngineInv, FinalInv, Released, Release, workerVars,
      CoordinatorAssumption
<1>14. CASE SilentLost \/ Deadline \/ Cancel \/ RunReturns \/ Finish
        \/ UNCHANGED vars
  BY <1>14, <1>f, Zenon
  DEF SilentLost, markLost, workerVars, Deadline, Return, Cancel, RunReturns,
      Finish, vars, coordVars
<1> QED
  BY <1>1, <1>2, <1>3, <1>4, <1>5, <1>6, <1>7, <1>8, <1>9, <1>10, <1>11, <1>12,
     <1>13, <1>14, Zenon DEF Next, Rest

-----------------------------------------------------------------------------
(* The theorems.                                                           *)

LEMMA CoordInit == Init => CoordInv
<1> SUFFICES ASSUME Init PROVE CoordInv
  OBVIOUS
<1>1. MsgInv /\ SnapInv /\ RunInv /\ PollInv /\ FreshInv
  BY Zenon DEF Init, MsgInv, SnapInv, RunInv, PollInv, FreshInv
<1>2. DoneInv
  BY Zenon DEF Init, DoneInv, DoneMeansFinished
<1> QED
  BY <1>1, <1>2, TypeInit, Zenon DEF CoordInv

LEMMA CoordNext == CoordInv /\ [Next]_vars => CoordInv'
  BY TypeNext, IdNext, MsgNext, SnapNext, PollNext, StepIsCoordStep, RunNext,
     FreshNext, DoneNext, Zenon
  DEF CoordInv

LEMMA CoordAlways == Spec => []CoordInv
  BY CoordInit, CoordNext, PTL DEF Spec

\* Every variable of the coordinator, the workers and the network keeps its
\* type: in particular the final report is sent at most FinalAttempts times.
THEOREM TypeCorrect == Spec => []TypeOK
<1>1. CoordInv => TypeOK
  BY Zenon DEF CoordInv
<1> QED
  BY <1>1, CoordAlways, PTL

\* For any number of workers, ids and faults, no request is counted twice and
\* none is invented, however often handleReport sees a report.
THEOREM CountedAtMostOnce == Spec => []NoDoubleCounting
<1>1. CoordInv => NoDoubleCounting
  BY Zenon DEF CoordInv, SnapInv, NoDoubleCounting
<1> QED
  BY <1>1, CoordAlways, PTL

\* For every instance, a run that ends by itself has all its workers finished,
\* failed or lost.
THEOREM DoneIsFinished == Spec => []DoneMeansFinished
<1>1. CoordInv => DoneMeansFinished
  BY Zenon DEF CoordInv, DoneInv
<1> QED
  BY <1>1, CoordAlways, PTL

\* For every instance, no late report or job request of a running run takes a
\* worker out of the finished states.
THEOREM FinishedForGood == Spec => FinishedStays
<1>1. CoordInv /\ [Next]_vars => [StaysStep]_vars
  BY StepIsCoordStep, StaysNext, Zenon DEF CoordInv
<1>2. Spec => [][StaysStep]_vars
  BY <1>1, CoordAlways, PTL DEF Spec
<1> QED
  BY <1>2, PTL DEF FinishedStays, StaysStep
-----------------------------------------------------------------------------
(* The totals of the summary: the ids of a run that is done have the counts *)
(* of distinct workers, and nobody else made a request.                    *)

LEMMA SumInit == Init => SumInv
<1> SUFFICES ASSUME Init PROVE SumInv
  OBVIOUS
<1> USE CoordinatorAssumption DEF CoordinatorAssumption, Init, Released
<1>1. EngineInv /\ FinalInv
  BY DEF EngineInv, FinalInv
<1>2. TickInv
  BY Zenon DEF TickInv
<1>3. ExactInv
  BY Zenon DEF ExactInv
<1>4. ShareInv
  BY DEF ShareInv
<1> QED
  BY <1>1, <1>2, <1>3, <1>4, Zenon DEF SumInv

LEMMA SumAlways == Spec => [](CoordInv /\ SumInv)
<1>1. Init => CoordInv /\ SumInv
  BY CoordInit, SumInit, Zenon
<1>2. ASSUME CoordInv, SumInv, [Next]_vars PROVE CoordInv' /\ SumInv'
  <2>1. TypeOK /\ IdInv /\ MsgInv /\ SnapInv
    BY <1>2, Zenon DEF CoordInv
  <2>2. EngineInv /\ FinalInv /\ TickInv /\ ExactInv /\ ShareInv
    BY <1>2, Zenon DEF SumInv
  <2>3. EngineInv' /\ FinalInv'
    BY <1>2, <2>1, <2>2, EngineNext, FinalNext, Zenon
  <2>4. TickInv' /\ ExactInv'
    BY <1>2, <2>1, <2>2, TickNext, ExactNext, Zenon
  <2>5. ShareInv'
    BY <1>2, <2>1, <2>2, ShareNext, Zenon
  <2> QED
    BY <1>2, <2>3, <2>4, <2>5, CoordNext, Zenon DEF SumInv
<1> QED
  BY <1>1, <1>2, PTL DEF Spec

\* The parts of the budget together: enough, and less than one per worker more.
LEMMA ShareBounds ==
  ASSUME NEW n \in Nat \ {0}
  PROVE  Budget <= n * Share(n) /\ n * Share(n) < Budget + n
BY CoordinatorAssumption, SMTT(30) DEF CoordinatorAssumption, Share

\* Cardinality spelled out: that of the model and that of FiniteSetTheorems are
\* both this one.
Size(S) ==
  (CHOOSE h : h = [T \in SUBSET S |->
                     IF T = {} THEN 0 ELSE 1 + h[T \ {CHOOSE x : x \in T}]])[S]

LEMMA TotalsAreSizes == Snapshot = Size(Counted) /\ Made = Size(Requests)
BY Zenon DEF Snapshot, Made, Cardinality, Size

\* Instantiated here, not extended: nothing above needs it.
LOCAL INSTANCE FiniteSetTheorems

LEMMA SizeIsCardinality == ASSUME NEW S PROVE Size(S) = Cardinality(S)
BY Zenon DEF Size, Cardinality

LEMMA IntervalFinite ==
  ASSUME NEW n \in Nat
  PROVE  IsFiniteSet(1..n) /\ Cardinality(1..n) = n
<1>1. /\ IsFiniteSet(1..n)
      /\ Cardinality(1..n) = IF 1 > n THEN 0 ELSE n - 1 + 1
  BY FS_Interval, 1 \in Int, n \in Int, Zenon
<1> QED
  BY <1>1

\* There are finitely many ids, and what each counts is finite.
LEMMA CountedFinite ==
  ASSUME TypeOK
  PROVE  IsFiniteSet(Counted)
<1> DEFINE J == {j \in Ids : snap[j] # None}
           Of(i) == {i} \X (1..snap[i])
           S == {Of(i) : i \in J}
           f == [i \in J |-> Of(i)]
<1>1. IsFiniteSet(J)
  <2>1. IsFiniteSet(Ids)
    BY CoordinatorAssumption, IntervalFinite, Zenon DEF CoordinatorAssumption, Ids
  <2> QED
    BY <2>1, FS_Subset, Zenon
<1>2. IsFiniteSet(S)
  <2>1. f \in Surjection(J, S)
    BY Zenon DEF Surjection
  <2> HIDE DEF f, J, S
  <2> QED
    BY <1>1, <2>1, FS_Surjection, Zenon
<1>3. ASSUME NEW i \in J PROVE IsFiniteSet(Of(i))
  <2>1. snap[i] \in Nat
    BY Zenon DEF TypeOK
  <2> QED
    BY <2>1, IntervalFinite, FS_Singleton, FS_Product, Zenon
<1>4. \A T \in S : IsFiniteSet(T)
  BY <1>3, Zenon
<1>5. Counted = UNION S
  BY Zenon DEF Counted
<1> HIDE DEF S
<1> QED
  BY <1>2, <1>4, <1>5, FS_UNION, Zenon

\* If every id is done and no report was overtaken, the ids stand for distinct
\* workers, with all their requests, and the other workers made none: what is
\* counted and what was made are the same requests, under ids and under workers.
LEMMA SnapshotExact ==
  ASSUME TypeOK, SnapInv, EngineInv, ExactInv,
         \A i \in 1..order : state[i] = "done", ~overtaken
  PROVE  Snapshot = Made
<1> DEFINE f == [c \in Counted |-> <<name[c[1]], c[2]>>]
<1>1. order \in Nat /\ 1..order \subseteq Ids
  BY CoordinatorAssumption, SMTT(30) DEF CoordinatorAssumption, TypeOK, Ids
<1>2. \A i \in 1..order :
        /\ name[i] \in Workers /\ wid[name[i]] = i
        /\ snap[i] # None /\ snap[i] = progress[name[i]]
  BY <1>1, Zenon DEF ExactInv, SnapInv
<1>3. ASSUME NEW c \in Counted
      PROVE  c = <<c[1], c[2]>> /\ c[1] \in 1..order /\ c[2] \in 1..snap[c[1]]
  <2>1. PICK i \in Ids : snap[i] # None /\ c \in {i} \X (1..snap[i])
    BY Zenon DEF Counted
  <2>2. i \in 1..order
    BY <1>1, <2>1 DEF ExactInv, Ids
  <2> QED
    BY <2>1, <2>2
<1>4. f \in [Counted -> Requests]
  <2> SUFFICES ASSUME NEW c \in Counted PROVE <<name[c[1]], c[2]>> \in Requests
    OBVIOUS
  <2> QED
    BY <1>2, <1>3 DEF Requests
<1>5. ASSUME NEW c \in Counted, NEW d \in Counted, f[c] = f[d] PROVE c = d
  <2>1. name[c[1]] = name[d[1]] /\ c[2] = d[2]
    BY <1>5, Zenon
  <2>2. c[1] = d[1]
    BY <1>2, <1>3, <2>1
  <2> QED
    BY <1>3, <2>1, <2>2, Zenon
<1>6. ASSUME NEW q \in Requests PROVE \E c \in Counted : f[c] = q
  <2>1. PICK w \in Workers : q \in {w} \X (1..progress[w])
    BY Zenon DEF Requests
  <2>2. PICK k \in 1..progress[w] : q = <<w, k>>
    BY <2>1
  <2>3. wid[w] \in 1..order /\ name[wid[w]] = w
    BY <2>2 DEF EngineInv, TypeOK
  <2>4. <<wid[w], k>> \in Counted
    BY <1>1, <1>2, <2>2, <2>3 DEF Counted
  <2>5. f[<<wid[w], k>>] = q
    BY <2>2, <2>3, <2>4, Zenon
  <2> QED
    BY <2>4, <2>5, Zenon
<1>7. f \in Bijection(Counted, Requests)
  <2> HIDE DEF f
  <2>1. f \in Injection(Counted, Requests)
    BY <1>4, <1>5, Zenon DEF Injection, IsInjective
  <2>2. f \in Surjection(Counted, Requests)
    BY <1>4, <1>6, Zenon DEF Surjection
  <2> QED
    BY <2>1, <2>2, Zenon DEF Bijection
<1>8. Cardinality(Requests) = Cardinality(Counted)
  <2> HIDE DEF f
  <2> QED
    BY <1>7, CountedFinite, FS_Bijection, Zenon DEF ExistsBijection
<1> QED
  BY <1>8, TotalsAreSizes, SizeIsCardinality, Zenon

\* If nothing goes wrong and the budget alone ends the run, each of them made
\* its share.
LEMMA SnapshotOfShares ==
  ASSUME TypeOK, SnapInv, FinalInv, ExactInv, ShareInv, Released,
         \A i \in 1..order : state[i] = "done", faults = 0, ~duration
  PROVE  order \in Nat \ {0} /\ Snapshot = order * Share(order)
<1>1. order \in Nat \ {0} /\ 1..order \subseteq Ids /\ share = Share(order) /\ ~overtaken
  BY CoordinatorAssumption DEF CoordinatorAssumption, TypeOK, Ids, ShareInv
<1>2. Share(order) \in Nat
  BY <1>1, ShareIsNat, Zenon
<1>3. ASSUME NEW i \in 1..order PROVE snap[i] # None /\ snap[i] = Share(order)
  <2>1. snap[i] # None /\ snap[i] = progress[name[i]] /\ sent[name[i]] > 0
    BY <1>1, Zenon DEF ExactInv
  <2>2. name[i] \in Workers
    BY <1>1, <2>1, Zenon DEF SnapInv
  <2>3. progress[name[i]] = share
    <3>1. engine[name[i]] = "done"
      BY <2>1, <2>2, Zenon DEF ShareInv
    <3> QED
      BY <2>2, <3>1, Zenon DEF ShareInv
  <2> QED
    BY <1>1, <2>1, <2>3, Zenon
<1>4. {j \in Ids : snap[j] # None} = 1..order
  BY <1>1, <1>3 DEF ExactInv, Ids
<1>5. Counted = (1..order) \X (1..Share(order))
  BY <1>3, <1>4 DEF Counted
<1>6. /\ IsFiniteSet(1..order) /\ Cardinality(1..order) = order
      /\ IsFiniteSet(1..Share(order)) /\ Cardinality(1..Share(order)) = Share(order)
  BY <1>1, <1>2, IntervalFinite, Zenon
<1>7. Cardinality((1..order) \X (1..Share(order))) = order * Share(order)
  <2>1. Cardinality((1..order) \X (1..Share(order)))
          = Cardinality(1..order) * Cardinality(1..Share(order))
    BY <1>6, FS_Product, Zenon
  <2> QED
    BY <1>6, <2>1, Zenon
<1> QED
  BY <1>1, <1>5, <1>7, TotalsAreSizes, SizeIsCardinality, Zenon

\* For any number of workers, registrations and faults: when every worker
\* delivered its final report and none of its reports was overtaken, the
\* summary of cmdCoordinator counts exactly the requests made.
THEOREM TotalsExact == Spec => []ExactWithoutOvertaking
<1>1. CoordInv /\ SumInv => ExactWithoutOvertaking
  <2> SUFFICES ASSUME CoordInv, SumInv, AllDone, ~overtaken PROVE Snapshot = Made
    BY Zenon DEF ExactWithoutOvertaking
  <2>1. TypeOK /\ SnapInv
    BY Zenon DEF CoordInv
  <2>2. EngineInv /\ ExactInv
    BY Zenon DEF SumInv
  <2>3. \A i \in 1..order : state[i] = "done"
    BY Zenon DEF AllDone
  <2> QED
    BY <2>1, <2>2, <2>3, SnapshotExact, Zenon
<1> QED
  BY <1>1, SumAlways, PTL

\* For any budget and any number of workers that divides it: an undisturbed run
\* without a duration makes the requests asked for, and fewer than one per
\* worker too many.
THEOREM BudgetIsMet == Spec => []BudgetMet
<1>1. CoordInv /\ SumInv => BudgetMet
  <2> SUFFICES ASSUME CoordInv, SumInv, AllDone, faults = 0, ~duration
               PROVE  Budget <= Snapshot /\ Snapshot < Budget + order
    BY Zenon DEF BudgetMet
  <2>1. TypeOK /\ SnapInv
    BY Zenon DEF CoordInv
  <2>2. FinalInv /\ ExactInv /\ ShareInv
    BY Zenon DEF SumInv
  <2>3. \A i \in 1..order : state[i] = "done"
    BY Zenon DEF AllDone
  <2>4. Released
    BY Zenon DEF AllDone, CoordInv, RunInv, DoneInv
  <2>5. order \in Nat \ {0} /\ Snapshot = order * Share(order)
    BY <2>1, <2>2, <2>3, <2>4, SnapshotOfShares, Zenon
  <2> QED
    BY <2>5, ShareBounds, Zenon
<1> QED
  BY <1>1, SumAlways, PTL
=============================================================================
