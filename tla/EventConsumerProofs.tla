------------------------ MODULE EventConsumerProofs ------------------------
(***************************************************************************)
(* Safety of EventConsumer for any number of pods, partitions, records,    *)
(* faults and rebalances; that it implements EventDelivery; and that it    *)
(* counts no event more often than faults and cancelled calls allow.       *)
(***************************************************************************)
EXTENDS EventConsumer, TLAPS

\* A record is a partition and a position in it.
LEMMA RecType ==
  ASSUME NEW r \in Rec
  PROVE  r[1] \in Partitions /\ r[2] \in Nat /\ r[2] >= 1
BY ConsumerAssumption DEF Rec

LEMMA PositionsType == Positions \subseteq Nat
BY ConsumerAssumption DEF Positions

LEMMA InitTypeOK == Init => TypeOK
BY DEF Init, TypeOK, EmptyBatch, NoPositions

LEMMA PollTargetsType ==
  ASSUME NEW w \in Workers, NEW np \in PollTargets(w)
  PROVE  /\ np \in [Partitions -> Nat]
         /\ \A p \in Partitions : /\ pos[w][p] <= np[p]
                                  /\ p \notin held[w] => np[p] = pos[w][p]
BY PositionsType, Zenon DEF PollTargets

LEMMA AddType ==
  ASSUME NEW batch \in [Rec -> Nat], NEW S
  PROVE  Add(batch, S) \in [Rec -> Nat]
BY SMTT(30) DEF Add

USE DEF Goto, AfterFlush, clientVars, sinkVars, boundVars

LEMMA NextTypeOK == TypeOK /\ [Next]_vars => TypeOK'
<1> SUFFICES ASSUME TypeOK, [Next]_vars PROVE TypeOK'
  OBVIOUS
<1> USE DEF TypeOK
<1>1. ASSUME NEW w \in Workers, PollRecords(w) PROVE TypeOK'
  <2>1. PICK np \in PollTargets(w) :
          /\ agg' = [agg EXCEPT ![w] = Add(agg[w], Delivered(w, np))]
          /\ pos' = [pos EXCEPT ![w] = np]
          /\ Goto(w, "flush") \/ UNCHANGED pc
    BY <1>1, Zenon DEF PollRecords
  <2>2. agg' \in [Workers -> [Rec -> Nat]] /\ pos' \in [Workers -> [Partitions -> Nat]]
    BY <2>1, AddType, PollTargetsType, Zenon
  <2> QED
    BY <1>1, <2>1, <2>2, Zenon DEF PollRecords
<1>2. ASSUME NEW w \in Workers,
             PollTimeout(w) \/ PollError(w) \/ Stop(w) \/ LeaveLoop(w)
      PROVE  TypeOK'
  BY <1>2, Zenon DEF PollTimeout, PollError, Stop, LeaveLoop
<1>3. ASSUME NEW w \in Workers,
             FlushEmpty(w) \/ FlushStore(w) \/ StoreDone(w) \/ FlushFail(w) \/ IncrBy(w)
      PROVE  TypeOK'
  <2>1. CASE FlushEmpty(w) \/ StoreDone(w)
    BY <2>1, Zenon DEF FlushEmpty, StoreDone
  <2>2. CASE FlushStore(w)
    BY <2>2 DEF FlushStore, AddRollups
  <2>3. CASE FlushFail(w)
    BY <2>3 DEF FlushFail, CallFails
  <2>4. CASE IncrBy(w)
    BY <2>4, Zenon DEF IncrBy, Increments, Batch
  <2> QED
    BY <1>3, <2>1, <2>2, <2>3, <2>4, Zenon
<1>4. ASSUME NEW w \in Workers, Commit(w) \/ CommitFail(w) \/ CommitFenced(w)
      PROVE  TypeOK'
  <2>1. EmptyBatch \in [Rec -> Nat]
    BY Zenon DEF EmptyBatch
  <2>2. /\ agg' \in [Workers -> [Rec -> Nat]]
        /\ blocked' \in [Workers -> BOOLEAN]
        /\ pc' \in [Workers -> {"poll", "flush", "stored", "incr", "commit", "close", "down"}]
    <3>1. ResetAndAllow(w)
      BY <1>4, Zenon DEF Commit, CommitFail, CommitFenced
    <3>2. pc' = [pc EXCEPT ![w] = "close"] \/ pc' = [pc EXCEPT ![w] = "poll"]
      BY <3>1, Zenon DEF ResetAndAllow
    <3> QED
      BY <2>1, <3>1, <3>2, Zenon DEF ResetAndAllow
  <2>3. committed' \in [Partitions -> Nat]
    BY <1>4, SMTT(30) DEF Commit, CommitFail, CommitFenced, CommitUpTo
  <2>4. faults' \in Nat /\ cancels' \in Nat
    BY <1>4 DEF Commit, CommitFail, CommitFenced, CallFails
  <2> QED
    BY <1>4, <2>2, <2>3, <2>4, Zenon DEF Commit, CommitFail, CommitFenced
<1>5. ASSUME NEW w \in Workers,
             Close(w) \/ Kill(w) \/ Crash(w) \/ Restart(w) \/ Evict(w) \/ Rejoin(w)
      PROVE  TypeOK'
  <2>1. EmptyBatch \in [Rec -> Nat] /\ NoPositions \in [Partitions -> Nat]
    BY Zenon DEF EmptyBatch, NoPositions
  <2>2. CASE Close(w) \/ Kill(w)
    <3>1. Exit(w) /\ UNCHANGED faults
      BY <2>2, Zenon DEF Close, Kill
    <3> QED
      BY <2>1, <3>1, Zenon DEF Exit, Release
  <2>3. CASE Crash(w)
    BY <2>1, <2>3 DEF Crash, Exit, Release
  <2>4. CASE Restart(w)
    BY <2>4, Zenon DEF Restart
  <2>5. CASE Evict(w)
    BY <2>5 DEF Evict, Release
  <2>6. CASE Rejoin(w)
    BY <2>1, <2>6, Zenon DEF Rejoin
  <2> QED
    BY <1>5, <2>2, <2>3, <2>4, <2>5, <2>6, Zenon
<1>6. ASSUME NEW w \in Workers, NEW p \in Partitions, Assign(p, w) \/ Revoke(p, w)
      PROVE  TypeOK'
  <2>1. CASE Assign(p, w)
    BY <2>1, Zenon DEF Assign
  <2>2. CASE Revoke(p, w)
    BY <2>2 DEF Revoke
  <2> QED
    BY <1>6, <2>1, <2>2, Zenon
<1>7. CASE UNCHANGED vars
  BY <1>7, Zenon DEF vars
<1> QED
  BY <1>1, <1>2, <1>3, <1>4, <1>5, <1>6, <1>7, Zenon DEF Next

\* Type correctness of the consumer and its group, for every log and any
\* number of pods.
THEOREM TypeCorrect == Spec => []TypeOK
BY InitTypeOK, NextTypeOK, PTL DEF Spec
-----------------------------------------------------------------------------
(* The consumer group: who owns what, and what a pending batch may hold.   *)

\* The coordinator and the clients of its members agree on the assignment; a
\* client the coordinator has evicted owns nothing there.
OwnersAgree ==
  \A w \in Workers, p \in Partitions : owner[p] = w <=> member[w] /\ p \in held[w]

DownHoldsNothing ==
  \A w \in Workers : pc[w] = "down" => held[w] = {} /\ ~member[w]

\* A member has polled at least up to the committed position.
PositionsAhead ==
  \A w \in Workers, p \in Partitions :
    member[w] /\ p \in held[w] => committed[p] <= pos[w][p]

GroupInv == PendingBatchIsOwn /\ OwnersAgree /\ DownHoldsNothing /\ PositionsAhead

LEMMA InitGroupInv == Init => GroupInv
BY ConsumerAssumption, RecType
   DEF Init, GroupInv, PendingBatchIsOwn, OwnersAgree, DownHoldsNothing, PositionsAhead,
       EmptyBatch, NoPositions

\* Steps that change no assignment, no position and no batch.
LEMMA QuietGroupInv ==
  ASSUME TypeOK, GroupInv, NEW w \in Workers,
         UNCHANGED <<agg, held, pos, member, owner, committed>>,
         \/ UNCHANGED blocked
         \/ blocked' = [blocked EXCEPT ![w] = TRUE],
         \A v \in Workers : pc'[v] = "down" => pc[v] = "down"
  PROVE  GroupInv'
<1>1. PendingBatchIsOwn'
  BY ZenonT(60) DEF TypeOK, GroupInv, PendingBatchIsOwn
<1>2. OwnersAgree' /\ DownHoldsNothing' /\ PositionsAhead'
  BY Zenon DEF GroupInv, OwnersAgree, DownHoldsNothing, PositionsAhead
<1> QED
  BY <1>1, <1>2, Zenon DEF GroupInv

LEMMA PollGroupInv ==
  ASSUME TypeOK, GroupInv, NEW w \in Workers, PollRecords(w)
  PROVE  GroupInv'
<1>1. PICK np \in PollTargets(w) :
        /\ agg' = [agg EXCEPT ![w] = Add(agg[w], Delivered(w, np))]
        /\ pos' = [pos EXCEPT ![w] = np]
        /\ Goto(w, "flush") \/ UNCHANGED pc
  BY Zenon DEF PollRecords
<1>2. /\ np \in [Partitions -> Nat]
      /\ \A p \in Partitions : pos[w][p] <= np[p]
  BY PollTargetsType, Zenon
<1>3. /\ blocked' = [blocked EXCEPT ![w] = TRUE]
      /\ UNCHANGED <<held, member, owner, committed>>
  BY Zenon DEF PollRecords
<1>4. PendingBatchIsOwn'
  <2> SUFFICES ASSUME NEW v \in Workers, NEW r \in Rec, agg'[v][r] > 0
               PROVE  /\ agg'[v][r] = 1 /\ blocked'[v]
                      /\ r[1] \in held'[v] /\ r[2] <= pos'[v][r[1]]
    BY Zenon DEF PendingBatchIsOwn
  <2>1. CASE v # w
    BY <1>1, <1>3, <2>1, Zenon DEF TypeOK, GroupInv, PendingBatchIsOwn
  <2>2. CASE v = w
    <3>1. r[1] \in Partitions /\ r[2] \in Nat
      BY RecType, Zenon
    <3>2. agg'[w][r] = IF r \in Delivered(w, np) THEN agg[w][r] + 1 ELSE agg[w][r]
      BY <1>1, Zenon DEF TypeOK, Add
    <3>3. CASE r \in Delivered(w, np)
      <4>1. r[1] \in held[w] /\ pos[w][r[1]] < r[2] /\ r[2] <= np[r[1]]
        BY <3>3, Zenon DEF Delivered
      <4>2. agg[w][r] = 0
        <5>1. pos[w][r[1]] \in Nat /\ agg[w][r] \in Nat
          BY <3>1, Zenon DEF TypeOK
        <5>2. ~(r[2] <= pos[w][r[1]])
          BY <3>1, <4>1, <5>1
        <5> QED
          BY <5>1, <5>2 DEF GroupInv, PendingBatchIsOwn
      <4> QED
        BY <1>1, <1>3, <2>2, <3>2, <3>3, <4>1, <4>2 DEF TypeOK
    <3>4. CASE r \notin Delivered(w, np)
      <4>1. agg[w][r] = 1 /\ r[1] \in held[w] /\ r[2] <= pos[w][r[1]]
        BY <2>2, <3>2, <3>4, Zenon DEF GroupInv, PendingBatchIsOwn
      <4> QED
        BY <1>1, <1>2, <1>3, <2>2, <3>1, <3>2, <3>4, <4>1 DEF TypeOK
    <3> QED
      BY <3>3, <3>4, Zenon
  <2> QED
    BY <2>1, <2>2, Zenon
<1>5. OwnersAgree' /\ DownHoldsNothing'
  BY <1>1, <1>3 DEF TypeOK, GroupInv, OwnersAgree, DownHoldsNothing
<1>6. PositionsAhead'
  BY <1>1, <1>2, <1>3 DEF TypeOK, GroupInv, PositionsAhead
<1> QED
  BY <1>4, <1>5, <1>6, Zenon DEF GroupInv

LEMMA CommitGroupInv ==
  ASSUME TypeOK, GroupInv, NEW w \in Workers,
         Commit(w) \/ CommitFail(w) \/ CommitFenced(w)
  PROVE  /\ GroupInv'
         /\ \A p \in Partitions : committed'[p] \in Nat /\ committed'[p] >= committed[p]
<1>1. PICK S \in SUBSET held[w] : CommitUpTo(w, S) /\ (S # {} => member[w])
  <2>1. CASE Commit(w)
    BY <2>1, Zenon DEF Commit
  <2>2. CASE CommitFail(w)
    BY <2>2, Zenon DEF CommitFail
  <2>3. CASE CommitFenced(w)
    <3>1. CommitUpTo(w, {})
      BY <2>3, Zenon DEF CommitFenced, CommitUpTo, TypeOK
    <3> QED
      BY <3>1, Zenon
  <2> QED
    BY <2>1, <2>2, <2>3, Zenon
<1>2. /\ ResetAndAllow(w)
      /\ UNCHANGED <<held, pos, member, owner>>
  BY Zenon DEF Commit, CommitFail, CommitFenced
<1>3. \A p \in Partitions :
        committed'[p] = IF p \in S THEN pos[w][p] ELSE committed[p]
  BY <1>1, Zenon DEF CommitUpTo
<1>4. \A p \in Partitions : committed'[p] \in Nat /\ committed'[p] >= committed[p]
  <2> SUFFICES ASSUME NEW p \in Partitions
               PROVE  committed'[p] \in Nat /\ committed'[p] >= committed[p]
    OBVIOUS
  <2>1. CASE p \in S
    BY <1>1, <1>3, <2>1 DEF GroupInv, PositionsAhead, TypeOK
  <2>2. CASE p \notin S
    BY <1>3, <2>2 DEF TypeOK
  <2> QED
    BY <2>1, <2>2, Zenon
<1>5. PendingBatchIsOwn'
  BY <1>2 DEF ResetAndAllow, TypeOK, GroupInv, PendingBatchIsOwn, EmptyBatch
<1>6. OwnersAgree' /\ DownHoldsNothing'
  <2>1. \A v \in Workers : pc'[v] = "down" => pc[v] = "down"
    BY <1>2, Zenon DEF ResetAndAllow, TypeOK
  <2> QED
    BY <1>2, <2>1, Zenon DEF GroupInv, OwnersAgree, DownHoldsNothing
<1>7. PositionsAhead'
  <2> SUFFICES ASSUME NEW v \in Workers, NEW p \in Partitions, member[v], p \in held[v]
               PROVE  committed'[p] <= pos[v][p]
    BY <1>2, Zenon DEF PositionsAhead
  <2>1. CASE p \in S
    <3>1. owner[p] = w /\ owner[p] = v
      BY <1>1, <2>1, Zenon DEF GroupInv, OwnersAgree
    <3> QED
      BY <1>3, <2>1, <3>1 DEF TypeOK
  <2>2. CASE p \notin S
    BY <1>3, <2>2, Zenon DEF GroupInv, PositionsAhead
  <2> QED
    BY <2>1, <2>2, Zenon
<1> QED
  BY <1>4, <1>5, <1>6, <1>7, Zenon DEF GroupInv

LEMMA ExitGroupInv ==
  ASSUME TypeOK, GroupInv, NEW w \in Workers, Exit(w)
  PROVE  GroupInv'
<1> USE DEF TypeOK, Exit
<1>1. PendingBatchIsOwn'
  BY DEF GroupInv, PendingBatchIsOwn, EmptyBatch
<1>2. OwnersAgree'
  BY ConsumerAssumption DEF GroupInv, OwnersAgree, Release
<1>3. DownHoldsNothing'
  BY Zenon DEF GroupInv, DownHoldsNothing
<1>4. PositionsAhead'
  BY Zenon DEF GroupInv, PositionsAhead
<1> QED
  BY <1>1, <1>2, <1>3, <1>4, Zenon DEF GroupInv

LEMMA MembershipGroupInv ==
  ASSUME TypeOK, GroupInv, NEW w \in Workers, Restart(w) \/ Evict(w) \/ Rejoin(w)
  PROVE  GroupInv'
<1> USE DEF TypeOK
<1>1. CASE Restart(w)
  BY <1>1 DEF Restart, GroupInv, PendingBatchIsOwn, OwnersAgree, DownHoldsNothing, PositionsAhead
<1>2. CASE Evict(w)
  <2>1. PendingBatchIsOwn' /\ DownHoldsNothing' /\ PositionsAhead'
    BY <1>2 DEF Evict, GroupInv, PendingBatchIsOwn, DownHoldsNothing, PositionsAhead
  <2>2. OwnersAgree'
    BY <1>2, ConsumerAssumption DEF Evict, Release, GroupInv, OwnersAgree
  <2> QED
    BY <2>1, <2>2, Zenon DEF GroupInv
<1>3. CASE Rejoin(w)
  <2>1. PendingBatchIsOwn'
    BY <1>3 DEF Rejoin, GroupInv, PendingBatchIsOwn
  <2>2. OwnersAgree' /\ DownHoldsNothing' /\ PositionsAhead'
    BY <1>3 DEF Rejoin, GroupInv, OwnersAgree, DownHoldsNothing, PositionsAhead
  <2> QED
    BY <2>1, <2>2, Zenon DEF GroupInv
<1> QED
  BY <1>1, <1>2, <1>3, Zenon

LEMMA AssignmentGroupInv ==
  ASSUME TypeOK, GroupInv, NEW w \in Workers, NEW p \in Partitions,
         Assign(p, w) \/ Revoke(p, w)
  PROVE  GroupInv'
<1> USE DEF TypeOK
<1>1. CASE Assign(p, w)
  <2>1. p \notin held[w] /\ pc[w] # "down"
    BY <1>1, ConsumerAssumption DEF Assign, GroupInv, OwnersAgree, DownHoldsNothing
  <2>2. PendingBatchIsOwn'
    BY <1>1, <2>1, RecType, SMTT(30) DEF Assign, GroupInv, PendingBatchIsOwn
  <2>3. OwnersAgree' /\ DownHoldsNothing'
    BY <1>1, <2>1, ConsumerAssumption DEF Assign, GroupInv, OwnersAgree, DownHoldsNothing
  <2>4. PositionsAhead'
    BY <1>1, <2>1 DEF Assign, GroupInv, PositionsAhead
  <2> QED
    BY <2>2, <2>3, <2>4, Zenon DEF GroupInv
<1>2. CASE Revoke(p, w)
  <2>1. PendingBatchIsOwn'
    BY <1>2 DEF Revoke, GroupInv, PendingBatchIsOwn
  <2>2. OwnersAgree' /\ DownHoldsNothing'
    BY <1>2, ConsumerAssumption DEF Revoke, GroupInv, OwnersAgree, DownHoldsNothing
  <2>3. PositionsAhead'
    BY <1>2, Zenon DEF Revoke, GroupInv, PositionsAhead
  <2> QED
    BY <2>1, <2>2, <2>3, Zenon DEF GroupInv
<1> QED
  BY <1>1, <1>2, Zenon

LEMMA NextGroupInv ==
  TypeOK /\ GroupInv /\ [Next]_vars
    => GroupInv' /\ \A p \in Partitions : committed'[p] >= committed[p]
<1> SUFFICES ASSUME TypeOK, GroupInv, [Next]_vars
             PROVE  GroupInv' /\ \A p \in Partitions : committed'[p] >= committed[p]
  OBVIOUS
<1>1. ASSUME UNCHANGED committed
      PROVE  \A p \in Partitions : committed'[p] >= committed[p]
  BY <1>1 DEF TypeOK
<1>2. ASSUME NEW w \in Workers, PollRecords(w)
      PROVE  GroupInv' /\ UNCHANGED committed
  BY <1>2, PollGroupInv, Zenon DEF PollRecords
<1>3. ASSUME NEW w \in Workers,
             \/ PollTimeout(w) \/ PollError(w) \/ Stop(w) \/ LeaveLoop(w)
             \/ FlushEmpty(w) \/ FlushStore(w) \/ StoreDone(w) \/ FlushFail(w) \/ IncrBy(w)
      PROVE  GroupInv' /\ UNCHANGED committed
  <2>1. UNCHANGED <<agg, held, pos, member, owner, committed>>
    BY <1>3, Zenon DEF PollTimeout, PollError, Stop, LeaveLoop, FlushEmpty, FlushStore,
                StoreDone, FlushFail, IncrBy
  <2>2. UNCHANGED blocked \/ blocked' = [blocked EXCEPT ![w] = TRUE]
    BY <1>3, Zenon DEF PollTimeout, PollError, Stop, LeaveLoop, FlushEmpty, FlushStore,
                StoreDone, FlushFail, IncrBy
  <2>3. UNCHANGED pc \/ \E where \in {"poll", "flush", "stored", "incr", "commit", "close"} :
                          pc' = [pc EXCEPT ![w] = where]
    BY <1>3, Zenon DEF PollTimeout, PollError, Stop, LeaveLoop, FlushEmpty, FlushStore,
                StoreDone, FlushFail, IncrBy
  <2>4. \A v \in Workers : pc'[v] = "down" => pc[v] = "down"
    BY <2>3, Zenon DEF TypeOK
  <2> QED
    BY <2>1, <2>2, <2>4, QuietGroupInv, Zenon
<1>4. ASSUME NEW w \in Workers, Commit(w) \/ CommitFail(w) \/ CommitFenced(w)
      PROVE  GroupInv' /\ \A p \in Partitions : committed'[p] >= committed[p]
  BY <1>4, CommitGroupInv, Zenon
<1>5. ASSUME NEW w \in Workers, Close(w) \/ Kill(w) \/ Crash(w)
      PROVE  GroupInv' /\ UNCHANGED committed
  <2>1. Exit(w)
    BY <1>5, ZenonT(60) DEF Close, Kill, Crash
  <2> QED
    BY <2>1, ExitGroupInv, Zenon DEF Exit
<1>6. ASSUME NEW w \in Workers, Restart(w) \/ Evict(w) \/ Rejoin(w)
      PROVE  GroupInv' /\ UNCHANGED committed
  BY <1>6, MembershipGroupInv, Zenon DEF Restart, Evict, Rejoin
<1>7. ASSUME NEW w \in Workers, NEW p \in Partitions, Assign(p, w) \/ Revoke(p, w)
      PROVE  GroupInv' /\ UNCHANGED committed
  BY <1>7, AssignmentGroupInv, Zenon DEF Assign, Revoke
<1>8. CASE UNCHANGED vars
  <2>1. GroupInv'
    BY <1>8, Zenon DEF vars, GroupInv, PendingBatchIsOwn, OwnersAgree, DownHoldsNothing, PositionsAhead
  <2> QED
    BY <1>1, <1>8, <2>1, Zenon DEF vars
<1> QED
  BY <1>1, <1>2, <1>3, <1>4, <1>5, <1>6, <1>7, <1>8, Zenon DEF Next

LEMMA GroupSafe == Spec => [](TypeOK /\ GroupInv)
<1>1. Init => TypeOK /\ GroupInv
  BY InitTypeOK, InitGroupInv, Zenon
<1>2. TypeOK /\ GroupInv /\ [Next]_vars => (TypeOK /\ GroupInv)'
  BY NextTypeOK, NextGroupInv, Zenon
<1> QED
  BY <1>1, <1>2, PTL DEF Spec

\* A pending batch is never mixed with a redelivery of its own events: while
\* it is pending, rebalances are blocked (BlockRebalanceOnPoll) and
\* AllowRebalance comes after Reset.
THEOREM PendingBatchSafe == Spec => []PendingBatchIsOwn
<1>1. GroupInv => PendingBatchIsOwn
  BY Zenon DEF GroupInv
<1> QED
  BY <1>1, GroupSafe, PTL

\* Committed positions only grow, although an evicted pod keeps polling,
\* flushing and trying to commit.
THEOREM CommitsMonotone == Spec => CommitsNeverRegress
<1>1. TypeOK /\ GroupInv /\ [Next]_vars
        => [\A p \in Partitions : committed'[p] >= committed[p]]_vars
  BY NextGroupInv, Zenon
<1> QED
  BY <1>1, GroupSafe, PTL DEF Spec, CommitsNeverRegress
-----------------------------------------------------------------------------
(* Counting: what is committed is in the rollups.                          *)

\* A polled event is in the rollups or in the batch of the pod that polled it.
PolledIsSafe ==
  \A w \in Workers, r \in Rec :
    Valid(r) /\ r[1] \in held[w] /\ r[2] <= pos[w][r[1]]
      => counted[r] >= 1 \/ agg[w][r] >= 1

\* From the moment the statement took effect to the end of the commit, the
\* whole batch is in the rollups.
FlushedIsCounted ==
  \A w \in Workers, r \in Rec :
    pc[w] \in {"stored", "incr", "commit"} /\ agg[w][r] > 0 => counted[r] >= 1

CountInv ==
  HasStore => PolledIsSafe /\ FlushedIsCounted /\ AtLeastOnce /\ LiveCountersFollowStore

LEMMA InitCountInv == Init => CountInv
<1> SUFFICES ASSUME Init PROVE CountInv
  OBVIOUS
<1>1. PolledIsSafe /\ FlushedIsCounted
  BY Zenon DEF Init, PolledIsSafe, FlushedIsCounted
<1>2. AtLeastOnce /\ LiveCountersFollowStore
  <2>1. \A r \in Rec : committed[r[1]] = 0 /\ r[2] \in Nat /\ r[2] >= 1
    BY RecType, Zenon DEF Init
  <2> QED
    BY <2>1 DEF Init, AtLeastOnce, LiveCountersFollowStore
<1> QED
  BY <1>1, <1>2, Zenon DEF CountInv

\* The part of the loop between the upsert and the end of the commit.
Flushed == {"stored", "incr", "commit"}

\* What a step that leaves batches, assignment, positions and commits alone
\* must respect: it loses no count, a pod enters the flushed part of the loop
\* only with its batch counted, and Redis shows only what is counted.
CountsKept == \A r \in Rec : counted[r] >= 1 => counted'[r] >= 1

FlushedEnteredCounted ==
  HasStore => \A v \in Workers, r \in Rec :
    pc'[v] \in Flushed /\ pc[v] \notin Flushed /\ agg[v][r] > 0 => counted'[r] >= 1

DisplayedCounted == HasStore => \A r \in displayed' : counted'[r] >= 1

LEMMA QuietCountInv ==
  ASSUME TypeOK, CountInv,
         UNCHANGED <<agg, held, pos, committed>>,
         CountsKept, FlushedEnteredCounted, DisplayedCounted
  PROVE  CountInv'
<1> SUFFICES ASSUME HasStore
             PROVE  PolledIsSafe' /\ FlushedIsCounted' /\ AtLeastOnce' /\ LiveCountersFollowStore'
  BY Zenon DEF CountInv
<1>2. PolledIsSafe'
  BY Zenon DEF CountInv, PolledIsSafe, CountsKept
<1>3. FlushedIsCounted'
  BY Zenon DEF CountInv, FlushedIsCounted, CountsKept, FlushedEnteredCounted, Flushed
<1>4. AtLeastOnce'
  BY Zenon DEF CountInv, AtLeastOnce, CountsKept
<1>5. LiveCountersFollowStore'
  BY Zenon DEF LiveCountersFollowStore, DisplayedCounted
<1> QED
  BY <1>2, <1>3, <1>4, <1>5, Zenon

LEMMA PollCountInv ==
  ASSUME TypeOK, CountInv, NEW w \in Workers, PollRecords(w)
  PROVE  CountInv'
<1> SUFFICES ASSUME HasStore
             PROVE  PolledIsSafe' /\ FlushedIsCounted' /\ AtLeastOnce' /\ LiveCountersFollowStore'
  BY Zenon DEF CountInv
<1>1. PICK np \in PollTargets(w) :
        /\ agg' = [agg EXCEPT ![w] = Add(agg[w], Delivered(w, np))]
        /\ pos' = [pos EXCEPT ![w] = np]
        /\ Goto(w, "flush") \/ UNCHANGED pc
  BY Zenon DEF PollRecords
<1>2. UNCHANGED <<held, committed, counted, displayed>> /\ pc[w] = "poll"
  BY Zenon DEF PollRecords
<1>3. PolledIsSafe'
  <2> SUFFICES ASSUME NEW v \in Workers, NEW r \in Rec,
                      Valid(r), r[1] \in held[v], r[2] <= pos'[v][r[1]]
               PROVE  counted[r] >= 1 \/ agg'[v][r] >= 1
    BY <1>2, Zenon DEF PolledIsSafe
  <2>0. r[1] \in Partitions /\ r[2] \in Nat /\ pos[v][r[1]] \in Nat /\ agg[v][r] \in Nat
    BY RecType, Zenon DEF TypeOK
  <2>1. CASE v # w
    BY <1>1, <2>1, Zenon DEF CountInv, PolledIsSafe, TypeOK
  <2>2. CASE v = w /\ r \in Delivered(w, np)
    BY <1>1, <2>0, <2>2, SMTT(30) DEF Add, TypeOK
  <2>3. CASE v = w /\ r \notin Delivered(w, np)
    <3>1. r[2] <= np[r[1]]
      BY <1>1, <2>3, Zenon DEF TypeOK
    <3>2. r[2] <= pos[w][r[1]]
      BY <2>0, <2>3, <3>1 DEF Delivered
    <3>3. agg'[w][r] = agg[w][r]
      BY <1>1, <2>3, Zenon DEF Add, TypeOK
    <3> QED
      BY <2>3, <3>2, <3>3, Zenon DEF CountInv, PolledIsSafe
  <2> QED
    BY <2>1, <2>2, <2>3, Zenon
<1>4. FlushedIsCounted'
  BY <1>1, <1>2, Zenon DEF CountInv, FlushedIsCounted, TypeOK
<1>5. AtLeastOnce' /\ LiveCountersFollowStore'
  BY <1>2, Zenon DEF CountInv, AtLeastOnce, LiveCountersFollowStore
<1> QED
  BY <1>3, <1>4, <1>5, Zenon

LEMMA CommitCountInv ==
  ASSUME TypeOK, CountInv, NEW w \in Workers,
         Commit(w) \/ CommitFail(w) \/ CommitFenced(w)
  PROVE  CountInv'
<1> SUFFICES ASSUME HasStore
             PROVE  PolledIsSafe' /\ FlushedIsCounted' /\ AtLeastOnce' /\ LiveCountersFollowStore'
  BY Zenon DEF CountInv
<1>1. PICK S \in SUBSET held[w] : CommitUpTo(w, S)
  <2>1. CASE Commit(w)
    BY <2>1, Zenon DEF Commit
  <2>2. CASE CommitFail(w)
    BY <2>2, Zenon DEF CommitFail
  <2>3. CASE CommitFenced(w)
    <3>1. CommitUpTo(w, {})
      BY <2>3, Zenon DEF CommitFenced, CommitUpTo, TypeOK
    <3> QED
      BY <3>1, Zenon
  <2> QED
    BY <2>1, <2>2, <2>3, Zenon
<1>2. /\ ResetAndAllow(w) /\ pc[w] = "commit"
      /\ UNCHANGED <<held, pos, counted, displayed>>
  BY Zenon DEF Commit, CommitFail, CommitFenced
<1>3. \A r \in Rec : Valid(r) /\ r[1] \in held[w] /\ r[2] <= pos[w][r[1]] => counted[r] >= 1
  BY <1>2 DEF CountInv, PolledIsSafe, FlushedIsCounted, TypeOK
<1>4. \A v \in Workers : agg'[v] = IF v = w THEN EmptyBatch ELSE agg[v]
  BY <1>2, Zenon DEF ResetAndAllow, TypeOK
<1>5. PolledIsSafe'
  BY <1>2, <1>3, <1>4, Zenon DEF CountInv, PolledIsSafe
<1>6. FlushedIsCounted'
  <2>1. pc'[w] \in {"close", "poll"} /\ \A v \in Workers \ {w} : pc'[v] = pc[v]
    BY <1>2, Zenon DEF ResetAndAllow, TypeOK
  <2> QED
    BY <1>2, <1>4, <2>1, Zenon DEF CountInv, FlushedIsCounted
<1>7. AtLeastOnce'
  <2>1. \A p \in Partitions : committed'[p] = IF p \in S THEN pos[w][p] ELSE committed[p]
    BY <1>1, Zenon DEF CommitUpTo
  <2> QED
    BY <1>1, <1>2, <1>3, <2>1, RecType, Zenon DEF CountInv, AtLeastOnce
<1>8. LiveCountersFollowStore'
  BY <1>2, Zenon DEF CountInv, LiveCountersFollowStore
<1> QED
  BY <1>5, <1>6, <1>7, <1>8, Zenon

\* A pod that gives partitions up: the others are not touched.
LEMMA LossCountInv ==
  ASSUME TypeOK, CountInv, NEW w \in Workers,
         \/ Exit(w)
         \/ Rejoin(w)
         \/ \E p \in Partitions : Revoke(p, w)
  PROVE  CountInv'
<1> SUFFICES ASSUME HasStore
             PROVE  PolledIsSafe' /\ FlushedIsCounted' /\ AtLeastOnce' /\ LiveCountersFollowStore'
  BY Zenon DEF CountInv
<1>1. UNCHANGED <<committed, counted, displayed>>
  BY ZenonT(30) DEF Exit, Rejoin, Revoke
<1>2. CASE Exit(w) \/ Rejoin(w)
  <2>1. /\ held'[w] = {}
        /\ \A v \in Workers \ {w} : held'[v] = held[v] /\ pos'[v] = pos[v] /\ agg'[v] = agg[v]
    BY <1>2, Zenon DEF Exit, Rejoin, TypeOK
  <2>2. \A v \in Workers :
          pc'[v] \in {"stored", "incr", "commit"} => pc'[v] = pc[v] /\ agg'[v] = agg[v]
    BY <1>2, Zenon DEF Exit, Rejoin, TypeOK
  <2> QED
    BY <1>1, <2>1, <2>2, Zenon
       DEF CountInv, PolledIsSafe, FlushedIsCounted, AtLeastOnce, LiveCountersFollowStore
<1>3. ASSUME NEW p \in Partitions, Revoke(p, w)
      PROVE  PolledIsSafe' /\ FlushedIsCounted' /\ AtLeastOnce' /\ LiveCountersFollowStore'
  <2>1. /\ UNCHANGED <<agg, pc>>
        /\ \A v \in Workers, q \in Partitions :
             q \in held'[v] => q \in held[v] /\ pos'[v][q] = pos[v][q]
    BY <1>3 DEF Revoke, TypeOK
  <2> QED
    BY <1>1, <2>1, RecType, Zenon
       DEF CountInv, PolledIsSafe, FlushedIsCounted, AtLeastOnce, LiveCountersFollowStore
<1> QED
  BY <1>2, <1>3, Zenon

\* A new owner starts at the committed position, below which all is counted.
LEMMA AssignCountInv ==
  ASSUME TypeOK, CountInv, NEW w \in Workers, NEW p \in Partitions, Assign(p, w)
  PROVE  CountInv'
<1> SUFFICES ASSUME HasStore
             PROVE  PolledIsSafe' /\ FlushedIsCounted' /\ AtLeastOnce' /\ LiveCountersFollowStore'
  BY Zenon DEF CountInv
<1>1. UNCHANGED <<pc, agg, committed, counted, displayed>>
  BY Zenon DEF Assign
<1>2. PolledIsSafe'
  <2>1. \A v \in Workers, q \in Partitions :
          q \in held'[v] => \/ q \in held[v] /\ pos'[v][q] = pos[v][q]
                            \/ pos'[v][q] = committed[q]
    BY Zenon DEF Assign, TypeOK
  <2> QED
    BY <1>1, <2>1, RecType, SMTT(30) DEF CountInv, PolledIsSafe, AtLeastOnce
<1>3. FlushedIsCounted' /\ AtLeastOnce' /\ LiveCountersFollowStore'
  BY <1>1, Zenon DEF CountInv, FlushedIsCounted, AtLeastOnce, LiveCountersFollowStore
<1> QED
  BY <1>2, <1>3, Zenon

LEMMA FlushCountInv ==
  ASSUME TypeOK, CountInv, NEW w \in Workers,
         FlushEmpty(w) \/ FlushStore(w) \/ StoreDone(w) \/ FlushFail(w) \/ IncrBy(w)
  PROVE  CountInv'
<1>1. UNCHANGED <<agg, held, pos, committed>>
  BY Zenon DEF FlushEmpty, FlushStore, StoreDone, FlushFail, IncrBy
<1>2. \A r \in Rec : agg[w][r] \in Nat /\ counted[r] \in Nat
  BY Zenon DEF TypeOK
<1>3. CASE FlushEmpty(w)
  <2>1. \A r \in Rec : ~(agg[w][r] > 0)
    BY <1>3, Zenon DEF FlushEmpty, Batch
  <2>2. \A v \in Workers : v # w => pc'[v] = pc[v]
    BY <1>3, Zenon DEF FlushEmpty, TypeOK
  <2>3. FlushedEnteredCounted
    BY <2>1, <2>2, Zenon DEF FlushedEnteredCounted
  <2>4. CountsKept /\ DisplayedCounted
    BY <1>3, Zenon DEF FlushEmpty, CountsKept, DisplayedCounted, CountInv, LiveCountersFollowStore
  <2> QED
    BY <1>1, <2>3, <2>4, QuietCountInv, Zenon
<1>4. CASE FlushStore(w)
  <2>1. \A r \in Rec : counted'[r] = counted[r] + agg[w][r]
    BY <1>4, Zenon DEF FlushStore, AddRollups
  <2>2. CountsKept
    BY <1>2, <2>1 DEF CountsKept
  <2>3. \A r \in Rec : agg[w][r] > 0 => counted'[r] >= 1
    BY <1>2, <2>1
  <2>4. \A v \in Workers : v # w => pc'[v] = pc[v]
    BY <1>4, Zenon DEF FlushStore, TypeOK
  <2>5. FlushedEnteredCounted
    BY <2>3, <2>4, Zenon DEF FlushedEnteredCounted
  <2>6. DisplayedCounted
    BY <1>4, <2>2, Zenon
       DEF FlushStore, TypeOK, CountInv, LiveCountersFollowStore, DisplayedCounted, CountsKept
  <2> QED
    BY <1>1, <2>2, <2>5, <2>6, QuietCountInv, Zenon
<1>5. CASE StoreDone(w) \/ FlushFail(w)
  <2>1. UNCHANGED <<counted, displayed>>
    BY <1>5, Zenon DEF StoreDone, FlushFail
  <2>2. HasStore => \A v \in Workers : pc'[v] \in Flushed => pc[v] \in Flushed
    BY <1>5, Zenon DEF StoreDone, FlushFail, TypeOK, Flushed
  <2>3. CountsKept /\ FlushedEnteredCounted /\ DisplayedCounted
    BY <2>1, <2>2, Zenon DEF CountInv, LiveCountersFollowStore, CountsKept, FlushedEnteredCounted,
                      DisplayedCounted
  <2> QED
    BY <1>1, <2>3, QuietCountInv, Zenon
<1>6. CASE IncrBy(w)
  <2>1. \A v \in Workers : pc'[v] \in Flushed => pc[v] \in Flushed
    BY <1>6, Zenon DEF IncrBy, TypeOK, Flushed
  <2>2. HasStore => \A r \in Batch(w) : counted[r] >= 1
    BY <1>6, Zenon DEF IncrBy, Batch, CountInv, FlushedIsCounted
  <2>3. UNCHANGED counted /\ displayed' \subseteq displayed \cup Batch(w)
    BY <1>6, Zenon DEF IncrBy, Increments
  <2>4. CountsKept /\ FlushedEnteredCounted
    BY <2>1, <2>3, Zenon DEF CountsKept, FlushedEnteredCounted
  <2>5. DisplayedCounted
    BY <2>2, <2>3, Zenon DEF DisplayedCounted, CountInv, LiveCountersFollowStore
  <2> QED
    BY <1>1, <2>4, <2>5, QuietCountInv, Zenon
<1> QED
  BY <1>3, <1>4, <1>5, <1>6, ZenonT(30)

LEMMA NextCountInv == TypeOK /\ CountInv /\ [Next]_vars => CountInv'
<1> SUFFICES ASSUME TypeOK, CountInv, [Next]_vars PROVE CountInv'
  OBVIOUS
<1>1. ASSUME NEW w \in Workers, PollRecords(w) PROVE CountInv'
  BY <1>1, PollCountInv, Zenon
<1>2. ASSUME NEW w \in Workers,
             \/ PollTimeout(w) \/ PollError(w) \/ Stop(w) \/ LeaveLoop(w)
             \/ Restart(w) \/ Evict(w)
      PROVE  CountInv'
  <2>1. UNCHANGED <<agg, held, pos, committed, counted, displayed>>
    BY <1>2, Zenon DEF PollTimeout, PollError, Stop, LeaveLoop, Restart, Evict
  <2>2. \A v \in Workers : pc'[v] \in Flushed => pc[v] \in Flushed
    BY <1>2, Zenon DEF PollTimeout, PollError, Stop, LeaveLoop, Restart, Evict, TypeOK, Flushed
  <2>3. CountsKept /\ FlushedEnteredCounted /\ DisplayedCounted
    BY <2>1, <2>2, Zenon DEF CountInv, LiveCountersFollowStore, CountsKept, FlushedEnteredCounted,
                      DisplayedCounted
  <2> QED
    BY <2>1, <2>3, QuietCountInv, Zenon
<1>3. ASSUME NEW w \in Workers,
             FlushEmpty(w) \/ FlushStore(w) \/ StoreDone(w) \/ FlushFail(w) \/ IncrBy(w)
      PROVE  CountInv'
  BY <1>3, FlushCountInv, Zenon
<1>4. ASSUME NEW w \in Workers, Commit(w) \/ CommitFail(w) \/ CommitFenced(w)
      PROVE  CountInv'
  BY <1>4, CommitCountInv, Zenon
<1>5. ASSUME NEW w \in Workers, Close(w) \/ Kill(w) \/ Crash(w) \/ Rejoin(w) PROVE CountInv'
  BY <1>5, LossCountInv, Zenon DEF Close, Kill, Crash
<1>6. ASSUME NEW w \in Workers, NEW p \in Partitions, Assign(p, w) \/ Revoke(p, w)
      PROVE  CountInv'
  BY <1>6, AssignCountInv, LossCountInv, Zenon
<1>7. CASE UNCHANGED vars
  BY <1>7, Zenon DEF vars, CountInv, PolledIsSafe, FlushedIsCounted, AtLeastOnce,
              LiveCountersFollowStore
<1> QED
  BY <1>1, <1>2, <1>3, <1>4, <1>5, <1>6, <1>7, Zenon DEF Next

LEMMA CountSafe == Spec => [](TypeOK /\ CountInv)
<1>1. Init => TypeOK /\ CountInv
  BY InitTypeOK, InitCountInv, Zenon
<1>2. TypeOK /\ CountInv /\ [Next]_vars => (TypeOK /\ CountInv)'
  BY NextTypeOK, NextCountInv, Zenon
<1> QED
  BY <1>1, <1>2, PTL DEF Spec

\* At-least-once delivery into the rollups: no crash, failed or cancelled
\* call, eviction or rebalance lets flushAndCommit commit an event that is
\* not in event_rollups.
THEOREM DeliveredAtLeastOnce == Spec => []AtLeastOnce
<1>1. CountInv => AtLeastOnce
  BY Zenon DEF CountInv, AtLeastOnce
<1> QED
  BY <1>1, CountSafe, PTL

\* The order of Sink.flush: Redis never counts what PostgreSQL does not.
THEOREM LiveCountersSafe == Spec => []LiveCountersFollowStore
<1>1. CountInv => LiveCountersFollowStore
  BY Zenon DEF CountInv, LiveCountersFollowStore
<1> QED
  BY <1>1, CountSafe, PTL

-----------------------------------------------------------------------------
(* EventConsumer implements EventDelivery.                                 *)

BatchIsValid == \A w \in Workers, r \in Rec : agg[w][r] > 0 => Valid(r)

LEMMA NextBatchIsValid == TypeOK /\ BatchIsValid /\ [Next]_vars => BatchIsValid'
<1> SUFFICES ASSUME TypeOK, BatchIsValid, [Next]_vars PROVE BatchIsValid'
  OBVIOUS
<1>1. ASSUME NEW w \in Workers, PollRecords(w) PROVE BatchIsValid'
  <2>1. PICK np \in PollTargets(w) :
          agg' = [agg EXCEPT ![w] = Add(agg[w], Delivered(w, np))]
    BY <1>1, ZenonT(60) DEF PollRecords
  <2> QED
    BY <2>1, Zenon DEF Add, Delivered, BatchIsValid, TypeOK
<1>2. ASSUME NEW w \in Workers,
             \/ Commit(w) \/ CommitFail(w) \/ CommitFenced(w)
             \/ Close(w) \/ Kill(w) \/ Crash(w)
      PROVE  BatchIsValid'
  <2>1. agg' = [agg EXCEPT ![w] = EmptyBatch]
    BY <1>2, Zenon DEF Commit, CommitFail, CommitFenced, ResetAndAllow, Close, Kill, Crash, Exit
  <2> QED
    BY <2>1, SMTT(30) DEF EmptyBatch, BatchIsValid, TypeOK
<1>3. CASE UNCHANGED agg
  BY <1>3, Zenon DEF BatchIsValid
<1>4. ASSUME NEW w \in Workers,
             \/ PollTimeout(w) \/ PollError(w) \/ Stop(w) \/ LeaveLoop(w)
             \/ FlushEmpty(w) \/ FlushStore(w) \/ StoreDone(w) \/ FlushFail(w) \/ IncrBy(w)
             \/ Restart(w) \/ Evict(w) \/ Rejoin(w)
             \/ \E p \in Partitions : Assign(p, w) \/ Revoke(p, w)
      PROVE  UNCHANGED agg
  BY <1>4, Zenon DEF PollTimeout, PollError, Stop, LeaveLoop, FlushEmpty, FlushStore, StoreDone,
              FlushFail, IncrBy, Restart, Evict, Rejoin, Assign, Revoke
<1> QED
  BY <1>1, <1>2, <1>3, <1>4, Zenon DEF Next, vars

\* The one step that changes the rollups adds a batch.
LEMMA FlushCounts ==
  ASSUME TypeOK, PendingBatchIsOwn, BatchIsValid, NEW w \in Workers, FlushStore(w)
  PROVE  Delivery!Next
<1>1. Batch(w) \in SUBSET {r \in Rec : Valid(r)}
  BY Zenon DEF Batch, BatchIsValid
<1>2. counted' = [r \in Rec |-> IF r \in Batch(w) THEN counted[r] + 1 ELSE counted[r]]
  <2>1. \A r \in Rec :
          counted[r] + agg[w][r] = IF r \in Batch(w) THEN counted[r] + 1 ELSE counted[r]
    BY DEF Batch, PendingBatchIsOwn, TypeOK
  <2> QED
    BY <2>1, Zenon DEF FlushStore, AddRollups
<1> QED
  BY <1>1, <1>2, Zenon DEF FlushStore, Delivery!Next, Delivery!Count

\* A commit of a member moves its partitions forward over counted events.
LEMMA CommitSettles ==
  ASSUME HasStore, TypeOK, GroupInv, CountInv, NEW w \in Workers,
         Commit(w) \/ CommitFail(w)
  PROVE  Delivery!Next
<1>1. PICK S \in SUBSET held[w] : CommitUpTo(w, S)
  BY Zenon DEF Commit, CommitFail
<1>2. member[w] /\ pc[w] = "commit" /\ UNCHANGED counted
  BY Zenon DEF Commit, CommitFail
<1>3. \A p \in Partitions : committed'[p] = IF p \in S THEN pos[w][p] ELSE committed[p]
  BY <1>1, Zenon DEF CommitUpTo
<1>4. committed' \in [Partitions -> Nat]
  BY <1>1 DEF CommitUpTo, TypeOK
<1>5. ASSUME NEW p \in Partitions PROVE committed'[p] >= committed[p]
  <2>1. committed[p] \in Nat /\ pos[w][p] \in Nat
    BY Zenon DEF TypeOK
  <2>2. p \in S => committed[p] <= pos[w][p]
    BY <1>1, <1>2, Zenon DEF GroupInv, PositionsAhead
  <2> QED
    BY <1>3, <2>1, <2>2
<1>6. \A r \in Rec : Valid(r) /\ r[1] \in held[w] /\ r[2] <= pos[w][r[1]] => counted[r] >= 1
  BY <1>2, SMTT(30) DEF CountInv, PolledIsSafe, FlushedIsCounted, TypeOK
<1>7. \A r \in Rec : Valid(r) /\ r[2] <= committed[r[1]] => counted[r] >= 1
  BY Zenon DEF CountInv, AtLeastOnce
<1>8. ASSUME NEW p \in Partitions PROVE Delivery!Settled(p, committed'[p])
  BY <1>1, <1>3, <1>6, <1>7, Zenon DEF Delivery!Settled
<1> QED
  BY <1>2, <1>4, <1>5, <1>8, Zenon DEF Delivery!Next, Delivery!Commit

LEMMA DeliveryStep ==
  ASSUME HasStore, TypeOK, GroupInv, CountInv, BatchIsValid, [Next]_vars
  PROVE  [Delivery!Next]_(Delivery!vars)
<1>1. ASSUME NEW w \in Workers, FlushStore(w) PROVE Delivery!Next
  BY <1>1, FlushCounts, Zenon DEF GroupInv
<1>2. ASSUME NEW w \in Workers, Commit(w) \/ CommitFail(w) PROVE Delivery!Next
  BY <1>2, CommitSettles, Zenon
<1>3. ASSUME NEW w \in Workers,
             \/ PollRecords(w) \/ PollTimeout(w) \/ PollError(w) \/ Stop(w) \/ LeaveLoop(w)
             \/ FlushEmpty(w) \/ StoreDone(w) \/ FlushFail(w) \/ IncrBy(w)
             \/ CommitFenced(w) \/ Close(w) \/ Kill(w) \/ Crash(w) \/ Restart(w) \/ Evict(w) \/ Rejoin(w)
             \/ \E p \in Partitions : Assign(p, w) \/ Revoke(p, w)
      PROVE  UNCHANGED <<committed, counted>>
  BY <1>3, Zenon DEF PollRecords, PollTimeout, PollError, Stop, LeaveLoop, FlushEmpty, StoreDone,
              FlushFail, IncrBy, CommitFenced, Close, Kill, Crash, Exit, Restart, Evict, Rejoin,
              Assign, Revoke
<1>4. CASE UNCHANGED vars
  BY <1>4, Zenon DEF vars, Delivery!vars
<1> QED
  BY <1>1, <1>2, <1>3, <1>4, Zenon DEF Next, Delivery!vars

\* The consumer with its pods, group and faults implements the abstract
\* at-least-once delivery, for every log and any number of pods: what
\* flushAndCommit writes and commits is at every step what EventDelivery
\* allows.
THEOREM DeliveryImplemented ==
  ASSUME HasStore PROVE Spec => ImplementsDelivery
<1>1. Init => Delivery!Init
  BY Zenon DEF Init, Delivery!Init, EmptyBatch
<1>2. Init => BatchIsValid
  BY DEF Init, BatchIsValid, EmptyBatch
<1>3. TypeOK /\ GroupInv /\ CountInv /\ BatchIsValid /\ [Next]_vars
        => [Delivery!Next]_(Delivery!vars)
  BY DeliveryStep, Zenon
<1> QED
  BY <1>1, <1>2, <1>3, GroupSafe, CountSafe, NextBatchIsValid, PTL
     DEF Spec, ImplementsDelivery, Delivery!Spec
-----------------------------------------------------------------------------
(* Extra counts: a budget for every event.                                 *)

\* A pod that will count an event again, or may: it has it in a batch that is
\* not written yet, or it has been evicted, does not know, and has still to
\* poll the event.
Claim(w, r) ==
  \/ agg[w][r] > 0 /\ pc[w] \notin Flushed
  \/ ~member[w] /\ r[1] \in held[w] /\ pos[w][r[1]] < r[2]

Claims(r) == {w \in Workers : Claim(w, r)}

\* The group will deliver the event: it is not committed, and the batch of no
\* member has it.
Deliverable(r) ==
  /\ committed[r[1]] < r[2]
  /\ \A w \in Workers : member[w] => agg[w][r] = 0

Bit(b) == IF b THEN 1 ELSE 0

\* What a step of pod w leaves alone.
Alone(w) ==
  \A v \in Workers \ {w} :
    /\ pc'[v] = pc[v] /\ agg'[v] = agg[v] /\ member'[v] = member[v]
    /\ held'[v] = held[v] /\ pos'[v] = pos[v]

\* A step of pod w stays in the budget if what it adds to the count, to the
\* pod's claim and to the group's is paid for.
Balanced(w, r) ==
  counted'[r] + Bit(Claim(w, r)') + Bit(Deliverable(r)') + faults + cancels
    <= counted[r] + Bit(Claim(w, r)) + Bit(Deliverable(r)) + faults' + cancels'

\* A step that raises no claim costs nothing; one that raises one of the two
\* is paid for by a fault or a cancelled call.
LEMMA FreeStep ==
  ASSUME TypeOK, NEW w \in Workers, NEW r \in Rec,
         counted'[r] = counted[r], faults' = faults, cancels' = cancels,
         Claim(w, r)' => Claim(w, r), Deliverable(r)' => Deliverable(r)
  PROVE  Balanced(w, r)
<1>1. counted[r] \in Nat /\ faults \in Nat /\ cancels \in Nat
  BY Zenon DEF TypeOK
<1>2. /\ Bit(Claim(w, r)') \in {0, 1} /\ Bit(Claim(w, r)) \in {0, 1}
      /\ Bit(Deliverable(r)') \in {0, 1} /\ Bit(Deliverable(r)) \in {0, 1}
      /\ Bit(Claim(w, r)') = 1 => Bit(Claim(w, r)) = 1
      /\ Bit(Deliverable(r)') = 1 => Bit(Deliverable(r)) = 1
  BY Zenon DEF Bit
<1> QED
  BY <1>1, <1>2 DEF Balanced

LEMMA PaidStep ==
  ASSUME TypeOK, NEW w \in Workers, NEW r \in Rec,
         counted'[r] = counted[r],
         \/ faults' = faults + 1 /\ cancels' = cancels
         \/ faults' = faults /\ cancels' = cancels + 1,
         \/ Claim(w, r)' => Claim(w, r)
         \/ Deliverable(r)' => Deliverable(r)
  PROVE  Balanced(w, r)
<1>1. counted[r] \in Nat /\ faults \in Nat /\ cancels \in Nat
  BY Zenon DEF TypeOK
<1>2. /\ Bit(Claim(w, r)') \in {0, 1} /\ Bit(Claim(w, r)) \in {0, 1}
      /\ Bit(Deliverable(r)') \in {0, 1} /\ Bit(Deliverable(r)) \in {0, 1}
      /\ \/ Bit(Claim(w, r)') = 1 => Bit(Claim(w, r)) = 1
         \/ Bit(Deliverable(r)') = 1 => Bit(Deliverable(r)) = 1
  BY Zenon DEF Bit
<1> QED
  BY <1>1, <1>2, SMTT(30) DEF Balanced

\* What the others hold does not change, so a step of pod w makes an event
\* deliverable only by taking it out of its own batch.
LEMMA DeliverableStep ==
  ASSUME TypeOK, NEW w \in Workers, NEW r \in Rec, Alone(w),
         committed'[r[1]] \in Nat, committed'[r[1]] >= committed[r[1]],
         member[w] => agg[w][r] = 0
  PROVE  Deliverable(r)' => Deliverable(r)
<1>1. r[1] \in Partitions /\ r[2] \in Nat
  BY RecType, Zenon
<1>2. committed[r[1]] \in Nat
  BY <1>1, Zenon DEF TypeOK
<1>3. ASSUME Deliverable(r)' PROVE committed[r[1]] < r[2]
  BY <1>1, <1>2, <1>3, SMTT(30) DEF Deliverable
<1>4. ASSUME Deliverable(r)' PROVE \A v \in Workers : member[v] => agg[v][r] = 0
  BY <1>4, Zenon DEF Deliverable, Alone
<1> QED
  BY <1>3, <1>4, Zenon DEF Deliverable

\* Steps that change where the pod is and nothing else of the above.
LEMMA QuietBalanced ==
  ASSUME TypeOK, NEW w \in Workers, NEW r \in Rec,
         UNCHANGED <<agg, held, pos, member, committed, counted, faults, cancels>>,
         \A v \in Workers \ {w} : pc'[v] = pc[v],
         pc[w] \in Flushed /\ agg[w][r] > 0 => pc'[w] \in Flushed
  PROVE  Alone(w) /\ Balanced(w, r)
<1>1. Alone(w)
  BY Zenon DEF Alone
<1>2. Claim(w, r)' => Claim(w, r)
  BY Zenon DEF Claim
<1>3. Deliverable(r)' => Deliverable(r)
  BY Zenon DEF Deliverable
<1> QED
  BY <1>1, <1>2, <1>3, FreeStep, Zenon

LEMMA PollBalanced ==
  ASSUME TypeOK, GroupInv, NEW w \in Workers, NEW r \in Rec, PollRecords(w)
  PROVE  Alone(w) /\ Balanced(w, r)
<1>1. PICK np \in PollTargets(w) :
        /\ agg' = [agg EXCEPT ![w] = Add(agg[w], Delivered(w, np))]
        /\ pos' = [pos EXCEPT ![w] = np]
        /\ Goto(w, "flush") \/ UNCHANGED pc
  BY Zenon DEF PollRecords
<1>2. UNCHANGED <<held, member, committed, counted, faults, cancels>> /\ pc[w] = "poll"
  BY Zenon DEF PollRecords
<1>3. /\ np \in [Partitions -> Nat]
      /\ \A p \in Partitions : /\ pos[w][p] <= np[p]
                               /\ p \notin held[w] => np[p] = pos[w][p]
  BY PollTargetsType, Zenon
<1>4. Alone(w) /\ pc'[w] \in {"poll", "flush"}
  BY <1>1, <1>2, Zenon DEF Alone, TypeOK
<1>5. pos'[w] = np /\ agg'[w] = Add(agg[w], Delivered(w, np))
  BY <1>1, Zenon DEF TypeOK
<1>6. r[1] \in Partitions /\ r[2] \in Nat /\ pos[w][r[1]] \in Nat /\ agg[w][r] \in Nat
        /\ np[r[1]] \in Nat /\ committed[r[1]] \in Nat
  BY <1>3, RecType, SMTT(30) DEF TypeOK
<1>7. CASE r \notin Delivered(w, np)
  <2>1. agg'[w][r] = agg[w][r]
    BY <1>5, <1>7, Zenon DEF Add
  <2>2. Claim(w, r)' => Claim(w, r)
    BY <1>2, <1>3, <1>5, <1>6, <2>1, SMTT(30) DEF Claim, Flushed
  <2>3. Deliverable(r)' => Deliverable(r)
    BY <1>2, <1>4, <2>1, Zenon DEF Deliverable, Alone
  <2> QED
    BY <1>2, <1>4, <2>2, <2>3, FreeStep, Zenon
<1>8. CASE r \in Delivered(w, np)
  <2>1. r[1] \in held[w] /\ pos[w][r[1]] < r[2]
    BY <1>8, Zenon DEF Delivered
  <2>2. agg[w][r] = 0 /\ agg'[w][r] = 1
    <3>1. ~(r[2] <= pos[w][r[1]])
      BY <1>6, <2>1
    <3>2. ~(agg[w][r] > 0)
      BY <3>1, Zenon DEF GroupInv, PendingBatchIsOwn
    <3> QED
      BY <1>5, <1>6, <1>8, <3>2 DEF Add
  <2>3. CASE ~member[w]
    <3>1. Claim(w, r)
      BY <2>1, <2>3, Zenon DEF Claim
    <3>2. Deliverable(r)' => Deliverable(r)
      BY <1>2, <1>4, <1>6, <2>3, DeliverableStep, SMTT(30)
    <3> QED
      BY <1>2, <1>4, <3>1, <3>2, FreeStep, Zenon
  <2>4. CASE member[w]
    <3>1. Deliverable(r)
      <4>1. committed[r[1]] < r[2]
        BY <1>6, <2>1, <2>4, SMTT(30) DEF GroupInv, PositionsAhead
      <4>2. ASSUME NEW v \in Workers, member[v] PROVE agg[v][r] = 0
        <5>1. v # w => r[1] \notin held[v]
          BY <1>6, <2>1, <2>4, <4>2, SMTT(30) DEF GroupInv, OwnersAgree
        <5>2. v # w => ~(agg[v][r] > 0)
          BY <5>1, Zenon DEF GroupInv, PendingBatchIsOwn
        <5> QED
          BY <2>2, <5>2, SMTT(30) DEF TypeOK
      <4> QED
        BY <4>1, <4>2, Zenon DEF Deliverable
    <3>2. ~Deliverable(r)'
      BY <1>2, <2>2, <2>4, SMTT(30) DEF Deliverable
    <3>3. ~Claim(w, r)
      BY <1>6, <2>2, <2>4 DEF Claim
    <3>4. /\ Bit(Deliverable(r)) = 1 /\ Bit(Deliverable(r)') = 0
          /\ Bit(Claim(w, r)) = 0 /\ Bit(Claim(w, r)') \in {0, 1}
      BY <3>1, <3>2, <3>3, Zenon DEF Bit
    <3> QED
      BY <1>2, <1>4, <3>4, SMTT(30) DEF Balanced, TypeOK
  <2> QED
    BY <2>3, <2>4, Zenon
<1> QED
  BY <1>7, <1>8, Zenon

\* The upsert turns the pod's claim into a count.
LEMMA StoreBalanced ==
  ASSUME TypeOK, GroupInv, NEW w \in Workers, NEW r \in Rec, FlushStore(w)
  PROVE  Alone(w) /\ Balanced(w, r)
<1>1. /\ UNCHANGED <<agg, held, pos, member, committed, faults, cancels>>
      /\ pc[w] = "flush" /\ pc' = [pc EXCEPT ![w] = "stored"]
      /\ counted'[r] = counted[r] + agg[w][r]
  BY Zenon DEF FlushStore, AddRollups
<1>2. Alone(w) /\ pc'[w] = "stored"
  BY <1>1, Zenon DEF Alone, TypeOK
<1>3. Deliverable(r)' <=> Deliverable(r)
  BY <1>1, Zenon DEF Deliverable
<1>4. agg[w][r] \in Nat /\ counted[r] \in Nat /\ faults \in Nat /\ cancels \in Nat
  BY Zenon DEF TypeOK
<1>5. CASE agg[w][r] = 0
  <2>1. Claim(w, r)' => Claim(w, r)
    BY <1>1, <1>5, SMTT(30) DEF Claim
  <2> QED
    BY <1>1, <1>2, <1>3, <1>4, <1>5, <2>1, FreeStep, SMTT(30)
<1>6. CASE agg[w][r] > 0
  <2>1. agg[w][r] = 1 /\ r[2] <= pos[w][r[1]] /\ r[2] \in Nat /\ pos[w][r[1]] \in Nat
    BY <1>6, RecType, SMTT(30) DEF GroupInv, PendingBatchIsOwn, TypeOK
  <2>2. Claim(w, r) /\ ~Claim(w, r)'
    BY <1>1, <1>2, <1>6, <2>1, SMTT(30) DEF Claim, Flushed
  <2>3. /\ Bit(Claim(w, r)) = 1 /\ Bit(Claim(w, r)') = 0
        /\ Bit(Deliverable(r)') = Bit(Deliverable(r)) /\ Bit(Deliverable(r)) \in {0, 1}
    BY <1>3, <2>2, Zenon DEF Bit
  <2> QED
    BY <1>1, <1>2, <1>4, <2>1, <2>3, SMTT(30) DEF Balanced
<1> QED
  BY <1>4, <1>5, <1>6, SMTT(30)

LEMMA FlushFailBalanced ==
  ASSUME TypeOK, NEW w \in Workers, NEW r \in Rec, FlushFail(w)
  PROVE  Alone(w) /\ Balanced(w, r)
<1>1. UNCHANGED <<agg, held, pos, member, committed, counted>>
  BY Zenon DEF FlushFail
<1>2. Alone(w)
  BY <1>1, Zenon DEF FlushFail, Alone, TypeOK
<1>3. Deliverable(r)' => Deliverable(r)
  BY <1>1, Zenon DEF Deliverable
<1>4. \/ faults' = faults + 1 /\ cancels' = cancels
      \/ faults' = faults /\ cancels' = cancels + 1
  BY Zenon DEF FlushFail, CallFails
<1> QED
  BY <1>1, <1>2, <1>3, <1>4, PaidStep, Zenon

\* A commit moves the partition past the events of the batch; one that fails
\* leaves them deliverable, and is a fault; one that is fenced is not the
\* group's business.
LEMMA CommitBalanced ==
  ASSUME TypeOK, GroupInv, NEW w \in Workers, NEW r \in Rec,
         Commit(w) \/ CommitFail(w) \/ CommitFenced(w)
  PROVE  Alone(w) /\ Balanced(w, r)
<1>1. /\ UNCHANGED <<held, pos, member, counted>>
      /\ pc[w] = "commit" /\ ResetAndAllow(w)
  BY Zenon DEF Commit, CommitFail, CommitFenced
<1>2. Alone(w) /\ agg'[w][r] = 0
  BY <1>1, Zenon DEF ResetAndAllow, Alone, TypeOK, EmptyBatch
<1>3. Claim(w, r)' => Claim(w, r)
  BY <1>1, <1>2 DEF Claim
<1>4. committed'[r[1]] \in Nat /\ committed'[r[1]] >= committed[r[1]]
  BY CommitGroupInv, RecType, Zenon
<1>5. CASE Commit(w)
  <2>1. UNCHANGED <<faults, cancels>> /\ member[w] /\ CommitUpTo(w, held[w])
    BY <1>5, Zenon DEF Commit
  <2>2. CASE agg[w][r] = 0
    <3>1. Deliverable(r)' => Deliverable(r)
      BY <1>2, <1>4, <2>2, DeliverableStep, ZenonT(60)
    <3> QED
      BY <1>1, <1>2, <1>3, <2>1, <3>1, FreeStep, Zenon
  <2>3. CASE agg[w][r] # 0
    <3>1. /\ r[1] \in held[w] /\ r[2] <= pos[w][r[1]]
          /\ r[1] \in Partitions /\ r[2] \in Nat /\ pos[w][r[1]] \in Nat
      <4>1. agg[w][r] > 0
        BY <2>3, SMTT(30) DEF TypeOK
      <4> QED
        BY <4>1, RecType, SMTT(30) DEF GroupInv, PendingBatchIsOwn, TypeOK
    <3>2. committed'[r[1]] = pos[w][r[1]]
      BY <2>1, <3>1, Zenon DEF CommitUpTo
    <3>3. ~Deliverable(r)'
      BY <3>1, <3>2, SMTT(30) DEF Deliverable
    <3> QED
      BY <1>1, <1>2, <1>3, <2>1, <3>3, FreeStep, ZenonT(60)
  <2> QED
    BY <2>2, <2>3, Zenon
<1>6. CASE CommitFail(w)
  <2>1. \/ faults' = faults + 1 /\ cancels' = cancels
        \/ faults' = faults /\ cancels' = cancels + 1
    BY <1>6, Zenon DEF CommitFail, CallFails
  <2> QED
    BY <1>1, <1>2, <1>3, <2>1, PaidStep, Zenon
<1>7. CASE CommitFenced(w)
  <2>1. UNCHANGED <<faults, cancels>> /\ ~member[w]
    BY <1>7, Zenon DEF CommitFenced
  <2>2. Deliverable(r)' => Deliverable(r)
    BY <1>2, <1>4, <2>1, DeliverableStep, Zenon
  <2> QED
    BY <1>1, <1>2, <1>3, <2>1, <2>2, FreeStep, ZenonT(60)
<1> QED
  BY <1>5, <1>6, <1>7, Zenon

\* A pod that closes or is killed gives its claim back to the group; one that crashes is a
\* fault.
LEMMA ExitBalanced ==
  ASSUME TypeOK, GroupInv, NEW w \in Workers, NEW r \in Rec, Close(w) \/ Kill(w) \/ Crash(w)
  PROVE  Alone(w) /\ Balanced(w, r)
<1>1. Exit(w)
  BY Zenon DEF Close, Kill, Crash
<1>2. Alone(w) /\ agg'[w][r] = 0 /\ held'[w] = {} /\ UNCHANGED <<committed, counted, cancels>>
  BY <1>1, Zenon DEF Exit, Alone, TypeOK, EmptyBatch
<1>3. ~Claim(w, r)'
  BY <1>2, SMTT(30) DEF Claim
<1>4. CASE Crash(w)
  BY <1>2, <1>3, <1>4, PaidStep, ZenonT(60) DEF Crash
<1>5. CASE (Close(w) \/ Kill(w)) /\ agg[w][r] = 0
  <2>1. Deliverable(r)' => Deliverable(r)
    <3>1. committed'[r[1]] \in Nat /\ committed'[r[1]] >= committed[r[1]]
      BY <1>2, RecType, SMTT(30) DEF TypeOK
    <3> QED
      BY <1>2, <1>5, <3>1, DeliverableStep, Zenon
  <2> QED
    BY <1>2, <1>3, <1>5, <2>1, FreeStep, Zenon DEF Close, Kill
<1>6. CASE (Close(w) \/ Kill(w)) /\ agg[w][r] # 0
  <2>1. Claim(w, r)
    BY <1>6 DEF Close, Kill, Claim, Flushed, TypeOK
  <2>2. /\ Bit(Claim(w, r)) = 1 /\ Bit(Claim(w, r)') = 0
        /\ Bit(Deliverable(r)') \in {0, 1} /\ Bit(Deliverable(r)) \in {0, 1}
    BY <1>3, <2>1, Zenon DEF Bit
  <2> QED
    <3>1. counted[r] \in Nat /\ faults \in Nat /\ cancels \in Nat
      BY Zenon DEF TypeOK
    <3>2. faults' = faults
      BY <1>6, Zenon DEF Close, Kill
    <3> QED
      BY <1>2, <2>2, <3>1, <3>2, SMTT(30) DEF Balanced
<1> QED
  BY <1>4, <1>5, <1>6, Zenon

\* An eviction is a fault: the pod may still poll the event, or it leaves the
\* group with the event in its batch.
LEMMA MembershipBalanced ==
  ASSUME TypeOK, GroupInv, NEW w \in Workers, NEW r \in Rec,
         Restart(w) \/ Evict(w) \/ Rejoin(w)
  PROVE  Alone(w) /\ Balanced(w, r)
<1>1. Alone(w) /\ UNCHANGED <<agg, committed, counted, cancels>>
  BY Zenon DEF Restart, Evict, Rejoin, Alone, TypeOK
<1>2. /\ r[1] \in Partitions /\ r[2] \in Nat /\ agg[w][r] \in Nat
      /\ committed'[r[1]] \in Nat /\ committed'[r[1]] >= committed[r[1]]
  BY <1>1, RecType, SMTT(30) DEF TypeOK
<1>3. CASE Evict(w)
  <2>1. faults' = faults + 1 /\ UNCHANGED <<pc, held, pos>>
    BY <1>3, Zenon DEF Evict
  <2>2. CASE agg[w][r] = 0
    <3>1. Deliverable(r)' => Deliverable(r)
      BY <1>1, <1>2, <2>2, DeliverableStep, Zenon
    <3> QED
      BY <1>1, <2>1, <3>1, PaidStep, Zenon
  <2>3. CASE agg[w][r] > 0
    <3>1. r[2] <= pos[w][r[1]] /\ pos[w][r[1]] \in Nat
      BY <1>2, <2>3, SMTT(30) DEF GroupInv, PendingBatchIsOwn, TypeOK
    <3>2. ~(pos[w][r[1]] < r[2])
      BY <1>2, <3>1, SMTT(30)
    <3>3. Claim(w, r)' => Claim(w, r)
      BY <1>1, <2>1, <3>2, Zenon DEF Claim
    <3> QED
      BY <1>1, <2>1, <3>3, PaidStep, Zenon
  <2> QED
    BY <1>2, <2>2, <2>3
<1>4. CASE Restart(w) \/ Rejoin(w)
  <2>1. faults' = faults /\ held'[w] = {}
    BY <1>4, Zenon DEF Restart, Rejoin, GroupInv, DownHoldsNothing, TypeOK
  <2>2. ~(agg[w][r] > 0)
    <3>1. held[w] = {} \/ ~blocked[w]
      BY <1>4, Zenon DEF Restart, Rejoin, GroupInv, DownHoldsNothing
    <3> QED
      BY <3>1, ZenonT(60) DEF GroupInv, PendingBatchIsOwn
  <2>3. ~Claim(w, r)'
    BY <1>1, <2>1, <2>2, ZenonT(60) DEF Claim
  <2>4. Deliverable(r)' => Deliverable(r)
    BY <1>1, <1>2, <2>2, DeliverableStep, SMTT(30)
  <2> QED
    BY <1>1, <2>1, <2>3, <2>4, FreeStep, Zenon
<1> QED
  BY <1>3, <1>4, Zenon

\* Only a pod without a batch loses a partition to a rebalance.
LEMMA AssignmentBalanced ==
  ASSUME TypeOK, GroupInv, NEW w \in Workers, NEW p \in Partitions, NEW r \in Rec,
         Assign(p, w) \/ Revoke(p, w)
  PROVE  Alone(w) /\ Balanced(w, r)
<1>1. /\ Alone(w) /\ member[w]
      /\ UNCHANGED <<pc, agg, member, committed, counted, faults, cancels>>
  BY SMTT(30) DEF Assign, Revoke, Alone, TypeOK
<1>2. Claim(w, r)' => Claim(w, r)
  BY <1>1, ZenonT(60) DEF Claim
<1>3. Deliverable(r)' => Deliverable(r)
  BY <1>1, Zenon DEF Deliverable
<1> QED
  BY <1>1, <1>2, <1>3, FreeStep, Zenon

\* Every step of the system is a step of one pod, and in that pod's budget.
Covered(r) == \E w \in Workers : Alone(w) /\ Balanced(w, r)

LEMMA StepCovered ==
  ASSUME TypeOK, GroupInv, Next, NEW r \in Rec
  PROVE  Covered(r)
<1>1. ASSUME NEW w \in Workers, PollRecords(w) PROVE Covered(r)
  BY <1>1, PollBalanced, Zenon DEF Covered
<1>2. ASSUME NEW w \in Workers,
             \/ PollTimeout(w) \/ PollError(w) \/ Stop(w) \/ LeaveLoop(w)
             \/ FlushEmpty(w) \/ StoreDone(w) \/ IncrBy(w)
      PROVE  Covered(r)
  <2>1. UNCHANGED <<agg, held, pos, member, committed, counted, faults, cancels>>
    BY <1>2, Zenon DEF PollTimeout, PollError, Stop, LeaveLoop, FlushEmpty, StoreDone, IncrBy
  <2>2. \A v \in Workers \ {w} : pc'[v] = pc[v]
    BY <1>2, ZenonT(60) DEF PollTimeout, PollError, Stop, LeaveLoop, FlushEmpty, StoreDone, IncrBy, TypeOK
  <2>3. pc[w] \in Flushed => pc'[w] \in Flushed
    BY <1>2, ZenonT(60) DEF PollTimeout, PollError, Stop, LeaveLoop, FlushEmpty, StoreDone, IncrBy, TypeOK,
                Flushed
  <2> QED
    BY <2>1, <2>2, <2>3, QuietBalanced, Zenon DEF Covered
<1>3. ASSUME NEW w \in Workers, FlushStore(w) PROVE Covered(r)
  BY <1>3, StoreBalanced, Zenon DEF Covered
<1>4. ASSUME NEW w \in Workers, FlushFail(w) PROVE Covered(r)
  BY <1>4, FlushFailBalanced, Zenon DEF Covered
<1>5. ASSUME NEW w \in Workers, Commit(w) \/ CommitFail(w) \/ CommitFenced(w) PROVE Covered(r)
  BY <1>5, CommitBalanced, Zenon DEF Covered
<1>6. ASSUME NEW w \in Workers, Close(w) \/ Kill(w) \/ Crash(w) PROVE Covered(r)
  BY <1>6, ExitBalanced, Zenon DEF Covered
<1>7. ASSUME NEW w \in Workers, Restart(w) \/ Evict(w) \/ Rejoin(w) PROVE Covered(r)
  BY <1>7, MembershipBalanced, Zenon DEF Covered
<1>8. ASSUME NEW w \in Workers, NEW p \in Partitions, Assign(p, w) \/ Revoke(p, w)
       PROVE  Covered(r)
  BY <1>8, AssignmentBalanced, Zenon DEF Covered
<1> QED
  BY <1>1, <1>2, <1>3, <1>4, <1>5, <1>6, <1>7, <1>8, Zenon DEF Next
-----------------------------------------------------------------------------
(* The budget is kept.                                                     *)

\* Instantiated here, not extended: nothing above needs it.
LOCAL INSTANCE FiniteSetTheorems

\* A finite set with and without one of its elements.
LEMMA WithAndWithout ==
  ASSUME NEW S, IsFiniteSet(S), NEW w
  PROVE  /\ IsFiniteSet(S \ {w}) /\ Cardinality(S) \in Nat /\ Cardinality(S \ {w}) \in Nat
         /\ Cardinality(S) = Cardinality(S \ {w}) + (IF w \in S THEN 1 ELSE 0)
<1>1. Cardinality(S) \in Nat
  BY FS_CardinalityType, Zenon
<1>2. /\ IsFiniteSet(S \ {w})
      /\ Cardinality(S \ {w}) = IF w \in S THEN Cardinality(S) - 1 ELSE Cardinality(S)
  BY FS_RemoveElement, Zenon
<1>3. Cardinality(S \ {w}) \in Nat
  BY <1>2, FS_CardinalityType, Zenon
<1> QED
  BY <1>1, <1>2, <1>3

\* A set that differs from a finite one in at most one element.
LEMMA OneElement ==
  ASSUME NEW S, IsFiniteSet(S), NEW T, NEW w, S \ {w} = T \ {w}
  PROVE  /\ IsFiniteSet(T) /\ Cardinality(S) \in Nat /\ Cardinality(T) \in Nat
         /\ Cardinality(T) + (IF w \in S THEN 1 ELSE 0) = Cardinality(S) + (IF w \in T THEN 1 ELSE 0)
<1>1. /\ IsFiniteSet(S \ {w}) /\ Cardinality(S) \in Nat
      /\ Cardinality(S) = Cardinality(S \ {w}) + (IF w \in S THEN 1 ELSE 0)
  BY WithAndWithout, Zenon
<1>2. IsFiniteSet(T)
  <2>1. IsFiniteSet((T \ {w}) \cup {w})
    BY <1>1, FS_AddElement, Zenon
  <2>2. T \subseteq (T \ {w}) \cup {w}
    OBVIOUS
  <2> QED
    BY <2>1, <2>2, FS_Subset, Zenon
<1>3. /\ Cardinality(T) \in Nat /\ Cardinality(T \ {w}) \in Nat
      /\ Cardinality(T) = Cardinality(T \ {w}) + (IF w \in T THEN 1 ELSE 0)
  BY <1>2, WithAndWithout, Zenon
<1> QED
  BY <1>1, <1>2, <1>3

\* Why extra counts need faults: what was counted, together with all that can
\* still be counted, is within the budget, and only a fault or a cancelled
\* call adds to the one or to the other.
InBudget(r) ==
  /\ IsFiniteSet(Claims(r))
  /\ counted[r] + Cardinality(Claims(r)) + Bit(Deliverable(r)) <= 1 + faults + cancels

BudgetInv == \A r \in Rec : InBudget(r)

LEMMA InitBudgetInv == Init => BudgetInv
<1> SUFFICES ASSUME Init, NEW r \in Rec PROVE InBudget(r)
  BY Zenon DEF BudgetInv
<1>1. Claims(r) = {}
  BY DEF Init, Claims, Claim, EmptyBatch
<1>2. counted[r] = 0 /\ faults = 0 /\ cancels = 0
  BY Zenon DEF Init, EmptyBatch
<1> QED
  BY <1>1, <1>2, FS_EmptySet, SMTT(30) DEF InBudget, Bit

LEMMA BalancedStep ==
  ASSUME TypeOK, NEW w \in Workers, NEW r \in Rec, InBudget(r), Alone(w), Balanced(w, r),
         counted'[r] \in Nat, faults' \in Nat, cancels' \in Nat
  PROVE  InBudget(r)'
<1>1. Claims(r) \ {w} = Claims(r)' \ {w}
  BY ZenonT(60) DEF Alone, Claims, Claim
<1>2. /\ IsFiniteSet(Claims(r)') /\ Cardinality(Claims(r)) \in Nat /\ Cardinality(Claims(r)') \in Nat
      /\ Cardinality(Claims(r)') + Bit(w \in Claims(r)) = Cardinality(Claims(r)) + Bit(w \in Claims(r)')
  <2>1. IsFiniteSet(Claims(r))
    BY Zenon DEF InBudget
  <2> QED
    BY <1>1, <2>1, OneElement, Zenon DEF Bit
<1>3. Bit(w \in Claims(r)) = Bit(Claim(w, r)) /\ Bit(w \in Claims(r)') = Bit(Claim(w, r)')
  BY Zenon DEF Claims, Bit
<1>4. counted[r] \in Nat /\ faults \in Nat /\ cancels \in Nat
  BY Zenon DEF TypeOK
<1>5. counted'[r] + Cardinality(Claims(r)') + Bit(Deliverable(r)') <= 1 + faults' + cancels'
  <2>1. /\ Bit(Deliverable(r)) \in Nat /\ Bit(Deliverable(r)') \in Nat
        /\ Bit(Claim(w, r)) \in Nat /\ Bit(Claim(w, r)') \in Nat
    BY Zenon DEF Bit
  <2> QED
    BY <1>2, <1>3, <1>4, <2>1, SMTT(30) DEF Balanced, InBudget
<1>6. IsFiniteSet(Claims(r))' /\ (counted[r] + Cardinality(Claims(r)) + Bit(Deliverable(r)) <= 1 + faults + cancels)'
  BY <1>2, <1>5, Zenon DEF Bit
<1> QED
  BY <1>6, Zenon DEF InBudget

LEMMA NextBudgetInv ==
  TypeOK /\ TypeOK' /\ GroupInv /\ BudgetInv /\ [Next]_vars => BudgetInv'
<1>1. TypeOK' => \A r \in Rec : counted'[r] \in Nat /\ faults' \in Nat /\ cancels' \in Nat
  BY Zenon DEF TypeOK
<1> SUFFICES ASSUME TypeOK, GroupInv, BudgetInv, [Next]_vars, NEW r \in Rec,
                    counted'[r] \in Nat, faults' \in Nat, cancels' \in Nat
             PROVE  InBudget(r)'
  BY <1>1, Zenon DEF BudgetInv
<1>2. InBudget(r)
  BY Zenon DEF BudgetInv
<1>3. CASE Next
  BY <1>2, <1>3, StepCovered, BalancedStep, Zenon DEF Covered
<1>4. CASE UNCHANGED vars
  BY <1>2, <1>4, Zenon DEF vars, InBudget, Claims, Claim, Deliverable
<1> QED
  BY <1>3, <1>4, Zenon

\* Every extra count of an event is paid for by a fault or a cancelled call, for
\* any number of pods: neither rebalances, nor a pod that closes with a batch it
\* could not write, nor the evicted pods that go on polling count an event more
\* often than that.
THEOREM ExtraCountsPaid == Spec => []ExtraCountsNeedFaults
<1>1. TypeOK /\ BudgetInv => ExtraCountsNeedFaults
  <2> SUFFICES ASSUME TypeOK, BudgetInv, NEW r \in Rec
               PROVE  counted[r] <= 1 + faults + cancels
    BY Zenon DEF ExtraCountsNeedFaults
  <2>1. Cardinality(Claims(r)) \in Nat /\ InBudget(r)
    BY FS_CardinalityType, Zenon DEF BudgetInv, InBudget
  <2> QED
    BY <2>1 DEF InBudget, Bit, TypeOK
<1> QED
  BY <1>1, GroupSafe, InitBudgetInv, NextBudgetInv, PTL DEF Spec
=============================================================================
