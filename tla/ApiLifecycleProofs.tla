------------------------- MODULE ApiLifecycleProofs -------------------------
(***************************************************************************)
(* Proofs about the life of an API process: EventProducer, whose Close is  *)
(* a part of it, for any set of requests, any buffer size and any number   *)
(* of faults; SchemaMigration for any number of runs, of releases with any *)
(* number of migrations, and any number of failures; that ApiLifecycle     *)
(* implements it; and ApiLifecycle for any number of requests in flight.   *)
(***************************************************************************)
EXTENDS EventProducer, ApiLifecycle, FiniteSetTheorems, TLAPS

(* EventProducer.                                                          *)


\* Why an event implies its item: a create handler is at Publish only after
\* the row is in the store.
PublishesStored ==
  \A r \in Creates : pc[r] \in {"publish", "produce"} => r \in items

ItemInv == EventFollowsItem /\ PublishesStored

\* Why a record is counted once: no label before the handler has left Publish,
\* and none while the record is buffered.
UncountedYet ==
  \A r \in Requests :
    /\ pc[r] # "done" => result[r] = "none" /\ r \notin buffer
    /\ r \in buffer => result[r] = "none"

\* Why a clean stop delivers: without a timeout no handler is left when Flush
\* starts, so no record comes late, and Close finds an empty buffer; until then
\* what was answered with 202 is buffered or its callback has run.
StopInv ==
  /\ phase \in {"flushing", "closed"} /\ ~cut => Idle
  /\ phase = "exited" => Idle
  /\ phase \in {"closed", "exited"} => buffer = {}
  /\ \A r \in Events :
       ~cut /\ response[r] = "202" /\ result[r] # "backpressure" =>
         r \in buffer \/ topic[r] > 0 \/ (faults > 0 /\ result[r] = "error")

\* Why the bound holds: the buffer is finite, so Cardinality counts it.
BufferInv == IsFiniteSet(buffer) /\ BufferBounded
-----------------------------------------------------------------------------
(* Type correctness.                                                       *)

LEMMA TypeInit == Init => TypeOK
<1> SUFFICES ASSUME Init PROVE TypeOK
  OBVIOUS
<1>1. cut \in BOOLEAN
  BY Zenon DEF Init
<1>2. faults \in 0..MaxFaults
  BY ProducerAssumption DEF ProducerAssumption, Init
<1> QED
  BY <1>1, <1>2, Zenon DEF Init, TypeOK, Responses, Results, Phases

LEMMA TypeNext == TypeOK /\ [Next]_vars => TypeOK'
<1> SUFFICES ASSUME TypeOK, [Next]_vars PROVE TypeOK'
  OBVIOUS
<1> USE ProducerAssumption DEF ProducerAssumption, TypeOK, Responses, Results,
      Phases, Requests, Reply, Count, Fault, Published
<1>1. ASSUME NEW r \in Requests, publishEvent(r) PROVE TypeOK'
  BY <1>1, Zenon DEF publishEvent
<1>2. ASSUME NEW r \in Requests, createItem(r) PROVE TypeOK'
  BY <1>2, Zenon DEF createItem
<1>3. ASSUME NEW r \in Requests, Insert(r) PROVE TypeOK'
  BY <1>3, Zenon DEF Insert
<1>4. ASSUME NEW r \in Requests, InsertFail(r) PROVE TypeOK'
  BY <1>4 DEF InsertFail
<1>5. ASSUME NEW r \in Requests, Publish(r) PROVE TypeOK'
  BY <1>5, Zenon DEF Publish
<1>6. ASSUME NEW r \in Requests, TryProduce(r) PROVE TypeOK'
  BY <1>6, Zenon DEF TryProduce
<1>7. ASSUME NEW r \in Requests, AppendRecord(r) PROVE TypeOK'
  BY <1>7, Zenon DEF AppendRecord
<1>8. ASSUME NEW r \in Requests, Resend(r) PROVE TypeOK'
  BY <1>8 DEF Resend
<1>9. ASSUME NEW r \in Requests, Acked(r) PROVE TypeOK'
  BY <1>9, Zenon DEF Acked
<1>10. ASSUME NEW r \in Requests, Refused(r) PROVE TypeOK'
  BY <1>10 DEF Refused
<1>11. CASE Shutdown
  BY <1>11, Zenon DEF Shutdown
<1>12. CASE Drained
  BY <1>12, Zenon DEF Drained
<1>13. CASE Closed
  BY <1>13, Zenon DEF Closed
<1>14. CASE Exit
  BY <1>14, Zenon DEF Exit
<1>15. CASE Crash
  BY <1>15, Zenon DEF Crash
<1>16. CASE UNCHANGED vars
  BY <1>16, Zenon DEF vars
<1> QED
  BY <1>1, <1>2, <1>3, <1>4, <1>5, <1>6, <1>7, <1>8, <1>9, <1>10, <1>11, <1>12, <1>13, <1>14, <1>15, <1>16 DEF Next, Done

\* Every variable of the pod keeps its type; in particular publishEvent never
\* answers 502, since Publish has no other error than ErrBackpressure.
THEOREM TypeCorrect == Spec => []TypeOK
  BY TypeInit, TypeNext, PTL DEF Spec
-----------------------------------------------------------------------------
(* The bound of the produce buffer.                                        *)

LEMMA BufferInit == Init => BufferInv
  BY ProducerAssumption, FS_EmptySet
  DEF ProducerAssumption, Init, BufferInv, BufferBounded

LEMMA BufferNext == TypeOK /\ BufferInv /\ [Next]_vars => BufferInv'
<1> SUFFICES ASSUME TypeOK, BufferInv, [Next]_vars PROVE BufferInv'
  OBVIOUS
<1> USE ProducerAssumption DEF ProducerAssumption, BufferInv, BufferBounded
<1>1. ASSUME NEW r \in Requests, publishEvent(r) PROVE BufferInv'
  BY <1>1, Zenon DEF publishEvent
<1>2. ASSUME NEW r \in Requests, createItem(r) PROVE BufferInv'
  BY <1>2, Zenon DEF createItem
<1>3. ASSUME NEW r \in Requests, Insert(r) PROVE BufferInv'
  BY <1>3, Zenon DEF Insert
<1>4. ASSUME NEW r \in Requests, InsertFail(r) PROVE BufferInv'
  BY <1>4, Zenon DEF InsertFail
<1>5. ASSUME NEW r \in Requests, Publish(r) PROVE BufferInv'
  BY <1>5, Zenon DEF Publish
<1>6. ASSUME NEW r \in Requests, TryProduce(r) PROVE BufferInv'
  <2>1. CASE buffer' = buffer
    BY <2>1, Zenon
  <2>2. CASE ~Full /\ buffer' = buffer \cup {r}
    <3>1. IsFiniteSet(buffer') /\ Cardinality(buffer') <= Cardinality(buffer) + 1
      BY <2>2, FS_AddElement, FS_CardinalityType
    <3>2. Cardinality(buffer) < MaxBuffered
      BY <2>2, FS_CardinalityType DEF Full
    <3> QED
      BY <3>1, <3>2, FS_CardinalityType
  <2> QED
    BY <1>6, <2>1, <2>2, Zenon DEF TryProduce
<1>7. ASSUME NEW r \in Requests, AppendRecord(r) PROVE BufferInv'
  BY <1>7, Zenon DEF AppendRecord
<1>8. ASSUME NEW r \in Requests, Resend(r) PROVE BufferInv'
  BY <1>8, Zenon DEF Resend
<1>9. ASSUME NEW r \in Requests, Acked(r) PROVE BufferInv'
  <2>1. IsFiniteSet(buffer \ {r}) /\ Cardinality(buffer \ {r}) <= Cardinality(buffer)
    BY FS_RemoveElement, FS_CardinalityType
  <2> QED
    BY <1>9, <2>1, FS_CardinalityType DEF Acked
<1>10. ASSUME NEW r \in Requests, Refused(r) PROVE BufferInv'
  <2>1. IsFiniteSet(buffer \ {r}) /\ Cardinality(buffer \ {r}) <= Cardinality(buffer)
    BY FS_RemoveElement, FS_CardinalityType
  <2> QED
    BY <1>10, <2>1, FS_CardinalityType DEF Refused
<1>11. CASE Shutdown
  BY <1>11, Zenon DEF Shutdown
<1>12. CASE Drained
  BY <1>12, Zenon DEF Drained
<1>13. CASE Closed
  BY <1>13, FS_EmptySet DEF Closed
<1>14. CASE Exit
  BY <1>14, Zenon DEF Exit
<1>15. CASE Crash
  BY <1>15, FS_EmptySet DEF Crash
<1>16. CASE UNCHANGED vars
  BY <1>16, Zenon DEF vars
<1> QED
  BY <1>1, <1>2, <1>3, <1>4, <1>5, <1>6, <1>7, <1>8, <1>9, <1>10, <1>11, <1>12, <1>13, <1>14, <1>15, <1>16, Zenon DEF Next, Done

\* For every maxBuffered and any number of handlers that pass the test of
\* Publish at the same time, the produce buffer stays within maxBuffered.
THEOREM BufferSafe == Spec => []BufferBounded
<1>1. BufferInv => BufferBounded
  BY Zenon DEF BufferInv
<1> QED
  BY <1>1, BufferInit, BufferNext, TypeCorrect, PTL DEF Spec
-----------------------------------------------------------------------------
(* An event implies its item.                                              *)

LEMMA ItemInit == Init => ItemInv
  BY DEF Init, ItemInv, EventFollowsItem, PublishesStored, Requests

LEMMA ItemNext == TypeOK /\ ItemInv /\ [Next]_vars => ItemInv'
<1> SUFFICES ASSUME TypeOK, ItemInv, [Next]_vars PROVE ItemInv'
  OBVIOUS
<1> USE ProducerAssumption DEF ProducerAssumption, TypeOK, ItemInv,
      EventFollowsItem, PublishesStored, Requests, Reply, Published
<1>1. ASSUME NEW r \in Requests, publishEvent(r) PROVE ItemInv'
  BY <1>1, Zenon DEF publishEvent
<1>2. ASSUME NEW r \in Requests, createItem(r) PROVE ItemInv'
  BY <1>2, Zenon DEF createItem
<1>3. ASSUME NEW r \in Requests, Insert(r) PROVE ItemInv'
  BY <1>3, Zenon DEF Insert
<1>4. ASSUME NEW r \in Requests, InsertFail(r) PROVE ItemInv'
  BY <1>4, Zenon DEF InsertFail
<1>5. ASSUME NEW r \in Requests, Publish(r) PROVE ItemInv'
  BY <1>5, Zenon DEF Publish
<1>6. ASSUME NEW r \in Requests, TryProduce(r) PROVE ItemInv'
  BY <1>6, Zenon DEF TryProduce
<1>7. ASSUME NEW r \in Requests, AppendRecord(r) PROVE ItemInv'
  BY <1>7, Zenon DEF AppendRecord
<1>8. ASSUME NEW r \in Requests, Resend(r) PROVE ItemInv'
  BY <1>8, Zenon DEF Resend
<1>9. ASSUME NEW r \in Requests, Acked(r) PROVE ItemInv'
  BY <1>9, Zenon DEF Acked
<1>10. ASSUME NEW r \in Requests, Refused(r) PROVE ItemInv'
  BY <1>10, Zenon DEF Refused
<1>11. CASE Shutdown
  BY <1>11, Zenon DEF Shutdown
<1>12. CASE Drained
  BY <1>12, Zenon DEF Drained
<1>13. CASE Closed
  BY <1>13, Zenon DEF Closed
<1>14. CASE Exit
  BY <1>14, Zenon DEF Exit
<1>15. CASE Crash
  BY <1>15, Zenon DEF Crash
<1>16. CASE UNCHANGED vars
  BY <1>16, Zenon DEF vars
<1> QED
  BY <1>1, <1>2, <1>3, <1>4, <1>5, <1>6, <1>7, <1>8, <1>9, <1>10, <1>11, <1>12, <1>13, <1>14, <1>15, <1>16, Zenon DEF Next, Done

\* For every set of requests: createItem's event is buffered or in the topic,
\* and its 201 is sent, only when the row exists.
THEOREM EventsFollowItems == Spec => []EventFollowsItem
<1>1. ItemInv => EventFollowsItem
  BY Zenon DEF ItemInv
<1> QED
  BY <1>1, ItemInit, ItemNext, TypeCorrect, PTL DEF Spec
-----------------------------------------------------------------------------
(* Each record is counted once.                                            *)

LEMMA UncountedInit == Init => UncountedYet
  BY Zenon DEF Init, UncountedYet

LEMMA UncountedNext == TypeOK /\ UncountedYet /\ [Next]_vars => UncountedYet'
<1> SUFFICES ASSUME TypeOK, UncountedYet, [Next]_vars PROVE UncountedYet'
  OBVIOUS
<1> USE DEF TypeOK, UncountedYet, Reply, Count, Published
<1>1. ASSUME NEW r \in Requests, publishEvent(r) PROVE UncountedYet'
  BY <1>1, Zenon DEF publishEvent
<1>2. ASSUME NEW r \in Requests, createItem(r) PROVE UncountedYet'
  BY <1>2, Zenon DEF createItem
<1>3. ASSUME NEW r \in Requests, Insert(r) PROVE UncountedYet'
  BY <1>3, Zenon DEF Insert
<1>4. ASSUME NEW r \in Requests, InsertFail(r) PROVE UncountedYet'
  BY <1>4, Zenon DEF InsertFail
<1>5. ASSUME NEW r \in Requests, Publish(r) PROVE UncountedYet'
  BY <1>5, Zenon DEF Publish
<1>6. ASSUME NEW r \in Requests, TryProduce(r) PROVE UncountedYet'
  BY <1>6 DEF TryProduce
<1>7. ASSUME NEW r \in Requests, AppendRecord(r) PROVE UncountedYet'
  BY <1>7, Zenon DEF AppendRecord
<1>8. ASSUME NEW r \in Requests, Resend(r) PROVE UncountedYet'
  BY <1>8, Zenon DEF Resend
<1>9. ASSUME NEW r \in Requests, Acked(r) PROVE UncountedYet'
  BY <1>9, Zenon DEF Acked
<1>10. ASSUME NEW r \in Requests, Refused(r) PROVE UncountedYet'
  BY <1>10, Zenon DEF Refused
<1>11. CASE Shutdown
  BY <1>11, Zenon DEF Shutdown
<1>12. CASE Drained
  BY <1>12, Zenon DEF Drained
<1>13. CASE Closed
  BY <1>13, Zenon DEF Closed
<1>14. CASE Exit
  BY <1>14, Zenon DEF Exit
<1>15. CASE Crash
  BY <1>15, Zenon DEF Crash
<1>16. CASE UNCHANGED vars
  BY <1>16, Zenon DEF vars
<1> QED
  BY <1>1, <1>2, <1>3, <1>4, <1>5, <1>6, <1>7, <1>8, <1>9, <1>10, <1>11, <1>12, <1>13, <1>14, <1>15, <1>16, Zenon DEF Next, Done

CountStep ==
  \A r \in Requests :
    /\ result[r] # "none" => result'[r] = result[r]
    /\ r \in buffer' => result'[r] = "none"

LEMMA CountStepNext == TypeOK /\ UncountedYet /\ [Next]_vars => CountStep
<1> SUFFICES ASSUME TypeOK, UncountedYet, [Next]_vars PROVE CountStep
  OBVIOUS
<1> USE DEF TypeOK, UncountedYet, CountStep, Reply, Count, Published
<1>1. ASSUME NEW r \in Requests, publishEvent(r) PROVE CountStep
  BY <1>1, Zenon DEF publishEvent
<1>2. ASSUME NEW r \in Requests, createItem(r) PROVE CountStep
  BY <1>2, Zenon DEF createItem
<1>3. ASSUME NEW r \in Requests, Insert(r) PROVE CountStep
  BY <1>3, Zenon DEF Insert
<1>4. ASSUME NEW r \in Requests, InsertFail(r) PROVE CountStep
  BY <1>4, Zenon DEF InsertFail
<1>5. ASSUME NEW r \in Requests, Publish(r) PROVE CountStep
  BY <1>5, Zenon DEF Publish
<1>6. ASSUME NEW r \in Requests, TryProduce(r) PROVE CountStep
  BY <1>6, Zenon DEF TryProduce
<1>7. ASSUME NEW r \in Requests, AppendRecord(r) PROVE CountStep
  BY <1>7, Zenon DEF AppendRecord
<1>8. ASSUME NEW r \in Requests, Resend(r) PROVE CountStep
  BY <1>8, Zenon DEF Resend
<1>9. ASSUME NEW r \in Requests, Acked(r) PROVE CountStep
  BY <1>9, Zenon DEF Acked
<1>10. ASSUME NEW r \in Requests, Refused(r) PROVE CountStep
  BY <1>10, Zenon DEF Refused
<1>11. CASE Shutdown
  BY <1>11, Zenon DEF Shutdown
<1>12. CASE Drained
  BY <1>12, Zenon DEF Drained
<1>13. CASE Closed
  BY <1>13, Zenon DEF Closed
<1>14. CASE Exit
  BY <1>14, Zenon DEF Exit
<1>15. CASE Crash
  BY <1>15, Zenon DEF Crash
<1>16. CASE UNCHANGED vars
  BY <1>16, Zenon DEF vars
<1> QED
  BY <1>1, <1>2, <1>3, <1>4, <1>5, <1>6, <1>7, <1>8, <1>9, <1>10, <1>11, <1>12, <1>13, <1>14, <1>15, <1>16, Zenon DEF Next, Done

\* For every instance, no step counts a record a second time or counts one
\* that is still buffered.
THEOREM CountedOnceAlways == Spec => CountedOnce
<1>1. TypeOK /\ UncountedYet /\ [Next]_vars => [CountStep]_vars
  BY CountStepNext, Zenon
<1>2. Spec => [][CountStep]_vars
  BY <1>1, UncountedInit, UncountedNext, TypeCorrect, PTL DEF Spec
<1> QED
  BY <1>2, PTL DEF CountedOnce, CountStep
-----------------------------------------------------------------------------
(* A clean stop delivers.                                                  *)

LEMMA StopInit == Init => StopInv
  BY Zenon DEF Init, StopInv, Requests

LEMMA StopNext == TypeOK /\ StopInv /\ [Next]_vars => StopInv'
<1> SUFFICES ASSUME TypeOK, StopInv, [Next]_vars PROVE StopInv'
  OBVIOUS
<1> USE ProducerAssumption DEF ProducerAssumption, TypeOK, StopInv, Idle, Requests,
      Reply, Count, Fault, Published
<1>1. ASSUME NEW r \in Requests, publishEvent(r) PROVE StopInv'
  BY <1>1, Zenon DEF publishEvent
<1>2. ASSUME NEW r \in Requests, createItem(r) PROVE StopInv'
  BY <1>2, Zenon DEF createItem
<1>3. ASSUME NEW r \in Requests, Insert(r) PROVE StopInv'
  BY <1>3, Zenon DEF Insert
<1>4. ASSUME NEW r \in Requests, InsertFail(r) PROVE StopInv'
  BY <1>4 DEF InsertFail
<1>5. ASSUME NEW r \in Requests, Publish(r) PROVE StopInv'
  BY <1>5, Zenon DEF Publish
<1>6. ASSUME NEW r \in Requests, TryProduce(r) PROVE StopInv'
  BY <1>6, Zenon DEF TryProduce
<1>7. ASSUME NEW r \in Requests, AppendRecord(r) PROVE StopInv'
  BY <1>7, Zenon DEF AppendRecord
<1>8. ASSUME NEW r \in Requests, Resend(r) PROVE StopInv'
  BY <1>8 DEF Resend
<1>9. ASSUME NEW r \in Requests, Acked(r) PROVE StopInv'
  BY <1>9, Zenon DEF Acked
<1>10. ASSUME NEW r \in Requests, Refused(r) PROVE StopInv'
  BY <1>10 DEF Refused
<1>11. CASE Shutdown
  BY <1>11, Zenon DEF Shutdown
<1>12. CASE Drained
  BY <1>12, Zenon DEF Drained
<1>13. CASE Closed
  BY <1>13, Zenon DEF Closed
<1>14. CASE Exit
  BY <1>14, Zenon DEF Exit
<1>15. CASE Crash
  BY <1>15, Zenon DEF Crash
<1>16. CASE UNCHANGED vars
  BY <1>16, Zenon DEF vars
<1> QED
  BY <1>1, <1>2, <1>3, <1>4, <1>5, <1>6, <1>7, <1>8, <1>9, <1>10, <1>11, <1>12, <1>13, <1>14, <1>15, <1>16 DEF Next, Done

\* For every set of requests, buffer size and number of faults: when neither
\* Shutdown nor Flush ran into its timeout, every event answered with 202 is in
\* the topic, unless it met a full buffer or the broker refused it.
THEOREM CleanStopSafe == Spec => []CleanStopDelivers
<1>1. StopInv => CleanStopDelivers
  BY Zenon DEF StopInv, CleanStopDelivers
<1> QED
  BY <1>1, StopInit, StopNext, TypeCorrect, PTL DEF Spec
-----------------------------------------------------------------------------
(* SchemaMigration and ApiLifecycle.                                       *)

\* A session between the lock and the unlock has the lock.
Holding == {"table", "check", "exec", "insert", "commit", "unlock"}
LockInv == \A r \in Runs : point[r] \in Holding => lock = r

\* Everything before the migration a run is at is applied.  The run that has
\* the lock and found its migration missing is at the first that is not: nobody
\* else can apply one meanwhile.
AtInv ==
  \A r \in Runs :
    /\ idx[r] <= Len(applied) + 1
    /\ point[r] \in {"exec", "insert", "commit"} =>
         idx[r] = Len(applied) + 1 /\ idx[r] <= Files[r]
    /\ point[r] \in {"unlock", "ok"} /\ ~err[r] => idx[r] = Files[r] + 1
    /\ point[r] = "ok" => ~err[r]

MigrateInv == MigrateTypeOK /\ LockInv /\ AppliedExactlyOnce /\ AtInv

LEMMA InitInv == MigrateInit => MigrateInv
<1> SUFFICES ASSUME MigrateInit PROVE MigrateInv
  OBVIOUS
<1> USE MigrationAssumption DEF MigrateInit
<1>1. applied \in Seq(Nat) /\ Len(applied) = 0
  OBVIOUS
<1>a. err \in [Runs -> BOOLEAN] /\ gone \in [Runs -> BOOLEAN] /\ table \in BOOLEAN
  OBVIOUS
<1>b. \A r \in Runs : idx[r] = 1 /\ point[r] = "start" /\ Files[r] \in Nat
  OBVIOUS
<1>c. idx \in [Runs -> Nat \ {0}] /\ \A r \in Runs : idx[r] <= Files[r] + 1
  BY <1>b
<1>d. point \in [Runs -> {"start", "lock", "table", "check", "exec", "insert",
                     "commit", "unlock", "ok", "failed"}]
  OBVIOUS
<1>e. lock \in Runs \cup {Free} /\ versions \subseteq Nat
  OBVIOUS
<1>2. MigrateTypeOK
  BY <1>1, <1>a, <1>c, <1>d, <1>e, Zenon DEF MigrateTypeOK
<1>3. LockInv /\ AppliedExactlyOnce
  BY <1>1 DEF LockInv, Holding, AppliedExactlyOnce
<1> HIDE DEF MigrateInit
<1>4. AtInv
  <2> SUFFICES ASSUME NEW r \in Runs
               PROVE  /\ idx[r] <= Len(applied) + 1
                      /\ point[r] \notin {"exec", "insert", "commit", "unlock", "ok"}
    BY Zenon DEF AtInv
  <2>1. idx[r] <= Len(applied) + 1
    BY <1>1, <1>b
  <2>2. point[r] \notin {"exec", "insert", "commit", "unlock", "ok"}
    BY <1>b, Zenon
  <2> QED
    BY <2>1, <2>2, Zenon
<1> QED
  BY <1>2, <1>3, <1>4, Zenon DEF MigrateInv

LEMMA MigrateTypeNext ==
  ASSUME MigrateTypeOK, AtInv, [MigrateNext]_migrateVars
  PROVE  MigrateTypeOK'
<1> USE MigrationAssumption
<1>1. ASSUME NEW r \in Runs, Acquire(r) PROVE MigrateTypeOK'
  BY <1>1, Zenon DEF Acquire, Advance, server, MigrateTypeOK
<1>2. ASSUME NEW r \in Runs, Grant(r) PROVE MigrateTypeOK'
  BY <1>2, Zenon DEF Grant, Advance, server, MigrateTypeOK
<1>3. ASSUME NEW r \in Runs, CreateTable(r) PROVE MigrateTypeOK'
  <2>1. table' \in BOOLEAN
    BY <1>3, Zenon DEF CreateTable
  <2> QED
    BY <1>3, <2>1, Zenon DEF CreateTable, Advance, MigrateTypeOK
<1>4. ASSUME NEW r \in Runs, CheckVersion(r) PROVE MigrateTypeOK'
  <2>1. point' \in [Runs -> {"start", "lock", "table", "check", "exec", "insert",
                        "commit", "unlock", "ok", "failed"}]
    BY <1>4 DEF CheckVersion, Advance, MigrateTypeOK
  <2>2. idx' \in [Runs -> Nat \ {0}] /\ \A o \in Runs : idx'[o] <= Files[o] + 1
    <3>1. Files[r] \in Nat /\ idx[r] \in Nat \ {0}
      BY Zenon DEF MigrateTypeOK
    <3>2. CASE UNCHANGED idx
      BY <3>2, Zenon DEF MigrateTypeOK
    <3>3. CASE idx[r] <= Files[r] /\ idx' = [idx EXCEPT ![r] = @ + 1]
      BY <3>1, <3>3 DEF MigrateTypeOK
    <3> QED
      BY <1>4, <3>2, <3>3, Zenon DEF CheckVersion
  <2> QED
    BY <1>4, <2>1, <2>2, Zenon DEF CheckVersion, server, MigrateTypeOK
<1>5. ASSUME NEW r \in Runs, Exec(r) PROVE MigrateTypeOK'
  BY <1>5, Zenon DEF Exec, Advance, server, MigrateTypeOK
<1>6. ASSUME NEW r \in Runs, InsertVersion(r) PROVE MigrateTypeOK'
  BY <1>6, Zenon DEF InsertVersion, Advance, server, MigrateTypeOK
<1>7. ASSUME NEW r \in Runs, Fail(r) PROVE MigrateTypeOK'
  <2>1. err' \in [Runs -> BOOLEAN]
    BY <1>7, Zenon DEF Fail, MigrateTypeOK
  <2>2. point' \in [Runs -> {"start", "lock", "table", "check", "exec", "insert",
                        "commit", "unlock", "ok", "failed"}]
    BY <1>7, Zenon DEF Fail, MigrateTypeOK
  <2> QED
    BY <1>7, <2>1, <2>2, Zenon DEF Fail, server, MigrateTypeOK
<1>8. ASSUME NEW r \in Runs, Commit(r) PROVE MigrateTypeOK'
  <2>1. idx[r] \in Nat \ {0} /\ Files[r] \in Nat /\ idx[r] <= Files[r] /\ point[r] = "commit"
    BY <1>8, Zenon DEF Commit, Advance, MigrateTypeOK, AtInv
  <2>2. idx' \in [Runs -> Nat \ {0}] /\ \A o \in Runs : idx'[o] <= Files[o] + 1
    BY <1>8, <2>1 DEF Commit, MigrateTypeOK
  <2>3. applied' \in Seq(Nat)
    BY <1>8, <2>1 DEF Commit, MigrateTypeOK
  <2>4. versions' \subseteq Nat
    BY <1>8, <2>1, Zenon DEF Commit, MigrateTypeOK
  <2> QED
    BY <1>8, <2>2, <2>3, <2>4, Zenon DEF Commit, Advance, MigrateTypeOK
<1>9. ASSUME NEW r \in Runs, Unlock(r) PROVE MigrateTypeOK'
  BY <1>9, Zenon DEF Unlock, Advance, server, MigrateTypeOK
<1>10. ASSUME NEW r \in Runs, Lose(r) PROVE MigrateTypeOK'
  BY <1>10, Zenon DEF Lose, Advance, server, MigrateTypeOK
<1>11. ASSUME NEW r \in Runs, SessionEnds(r) PROVE MigrateTypeOK'
  BY <1>11, Zenon DEF SessionEnds, Advance, server, MigrateTypeOK
<1>12. CASE UNCHANGED migrateVars
  BY <1>12, Zenon DEF migrateVars, MigrateTypeOK
<1> QED
  BY <1>1, <1>2, <1>3, <1>4, <1>5, <1>6, <1>7, <1>8, <1>9, <1>10, <1>11, <1>12, Zenon DEF MigrateNext, Progress, Rest

LEMMA LockNext ==
  ASSUME MigrateTypeOK, LockInv, [MigrateNext]_migrateVars
  PROVE  LockInv'
<1> USE MigrationAssumption
<1>1. ASSUME NEW r \in Runs, Acquire(r) PROVE LockInv'
  BY <1>1, Zenon DEF Acquire, Advance, server, MigrateTypeOK, LockInv, Holding
<1>2. ASSUME NEW r \in Runs, Grant(r) PROVE LockInv'
  BY <1>2, Zenon DEF Grant, Advance, server, MigrateTypeOK, LockInv, Holding
<1>3. ASSUME NEW r \in Runs, CreateTable(r) PROVE LockInv'
  BY <1>3, Zenon DEF CreateTable, Advance, server, MigrateTypeOK, LockInv, Holding
<1>4. ASSUME NEW r \in Runs, CheckVersion(r) PROVE LockInv'
  BY <1>4, Zenon DEF CheckVersion, Advance, server, MigrateTypeOK, LockInv, Holding
<1>5. ASSUME NEW r \in Runs, Exec(r) PROVE LockInv'
  BY <1>5, Zenon DEF Exec, Advance, server, MigrateTypeOK, LockInv, Holding
<1>6. ASSUME NEW r \in Runs, InsertVersion(r) PROVE LockInv'
  BY <1>6, Zenon DEF InsertVersion, Advance, server, MigrateTypeOK, LockInv, Holding
<1>7. ASSUME NEW r \in Runs, Fail(r) PROVE LockInv'
  BY <1>7, Zenon DEF Fail, Advance, server, MigrateTypeOK, LockInv, Holding
<1>8. ASSUME NEW r \in Runs, Commit(r) PROVE LockInv'
  BY <1>8, Zenon DEF Commit, Advance, server, MigrateTypeOK, LockInv, Holding
<1>9. ASSUME NEW r \in Runs, Unlock(r) PROVE LockInv'
  BY <1>9, Zenon DEF Unlock, Advance, server, MigrateTypeOK, LockInv, Holding
<1>10. ASSUME NEW r \in Runs, Lose(r) PROVE LockInv'
  BY <1>10, Zenon DEF Lose, Advance, server, MigrateTypeOK, LockInv, Holding
<1>11. ASSUME NEW r \in Runs, SessionEnds(r) PROVE LockInv'
  BY <1>11, Zenon DEF SessionEnds, Advance, server, MigrateTypeOK, LockInv, Holding
<1>12. CASE UNCHANGED migrateVars
  BY <1>12, Zenon DEF migrateVars, MigrateTypeOK, LockInv, Holding
<1> QED
  BY <1>1, <1>2, <1>3, <1>4, <1>5, <1>6, <1>7, <1>8, <1>9, <1>10, <1>11, <1>12, Zenon DEF MigrateNext, Progress, Rest

LEMMA AppliedNext ==
  ASSUME MigrateTypeOK, AppliedExactlyOnce, AtInv, [MigrateNext]_migrateVars
  PROVE  AppliedExactlyOnce'
<1> USE MigrationAssumption
<1>1. ASSUME NEW r \in Runs, Acquire(r) PROVE AppliedExactlyOnce'
  BY <1>1, Zenon DEF Acquire, Advance, server, AppliedExactlyOnce
<1>2. ASSUME NEW r \in Runs, Grant(r) PROVE AppliedExactlyOnce'
  BY <1>2, Zenon DEF Grant, Advance, server, AppliedExactlyOnce
<1>3. ASSUME NEW r \in Runs, CreateTable(r) PROVE AppliedExactlyOnce'
  BY <1>3, Zenon DEF CreateTable, Advance, server, AppliedExactlyOnce
<1>4. ASSUME NEW r \in Runs, CheckVersion(r) PROVE AppliedExactlyOnce'
  BY <1>4, Zenon DEF CheckVersion, Advance, server, AppliedExactlyOnce
<1>5. ASSUME NEW r \in Runs, Exec(r) PROVE AppliedExactlyOnce'
  BY <1>5, Zenon DEF Exec, Advance, server, AppliedExactlyOnce
<1>6. ASSUME NEW r \in Runs, InsertVersion(r) PROVE AppliedExactlyOnce'
  BY <1>6, Zenon DEF InsertVersion, Advance, server, AppliedExactlyOnce
<1>7. ASSUME NEW r \in Runs, Fail(r) PROVE AppliedExactlyOnce'
  BY <1>7, Zenon DEF Fail, Advance, server, AppliedExactlyOnce
<1>8. ASSUME NEW r \in Runs, Commit(r) PROVE AppliedExactlyOnce'
  <2>1. applied' = Append(applied, Len(applied) + 1) /\ versions' = versions \cup {Len(applied) + 1}
    BY <1>8, Zenon DEF Commit, Advance, AtInv
  <2>2. applied \in Seq(Nat)
    BY Zenon DEF MigrateTypeOK
  <2> QED
    BY <2>1, <2>2 DEF AppliedExactlyOnce
<1>9. ASSUME NEW r \in Runs, Unlock(r) PROVE AppliedExactlyOnce'
  BY <1>9, Zenon DEF Unlock, Advance, server, AppliedExactlyOnce
<1>10. ASSUME NEW r \in Runs, Lose(r) PROVE AppliedExactlyOnce'
  BY <1>10, Zenon DEF Lose, Advance, server, AppliedExactlyOnce
<1>11. ASSUME NEW r \in Runs, SessionEnds(r) PROVE AppliedExactlyOnce'
  BY <1>11, Zenon DEF SessionEnds, Advance, server, AppliedExactlyOnce
<1>12. CASE UNCHANGED migrateVars
  BY <1>12, Zenon DEF migrateVars, AppliedExactlyOnce
<1> QED
  BY <1>1, <1>2, <1>3, <1>4, <1>5, <1>6, <1>7, <1>8, <1>9, <1>10, <1>11, <1>12, Zenon DEF MigrateNext, Progress, Rest

LEMMA AtNext ==
  ASSUME MigrateTypeOK, LockInv, AppliedExactlyOnce, AtInv, [MigrateNext]_migrateVars
  PROVE  AtInv'
<1> USE MigrationAssumption
<1>1. ASSUME NEW r \in Runs, Acquire(r) PROVE AtInv'
  BY <1>1, Zenon DEF Acquire, Advance, server, MigrateTypeOK, AtInv
<1>2. ASSUME NEW r \in Runs, Grant(r) PROVE AtInv'
  BY <1>2, Zenon DEF Grant, Advance, server, MigrateTypeOK, AtInv
<1>3. ASSUME NEW r \in Runs, CreateTable(r) PROVE AtInv'
  BY <1>3, Zenon DEF CreateTable, Advance, server, MigrateTypeOK, AtInv
<1>4. ASSUME NEW r \in Runs, CheckVersion(r) PROVE AtInv'
  <2> SUFFICES ASSUME NEW o \in Runs
               PROVE  /\ idx'[o] <= Len(applied) + 1
                      /\ point'[o] \in {"exec", "insert", "commit"} =>
                           idx'[o] = Len(applied) + 1 /\ idx'[o] <= Files[o]
                      /\ point'[o] \in {"unlock", "ok"} /\ ~err[o] => idx'[o] = Files[o] + 1
                      /\ point'[o] = "ok" => ~err[o]
    BY <1>4, Zenon DEF CheckVersion, server, AtInv
  <2>0. Len(applied) \in Nat /\ versions = 1..Len(applied) /\ idx[r] \in Nat \ {0}
        /\ Files[r] \in Nat /\ idx[r] <= Files[r] + 1 /\ idx[r] <= Len(applied) + 1
    BY DEF MigrateTypeOK, AppliedExactlyOnce, AtInv
  <2>1. CASE o # r
    BY <1>4, <2>1, Zenon DEF CheckVersion, Advance, AtInv, MigrateTypeOK
  <2>2. CASE o = r /\ idx[r] > Files[r] /\ Advance(r, "check", "unlock") /\ UNCHANGED idx
    BY <1>4, <2>0, <2>2 DEF Advance, MigrateTypeOK
  <2>3. CASE o = r /\ idx[r] \in versions /\ point[r] = "check" /\ UNCHANGED point
             /\ idx' = [idx EXCEPT ![r] = @ + 1]
    BY <1>4, <2>0, <2>3 DEF MigrateTypeOK
  <2>4. CASE o = r /\ idx[r] <= Files[r] /\ idx[r] \notin versions
             /\ Advance(r, "check", "exec") /\ UNCHANGED idx
    BY <1>4, <2>0, <2>4 DEF Advance, MigrateTypeOK
  <2> QED
    BY <1>4, <2>1, <2>2, <2>3, <2>4, Zenon DEF CheckVersion
<1>5. ASSUME NEW r \in Runs, Exec(r) PROVE AtInv'
  BY <1>5, Zenon DEF Exec, Advance, server, MigrateTypeOK, AtInv
<1>6. ASSUME NEW r \in Runs, InsertVersion(r) PROVE AtInv'
  BY <1>6, Zenon DEF InsertVersion, Advance, server, MigrateTypeOK, AtInv
<1>7. ASSUME NEW r \in Runs, Fail(r) PROVE AtInv'
  BY <1>7, Zenon DEF Fail, Advance, server, MigrateTypeOK, AtInv
<1>8. ASSUME NEW r \in Runs, Commit(r) PROVE AtInv'
  <2>1. applied \in Seq(Nat) /\ Len(applied') = Len(applied) + 1
    BY <1>8 DEF Commit, MigrateTypeOK
  <2>2. \A o \in Runs : o # r => point[o] \notin Holding
    BY <1>8, Zenon DEF Commit, Advance, LockInv, Holding
  <2>3. idx[r] = Len(applied) + 1
    BY <1>8, Zenon DEF Commit, Advance, AtInv
  <2> QED
    BY <1>8, <2>1, <2>2, <2>3 DEF Commit, Advance, AtInv, MigrateTypeOK, Holding
<1>9. ASSUME NEW r \in Runs, Unlock(r) PROVE AtInv'
  BY <1>9, Zenon DEF Unlock, Advance, server, MigrateTypeOK, AtInv
<1>10. ASSUME NEW r \in Runs, Lose(r) PROVE AtInv'
  BY <1>10, Zenon DEF Lose, Advance, server, MigrateTypeOK, AtInv
<1>11. ASSUME NEW r \in Runs, SessionEnds(r) PROVE AtInv'
  BY <1>11, Zenon DEF SessionEnds, Advance, server, MigrateTypeOK, AtInv
<1>12. CASE UNCHANGED migrateVars
  BY <1>12, Zenon DEF migrateVars, MigrateTypeOK, AtInv
<1> QED
  BY <1>1, <1>2, <1>3, <1>4, <1>5, <1>6, <1>7, <1>8, <1>9, <1>10, <1>11, <1>12 DEF MigrateNext, Progress, Rest

LEMMA MigrateAlways == MigrateSpec => []MigrateInv
<1>1. MigrateInv /\ [MigrateNext]_migrateVars => MigrateInv'
  BY MigrateTypeNext, LockNext, AppliedNext, AtNext, Zenon DEF MigrateInv
<1> QED
  BY InitInv, <1>1, PTL DEF MigrateSpec

\* The types, and that Migrate never goes past the files of its release.
THEOREM MigrateTypeCorrect == MigrateSpec => []MigrateTypeOK
<1>1. MigrateInv => MigrateTypeOK
  BY Zenon DEF MigrateInv
<1> QED
  BY MigrateAlways, <1>1, PTL

\* Migrate applies the migrations in lexical order and exactly once, whatever
\* fails and however many processes run it.
THEOREM ExactlyOnce == MigrateSpec => []AppliedExactlyOnce
<1>1. MigrateInv => AppliedExactlyOnce
  BY Zenon DEF MigrateInv
<1> QED
  BY MigrateAlways, <1>1, PTL

\* The advisory lock keeps migrations apart.
THEOREM Exclusive == MigrateSpec => []OneAtATime
<1>1. MigrateInv => OneAtATime
  <2> SUFFICES ASSUME MigrateInv PROVE OneAtATime
    OBVIOUS
  <2>1. \A r, o \in InTransaction : r = o
    BY Zenon DEF MigrateInv, LockInv, Holding, InTransaction
  <2>2. \A r \in InTransaction : idx[r] \notin versions
    <3> SUFFICES ASSUME NEW r \in InTransaction PROVE idx[r] \notin versions
      OBVIOUS
    <3>1. idx[r] = Len(applied) + 1
      BY Zenon DEF MigrateInv, AtInv, InTransaction
    <3>2. versions = 1..Len(applied) /\ Len(applied) \in Nat
      BY DEF MigrateInv, AppliedExactlyOnce, MigrateTypeOK
    <3> QED
      BY <3>1, <3>2
  <2> QED
    BY <2>1, <2>2, Zenon DEF OneAtATime
<1> QED
  BY MigrateAlways, <1>1, PTL

\* When Migrate returns no error all the migrations of the release are there.
THEOREM SuccessIsComplete == MigrateSpec => []OkMeansMigrated
<1>1. MigrateInv => OkMeansMigrated
  BY MigrationAssumption DEF MigrateInv, AtInv, MigrateTypeOK, OkMeansMigrated
<1> QED
  BY MigrateAlways, <1>1, PTL
-----------------------------------------------------------------------------
(* The life of a replica                                                   *)

LEMMA LifeStep == [LifeNext]_allVars => [MigrateNext]_migrateVars
<1> SUFFICES ASSUME [LifeNext]_allVars PROVE [MigrateNext]_migrateVars
  OBVIOUS
<1>1. CASE MigrateLost
  BY <1>1, LifecycleAssumption, Zenon DEF MigrateLost, MigrateNext
<1>2. ASSUME NEW r \in Runs, Session(r) \/ Granted(r) \/ Fails(r) PROVE [MigrateNext]_migrateVars
  BY <1>2, Zenon DEF Session, Granted, Fails, MigrateNext
<1>3. CASE Ask \/ TimeUp
  BY <1>3, Zenon DEF Ask, TimeUp
<1>4. CASE Serve
  BY <1>4, Zenon DEF Serve, Boot, WaitForPostgres, MigrateReturns, Connect, StopServing, HttpDrained,
              GrpcDrained, MetricsDrained, ProcessEnds
<1>5. ASSUME NEW s \in Servers, Arrive(s) \/ Query(s) \/ QueryEnds(s) \/ AnswerRequest(s) \/ Break(s)
      PROVE  [MigrateNext]_migrateVars
  BY <1>5, Zenon DEF Arrive, Query, QueryEnds, AnswerRequest, Break
<1>6. CASE UNCHANGED allVars
  BY <1>6, Zenon DEF allVars
<1> QED
  BY <1>1, <1>2, <1>3, <1>4, <1>5, <1>6, Zenon DEF LifeNext

\* serve() calls Migrate as SchemaMigration has it, and nothing else it does
\* touches the schema: a signal is one more way to lose the client.
THEOREM LifecycleImplements == LifeSpec => MigrateSpec
<1>1. LifeInit => MigrateInit
  BY Zenon DEF LifeInit
<1> QED
  BY <1>1, LifeStep, PTL DEF LifeSpec, MigrateSpec

\* Migrations are never undone.
LEMMA AppliedGrows ==
  ASSUME MigrateInv, [MigrateNext]_migrateVars
  PROVE  Len(applied) \in Nat /\ Len(applied') \in Nat /\ Len(applied) <= Len(applied')
<1>1. applied \in Seq(Nat)
  BY Zenon DEF MigrateInv, MigrateTypeOK
<1>2. ASSUME NEW r \in Runs, Commit(r) PROVE Len(applied') = Len(applied) + 1
  BY <1>1, <1>2 DEF Commit
<1>3. (\E r \in Runs : Commit(r)) \/ applied' = applied
  BY Zenon DEF MigrateNext, Progress, Rest, migrateVars, server, Acquire, Grant, CreateTable, CheckVersion, Exec, InsertVersion,
         Fail, Unlock, Lose, SessionEnds
<1> QED
  BY <1>1, <1>2, <1>3

\* The schema is there from the return of Migrate on, and the exit code is 0
\* after the servers only when the signal ended them.
SchemaInv ==
  /\ database = "migrate" /\ (Started \/ Ended(0)) => Files[Pod] <= Len(applied)
  /\ life \in {"http", "grpc", "metrics", "closing", "exited"} /\ exit = 0 => asked

LEMMA SchemaNext ==
  ASSUME MigrateInv, SchemaInv, [LifeNext]_allVars
  PROVE  SchemaInv'
<1>1. Len(applied) \in Nat /\ Len(applied') \in Nat /\ Len(applied) <= Len(applied')
  BY LifeStep, AppliedGrows, Zenon
<1>2. Files[Pod] \in Nat /\ Pod \in Runs
  BY MigrationAssumption, LifecycleAssumption, Zenon
<1>3. point[Pod] = "ok" \/ (point[Pod] = "unlock" /\ ~err[Pod]) => Files[Pod] <= Len(applied)
  BY <1>1, <1>2 DEF MigrateInv, AtInv, MigrateTypeOK
<1> USE <1>1, <1>2 DEF SchemaInv, Started, Ended
<1>4. CASE MigrateLost
  BY <1>3, <1>4 DEF MigrateLost, Enter, Return1, conf
<1>5. CASE MigrateReturns
  BY <1>3, <1>5 DEF MigrateReturns, Enter, Return1, conf
<1>6. CASE UNCHANGED <<life, exit, conf>>
  BY <1>6 DEF conf
<1>7. CASE Boot \/ WaitForPostgres \/ Connect
  BY <1>7 DEF Boot, WaitForPostgres, Connect, Enter, Return1, conf
<1>8. CASE StopServing
  BY <1>8 DEF StopServing, conf
<1>9. CASE HttpDrained \/ GrpcDrained \/ MetricsDrained \/ ProcessEnds
  BY <1>9 DEF HttpDrained, GrpcDrained, MetricsDrained, ProcessEnds, Enter, conf
<1>10. CASE Ask
  BY <1>10 DEF Ask
<1>11. CASE TimeUp
  BY <1>6, <1>11, Zenon DEF TimeUp
<1>12. ASSUME NEW r \in Runs, Session(r) \/ Granted(r) \/ Fails(r) PROVE SchemaInv'
  BY <1>6, <1>12, Zenon DEF Session, Granted, Fails, lifeVars
<1>13. ASSUME NEW s \in Servers, Arrive(s) \/ Query(s) \/ QueryEnds(s) \/ AnswerRequest(s) \/ Break(s)
       PROVE  SchemaInv'
  BY <1>6, <1>13, Zenon DEF Arrive, Query, QueryEnds, AnswerRequest, Break
<1>14. CASE UNCHANGED allVars
  BY <1>6, <1>14, Zenon DEF allVars, lifeVars
<1> QED
  BY <1>4, <1>5, <1>7, <1>8, <1>9, <1>10, <1>11, <1>12, <1>13, <1>14, Zenon DEF LifeNext, Serve

\* A replica never serves without the migrations of its release, and its exit
\* code 0 means that it was told to stop.
THEOREM ReplicaServesMigrated == LifeSpec => []ServesOnlyMigrated
<1>1. LifeInit => SchemaInv
  BY Zenon DEF LifeInit, SchemaInv, Started, Ended
<1>2. SchemaInv => ServesOnlyMigrated
  BY Zenon DEF SchemaInv, ServesOnlyMigrated, Ended
<1>3. MigrateInv /\ SchemaInv /\ [LifeNext]_allVars => SchemaInv'
  BY SchemaNext, Zenon
<1> QED
  BY <1>1, <1>2, <1>3, LifecycleImplements, MigrateAlways, PTL DEF LifeSpec

Starting == {"boot", "wait", "migrate", "connect"}

\* A server accepts nothing from the moment its drain begins; once its drain has
\* ended it has no request in flight, unless the time was up.
DrainInv ==
  /\ open \subseteq Servers
  /\ busy \in [Servers -> Nat] /\ query \in [Servers -> Nat]
  /\ life \in Starting \cup {"exited"} => open = {} /\ \A s \in Servers : query[s] = 0
  /\ life \in Starting => \A s \in Servers : busy[s] = 0
  /\ life \in {"http", "grpc", "metrics", "closing"} => "http" \notin open
  /\ life \in {"grpc", "metrics", "closing"} =>
       "grpc" \notin open /\ (busy["http"] = 0 \/ expired)
  /\ life \in {"metrics", "closing"} =>
       "metrics" \notin open /\ (busy["grpc"] = 0 \/ expired)
  /\ life = "closing" => busy["metrics"] = 0 \/ expired
  /\ cutOff # {} => expired

LEMMA DrainNext ==
  ASSUME DrainInv, [LifeNext]_allVars
  PROVE  DrainInv'
<1> USE DEF DrainInv, Servers, Starting
<1>1. CASE MigrateLost
  BY <1>1, Zenon DEF MigrateLost, Enter, Return1, serveVars
<1>2. CASE Boot \/ WaitForPostgres \/ MigrateReturns \/ MetricsDrained
  BY <1>2, Zenon DEF Boot, WaitForPostgres, MigrateReturns, MetricsDrained, Enter, Return1, serveVars
<1>3. CASE Connect
  BY <1>3, Zenon DEF Connect, Enter, Return1
<1>4. CASE StopServing
  BY <1>4, Zenon DEF StopServing
<1>5. CASE HttpDrained
  BY <1>5, Zenon DEF HttpDrained, Enter
<1>6. CASE GrpcDrained
  BY <1>6 DEF GrpcDrained, Enter
<1>7. CASE ProcessEnds
  BY <1>7 DEF ProcessEnds, Enter
<1>8. CASE UNCHANGED <<life, serveVars>>
  BY <1>8, Zenon DEF serveVars
<1>9. CASE Ask
  BY <1>8, <1>9, Zenon DEF Ask
<1>10. CASE TimeUp
  BY <1>10, Zenon DEF TimeUp
<1>11. ASSUME NEW r \in Runs, Session(r) \/ Granted(r) \/ Fails(r) PROVE DrainInv'
  BY <1>8, <1>11, Zenon DEF Session, Granted, Fails, lifeVars
<1>12. ASSUME NEW s \in Servers, Arrive(s) PROVE DrainInv'
  BY <1>12 DEF Arrive
<1>13. ASSUME NEW s \in Servers, Query(s) PROVE DrainInv'
  BY <1>13 DEF Query
<1>14. ASSUME NEW s \in Servers, QueryEnds(s) PROVE DrainInv'
  BY <1>14 DEF QueryEnds
<1>15. ASSUME NEW s \in Servers, AnswerRequest(s) PROVE DrainInv'
  BY <1>15 DEF AnswerRequest
<1>16. ASSUME NEW s \in Servers, Break(s) PROVE DrainInv'
  BY <1>16, Zenon DEF Break
<1>17. CASE UNCHANGED allVars
  BY <1>8, <1>17, Zenon DEF allVars, lifeVars
<1> QED
  BY <1>1, <1>2, <1>3, <1>4, <1>5, <1>6, <1>7, <1>9, <1>10, <1>11, <1>12, <1>13, <1>14, <1>15,
     <1>16, <1>17, Zenon DEF LifeNext, Serve

\* The drain of serve(): before SHUTDOWN_TIMEOUT no request is cut off, and the
\* pool is closed only when none is left at any server.
THEOREM ReplicaDrains == LifeSpec => []DrainIsGraceful
<1>1. LifeInit => DrainInv
  BY DEF LifeInit, DrainInv, Starting, Servers
<1>2. DrainInv => DrainIsGraceful
  BY Zenon DEF DrainInv, DrainIsGraceful, Servers
<1>3. DrainInv /\ [LifeNext]_allVars => DrainInv'
  BY DrainNext, Zenon
<1> QED
  BY <1>1, <1>2, <1>3, PTL DEF LifeSpec
=============================================================================
