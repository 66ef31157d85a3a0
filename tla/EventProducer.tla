--------------------------- MODULE EventProducer ---------------------------
(***************************************************************************)
(* The producing side of titan.events in one API pod: the handlers         *)
(* publishEvent and createItem, Kafka.Publish, the produce buffer of the   *)
(* Kafka client (external), and the end of the process: the drain of       *)
(* serve() with its deferred Kafka.Close, or a crash.                      *)
(*                                                                         *)
(* Every request of Requests writes at most one record, so a record is     *)
(* named by its request.                                                   *)
(***************************************************************************)
EXTENDS Naturals, FiniteSets

CONSTANTS
  Events,        \* POST /api/v1/events requests
  Creates,       \* POST /api/v1/items requests
  MaxBuffered,   \* maxBuffered of NewKafka
  MaxFaults      \* bound: refused records, lost acknowledgements, lost answers

ASSUME ProducerAssumption ==
  /\ Events \cap Creates = {}
  /\ MaxBuffered \in Nat \ {0}
  /\ MaxFaults \in Nat

Requests == Events \cup Creates

VARIABLES
  deps,      \* which dependencies the pod is configured with
  pc,        \* where each handler is
  response,  \* the status a request was answered with
  items,     \* PostgreSQL: creates whose row exists
  buffer,    \* records in the client's produce buffer
  topic,     \* how often the broker appended each record
  result,    \* the label titan_kafka_published_total counted a record under
  phase,     \* the process: serving, draining, flushing, closed, exited
  cut,       \* a shutdown timeout expired, or the process was killed
  faults

vars == <<deps, pc, response, items, buffer, topic, result, phase, cut, faults>>

\* Publish fails with ErrBackpressure only, so publishEvent never answers 502.
Responses == {"none", "202", "201", "400", "500", "503"}
Results == {"none", "ok", "error", "backpressure"}
Phases == {"serving", "draining", "flushing", "closed", "exited"}

Init ==
  /\ deps \in SUBSET {"store", "publisher"}
  /\ pc = [r \in Requests |-> "new"]
  /\ response = [r \in Requests |-> "none"]
  /\ items = {}
  /\ buffer = {}
  /\ topic = [r \in Requests |-> 0]
  /\ result = [r \in Requests |-> "none"]
  /\ phase = "serving"
  /\ cut = FALSE
  /\ faults = 0

Idle == \A r \in Requests : pc[r] \in {"new", "done"}
Full == Cardinality(buffer) >= MaxBuffered
Fault == faults < MaxFaults /\ faults' = faults + 1

Reply(r, code) ==
  /\ pc' = [pc EXCEPT ![r] = "done"]
  /\ response' = [response EXCEPT ![r] = code]

Count(r, label) == result' = [result EXCEPT ![r] = label]
-----------------------------------------------------------------------------
(* The handlers.                                                           *)

\* The request is decoded and validated; what is wrong is answered at once.
publishEvent(r) ==
  /\ r \in Events /\ pc[r] = "new" /\ phase = "serving"
  /\ \/ "publisher" \notin deps /\ Reply(r, "503")
     \/ "publisher" \in deps /\ Reply(r, "400")
     \/ "publisher" \in deps /\ pc' = [pc EXCEPT ![r] = "publish"]
        /\ UNCHANGED response
  /\ UNCHANGED <<deps, items, buffer, topic, result, phase, cut, faults>>

createItem(r) ==
  /\ r \in Creates /\ pc[r] = "new" /\ phase = "serving"
  /\ \/ "store" \notin deps /\ Reply(r, "503")
     \/ "store" \in deps /\ Reply(r, "400")
     \/ "store" \in deps /\ pc' = [pc EXCEPT ![r] = "insert"]
        /\ UNCHANGED response
  /\ UNCHANGED <<deps, items, buffer, topic, result, phase, cut, faults>>

\* Store.CreateItem returned the row: the event is published if there is a bus.
Insert(r) ==
  /\ r \in Creates /\ pc[r] = "insert"
  /\ items' = items \cup {r}
  /\ IF "publisher" \in deps
     THEN pc' = [pc EXCEPT ![r] = "publish"] /\ UNCHANGED response
     ELSE Reply(r, "201")
  /\ UNCHANGED <<deps, buffer, topic, result, phase, cut, faults>>

\* The error of Store.CreateItem is not returned.
InsertFailIgnored(r) ==
  /\ r \in Creates /\ pc[r] = "insert"
  /\ Fault
  /\ items' \in {items, items \cup {r}}
  /\ pc' = [pc EXCEPT ![r] = "publish"]
  /\ UNCHANGED <<deps, response, buffer, topic, result, phase, cut>>

\* Store.CreateItem failed; the row may exist all the same (answer lost).
InsertFail(r) ==
  /\ r \in Creates /\ pc[r] = "insert"
  /\ Fault
  /\ items' \in {items, items \cup {r}}
  /\ Reply(r, "500")
  /\ UNCHANGED <<deps, buffer, topic, result, phase, cut>>

\* What the handler answers when Publish returns: createItem ignores the error.
Published(r, ok) ==
  Reply(r, IF r \in Creates THEN "201" ELSE IF ok THEN "202" ELSE "503")

\* Publish counts the refusal but goes on to TryProduce.
PublishNotReturning(r) ==
  /\ pc[r] = "publish"
  /\ IF Full THEN Count(r, "backpressure") ELSE UNCHANGED result
  /\ pc' = [pc EXCEPT ![r] = "produce"]
  /\ UNCHANGED <<deps, response, items, buffer, topic, phase, cut, faults>>

\* The first half of Publish: the test of BufferedProduceRecords.
Publish(r) ==
  /\ pc[r] = "publish"
  /\ IF Full
     THEN Count(r, "backpressure") /\ Published(r, FALSE)
     ELSE pc' = [pc EXCEPT ![r] = "produce"] /\ UNCHANGED <<response, result>>
  /\ UNCHANGED <<deps, items, buffer, topic, phase, cut, faults>>

\* NewKafka without MaxBufferedRecords: only Publish's own test bounds.
TryProduceUnbounded(r) ==
  /\ pc[r] = "produce"
  /\ IF phase = "closed"
     THEN Count(r, "error") /\ UNCHANGED buffer
     ELSE buffer' = buffer \cup {r} /\ UNCHANGED result
  /\ Published(r, TRUE)
  /\ UNCHANGED <<deps, items, topic, phase, cut, faults>>

\* The second half: TryProduce tests the bound again under the client's lock
\* and tells only its callback; Publish returns nil in every case.
TryProduce(r) ==
  /\ pc[r] = "produce"
  /\ \/ phase = "closed" /\ Count(r, "error") /\ UNCHANGED buffer
     \/ phase # "closed" /\ Full /\ Count(r, "backpressure") /\ UNCHANGED buffer
     \/ phase # "closed" /\ ~Full /\ buffer' = buffer \cup {r} /\ UNCHANGED result
  /\ Published(r, TRUE)
  /\ UNCHANGED <<deps, items, topic, phase, cut, faults>>
-----------------------------------------------------------------------------
(* The Kafka client and the broker: acks=leader, no idempotent writes.     *)

\* The leader appends the record.
AppendRecord(r) ==
  /\ r \in buffer /\ phase # "closed"
  /\ topic[r] = 0
  /\ topic' = [topic EXCEPT ![r] = 1]
  /\ UNCHANGED <<deps, pc, response, items, buffer, result, phase, cut, faults>>

\* The acknowledgement was lost, the client sends again: a duplicate.
Resend(r) ==
  /\ r \in buffer /\ phase # "closed"
  /\ topic[r] > 0
  /\ Fault
  /\ topic' = [topic EXCEPT ![r] = @ + 1]
  /\ UNCHANGED <<deps, pc, response, items, buffer, result, phase, cut>>

\* The callback counts errors only.
AckedUncounted(r) ==
  /\ r \in buffer /\ phase # "closed"
  /\ topic[r] > 0
  /\ buffer' = buffer \ {r}
  /\ UNCHANGED <<deps, pc, response, items, topic, result, phase, cut, faults>>

\* The acknowledgement arrives: the callback counts the record as ok.
Acked(r) ==
  /\ r \in buffer /\ phase # "closed"
  /\ topic[r] > 0
  /\ buffer' = buffer \ {r}
  /\ Count(r, "ok")
  /\ UNCHANGED <<deps, pc, response, items, topic, phase, cut, faults>>

\* The broker refuses the record for good: the callback counts an error.
Refused(r) ==
  /\ r \in buffer /\ phase # "closed"
  /\ Fault
  /\ buffer' = buffer \ {r}
  /\ Count(r, "error")
  /\ UNCHANGED <<deps, pc, response, items, topic, phase, cut>>
-----------------------------------------------------------------------------
(* The end of the process.                                                 *)

\* SIGTERM, or one of the servers failed: httpSrv.Shutdown accepts no more.
Shutdown ==
  /\ phase = "serving"
  /\ phase' = "draining"
  /\ UNCHANGED <<deps, pc, response, items, buffer, topic, result, cut, faults>>

\* Shutdown returns when no handler runs, or after ShutdownTimeout; then the
\* deferred Kafka.Close starts with Flush.
Drained ==
  /\ phase = "draining"
  /\ \/ Idle /\ UNCHANGED cut
     \/ ~Idle /\ cut' = TRUE
  /\ phase' = "flushing"
  /\ UNCHANGED <<deps, pc, response, items, buffer, topic, result, faults>>

\* Kafka.Close without the Flush.
ClosedUnflushed ==
  /\ phase = "flushing"
  /\ result' = [r \in Requests |-> IF r \in buffer THEN "error" ELSE result[r]]
  /\ buffer' = {}
  /\ phase' = "closed"
  /\ UNCHANGED <<deps, pc, response, items, topic, cut, faults>>

\* Flush returns when the buffer is empty, or after 5 seconds; client.Close
\* fails what is still buffered.
Closed ==
  /\ phase = "flushing"
  /\ \/ buffer = {} /\ UNCHANGED cut
     \/ buffer # {} /\ cut' = TRUE
  /\ result' = [r \in Requests |-> IF r \in buffer THEN "error" ELSE result[r]]
  /\ buffer' = {}
  /\ phase' = "closed"
  /\ UNCHANGED <<deps, pc, response, items, topic, faults>>

\* serve() returns; handlers that outlived Shutdown end with the process.
Exit ==
  /\ phase = "closed"
  /\ phase' = "exited"
  /\ pc' = [r \in Requests |-> "done"]
  /\ UNCHANGED <<deps, response, items, buffer, topic, result, cut, faults>>

\* The process is killed: what is buffered is gone and counted nowhere.
Crash ==
  /\ phase # "exited"
  /\ phase' = "exited"
  /\ pc' = [r \in Requests |-> "done"]
  /\ buffer' = {}
  /\ cut' = TRUE
  /\ UNCHANGED <<deps, response, items, topic, result, faults>>

Done == phase = "exited" /\ UNCHANGED vars

Next ==
  \/ \E r \in Requests :
       \/ publishEvent(r) \/ createItem(r) \/ Insert(r) \/ InsertFail(r)
       \/ Publish(r) \/ TryProduce(r)
       \/ AppendRecord(r) \/ Resend(r) \/ Acked(r) \/ Refused(r)
  \/ Shutdown \/ Drained \/ Closed \/ Exit \/ Crash
  \/ Done

Spec == Init /\ [][Next]_vars

\* Handlers and the client keep running and the broker answers; nothing makes
\* a request arrive or the pod stop.
Fairness ==
  /\ \A r \in Requests :
       /\ WF_vars(Insert(r) \/ InsertFail(r))
       /\ WF_vars(Publish(r))
       /\ WF_vars(TryProduce(r))
       /\ WF_vars(AppendRecord(r))
       /\ WF_vars(Acked(r))
  /\ WF_vars(Drained) /\ WF_vars(Closed) /\ WF_vars(Exit)

FairSpec == Spec /\ Fairness
-----------------------------------------------------------------------------
(* Properties.                                                             *)

\* The types of the pod, its buffer and the topic; in particular publishEvent
\* answers with the statuses of Responses only.
TypeOK ==
  /\ deps \subseteq {"store", "publisher"}
  /\ pc \in [Requests -> {"new", "insert", "publish", "produce", "done"}]
  /\ response \in [Requests -> Responses]
  /\ items \subseteq Creates
  /\ buffer \subseteq Requests
  /\ topic \in [Requests -> Nat]
  /\ result \in [Requests -> Results]
  /\ phase \in Phases
  /\ cut \in BOOLEAN
  /\ faults \in 0..MaxFaults

\* However many handlers pass the test of Publish together, the produce buffer
\* never holds more than maxBuffered records (architecture.md: "instead of
\* unbounded memory").
BufferBounded == Cardinality(buffer) <= MaxBuffered

\* createItem publishes only after the row is committed: whoever reads an
\* item.created event finds the item, and a 201 is backed by a row, whatever
\* fails in between.
EventFollowsItem ==
  \A r \in Creates :
    (r \in buffer \/ topic[r] > 0 \/ response[r] = "201") => r \in items

\* titan_kafka_published_total counts a record once: when Publish refused it
\* or when the callback ran, never both and never a second time, and never
\* while it is still in the buffer.
CountedOnce ==
  [][\A r \in Requests :
       /\ result[r] # "none" => result'[r] = result[r]
       /\ r \in buffer' => result'[r] = "none"]_vars

\* A pod that stops in its own time loses nothing it accepted: when neither
\* Shutdown nor Flush ran into its timeout and the broker refused nothing,
\* every record answered with 202 is in the topic, unless it was dropped at a
\* full buffer.
CleanStopDelivers ==
  phase \in {"closed", "exited"} /\ ~cut =>
    \A r \in Events :
      response[r] = "202" /\ result[r] # "backpressure" =>
        topic[r] > 0 \/ (faults > 0 /\ result[r] = "error")

\* A record that was answered with 202 does not stay in the buffer for ever:
\* its callback runs, or the process ends.
AcceptedIsSettled ==
  \A r \in Events :
    response[r] = "202" ~> (result[r] # "none" \/ phase = "exited")

\* "Up to maxBuffered records are held in memory; beyond that Publish returns
\* ErrBackpressure" (NewKafka): an event dropped because the buffer was full is
\* answered with 503, never with 202.
FullMeans503 ==
  \A r \in Events : result[r] = "backpressure" => response[r] # "202"
=============================================================================
