---------------------------- MODULE ApiLifecycle ----------------------------
(***************************************************************************)
(* The life of one titan-api process, from serve() to its exit code: wait  *)
(* for PostgreSQL, migrate the schema beside the other runs of Migrate,    *)
(* connect, serve, and drain three servers under one timeout before the    *)
(* deferred Close of the connection pool.                                  *)
(*                                                                         *)
(* The gRPC health status is SERVING exactly in phase serving.  The Kafka  *)
(* producer's Close is in EventProducer.                                   *)
(***************************************************************************)
EXTENDS SchemaMigration

CONSTANTS
  Pod,      \* the run of Migrate that this process makes
  MaxBusy   \* bound: requests in flight at a server

ASSUME LifecycleAssumption == Pod \in Runs /\ MaxBusy \in Nat

VARIABLES
  database, \* DATABASE_URL and MIGRATE_ON_START: none, plain, migrate
  life,     \* boot, wait, migrate, connect, serving, http, grpc, metrics,
            \* closing, exited
  asked,    \* SIGTERM has come
  broken,   \* servers that failed: their errors in errCh
  open,     \* servers that accept requests
  busy,     \* requests in flight at each server
  query,    \* those of them that have a connection of the pool
  expired,  \* SHUTDOWN_TIMEOUT has passed
  cutOff,   \* ghost: servers whose requests were cut off
  exit      \* the exit code

conf == <<database, asked>>
serveVars == <<broken, open, busy, query, expired, cutOff>>
lifeVars == <<life, exit, conf, serveVars>>
allVars == <<migrateVars, lifeVars>>

Servers == {"http", "grpc", "metrics"}

LifeInit ==
  /\ MigrateInit
  /\ database \in {"none", "plain", "migrate"}
  /\ life = "boot" /\ asked = FALSE /\ exit = 0
  /\ broken = {} /\ open = {} /\ expired = FALSE /\ cutOff = {}
  /\ busy = [s \in Servers |-> 0] /\ query = [s \in Servers |-> 0]

Ask ==
  /\ life # "exited" /\ ~asked /\ asked' = TRUE
  /\ UNCHANGED <<migrateVars, database, life, exit, serveVars>>

Enter(from, to) == life = from /\ life' = to /\ UNCHANGED exit
Return1(from) == life = from /\ life' = "exited" /\ exit' = 1
-----------------------------------------------------------------------------
(* Start                                                                   *)

\* Configuration and tracing, either may be in error.
Boot ==
  /\ Enter("boot", IF database = "none" THEN "connect" ELSE "wait") \/ Return1("boot")
  /\ UNCHANGED <<migrateVars, conf, serveVars>>

\* waitForPostgres: until the database answers, the signal or 2 minutes.
WaitForPostgres ==
  /\ Enter("wait", IF database = "migrate" THEN "migrate" ELSE "connect") \/ Return1("wait")
  /\ UNCHANGED <<migrateVars, conf, serveVars>>

\* Runs of Migrate of other processes, and ours while we are at it; the server
\* goes on with our session when the client is gone.
Mine(r) == r # Pod \/ life = "migrate" \/ gone[Pod]

Session(r) == Mine(r) /\ Progress(r) /\ UNCHANGED lifeVars
Granted(r) == Mine(r) /\ Grant(r) /\ UNCHANGED lifeVars
Fails(r) == Mine(r) /\ (Fail(r) \/ (r # Pod /\ Lose(r))) /\ UNCHANGED lifeVars

\* The error of Migrate is logged, and the process serves.
MigrateReturnsAnyway ==
  /\ point[Pod] \in {"ok", "failed"} /\ Enter("migrate", "connect")
  /\ UNCHANGED <<migrateVars, conf, serveVars>>

MigrateReturns ==
  /\ \/ point[Pod] = "ok" /\ Enter("migrate", "connect")
     \/ point[Pod] = "failed" /\ Return1("migrate")
  /\ UNCHANGED <<migrateVars, conf, serveVars>>

\* The signal ends the context of Migrate, or the connection is lost: it
\* returns an error, but ignores one of its deferred unlock.
MigrateLost ==
  /\ \/ point[Pod] = "start" /\ Return1("migrate") /\ UNCHANGED migrateVars
     \/ Lose(Pod) /\ IF point[Pod] = "unlock" /\ ~err[Pod]
                     THEN Enter("migrate", "connect") ELSE Return1("migrate")
  /\ UNCHANGED <<conf, serveVars>>

\* Redis, the topic (whose error is a warning), the producer, and listening
\* for gRPC; then the three servers start.
Connect ==
  /\ \/ Enter("connect", "serving") /\ open' = Servers
     \/ Return1("connect") /\ UNCHANGED open
  /\ UNCHANGED <<migrateVars, conf, broken, busy, query, expired, cutOff>>
-----------------------------------------------------------------------------
(* Requests                                                                *)

Arrive(s) ==
  /\ s \in open /\ busy[s] < MaxBusy
  /\ busy' = [busy EXCEPT ![s] = @ + 1]
  /\ UNCHANGED <<migrateVars, life, exit, conf, broken, open, query, expired, cutOff>>

\* The gRPC server has the health and reflection services only, which answer
\* from memory.
UsesPool == Servers \ {"grpc"}

\* Handlers and the probes of the metrics server use the pool until it closes.
Query(s) ==
  /\ s \in UsesPool /\ database # "none" /\ life \notin {"closing", "exited"}
  /\ query[s] < busy[s]
  /\ query' = [query EXCEPT ![s] = @ + 1]
  /\ UNCHANGED <<migrateVars, life, exit, conf, broken, open, busy, expired, cutOff>>

QueryEnds(s) ==
  /\ query[s] > 0
  /\ query' = [query EXCEPT ![s] = @ - 1]
  /\ UNCHANGED <<migrateVars, life, exit, conf, broken, open, busy, expired, cutOff>>

AnswerRequest(s) ==
  /\ query[s] < busy[s]
  /\ busy' = [busy EXCEPT ![s] = @ - 1]
  /\ UNCHANGED <<migrateVars, life, exit, conf, broken, open, query, expired, cutOff>>

\* A server fails, by not getting its address for one.
Break(s) ==
  /\ life = "serving" /\ s \in open
  /\ broken' = broken \cup {s} /\ open' = open \ {s}
  /\ UNCHANGED <<migrateVars, life, exit, conf, busy, query, expired, cutOff>>
-----------------------------------------------------------------------------
(* Stop                                                                    *)

\* The select after the start, which reads errCh for the last time, and the
\* listener of Shutdown.
StopServing ==
  /\ life = "serving" /\ life' = "http"
  /\ \/ asked /\ exit' = 0
     \/ broken # {} /\ exit' = 1
  /\ open' = open \ {"http"} /\ broken' = {}
  /\ UNCHANGED <<migrateVars, conf, busy, query, expired, cutOff>>

TimeUp ==
  /\ life \in {"http", "grpc", "metrics"} /\ ~expired /\ expired' = TRUE
  /\ UNCHANGED <<migrateVars, life, exit, conf, broken, open, busy, query, cutOff>>

\* The HTTP server is closed, not shut down.
HttpClosed ==
  /\ Enter("http", "grpc") /\ open' = open \ {"grpc"}
  /\ UNCHANGED <<migrateVars, conf, broken, busy, query, expired, cutOff>>

HttpDrained ==
  /\ busy["http"] = 0 \/ expired
  /\ Enter("http", "grpc") /\ open' = open \ {"grpc"}
  /\ UNCHANGED <<migrateVars, conf, broken, busy, query, expired, cutOff>>

\* GracefulStop is waited for without the timeout.
GrpcDrainedUnbounded ==
  /\ busy["grpc"] = 0
  /\ Enter("grpc", "metrics") /\ open' = open \ {"metrics"}
  /\ UNCHANGED <<migrateVars, conf, broken, busy, query, expired, cutOff>>

\* GracefulStop, or Stop when the time is up.
GrpcDrained ==
  /\ \/ busy["grpc"] = 0 /\ UNCHANGED <<busy, cutOff>>
     \/ /\ expired /\ busy' = [busy EXCEPT !["grpc"] = 0]
        /\ cutOff' = IF busy["grpc"] > 0 THEN cutOff \cup {"grpc"} ELSE cutOff
  /\ Enter("grpc", "metrics") /\ open' = open \ {"metrics"}
  /\ UNCHANGED <<migrateVars, conf, broken, query, expired>>

\* The metrics server, the traces, and the deferred calls up to the pool.
MetricsDrained ==
  /\ busy["metrics"] = 0 \/ expired
  /\ Enter("metrics", "closing")
  /\ UNCHANGED <<migrateVars, conf, serveVars>>

\* The pool's Close waits for the connections that are in use; then the process
\* ends, and with it what is still running.
ProcessEnds ==
  /\ \A s \in Servers : query[s] = 0
  /\ Enter("closing", "exited")
  /\ cutOff' = cutOff \cup {s \in Servers : busy[s] > 0}
  /\ busy' = [s \in Servers |-> 0]
  /\ UNCHANGED <<migrateVars, conf, broken, open, query, expired>>

\* The goroutine of serve().
Serve ==
  \/ Boot \/ WaitForPostgres \/ MigrateReturns \/ Connect
  \/ StopServing \/ HttpDrained \/ GrpcDrained \/ MetricsDrained \/ ProcessEnds

LifeNext ==
  \/ Ask \/ Serve \/ MigrateLost \/ TimeUp
  \/ \E r \in Runs : Session(r) \/ Granted(r) \/ Fails(r)
  \/ \E s \in Servers : Arrive(s) \/ Query(s) \/ QueryEnds(s) \/ AnswerRequest(s) \/ Break(s)

LifeSpec == LifeInit /\ [][LifeNext]_allVars

\* serve() and PostgreSQL make progress: timers fire, a context that ends ends
\* Migrate, queries are answered, a session without a client ends, and the lock
\* queue passes over nobody for ever.  No request need ever end, nor a signal
\* come.
LifeFairness ==
  /\ WF_allVars(Serve \/ (asked /\ MigrateLost))
  /\ WF_allVars(TimeUp) /\ WF_allVars(\E s \in Servers : QueryEnds(s))
  /\ \A r \in Runs : WF_allVars(Session(r)) /\ SF_allVars(Granted(r))

LifeFairSpec == LifeSpec /\ LifeFairness
-----------------------------------------------------------------------------
(* Properties.                                                             *)

Started == life \in {"connect", "serving", "http", "grpc", "metrics", "closing"}
Ended(code) == life = "exited" /\ exit = code

\* A process that is to migrate serves only when all the migrations of its
\* release are there, whatever became of the connection and of the other runs;
\* it ends with 0 only after a signal, and then too they are there.
ServesOnlyMigrated ==
  /\ database = "migrate" /\ (Started \/ Ended(0)) => Files[Pod] <= Len(applied)
  /\ Ended(0) => asked

\* "Graceful drain": only when SHUTDOWN_TIMEOUT has passed is a request of any of
\* the three servers cut off, or left without the pool that is being closed,
\* although requests keep coming to the servers whose turn has not come.
DrainIsGraceful ==
  ~expired => /\ cutOff = {}
              /\ life = "closing" => \A s \in Servers : busy[s] = 0

\* A process that is told to stop does so, at whatever point of its start it is,
\* waiting for the advisory lock included, and with requests that never end.
StopsWhenAsked == asked ~> life = "exited"
=============================================================================
