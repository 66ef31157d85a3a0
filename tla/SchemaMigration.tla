-------------------------- MODULE SchemaMigration ---------------------------
(***************************************************************************)
(* Postgres.Migrate, run by several processes at once: replicas that       *)
(* migrate when they start and the `migrate` job, of releases with more or *)
(* fewer migration files.                                                  *)
(*                                                                         *)
(* A run of Migrate is one PostgreSQL session.  The advisory lock and the  *)
(* open transaction belong to the session: when its client is gone         *)
(* (crashed, timed out, connection lost) the server finishes the statement *)
(* it is at, and ends the session some time later.                         *)
(***************************************************************************)
EXTENDS Naturals, Sequences

CONSTANTS
  Runs,        \* runs of Migrate
  Files,       \* Files[r]: how many migrations the release of r has
  Free         \* nobody has the lock

ASSUME MigrationAssumption ==
  Files \in [Runs -> Nat] /\ Free \notin Runs

VARIABLES
  point,     \* where each run is
  idx,       \* the migration it is at, in lexical order
  err,       \* Migrate returns an error
  gone,      \* the client is gone
  lock,      \* the session that has the advisory lock
  table,     \* schema_migrations exists
  versions,  \* the versions in it
  applied    \* the migrations whose effects are committed, in that order

migrateVars == <<point, idx, err, gone, lock, table, versions, applied>>
server == <<lock, table, versions, applied>>

MigrateInit ==
  /\ point = [r \in Runs |-> "start"]
  /\ idx = [r \in Runs |-> 1]
  /\ err = [r \in Runs |-> FALSE]
  /\ gone = [r \in Runs |-> FALSE]
  /\ lock = Free /\ table = FALSE /\ versions = {} /\ applied = <<>>

Advance(r, from, to) == point[r] = from /\ point' = [point EXCEPT ![r] = to]

\* Sessions with the effects of a migration in their open transaction.
InTransaction == {r \in Runs : point[r] \in {"insert", "commit"}}

\* Postgres is there, a connection is acquired, the lock asked for.
Acquire(r) ==
  /\ ~gone[r] /\ Advance(r, "start", "lock")
  /\ UNCHANGED <<idx, err, gone, server>>

\* No lock is taken.
GrantAnyway(r) ==
  /\ Advance(r, "lock", "table")
  /\ lock' = r
  /\ UNCHANGED <<idx, err, gone, table, versions, applied>>

\* The server grants the lock, to a session whose client is gone too.
Grant(r) ==
  /\ lock = Free /\ Advance(r, "lock", "table")
  /\ lock' = r
  /\ UNCHANGED <<idx, err, gone, table, versions, applied>>

CreateTable(r) ==
  /\ ~gone[r] /\ Advance(r, "table", "check")
  /\ table' = TRUE
  /\ UNCHANGED <<idx, err, gone, lock, versions, applied>>

\* The loop over the migration files.
CheckVersion(r) ==
  /\ ~gone[r] /\ table
  /\ \/ /\ idx[r] > Files[r] /\ Advance(r, "check", "unlock")
        /\ UNCHANGED idx
     \/ /\ idx[r] <= Files[r] /\ idx[r] \in versions
        /\ point[r] = "check" /\ idx' = [idx EXCEPT ![r] = @ + 1]
        /\ UNCHANGED point
     \/ /\ idx[r] <= Files[r] /\ idx[r] \notin versions
        /\ Advance(r, "check", "exec")
        /\ UNCHANGED idx
  /\ UNCHANGED <<err, gone, server>>

\* The file is executed on the connection, not in the transaction.
ExecOutside(r) ==
  /\ ~gone[r] /\ Advance(r, "exec", "insert")
  /\ applied' = Append(applied, idx[r])
  /\ UNCHANGED <<idx, err, gone, lock, table, versions>>

\* Begin and the migration file: its effects are in the open transaction.
Exec(r) ==
  /\ ~gone[r] /\ Advance(r, "exec", "insert")
  /\ UNCHANGED <<idx, err, gone, server>>

\* The version is the primary key: an insert waits for another transaction
\* that has the same, and a committed one is a conflict.
InsertVersion(r) ==
  /\ ~gone[r] /\ Advance(r, "insert", "commit")
  /\ idx[r] \notin versions
  /\ ~\E o \in Runs : point[o] = "commit" /\ idx[o] = idx[r]
  /\ UNCHANGED <<idx, err, gone, server>>

\* A statement fails: the transaction, if one is open, is rolled back, and the
\* error goes through the deferred unlock.
Fail(r) ==
  /\ ~gone[r]
  /\ point[r] \in {"table", "check", "exec", "insert", "commit"}
  /\ point' = [point EXCEPT ![r] = "unlock"]
  /\ err' = [err EXCEPT ![r] = TRUE]
  /\ UNCHANGED <<idx, gone, server>>

\* Commit reaches the server; a client that is gone may have sent it before.
Commit(r) ==
  /\ Advance(r, "commit", "check")
  /\ applied' = Append(applied, idx[r])
  /\ versions' = versions \cup {idx[r]}
  /\ idx' = [idx EXCEPT ![r] = @ + 1]
  /\ UNCHANGED <<err, gone, lock, table>>

\* An error returns before the unlock is deferred.
UnlockUnlessError(r) ==
  /\ ~gone[r] /\ Advance(r, "unlock", IF err[r] THEN "failed" ELSE "ok")
  /\ lock' = IF err[r] THEN lock ELSE Free
  /\ UNCHANGED <<idx, err, gone, table, versions, applied>>

\* The deferred unlock and the result.
Unlock(r) ==
  /\ ~gone[r] /\ Advance(r, "unlock", IF err[r] THEN "failed" ELSE "ok")
  /\ lock' = Free
  /\ UNCHANGED <<idx, err, gone, table, versions, applied>>

\* The process crashes, its context ends or the connection is lost.
Lose(r) ==
  /\ ~gone[r] /\ point[r] \notin {"start", "ok", "failed"}
  /\ gone' = [gone EXCEPT ![r] = TRUE]
  /\ UNCHANGED <<point, idx, err, server>>

\* The server ends a session without a client: open transaction rolled back,
\* lock released.
SessionEnds(r) ==
  /\ gone[r] /\ point[r] # "failed"
  /\ point' = [point EXCEPT ![r] = "failed"]
  /\ lock' = IF lock = r THEN Free ELSE lock
  /\ UNCHANGED <<idx, err, gone, table, versions, applied>>

Rest == (\A r \in Runs : point[r] \in {"ok", "failed"}) /\ UNCHANGED migrateVars

\* What a session does when nothing goes wrong, and how a lost one ends.
Progress(r) ==
  \/ Acquire(r) \/ CreateTable(r) \/ CheckVersion(r) \/ Exec(r) \/ InsertVersion(r)
  \/ Commit(r) \/ Unlock(r) \/ SessionEnds(r)

MigrateNext ==
  \/ \E r \in Runs : Progress(r) \/ Grant(r) \/ Fail(r) \/ Lose(r)
  \/ Rest

MigrateSpec == MigrateInit /\ [][MigrateNext]_migrateVars
-----------------------------------------------------------------------------
(* Properties.                                                             *)

\* The types; a run never goes past the files of its release.
MigrateTypeOK ==
  /\ point \in [Runs -> {"start", "lock", "table", "check", "exec", "insert",
                         "commit", "unlock", "ok", "failed"}]
  /\ idx \in [Runs -> Nat \ {0}] /\ \A r \in Runs : idx[r] <= Files[r] + 1
  /\ err \in [Runs -> BOOLEAN] /\ gone \in [Runs -> BOOLEAN]
  /\ lock \in Runs \cup {Free}
  /\ table \in BOOLEAN /\ versions \subseteq Nat /\ applied \in Seq(Nat)

\* "Migrate applies embedded SQL migrations in lexical order exactly once":
\* what is committed is an initial part of the migrations in their order, each
\* once, and schema_migrations says so, whoever crashes or fails at any point.
AppliedExactlyOnce ==
  /\ \A i \in 1..Len(applied) : applied[i] = i
  /\ versions = 1..Len(applied)

\* "only one replica (or the Helm hook Job) runs migrations at a time": no two
\* sessions have a migration in an open transaction, and none meets a version
\* that another inserted in between.
OneAtATime ==
  /\ \A r, o \in InTransaction : r = o
  /\ \A r \in InTransaction : idx[r] \notin versions

\* A process goes on to serve, or the job to report success, only when all the
\* migrations of its release are there.
OkMeansMigrated == \A r \in Runs : point[r] = "ok" => Files[r] <= Len(applied)

\* Every run of Migrate comes to an end: no session that was lost or failed
\* keeps the others waiting for the lock.  A run begins once, so there are
\* always times to come when none is under way.
EveryRunEnds == []<>(\A r \in Runs : point[r] \in {"start", "ok", "failed"})
=============================================================================
