-------------------------- MODULE SchemaMigration ---------------------------
(* Start-up of processes of different builds on one database: a controller   *)
(* or a standalone relay migrates the schema (migrate), the other roles only *)
(* check it (assertSchemaCurrent).  Migration v of a build brings the tables *)
(* to shape v and inserts row v into schema_migrations; MetaVersion adds the *)
(* columns with the name and the checksum, and fills them for the rows       *)
(* before it.  PostgreSQL: an advisory lock, a pg_dump of an existing        *)
(* schema, one transaction.  SQLite: one immediate transaction, with the     *)
(* copy of the file made inside it.  Any statement may fail, connections and *)
(* processes die at any point.                                               *)
EXTENDS Integers, FiniteSets

CONSTANTS Migrator,     \* processes that run migrate
          Checker,      \* processes that run assertSchemaCurrent
          latest,       \* the last migration of each one's build
          MetaVersion, None, MaxFaults

Process == Migrator \cup Checker
Last == CHOOSE n \in {latest[p] : p \in Process} : \A p \in Process : latest[p] <= n

VARIABLES driver,     \* "postgres" or "sqlite"
          db,         \* committed: rows of schema_migrations, those with a name, the columns, the tables
          lock,       \* who holds the advisory lock, or the write lock of the file
          pc,
          seen,       \* the number of rows a migrator read under the lock
          work,       \* its transaction
          files,      \* backups: of which version, complete or not, under the final name or not
          file,       \* the backup a migrator is writing
          left,       \* versions with data that were migrated away from
          faults

vars == <<driver, db, lock, pc, seen, work, files, file, left, faults>>

Schema == [rows : 0 .. Last, named : 0 .. Last, meta : BOOLEAN, shape : 0 .. Last]
File == [of : 0 .. Last, whole : BOOLEAN, final : BOOLEAN]

TypeOK ==
  /\ driver \in {"postgres", "sqlite"} /\ db \in Schema
  /\ lock \in Migrator \cup {None}
  /\ pc \in [Process -> {"idle", "locked", "backup", "check", "begin", "apply", "record",
                         "commit", "unlock", "serving", "failed"}]
  /\ seen \in [Migrator -> 0 .. Last] /\ work \in [Migrator -> Schema]
  /\ files \subseteq File /\ \A p \in Migrator : file[p] \in File \cup {None}
  /\ left \subseteq 1 .. Last /\ faults \in 0 .. MaxFaults

\* A database that some build left: all rows named, or none of them.
Made(n) == [rows |-> n, named |-> IF n >= MetaVersion THEN n ELSE 0,
            meta |-> n >= MetaVersion, shape |-> n]

Init ==
  /\ driver \in {"postgres", "sqlite"} /\ db \in {Made(n) : n \in 0 .. Last}
  /\ lock = None /\ pc = [p \in Process |-> "idle"]
  /\ seen = [p \in Migrator |-> 0] /\ work = [p \in Migrator |-> Made(0)]
  /\ files = {} /\ file = [p \in Migrator |-> None] /\ left = {} /\ faults = 0

Goto(p, l) == pc' = [pc EXCEPT ![p] = l]
Fault == faults < MaxFaults /\ faults' = faults + 1
Healthy == UNCHANGED faults

\* validatePostgresMigrationHistory and validateMigrationHistory: not newer than
\* the build, and with the names and checksums that the build knows.
validateMigrationHistory(s, p) ==
  /\ s.rows <= latest[p]
  /\ IF s.meta THEN s.named = s.rows ELSE s.rows < MetaVersion

\* The error path: the transaction is rolled back, the lock given up.
Fails(p) ==
  /\ Goto(p, "failed") /\ lock' = (IF lock = p THEN None ELSE lock)
  /\ UNCHANGED <<driver, db, seen, work, left>>

----------------------------------------------------------------------------
(* PostgreSQL.                                                               *)

pgAdvisoryLock(p) ==
  /\ driver = "postgres" /\ pc[p] = "idle" /\ lock = None
  /\ lock' = p /\ Goto(p, "locked")
  /\ UNCHANGED <<driver, db, seen, work, files, file, left, faults>>

\* Nothing is pending, or a schema that exists is dumped first.
postgresMigrationHistory(p) ==
  /\ driver = "postgres" /\ pc[p] = "locked" /\ Healthy
  /\ IF ~validateMigrationHistory(db, p) THEN Fails(p) /\ UNCHANGED <<files, file>>
     ELSE /\ seen' = [seen EXCEPT ![p] = db.rows]
          /\ Goto(p, IF db.rows = latest[p] THEN "unlock"
                     ELSE IF db.shape > 0 THEN "backup" ELSE "begin")
          /\ UNCHANGED <<driver, db, lock, work, files, file, left>>

\* pg_dump writes a file of its own; one that fails or runs out of time is
\* removed, and so is the migration.
runPgDump(p) ==
  /\ driver = "postgres" /\ pc[p] = "backup"
  /\ \/ /\ Healthy /\ Goto(p, "check")
        /\ file' = [file EXCEPT ![p] = [of |-> db.rows, whole |-> TRUE, final |-> FALSE]]
        /\ UNCHANGED <<driver, db, lock, seen, work, files, left>>
     \/ Fault /\ Fails(p) /\ UNCHANGED <<files, file>>

\* Flushed, hashed, renamed.
createPostgresMigrationBackup(p) ==
  /\ driver = "postgres" /\ pc[p] = "check"
  /\ file' = [file EXCEPT ![p] = None]
  /\ \/ /\ Healthy /\ files' = files \cup {[file[p] EXCEPT !.final = TRUE]} /\ Goto(p, "begin")
        /\ UNCHANGED <<driver, db, lock, seen, work, left>>
     \/ Fault /\ Fails(p) /\ UNCHANGED files

pgBegin(p) ==
  /\ driver = "postgres" /\ pc[p] = "begin"
  /\ work' = [work EXCEPT ![p] = db] /\ Goto(p, "apply")
  /\ UNCHANGED <<driver, db, lock, seen, files, file, left, faults>>

pgAdvisoryUnlock(p) ==
  /\ driver = "postgres" /\ pc[p] = "unlock"
  /\ lock' = None /\ Goto(p, "serving")
  /\ UNCHANGED <<driver, db, seen, work, files, file, left, faults>>

----------------------------------------------------------------------------
(* SQLite: the transaction comes first.  A second process waits five seconds *)
(* for the lock, then fails.                                                 *)

beginImmediate(p) ==
  /\ driver = "sqlite" /\ pc[p] = "idle" /\ Healthy /\ UNCHANGED <<files, file>>
  /\ IF lock # None THEN Fails(p)
     ELSE /\ lock' = p /\ Goto(p, "locked") /\ work' = [work EXCEPT ![p] = db]
          /\ UNCHANGED <<driver, db, seen, left>>

\* The copy is created under its final name.
sqliteMigrate(p) ==
  /\ driver = "sqlite" /\ pc[p] = "locked" /\ Healthy /\ UNCHANGED files
  /\ IF ~validateMigrationHistory(work[p], p) THEN Fails(p) /\ UNCHANGED file
     ELSE /\ seen' = [seen EXCEPT ![p] = work[p].rows]
          /\ IF work[p].rows < latest[p] /\ work[p].shape > 0
             THEN /\ file' = [file EXCEPT ![p] = [of |-> db.rows, whole |-> FALSE, final |-> TRUE]]
                  /\ Goto(p, "backup")
             ELSE Goto(p, "apply") /\ UNCHANGED file
          /\ UNCHANGED <<driver, db, lock, work, left>>

\* Copied from another connection, then checked; a failure removes the file.
sqliteBackup(p) ==
  /\ driver = "sqlite" /\ pc[p] \in {"backup", "check"}
  /\ \/ /\ pc[p] = "backup" /\ Healthy /\ Goto(p, "check")
        /\ file' = [file EXCEPT ![p].whole = TRUE] /\ UNCHANGED <<files, lock>>
     \/ /\ pc[p] = "check" /\ Healthy /\ Goto(p, "apply")
        /\ files' = files \cup {file[p]} /\ file' = [file EXCEPT ![p] = None] /\ UNCHANGED lock
     \/ /\ Fault /\ Goto(p, "failed") /\ lock' = None
        /\ file' = [file EXCEPT ![p] = None] /\ UNCHANGED files
  /\ UNCHANGED <<driver, db, seen, work, left>>

----------------------------------------------------------------------------
(* Both: the migrations after the rows that were seen, in the transaction.   *)

\* The tables of the next migration, from the shape before it.
ApplyStatements(s, v) == [s EXCEPT !.shape = v, !.meta = @ \/ v = MetaVersion]
\* Its row, with the names once the columns are there.
InsertRow(s, v) == [s EXCEPT !.rows = v, !.named = IF s.meta THEN v ELSE @]

\* A statement that does not fit the tables fails.
applyMigration(p) ==
  LET v == seen[p] + 1 IN
  /\ pc[p] = "apply" /\ UNCHANGED <<files, file>>
  /\ IF seen[p] = latest[p]
     THEN Healthy /\ Goto(p, "commit") /\ UNCHANGED <<driver, db, lock, seen, work, left>>
     ELSE \/ /\ Healthy /\ work[p].shape = v - 1
             /\ work' = [work EXCEPT ![p] = ApplyStatements(@, v)] /\ Goto(p, "record")
             /\ UNCHANGED <<driver, db, lock, seen, left>>
          \/ Healthy /\ work[p].shape # v - 1 /\ Fails(p)
          \/ Fault /\ Fails(p)

MutantInsertMigration(p) ==
  LET v == seen[p] + 1 IN
  /\ pc[p] = "record" /\ UNCHANGED <<files, file>> /\ Healthy
  /\ work' = [work EXCEPT ![p] = InsertRow(@, v)] /\ db' = work[p]
  /\ seen' = [seen EXCEPT ![p] = v] /\ Goto(p, "apply")
  /\ UNCHANGED <<driver, lock, left>>

insertMigration(p) ==
  LET v == seen[p] + 1 IN
  /\ pc[p] = "record" /\ UNCHANGED <<files, file>>
  /\ \/ /\ Healthy /\ work[p].rows = v - 1
        /\ work' = [work EXCEPT ![p] = InsertRow(@, v)]
        /\ seen' = [seen EXCEPT ![p] = v] /\ Goto(p, "apply")
        /\ UNCHANGED <<driver, db, lock, left>>
     \/ Healthy /\ work[p].rows # v - 1 /\ Fails(p)
     \/ Fault /\ Fails(p)

\* Validated once more.  A commit may be applied and reported as failed.
commitMigrations(p) ==
  /\ pc[p] = "commit" /\ UNCHANGED <<files, file>>
  /\ \/ Healthy /\ ~validateMigrationHistory(work[p], p) /\ Fails(p)
     \/ /\ validateMigrationHistory(work[p], p)
        /\ db' = work[p] /\ left' = left \cup ({db.rows} \ {0, work[p].rows})
        /\ UNCHANGED <<driver, seen, work>>
        /\ \/ /\ Healthy /\ Goto(p, IF driver = "postgres" THEN "unlock" ELSE "serving")
              /\ lock' = IF driver = "postgres" THEN lock ELSE None
           \/ Fault /\ Goto(p, "failed") /\ lock' = None
     \/ Fault /\ Fails(p)

----------------------------------------------------------------------------

\* The other roles start only on the schema of their own build: the rows, and
\* every table, column, key and index of it.
assertSchemaCurrent(p) ==
  /\ pc[p] = "idle"
  /\ Goto(p, IF validateMigrationHistory(db, p) /\ db.rows = latest[p] /\ db.shape = latest[p]
             THEN "serving" ELSE "failed")
  /\ UNCHANGED <<driver, db, lock, seen, work, files, file, left, faults>>

\* The process dies; what it was writing stays where it is.
Crash(p) ==
  /\ p \in Migrator /\ pc[p] \notin {"idle", "failed"} /\ Fault
  /\ files' = files \cup (IF file[p] = None THEN {} ELSE {file[p]})
  /\ file' = [file EXCEPT ![p] = None] /\ Fails(p)

\* Started again by its supervisor.
Restart(p) ==
  /\ pc[p] = "failed" /\ Goto(p, "idle")
  /\ UNCHANGED <<driver, db, lock, seen, work, files, file, left, faults>>

Migrating(p) ==
  \/ pgAdvisoryLock(p) \/ postgresMigrationHistory(p) \/ runPgDump(p)
  \/ createPostgresMigrationBackup(p) \/ pgBegin(p) \/ pgAdvisoryUnlock(p)
  \/ beginImmediate(p) \/ sqliteMigrate(p) \/ sqliteBackup(p)
  \/ applyMigration(p) \/ insertMigration(p) \/ commitMigrations(p)

Next ==
  \/ \E p \in Migrator : Migrating(p) \/ Crash(p)
  \/ \E p \in Checker : assertSchemaCurrent(p)
  \/ \E p \in Process : Restart(p)

Spec == Init /\ [][Next]_vars /\ \A p \in Migrator : WF_vars(Migrating(p))

----------------------------------------------------------------------------

\* What the database holds is always what some build leaves: the rows are a
\* prefix, the tables have the shape of the last row, and all rows have their
\* names from MetaVersion on, whatever dies in between.
HistoryMatchesTables == db = Made(db.rows)

\* No version is left behind without a complete copy of its data, and pg_dump
\* never leaves an incomplete file under a final name.
VersionsBackedUp ==
  /\ \A v \in left : [of |-> v, whole |-> TRUE, final |-> TRUE] \in files
  /\ driver = "postgres" => \A f \in files : f.final => f.whole

\* A process that serves was started on the schema of its build, and no older
\* build brings the schema back under it.
ServesOwnSchema == \A p \in Process : pc[p] = "serving" => db.rows >= latest[p]

\* The three promises of a migration.
SchemaSound == HistoryMatchesTables /\ VersionsBackedUp /\ ServesOwnSchema

\* A migration ends, and with it the lock that other processes wait for.
MigrationEnds == \A p \in Migrator : lock = p ~> lock # p
=============================================================================
