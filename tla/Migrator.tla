------------------------------ MODULE Migrator ------------------------------
(***************************************************************************)
(* Schema migrations (src/sql.rs).  A migrator brings the schema to a      *)
(* target version inside one transaction that holds the lock row of the    *)
(* metadata table: it reads the applied versions, compares them with its   *)
(* own definitions, runs the up (or down) SQL of each version in between   *)
(* and records it.  Several processes, each with definitions of its own,   *)
(* share the database; any of them may die at any point, and the database  *)
(* then undoes what it had not committed.                                  *)
(*                                                                         *)
(* The SQL of a version is its checksum.  The schema is the function from  *)
(* versions to the checksum of the SQL that has been run for it, 0 when    *)
(* none has or it has been undone.                                         *)
(***************************************************************************)
EXTENDS Naturals

CONSTANTS
  Procs, Versions,
  Directories,    \* [Procs -> the files of its migration directory]
  LastVersion,    \* i64::MAX
  NoProc,
  MaxMigrations   \* bound: calls that start

\* Versions and the numbers that stand for SQL texts are positive.
ASSUME MigratorAssumption ==
  /\ LastVersion \in Nat /\ Versions \subseteq 1..LastVersion /\ NoProc \notin Procs
  /\ \A p \in Procs : \A f \in Directories[p] : f.sql \in Nat \ {0}

VARIABLES
  schema, rows,  \* committed: what has been run, and what the table records
  work,          \* the same two as the holder of the lock row sees them
  rowLock,       \* the process that holds the lock row, or NoProc
  at, target,    \* what each process does, and the version it wants
  way, left,     \* whether it goes up or down, and the versions it has yet to do
  began,         \* the connection of each process has a transaction open
  migrations     \* calls that started

migratorVars == <<schema, rows, work, rowLock, at, target, way, left, began, migrations>>
Empty == [v \in Versions |-> 0]
Nothing == [schema |-> Empty, rows |-> Empty]

MigratorInit ==
  /\ schema = Empty /\ rows = Empty /\ work = Nothing
  /\ rowLock = NoProc /\ at = [p \in Procs |-> "idle"] /\ target = [p \in Procs |-> 0]
  /\ way = [p \in Procs |-> "up"] /\ left = [p \in Procs |-> {}]
  /\ began = [p \in Procs |-> FALSE] /\ migrations = 0

(***************************************************************************)
(* A directory holds files [version, name, dir, sql]; every version must   *)
(* have one up and one down file.  The names need not agree.               *)
(***************************************************************************)
FilesOf(files, v, d) == {f \in files : f.version = v /\ f.dir = d}

Loads(files) ==
  /\ \E f \in files : f.dir = "up"
  /\ \A f \in files : \A d \in {"up", "down"} : \E g \in files : FilesOf(files, f.version, d) = {g}

\* A checksum tells two pairs of SQL texts apart; here they are single digits.
migration_checksum(ups, downs) ==
  10 * (CHOOSE f \in ups : TRUE).sql + (CHOOSE f \in downs : TRUE).sql

load_file_migrations(files) ==
  [v \in Versions |->
     IF FilesOf(files, v, "up") = {} THEN 0
     ELSE migration_checksum(FilesOf(files, v, "up"), FilesOf(files, v, "down"))]

Migrators == {p \in Procs : Loads(Directories[p])}
Definitions == [p \in Migrators |-> load_file_migrations(Directories[p])]

Applied(r) == {v \in Versions : r[v] # 0}
Defined(p) == {v \in Versions : Definitions[p][v] # 0}

\* The current version is the greatest one applied, 0 when there is none.
BeyondCurrent(v, r) == \A w \in Applied(r) : v > w

GoesTo(p, l) == at' = [at EXCEPT ![p] = l]

(***************************************************************************)
(* The calls.  A transaction the program began refuses them; one that a    *)
(* failed migration left open makes BEGIN fail.                            *)
(***************************************************************************)
migration_apply(p, t) ==
  /\ at[p] = "idle" /\ migrations < MaxMigrations /\ migrations' = migrations + 1
  /\ target' = [target EXCEPT ![p] = t] /\ GoesTo(p, "begin")
  /\ UNCHANGED <<schema, rows, work, rowLock, way, left, began>>

up(p) == migration_apply(p, LastVersion)
up_to(p, t) == migration_apply(p, t)
down_to(p, t) == migration_apply(p, t)

\* The version before the last one applied, as the table is before the lock is taken.
migration_down_one(p) ==
  LET below == {v \in Defined(p) \cap Applied(rows) : \E w \in Applied(rows) : v < w}
  IN  \E t \in below \cup {0} : (\A v \in below : v <= t) /\ migration_apply(p, t)

\* BEGIN and the lock row, which waits for its holder.
begin_migration_transaction(p) ==
  /\ at[p] = "begin" /\ ~began[p] /\ rowLock = NoProc
  /\ rowLock' = p /\ work' = [schema |-> schema, rows |-> rows]
  /\ began' = [began EXCEPT ![p] = TRUE] /\ GoesTo(p, "validate")
  /\ UNCHANGED <<schema, rows, target, way, left, migrations>>

\* The table cannot be made, BEGIN fails, or the lock row cannot be had; in the last
\* case the transaction that was begun stays open.
BeginFails(p, begun) ==
  /\ at[p] = "begin"
  /\ began' = [began EXCEPT ![p] = @ \/ begun] /\ GoesTo(p, "idle")
  /\ UNCHANGED <<schema, rows, work, rowLock, target, way, left, migrations>>

\* Every applied version is defined here with the same SQL, and nothing was skipped.
Valid(p, r) ==
  /\ \A v \in Applied(r) : r[v] = Definitions[p][v]
  /\ \A v \in Defined(p) : BeyondCurrent(v, r) \/ v \in Applied(r)

WayTo(t, r) == IF \A w \in Applied(r) : t >= w THEN "up" ELSE "down"

\* Upwards what is defined up to the target, or downwards what is applied above it.
VersionsTo(p, t, r) ==
  IF WayTo(t, r) = "up"
  THEN {v \in Defined(p) : BeyondCurrent(v, r) /\ v <= t}
  ELSE {v \in Applied(r) : v > t}

ReadApplied(p) ==
  /\ at[p] = "validate"
  /\ IF Valid(p, work.rows)
     THEN /\ way' = [way EXCEPT ![p] = WayTo(target[p], work.rows)]
          /\ left' = [left EXCEPT ![p] = VersionsTo(p, target[p], work.rows)]
          /\ GoesTo(p, "run")
     ELSE GoesTo(p, "rollback") /\ UNCHANGED <<way, left>>
  /\ UNCHANGED <<schema, rows, work, rowLock, target, began, migrations>>

\* In the order of the versions, or downwards in reverse.
IsNext_anyWay(p, v) == v \in left[p] /\ \A w \in left[p] : v <= w

IsNext(p, v) ==
  /\ v \in left[p]
  /\ \A w \in left[p] : IF way[p] = "up" THEN v <= w ELSE v >= w

\* What a version leaves behind: its SQL, or nothing once it is undone.
Leaves(p, v) == IF way[p] = "up" THEN Definitions[p][v] ELSE 0

\* execute_batch_on_connection of the up or the down SQL.
RunSql(p) ==
  /\ at[p] = "run"
  /\ \E v \in Versions : /\ IsNext(p, v)
                          /\ work' = [work EXCEPT !.schema[v] = Leaves(p, v)]
  /\ GoesTo(p, "record")
  /\ UNCHANGED <<schema, rows, rowLock, target, way, left, began, migrations>>

\* The row of the version is inserted or deleted.
Record(p) ==
  /\ at[p] = "record"
  /\ \E v \in Versions : /\ IsNext(p, v)
                          /\ work' = [work EXCEPT !.rows[v] = Leaves(p, v)]
                          /\ left' = [left EXCEPT ![p] = @ \ {v}]
  /\ GoesTo(p, "run")
  /\ UNCHANGED <<schema, rows, rowLock, target, way, began, migrations>>

\* Reading the table, a statement of a version or its record fails.
Failing(p) == at[p] \in {"validate", "record"} \/ (at[p] = "run" /\ left[p] # {})

SqlFails_commits(p) ==
  /\ Failing(p) /\ left' = [left EXCEPT ![p] = {}] /\ GoesTo(p, "run")
  /\ UNCHANGED <<schema, rows, work, rowLock, target, way, began, migrations>>

SqlFails(p) ==
  /\ Failing(p) /\ left' = [left EXCEPT ![p] = {}] /\ GoesTo(p, "rollback")
  /\ UNCHANGED <<schema, rows, work, rowLock, target, way, began, migrations>>

Ends(p) ==
  /\ began' = [began EXCEPT ![p] = FALSE] /\ left' = [left EXCEPT ![p] = {}]
  /\ target' = [target EXCEPT ![p] = 0] /\ way' = [way EXCEPT ![p] = "up"] /\ GoesTo(p, "idle")

migration_commit_connection(p) ==
  /\ at[p] = "run" /\ left[p] = {}
  /\ schema' = work.schema /\ rows' = work.rows
  /\ rowLock' = NoProc /\ work' = Nothing
  /\ Ends(p) /\ UNCHANGED migrations

migration_rollback_connection(p) ==
  /\ at[p] = "rollback"
  /\ rowLock' = NoProc /\ work' = Nothing
  /\ Ends(p) /\ UNCHANGED <<schema, rows, migrations>>

\* COMMIT is refused: nothing is rolled back and the transaction stays open.
CommitFails(p) ==
  /\ at[p] = "run" /\ left[p] = {} /\ GoesTo(p, "idle")
  /\ UNCHANGED <<schema, rows, work, rowLock, target, way, left, began, migrations>>

\* The process dies, or its connection is closed: the database rolls back.
Disconnect(p) ==
  /\ at[p] # "idle" \/ began[p]
  /\ IF rowLock = p THEN rowLock' = NoProc /\ work' = Nothing ELSE UNCHANGED <<rowLock, work>>
  /\ Ends(p) /\ UNCHANGED <<schema, rows, migrations>>

MigratorNext ==
  \E p \in Migrators :
    \/ up(p) \/ migration_down_one(p)
    \/ \E t \in Versions \cup {0} : up_to(p, t) \/ down_to(p, t)
    \/ begin_migration_transaction(p) \/ \E begun \in BOOLEAN : BeginFails(p, begun)
    \/ ReadApplied(p) \/ RunSql(p) \/ Record(p) \/ SqlFails(p)
    \/ migration_commit_connection(p) \/ migration_rollback_connection(p) \/ CommitFails(p)
    \/ Disconnect(p)

MigratorSpec == MigratorInit /\ [][MigratorNext]_migratorVars

(***************************************************************************)
(* Properties                                                              *)
(***************************************************************************)

MigratorTypeOK ==
  /\ schema \in [Versions -> Nat] /\ rows \in [Versions -> Nat]
  /\ work \in [schema : [Versions -> Nat], rows : [Versions -> Nat]]
  /\ rowLock \in Procs \cup {NoProc} /\ began \in [Procs -> BOOLEAN]
  /\ at \in [Procs -> {"idle", "begin", "validate", "run", "record", "rollback"}]
  /\ target \in [Procs -> 0..LastVersion]
  /\ way \in [Procs -> {"up", "down"}] /\ left \in [Procs -> SUBSET Versions]

\* Whatever fails, and whoever dies, the metadata table records exactly what has been run
\* against the schema, version by version and with the very SQL: a migration and its
\* record are committed together or not at all.
SchemaFollowsRows == schema = rows

\* What a process does next continues the history it read: upwards nothing it defines is
\* left out below, downwards nothing is left above, and a version is undone by the very
\* SQL that belongs to the one that was applied.
MigrationsInOrder ==
  \A p \in Migrators : at[p] = "run" =>
    \A next \in {v \in left[p] : IsNext(p, v)} :
      IF way[p] = "up"
      THEN \A v \in Defined(p) : v < next => work.rows[v] = Definitions[p][v]
      ELSE /\ work.rows[next] = Definitions[p][next]
           /\ \A v \in Versions : v > next => work.rows[v] = 0

\* One process at a time is between BEGIN and the end of its transaction.
OneMigrates == \A p \in Procs : at[p] \in {"validate", "run", "record", "rollback"} => rowLock = p

\* What a process is about to commit is a history it accepts when it reads it back.
CommitsValid == \A p \in Migrators : at[p] = "run" => Valid(p, work.rows)

\* What has been run is what the table records, one version after the other, whichever
\* processes migrate at the same time and wherever one of them fails.
MigrationsSound ==
  MigratorTypeOK /\ SchemaFollowsRows /\ MigrationsInOrder /\ OneMigrates /\ CommitsValid
=============================================================================
