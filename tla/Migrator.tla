------------------------------- MODULE Migrator -------------------------------
(***************************************************************************)
(* The migration runner (src/apps/api/src/database/migrator.ts).           *)
(*                                                                         *)
(* Several runners may meet on one database: replicas that start together, *)
(* and releases whose directories hold different files.  Each connects,    *)
(* takes the advisory lock, reads what is recorded as applied, decides,    *)
(* and applies what is pending, one transaction per migration.  Any        *)
(* migration may fail and any runner may lose its connection, which        *)
(* releases the lock and rolls back what was not committed.  (That a role  *)
(* that is a superuser is refused before any of it is left out.)           *)
(***************************************************************************)
EXTENDS Integers, Sequences

CONSTANTS
  Runner,
  Version, Checksum,
  Absent,        \* no row, nobody
  FilesOf,       \* the directory of a runner: a checksum per version, or Absent
  DryRun         \* the runners started with --dry-run

ASSUME RunnersAssumption ==
  /\ Version \subseteq Nat
  /\ Absent \notin Runner \cup Checksum
  /\ FilesOf \in [Runner -> [Version -> Checksum \cup {Absent}]]
  /\ DryRun \subseteq Runner

VARIABLES
  record,    \* schema_migrations: the checksum of an applied version
  executed,  \* the schema: the migrations whose SQL has taken effect, in order
  table,     \* whether schema_migrations exists
  lock,      \* pg_advisory_lock: the session that holds it
  rpc,       \* where a runner is
  pending    \* plan.pending of a runner, what it has applied taken off

runnerVars == <<record, executed, table, lock, rpc, pending>>

Nothing == [v \in Version |-> Absent]

Applied == {v \in Version : record[v] # Absent}

Ended == {"done", "refused", "failed"}

RunnerTypeOK ==
  /\ record \in [Version -> Checksum \cup {Absent}]
  /\ executed \in Seq(Version \X Checksum)
  /\ table \in BOOLEAN
  /\ lock \in Runner \cup {Absent}
  /\ rpc \in [Runner -> Ended \cup {"start", "lock", "read", "apply", "commit"}]
  /\ pending \in [Runner -> SUBSET Version]

RunnerInit ==
  /\ record = Nothing /\ executed = <<>> /\ table = FALSE /\ lock = Absent
  /\ rpc = [r \in Runner |-> "start"]
  /\ pending = [r \in Runner |-> {}]

-----------------------------------------------------------------------------
(* planMigrations *)

Files(r) == {v \in Version : FilesOf[r][v] # Absent}

\* An applied migration whose file is gone, or has changed.
Missing(r) == Applied \ Files(r)
Changed(r) == {v \in Applied \cap Files(r) : record[v] # FilesOf[r][v]}

Pending(r) == Files(r) \ Applied

\* Pending, and numbered below one already applied.
OutOfOrder(r) == {v \in Pending(r) : \E w \in Applied : v < w}

Refusal(r) == Missing(r) # {} \/ Changed(r) # {} \/ OutOfOrder(r) # {}

-----------------------------------------------------------------------------
(* runMigrations *)

\* Wrong: the connection is left open.
KeepsLock(r, how) ==
  /\ rpc' = [rpc EXCEPT ![r] = how]
  /\ pending' = [pending EXCEPT ![r] = {}]
  /\ UNCHANGED lock

\* The connection closes, however the run ends: the lock is released.
Leaves(r, how) ==
  /\ rpc' = [rpc EXCEPT ![r] = how]
  /\ pending' = [pending EXCEPT ![r] = {}]
  /\ lock' = IF lock = r THEN Absent ELSE lock

Connect(r) ==
  /\ rpc[r] = "start"
  /\ rpc' = [rpc EXCEPT ![r] = "lock"]
  /\ UNCHANGED <<record, executed, table, lock, pending>>

\* Wrong: a shared lock.
Shared(r) == TRUE

LockGranted(r) == lock = Absent

Lock(r) ==
  /\ rpc[r] = "lock" /\ LockGranted(r)
  /\ lock' = r
  /\ rpc' = [rpc EXCEPT ![r] = "read"]
  /\ UNCHANGED <<record, executed, table, pending>>

\* The bookkeeping table is made first, unless nothing is to be written.
Read(r) ==
  /\ rpc[r] = "read"
  /\ table' = (table \/ r \notin DryRun)
  /\ UNCHANGED <<record, executed>>

\* planMigrations refuses: a MigrationError.
RefusePlan(r) ==
  /\ Read(r) /\ Refusal(r)
  /\ Leaves(r, "refused")

NothingToDo(r) ==
  /\ Read(r) /\ ~Refusal(r)
  /\ Pending(r) = {} \/ r \in DryRun
  /\ Leaves(r, "done")

Plan(r) ==
  /\ Read(r) /\ ~Refusal(r) /\ Pending(r) # {} /\ r \notin DryRun
  /\ pending' = [pending EXCEPT ![r] = Pending(r)]
  /\ rpc' = [rpc EXCEPT ![r] = "apply"]
  /\ UNCHANGED lock

\* The files come in version order.
Lowest(r) == CHOOSE v \in pending[r] : \A w \in pending[r] : v <= w

\* BEGIN and the SQL of the file, which nobody sees before the commit.
Apply(r) ==
  /\ rpc[r] = "apply" /\ pending[r] # {}
  /\ rpc' = [rpc EXCEPT ![r] = "commit"]
  /\ UNCHANGED <<record, executed, table, lock, pending>>

\* The row and the schema change commit together.  The primary key of
\* schema_migrations takes a version once.
Commit(r) ==
  LET v == Lowest(r) IN
  /\ rpc[r] = "commit" /\ v \notin Applied
  /\ record' = [record EXCEPT ![v] = FilesOf[r][v]]
  /\ executed' = Append(executed, <<v, FilesOf[r][v]>>)
  /\ pending' = [pending EXCEPT ![r] = @ \ {v}]
  /\ rpc' = [rpc EXCEPT ![r] = "apply"]
  /\ UNCHANGED <<table, lock>>

Finish(r) ==
  /\ rpc[r] = "apply" /\ pending[r] = {}
  /\ Leaves(r, "done")
  /\ UNCHANGED <<record, executed, table>>

\* The SQL or the insert is refused and rolled back, or the connection is lost.
Fail(r) ==
  /\ rpc[r] \notin Ended
  /\ Leaves(r, "failed")
  /\ UNCHANGED <<record, executed, table>>

Advance(r) ==
  \/ Connect(r) \/ Lock(r)
  \/ RefusePlan(r) \/ NothingToDo(r) \/ Plan(r)
  \/ Apply(r) \/ Commit(r) \/ Finish(r)

RunnerStep(r) == Advance(r) \/ Fail(r)

-----------------------------------------------------------------------------
(* Properties *)

\* The versions the schema was built from, in the order they took effect, are
\* exactly those recorded, each with the text that was recorded, and ascend: two
\* databases that record the same were built by the same sequence.
\* (planMigrations; the advisory lock; one transaction per migration.)
HistoryIsTheRecord ==
  /\ \A i, j \in 1 .. Len(executed) : i < j => executed[i][1] < executed[j][1]
  /\ {executed[i] : i \in 1 .. Len(executed)} = {<<v, record[v]>> : v \in Applied}
=============================================================================
