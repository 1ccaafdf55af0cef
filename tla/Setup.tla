-------------------------------- MODULE Setup --------------------------------
(***************************************************************************)
(* A database from nothing to the demo environment: migration runners and  *)
(* seeds on one database.  A table is there from the migration that makes  *)
(* it, so a seed that is started early, or beside a runner, may find some  *)
(* of its tables missing.                                                  *)
(***************************************************************************)
EXTENDS Migrator, DemoSeed, AccessSurface

CONSTANT MadeBy      \* the migration a table is made by

setupVars == <<runnerVars, seedVars>>

SetupInit == RunnerInit /\ SeedInit

Exists(name) == MadeBy[name] \in Applied

\* The next statement of a seed names this table.
TableOf(s) ==
  CASE spc[s] = "tenants" -> "tenants"
    [] spc[s] \in {"present", "absent"} -> "users"
    [] OTHER -> Row(s)[1]

NextStatement(s) == spc[s] # "write" \/ (Writing(s) /\ stmt[s] <= Len(Transaction(s)))

\* relation does not exist
NoTable(s) ==
  /\ spc[s] \notin SeedEnded /\ NextStatement(s) /\ ~Exists(TableOf(s))
  /\ Stops(s, "failed")

SeedAdvance(s) ==
  \/ /\ spc[s] \notin SeedEnded /\ NextStatement(s) /\ Exists(TableOf(s))
     /\ LookForTenants(s) \/ LookForAccounts(s) \/ Insert(s) \/ Throw(s)
  \/ NoTable(s) \/ CommitSeed(s) \/ Report(s)

SetupNext ==
  \/ \E r \in Runner : RunnerStep(r) /\ UNCHANGED seedVars
  \/ \E s \in Seed : (SeedAdvance(s) \/ CrashSeed(s)) /\ UNCHANGED runnerVars

Fairness ==
  /\ \A r \in Runner : WF_setupVars(Advance(r) /\ UNCHANGED seedVars)
  /\ \A s \in Seed : WF_setupVars(SeedAdvance(s) /\ UNCHANGED runnerVars)

SetupSpec == SetupInit /\ [][SetupNext]_setupVars /\ Fairness

\* Whoever is given one of the roles that a committed company has can do what the
\* browser draws for his permissions: every item of his navigation opens, and
\* whatever screen he comes to, over links that are drawn for everybody too, it
\* loads if it opens at all, no button on it is refused by the API, and each leads
\* to a screen that opens; and the permission matrix shows what he holds.  (A link
\* that is drawn for everybody may lead to the notice that a screen is closed.)
SeededRolesWork ==
  \A row \in stored : row[1] = "roles" =>
    /\ row[3] \in WorkingRoles
    /\ MatrixPermissions[row[3]] = TemplatePermissions[row[3]]

\* Every runner and every seed comes to an end, whatever the others do: a lock is
\* released with its connection, and a key that is waited for is committed or not.
EverythingEnds ==
  <>((\A r \in Runner : rpc[r] \in Ended) /\ (\A s \in Seed : spc[s] \in SeedEnded))
=============================================================================
