------------------------------- MODULE DemoSeed -------------------------------
(***************************************************************************)
(* Building the demo environment: tenants over the owning connection, then *)
(* the accounts, then for each company its provisioning, its further       *)
(* members and its stock, over the application's connection                *)
(* (src/apps/api/src/demo, src/apps/api/src/companies).                    *)
(*                                                                         *)
(* A row is its table and its key.  What a seed writes is a sequence of    *)
(* transactions, each a sequence of inserts; the database takes a key      *)
(* once, and a row only when the rows it names are there.  Customers and   *)
(* audit events, which no other row names, are left out.  Several seeds    *)
(* may run: after a crash, or at once.                                     *)
(***************************************************************************)
EXTENDS Integers, SequencesExt

CONSTANTS
  Seed,
  DEMO_TENANTS,      \* sequences, as the dataset lists them
  DEMO_USERS,
  demoCompanies,
  CompanyTenant, Administrator,
  Members,           \* the further members of a company, in order, with their role
  Products,          \* the stockable products of a company, in lock order
  ROLE_TEMPLATES, DEFAULT_CHART, POSTING_PURPOSES, SEQUENCES,
  ADMINISTRATOR_ROLE_KEY,
  DEFAULT_POSTING_ACCOUNTS   \* the account code of a purpose

ASSUME DatasetAssumption ==
  /\ {DEMO_TENANTS, DEMO_USERS, demoCompanies, ROLE_TEMPLATES, DEFAULT_CHART,
      POSTING_PURPOSES, SEQUENCES} \subseteq Seq(STRING)
  /\ Administrator \in [ToSet(demoCompanies) -> STRING]
  /\ Members \in [ToSet(demoCompanies) -> Seq(STRING \X STRING)]
  /\ Products \in [ToSet(demoCompanies) -> Seq(STRING)]
  /\ ADMINISTRATOR_ROLE_KEY \in ToSet(ROLE_TEMPLATES)
  /\ \A p \in ToSet(POSTING_PURPOSES) :
       DEFAULT_POSTING_ACCOUNTS[p] \in ToSet(DEFAULT_CHART)

-----------------------------------------------------------------------------
(* What is written, transaction by transaction *)

Rows(name, c, keys) == [i \in DOMAIN keys |-> <<name, c, keys[i]>>]

\* createTenant: every statement commits by itself.
createTenants == [i \in DOMAIN DEMO_TENANTS |-> <<<<"tenants", DEMO_TENANTS[i]>>>>]

\* createAccounts
createAccounts == <<[i \in DOMAIN DEMO_USERS |-> <<"users", DEMO_USERS[i]>>]>>

\* seedDefaultRolesIn
seedDefaultRoles(c) == Rows("roles", c, ROLE_TEMPLATES)

provisionSequences(c) == Rows("document_number_sequences", c, SEQUENCES)

provisionChartOfAccounts(c) == Rows("accounts", c, DEFAULT_CHART)

provisionPostingAccounts(c) == Rows("company_posting_accounts", c, POSTING_PURPOSES)

\* admit
admit(c) ==
  <<<<"memberships", c, Administrator[c]>>,
    <<"membership_roles", c, Administrator[c], ADMINISTRATOR_ROLE_KEY>>>>

configuration(c) ==
  <<<<"companies", c>>>> \o seedDefaultRoles(c) \o provisionSequences(c)

accounting(c) == provisionChartOfAccounts(c) \o provisionPostingAccounts(c)

\* Wrong: the ledger is set up after the company.
ProvisionInTwo(c) == <<configuration(c) \o admit(c), accounting(c)>>

\* provision.  The company is new, so none of what it looks for first exists.
provision(c) == <<configuration(c) \o accounting(c) \o admit(c)>>

\* admitMembers: the memberships, and then assignRole for each.
admitMembers(c) ==
  LET who == [i \in DOMAIN Members[c] |-> Members[c][i][1]]
      role == [i \in DOMAIN Members[c] |->
                 <<<<"membership_roles", c, Members[c][i][1], Members[c][i][2]>>>>]
  IN  IF who = <<>> THEN <<>> ELSE <<Rows("memberships", c, who)>> \o role

\* loadMasterDataAndOpeningStock, with the movement of each product.
loadMasterDataAndOpeningStock(c) ==
  <<<<<<"warehouses", c>>>> \o Rows("products", c, Products[c])
      \o Rows("stock_movements", c, Products[c])>>

\* What is done for each company.
building(c) == provision(c) \o admitMembers(c) \o loadMasterDataAndOpeningStock(c)

\* seed, after it has found nothing: the parts, each a sequence of transactions.
Program ==
  <<createTenants \o createAccounts>>
    \o [i \in DOMAIN demoCompanies |-> building(demoCompanies[i])]

\* The foreign keys of a row.
References(row) ==
  LET c == row[2] IN
  CASE row[1] = "companies" -> {<<"tenants", CompanyTenant[c]>>}
    [] row[1] \in {"tenants", "users"} -> {}
    [] row[1] = "memberships" -> {<<"companies", c>>, <<"users", row[3]>>}
    [] row[1] = "membership_roles" ->
         {<<"memberships", c, row[3]>>, <<"roles", c, row[4]>>}
    [] row[1] = "company_posting_accounts" ->
         {<<"companies", c>>, <<"accounts", c, DEFAULT_POSTING_ACCOUNTS[row[3]]>>}
    [] row[1] = "stock_movements" -> {<<"products", c, row[3]>>, <<"warehouses", c>>}
    [] OTHER -> {<<"companies", c>>}

\* assignRole reads what the administrator holds.
GrantingRole(row) ==
  IF row[1] = "membership_roles" /\ row[3] # Administrator[row[2]]
  THEN {<<"membership_roles", row[2], Administrator[row[2]], ADMINISTRATOR_ROLE_KEY>>}
  ELSE {}

-----------------------------------------------------------------------------
VARIABLES
  stored,    \* what has been committed
  written,   \* what the open transaction of a seed has inserted
  spc,       \* where a seed is
  at,        \* the part of Program and the transaction of it that it is in
  stmt       \* the insert of that transaction it is at

seedVars == <<stored, written, spc, at, stmt>>

Transactions == UNION {ToSet(Program[i]) : i \in DOMAIN Program}

Everything == UNION {ToSet(T) : T \in Transactions}

SeedEnded == {"reported", "refused", "failed"}

SeedTypeOK ==
  /\ stored \subseteq Everything
  /\ written \in [Seed -> SUBSET Everything]
  /\ spc \in [Seed -> SeedEnded \cup {"tenants", "present", "absent", "write"}]
  /\ at \in [Seed -> Nat \X Nat]
  /\ stmt \in [Seed -> Nat]

SeedInit ==
  /\ stored = {}
  /\ written = [s \in Seed |-> {}]
  /\ spc = [s \in Seed |-> "tenants"]
  /\ at = [s \in Seed |-> <<1, 1>>] /\ stmt = [s \in Seed |-> 1]

Stops(s, how) ==
  /\ spc' = [spc EXCEPT ![s] = how]
  /\ written' = [written EXCEPT ![s] = {}]
  /\ UNCHANGED <<stored, at, stmt>>

Present(name) == \E row \in stored : row[1] = name

GoOn(s, where) ==
  /\ spc' = [spc EXCEPT ![s] = where]
  /\ UNCHANGED <<stored, written, at, stmt>>

\* refuseIfPresent: the tenants over one connection, and then the accounts over
\* the other; either is enough to refuse.
LookForTenants(s) ==
  /\ spc[s] = "tenants"
  /\ GoOn(s, IF Present("tenants") THEN "present" ELSE "absent")

LookForAccounts(s) ==
  /\ spc[s] \in {"present", "absent"}
  /\ IF spc[s] = "present" \/ Present("users") THEN Stops(s, "refused") ELSE GoOn(s, "write")

Writing(s) == spc[s] = "write" /\ at[s][1] <= Len(Program)

Transaction(s) == Program[at[s][1]][at[s][2]]

Row(s) == Transaction(s)[stmt[s]]

\* The transaction after this one.
After(place) ==
  IF place[2] < Len(Program[place[1]]) THEN <<place[1], place[2] + 1>> ELSE <<place[1] + 1, 1>>

\* A key another transaction has inserted and not committed is waited for.
Blocked(s, row) == \E t \in Seed \ {s} : row \in written[t]

\* The key is new, and what the row names is there.
Fits(s, row) ==
  /\ row \notin stored
  /\ References(row) \cup GrantingRole(row) \subseteq stored \cup written[s]

Insert(s) ==
  /\ Writing(s) /\ stmt[s] <= Len(Transaction(s))
  /\ ~Blocked(s, Row(s)) /\ Fits(s, Row(s))
  /\ written' = [written EXCEPT ![s] = @ \cup {Row(s)}]
  /\ stmt' = [stmt EXCEPT ![s] = @ + 1]
  /\ UNCHANGED <<stored, spc, at>>

\* The database refuses the row: the transaction and the seed end.
Throw(s) ==
  /\ Writing(s) /\ stmt[s] <= Len(Transaction(s))
  /\ ~Blocked(s, Row(s)) /\ ~Fits(s, Row(s))
  /\ Stops(s, "failed")

CommitSeed(s) ==
  /\ Writing(s) /\ stmt[s] > Len(Transaction(s))
  /\ stored' = stored \cup written[s]
  /\ written' = [written EXCEPT ![s] = {}]
  /\ at' = [at EXCEPT ![s] = After(@)]
  /\ stmt' = [stmt EXCEPT ![s] = 1]
  /\ UNCHANGED spc

Report(s) ==
  /\ spc[s] = "write" /\ at[s][1] > Len(Program)
  /\ Stops(s, "reported")

\* The process or its connection is lost.
CrashSeed(s) ==
  /\ spc[s] \notin SeedEnded
  /\ Stops(s, "failed")

-----------------------------------------------------------------------------
(* Properties *)

\* What a company cannot trade without.
Needed(c) ==
  ToSet(configuration(c)) \cup ToSet(accounting(c)) \cup ToSet(admit(c))

\* There is no half provisioned company: whoever can see one sees its roles, its
\* sequences, its chart, its posting accounts and an administrator.  (provision)
CompaniesAreWhole ==
  \A c \in ToSet(demoCompanies) : <<"companies", c>> \in stored => Needed(c) \subseteq stored
=============================================================================
