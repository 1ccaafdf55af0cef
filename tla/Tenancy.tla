------------------------------- MODULE Tenancy -------------------------------
(***************************************************************************)
(* Who may see which rows: the scope of a transaction, the settings it     *)
(* leaves on its connection, the policies of the database that read them,  *)
(* and the predicates of the repositories, which repeat them.              *)
(*                                                                         *)
(* The tables here are those that say who belongs where: memberships,      *)
(* roles with their permissions, and the roles of a membership.  Every     *)
(* query is a set of rows that pass both layers.  Rows that nothing        *)
(* removes or changes are constants; memberships that are in force and     *)
(* assignments are passed in.                                              *)
(***************************************************************************)
EXTENDS Integers, FiniteSets

CONSTANTS
  Tenant, Company, User, Membership, Role, RoleKey, Permission,
  None,               \* NULL
  TenantOf,           \* companies.tenant_id
  MemberUser, MemberCompany,         \* memberships
  RoleCompany, KeyOf, Grants         \* roles, role_permissions

ASSUME TenancyAssumption ==
  /\ None \notin Tenant \cup Company \cup User
  /\ TenantOf \in [Company -> Tenant]
  /\ MemberUser \in [Membership -> User]
  /\ MemberCompany \in [Membership -> Company]
  /\ RoleCompany \in [Role -> Company]
  /\ KeyOf \in [Role -> RoleKey]
  /\ Grants \in [Role -> SUBSET Permission]

\* memberships_company_user_key, roles_company_key_key
ASSUME KeysAreUnique ==
  /\ \A m, n \in Membership :
       MemberUser[m] = MemberUser[n] /\ MemberCompany[m] = MemberCompany[n] => m = n
  /\ \A k, l \in Role :
       RoleCompany[k] = RoleCompany[l] /\ KeyOf[k] = KeyOf[l] => k = l

-----------------------------------------------------------------------------
(* Scopes and the settings run() makes of them: what a scope does not name *)
(* is set to the empty string, which the policies read as NULL.            *)

Settings ==
  [tenant : Tenant \cup {None}, company : Company \cup {None}, user : User \cup {None}]

actorScope(company, user) ==
  [tenant |-> TenantOf[company], company |-> company, user |-> user]

principalScope(user) == [tenant |-> None, company |-> None, user |-> user]

-----------------------------------------------------------------------------
(* Row level security: a comparison with NULL admits nothing.              *)

\* memberships_tenant_isolation, or memberships_self_discovery
MembershipPolicy(s, m) ==
  \/ s.tenant # None /\ TenantOf[MemberCompany[m]] = s.tenant
  \/ s.tenant = None /\ s.user # None /\ MemberUser[m] = s.user

\* roles_, role_permissions_ and membership_roles_tenant_company_isolation
CompanyPolicy(s, company) ==
  /\ s.tenant # None /\ TenantOf[company] = s.tenant
  /\ s.company # None /\ company = s.company

-----------------------------------------------------------------------------
(* Repositories.  A scope without the company or the user that a method    *)
(* asks for throws (requireCompanyId, requireActorUserId).                 *)

InScope(s, company) == company = s.company /\ TenantOf[company] = s.tenant

\* memberships.listOwn: by user, across tenants.
listOwn(s, active) ==
  {m \in active : MembershipPolicy(s, m) /\ MemberUser[m] = s.user}

\* memberships.findOwnForActiveCompany: at most one row.
findOwnForActiveCompany(s, active) ==
  {m \in active :
    /\ MembershipPolicy(s, m)
    /\ InScope(s, MemberCompany[m]) /\ MemberUser[m] = s.user}

\* memberships.findById, in force or not.
findMembership(s, m) == MembershipPolicy(s, m) /\ InScope(s, MemberCompany[m])

\* roles.listForCompany, and the one a key names.
rolesNamed(s, key) ==
  {k \in Role :
    /\ CompanyPolicy(s, RoleCompany[k]) /\ InScope(s, RoleCompany[k])
    /\ KeyOf[k] = key}

\* roles.listPermissionsForRole
listPermissionsForRole(s, role) ==
  IF CompanyPolicy(s, RoleCompany[role]) /\ InScope(s, RoleCompany[role])
  THEN Grants[role]
  ELSE {}

\* A row of membership_roles names the company it was written in.
Assignment == [membership : Membership, role : Role, company : Company]

\* roles.listPermissionsForMembership: the scope is on both sides of the join.
listPermissionsForMembership(s, membership, assigned) ==
  UNION {listPermissionsForRole(s, a.role) : a \in {b \in assigned :
    /\ b.membership = membership
    /\ CompanyPolicy(s, b.company) /\ InScope(s, b.company)}}

\* contextFor: a company is entered through a membership or not at all.
contextFor(memberships, company) == {m \in memberships : MemberCompany[m] = company}
=============================================================================
