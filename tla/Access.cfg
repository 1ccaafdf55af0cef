SPECIFICATION Spec
CONSTANTS
  t1 = t1  t2 = t2  c1 = c1  c2 = c2  ann = ann  bob = bob  r1 = r1  r2 = r2
  Tenant = {t1, t2}
  Company = {c1, c2}
  User = {ann, bob}
  Membership <- MCMembership
  Role <- MCRole
  RoleKey = {"administrator", "auditor"}
  Permission = {"admin:users", "audit:view"}
  None = None
  TenantOf <- MCTenantOf
  MemberUser <- MCMemberUser
  MemberCompany <- MCMemberCompany
  RoleCompany <- MCRoleCompany
  KeyOf <- MCKeyOf
  Grants <- MCGrants
  Session <- MCSession
  SessionUser <- MCSessionUser
  Request = {r1, r2}
  MaxRequests = 2
  MaxChanges = 1
  Asked <- MCAsked
  AdminUsers = "admin:users"
  Founding <- MCFounding
  Idle = 2
  Absolute = 3
  MaxAge = 1
  Horizon = 3
SYMMETRY Symmetry
INVARIANTS
  AuthorityNeverGrows
PROPERTIES
  ActsWhileEntitled
  SessionsOnlyEnd
CHECK_DEADLOCK FALSE
