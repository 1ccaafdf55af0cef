SPECIFICATION SetupSpec
CONSTANTS
  new = new  branch = branch  look = look  s1 = s1  s2 = s2  nobody = nobody
  Absent = nobody
  Runner = {new, branch, look}
  Version = {1, 2, 3}
  Checksum = {"a", "b"}
  FilesOf <- MCFilesOf
  DryRun = {look}
  Seed = {s1, s2}
  DEMO_TENANTS <- MCTenants
  DEMO_USERS <- MCUsers
  demoCompanies <- MCCompanies
  CompanyTenant <- MCCompanyTenant
  Administrator <- MCAdministrator
  Members <- MCMembers
  Products <- MCProducts
  ROLE_TEMPLATES <- MCTemplates
  DEFAULT_CHART <- MCChart
  POSTING_PURPOSES <- MCPurposes
  SEQUENCES <- MCSequences
  ADMINISTRATOR_ROLE_KEY = "administrator"
  DEFAULT_POSTING_ACCOUNTS <- MCPostingAccounts
  MadeBy <- MCMadeBy
INVARIANTS
  HistoryIsTheRecord
  SeededRolesWork
  CompaniesAreWhole
PROPERTIES
  EverythingEnds
CHECK_DEADLOCK FALSE
