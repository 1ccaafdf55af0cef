SPECIFICATION BrowserSpec
CONSTANTS
  t1 = t1
  t2 = t2
  ann = ann
  bob = bob
  c1 = c1
  c2 = c2
  None = None
  Unknown = Unknown
  Nobody = Nobody
  Random = Random
  Tab = {t1}
  User = {ann, bob}
  Company = {c1, c2}
  Companies <- MCCompanies
  AtWork = {ann}
  Home = c1
  MaxSessions = 2
  MaxCalls = 4
  MaxVisits = 1
  MaxFailures = 1
INVARIANTS
  NothingFetchedBeforeIsShown
  OneInvoicePerVisit
  SignedOutIsEnded
CHECK_DEADLOCK FALSE
