SPECIFICATION Spec
CONSTANTS
  Threads = {t1}
  Workers = {w1}
  Tenants = {a, b}
  NoTenant = NoTenant
  Users = {u1}
  Anonymous = Anonymous
  TokenUsers = {u1}
  HostMiddleware <- MCHostMiddleware
  IncludeJWT = TRUE
  NoTask = NoTask
  Unresolved = Unresolved
  Texts = {"body"}
  RegexCandidates <- MCRegexCandidates
  PresidioCandidates <- MCPresidioCandidates
  MaxRequests = 2
  MaxScans = 2
  MaxChanges = 1
  MaxFailures = 1
  MaxRedeliveries = 1
SYMMETRY TenantSymmetry
CHECK_DEADLOCK FALSE
INVARIANTS
  TypeOK
  RowsNameTheirRequest
  OneTenantPerRequest
  OnlyDetachedCallsMissed
  SameSpanOnce
