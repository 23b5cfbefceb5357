SPECIFICATION Spec
CONSTANTS
  Clients = {"requests", "httpx", "httpx_async", "aiohttp"}
  Importable = {"aiohttp"}
  Threads = {t1, t2}
  Hosts <- MCHosts
  Payloads = {"json", "stream"}
  TenantOverrides <- MCTenantOverrides
  SettingsOverrides <- MCSettingsOverrides
  Classes <- MCClasses
  Absent = Absent
  MaxCalls = 2
  MaxTime = 1
  MaxRepatches = 3
  MaxEdits = 1
SYMMETRY ThreadSymmetry
CHECK_DEADLOCK FALSE
INVARIANTS
  TypeOK
  PatchesMatchFlags
  SendsRecordedOnce
  ClassHasOneSource
  LastSeenLagsByOverlap
