SPECIFICATION Spec
CONSTANTS
  c1 = c1
  c2 = c2
  t1 = t1
  t2 = t2
  Clients = {c1, c2}
  Tenants = {t1, t2}
  Quotas = {1}
  PoolUnits = 1
  Requests = TRUE
  Monitoring = TRUE
  PoolMayStop = TRUE
  LateInit = FALSE
  SpawnMayFail = TRUE
  NoClient = NoClient
  NoTenant = NoTenant
SYMMETRY Symmetry
INVARIANTS
  TypeOK
  Provisioned
  OwnedByTenants
PROPERTIES
  ServedWhileRegistered
CHECK_DEADLOCK FALSE
