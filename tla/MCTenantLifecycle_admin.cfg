SPECIFICATION FairSpec
CONSTANTS
  c1 = c1
  c2 = c2
  t1 = t1
  t2 = t2
  Clients = {c1, c2}
  Tenants = {t1, t2}
  Quotas = {0, 1, 2}
  PoolUnits = 2
  Requests = FALSE
  Monitoring = FALSE
  PoolMayStop = FALSE
  LateInit = FALSE
  SpawnMayFail = FALSE
  NoClient = NoClient
  NoTenant = NoTenant
INVARIANTS
  AllOrNothing
PROPERTIES
  AdminCallsReturn
  RegistrySpec
