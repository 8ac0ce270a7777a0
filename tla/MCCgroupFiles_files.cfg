SPECIFICATION Spec
CONSTANTS
  t1 = t1
  t2 = t2
  Tenants = {t1, t2}
  Quotas = {1, 2}
  Shares = {512}
  MaxTime = 1
INVARIANTS
  TypeOK
  GroupHasCgroup
  CpuUsageSeen
