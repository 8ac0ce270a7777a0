SPECIFICATION Spec
CONSTANTS
  c1 = c1
  c2 = c2
  t1 = t1
  t2 = t2
  Clients = {c1, c2}
  Tenants = {t1, t2}
  Totals = {100}
  CpuQuotas = {0, 61, 65}
  RequestSize = 1000
  NoTenant = NoTenant
  MaxGranted = 0
SYMMETRY Symmetry
INVARIANTS
  TypeOK
  Accounting
  OvercommitBounded
