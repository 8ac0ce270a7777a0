SPECIFICATION FairSpec
CONSTANTS
  t1 = t1
  t2 = t2
  k1 = k1
  k2 = k2
  i1 = i1
  i2 = i2
  Tenants = {t1, t2}
  Tasks = {k1, k2}
  ThreadIds = {i1, i2}
  MaxThreads = 2
  ThreadCounts = {0, 1, 2}
  Totals = {1, 2}
  CgroupModes = {FALSE}
  CgroupIO = {TRUE}
  SpawnMayFail = FALSE
  NoTenant = NoTenant
  NoThread = NoThread
  NoTask = NoTask
INVARIANTS
  TypeOK
  TaskConservation
  FullyStaffed
PROPERTIES
  ServiceSpec
  CallsReturn
  TasksServed
