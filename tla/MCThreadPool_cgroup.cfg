SPECIFICATION Spec
CONSTANTS
  t1 = t1
  t2 = t2
  k1 = k1
  i1 = i1
  i2 = i2
  i3 = i3
  Tenants = {t1, t2}
  Tasks = {k1}
  ThreadIds = {i1, i2, i3}
  MaxThreads = 2
  ThreadCounts = {0, 1, 2}
  Totals = {2, 3}
  CgroupModes = {FALSE, TRUE}
  CgroupIO = {FALSE, TRUE}
  SpawnMayFail = TRUE
  NoTenant = NoTenant
  NoThread = NoThread
  NoTask = NoTask
SYMMETRY Symmetry
INVARIANTS
  ThreadBudget
  NoDanglingThread
  CgroupReady
CHECK_DEADLOCK FALSE
