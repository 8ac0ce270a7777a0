SPECIFICATION FairSpec
CONSTANTS
  t1 = t1
  t2 = t2
  Tenants = {t1, t2}
  Usages = {0, 99}
  SpawnMayFail = TRUE
INVARIANTS
  TypeOK
  OneThread
PROPERTIES
  StoppedMeansStopped
  StopReturns
  MonitoredRefreshed
