CONSTANTS
  t1 = t1
  t2 = t2
  t3 = t3
  t4 = t4
  ip1 = ip1
  ip2 = ip2
  Threads = {t1, t2, t3, t4}
  IPs = {ip1, ip2}
  MaxConnections = 3
  Limits = {1, 2}
  CleanupSize = 1
  StaleAfter = 1
SPECIFICATION FairSpec
INVARIANTS TypeOK AdmittedWithinMaximum PerIPCountExact
PROPERTIES StoppedServerDrains AdmitsBelowPerIPLimit
