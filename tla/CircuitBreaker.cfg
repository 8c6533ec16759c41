CONSTANTS
  r1 = r1
  r2 = r2
  r3 = r3
  r4 = r4
  b1 = b1
  Requests = {r1, r2, r3, r4}
  Backends = {b1}
  FailureThreshold = 3
  RecoveryTimeout = 3
  FailureCap = 4
  Methods = {"GET", "HEAD"}
SPECIFICATION FairBreakerSpec
INVARIANT ClosedBelowThreshold
PROPERTIES RefusalNeedsRecentFailure ImplementsPolicy RecoveredBackendIsServed DeadBackendIsCutOff
