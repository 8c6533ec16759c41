CONSTANTS
  t1 = t1
  t2 = t2
  c1 = c1
  e1 = e1
  o1 = o1
  o2 = o2
  NoBucket = NoBucket
  NoLimit = NoLimit
  Threads = {t1, t2}
  Clients = {c1}
  Endpoints = {e1}
  Buckets = {o1, o2}
  Scale = 2
  GlobalLimits <- OnePerSecond
  PerIPLimits <- NoneOrTwo
  EndpointLimits <- OneInTwoSeconds
  IdleSeconds = 0
  MaxNow = 4
SPECIFICATION Spec
SYMMETRY Symmetry
INVARIANTS TypeOK BucketRateBound 
PROPERTIES CleanupForgetsNothing
CHECK_DEADLOCK FALSE
