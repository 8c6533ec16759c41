CONSTANTS
  w1 = w1
  w2 = w2
  c1 = c1
  login = login
  elsewhere = elsewhere
  Workers = {w1, w2}
  Clients = {c1}
  Endpoints = {login}
  Elsewhere = elsewhere
  Limits <- OneLevel
  Buffer = 2
  Timeout = 2
  RedisFails = TRUE
  Given <- BothNames
  MaxTime = 7
SPECIFICATION Spec
SYMMETRY Symmetric
INVARIANTS TypeOK RefusedOnlyWhenFull WindowBound
