CONSTANTS
  a = a
  b = b
  w1 = w1
  w2 = w2
  adm1 = adm1
  Workers = {w1, w2}
  Admins = {adm1}
  Paths = {a, b}
  Requests <- SomeRequests
  Tables <- SomeTables
  FirstTable <- OneRoute
  FirstCapacity = 1
  Patterns <- SomePatterns
  Answers <- SomeAnswers
  RedisFails = TRUE
SPECIFICATION Spec
INVARIANTS AuthorisedOnly ClearTakesAll HonoursDirectives
SYMMETRY Symmetric
