CONSTANTS
  a1 = a1
  a2 = a2
  v0 = v0
  v1 = v1
  v2 = v2
  Admins = {a1, a2}
  Endpoints <- OneEndpoint
  Values = {v0, v1, v2}
  Odd = Odd
  Bad = Bad
  Default = Default
  Absent = Absent
  Documents <- SomeDocuments
  FirstDocument <- Start
  Forms = {"bare", "wrapped"}
SPECIFICATION Spec
INVARIANTS TypeOK UpdatedMeansInForce ShownIsInForce FailedUpdateIsAPrefix
SYMMETRY Symmetric
