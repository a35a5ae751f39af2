SPECIFICATION Spec
CONSTANTS
  p1 = p1  q1 = q1  q2 = q2  v1 = v1
  CommonKeys = {p1}
  ClientKeys = {q1, q2}
  Values = {v1}
  None = None
  ParameterTtl = 1
  LambdaTimeout = 1
  MaxTime = 5
SYMMETRY Interchangeable
INVARIANTS TypeOK ClientConfigRecentWhenLoaded CommonEntriesRecent
