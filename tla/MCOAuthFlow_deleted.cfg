SPECIFICATION Spec
CONSTANTS
  s1 = s1  s2 = s2  c1 = c1  c2 = c2  t1 = t1  t2 = t2  d1 = d1
  Sessions = {s1}
  Codes = {c1}
  Tokens = {}
  Deletions = {d1}
  None = None
  NoItem = NoItem
  SessionTtl = 2
  CodeTtl = 1
  LambdaTimeout = 1
  MaxAttempts = 2
  LastArrival = 0
  MaxTime = 3
PROPERTIES DeletedNeverAuthorized
CHECK_DEADLOCK FALSE
