SPECIFICATION Spec
CONSTANTS
  s1 = s1  s2 = s2  c1 = c1  c2 = c2  t1 = t1  t2 = t2  d1 = d1
  Sessions = {s1, s2}
  Codes = {c1, c2}
  Tokens = {t1}
  Deletions = {}
  None = None
  NoItem = NoItem
  SessionTtl = 2
  CodeTtl = 1
  LambdaTimeout = 1
  MaxAttempts = 1
  LastArrival = 0
  MaxTime = 1
SYMMETRY Interchangeable
INVARIANTS RowProvenance
PROPERTIES ImplementsOneTimeCode
CHECK_DEADLOCK FALSE
