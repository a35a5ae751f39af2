SPECIFICATION Spec
CONSTANTS
  k1 = k1  k2 = k2  v1 = v1  v2 = v2  u1 = u1  u2 = u2
  Keys = {k1, k2}
  Values = {v1, v2}
  Updates = {u1, u2}
  None = None
  Untouched = Untouched
  NoRow = NoRow
  NoData = NoData
  MaxAttempts = 2
SYMMETRY Interchangeable
INVARIANTS TypeOK PatchesMerge MergesSeenWhole DocumentPathExists
PROPERTIES DeletedStaysDeleted ImplementsMergedDocument
CHECK_DEADLOCK FALSE
