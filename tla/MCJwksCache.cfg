SPECIFICATION Spec
CONSTANTS
  k1 = k1  k2 = k2
  Keys = {k1, k2}
  None = None
  NoEntry = NoEntry
  MaxAge = 2
  LambdaTimeout = 1
  MaxTime = 5
SYMMETRY Interchangeable
INVARIANTS TypeOK OneStrikePerKey WithdrawnKeysLapse
