SPECIFICATION Spec
CONSTANTS
  k1 = k1  k2 = k2
  KmsKeys = {k1, k2}
  None = None
SYMMETRY Interchangeable
INVARIANTS TypeOK NoKeyOverlooked LegacyKeyHonoured
