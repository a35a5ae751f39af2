SPECIFICATION Spec
CONSTANTS
  a = a  b = b  u1 = u1  u2 = u2  c1 = c1
  Clients = {a, b}
  Uris = {u1, u2}
  Codes = {c1}
  None = None
  DrivingPermits <- Permits
  SessionJwts <- Sent
  Payloads <- Bought
SYMMETRY Interchangeable
INVARIANTS TypeOK SessionOfItsClient RedirectUrisAgree AddressesAsMeant
 
