CONSTANTS
  Session = {s1, s2}
  Request = {r1, r2}
  User = {u1}
  None = None
  Grace = 1
  Lifetime = 2
  Retention = 1
  Second = 2
  Skews <- Skewed
  MaxClock = 3
SYMMETRY Symmetry
SPECIFICATION Spec
INVARIANTS
  UnauthorizedMeansDead
  LogoutFinal
PROPERTIES
  RevocationFinal
  ExpiryAbsolute
  ImplementsContract
CHECK_DEADLOCK FALSE
