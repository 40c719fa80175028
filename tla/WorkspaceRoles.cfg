CONSTANTS
  User = {o, a, m}
  Founder = o
  Task = {t1}
  Comment = {c1}
  Request = {r1, r2}
  None = None
  Kinds = {"updateMember"}
  Grants = {"ADMIN", "MEMBER", "VIEWER"}
  MaxRetries = 1
SYMMETRY Symmetry
SPECIFICATION Spec
PROPERTIES
  UpdateRespectsRank
CHECK_DEADLOCK FALSE
