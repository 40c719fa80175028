CONSTANTS
  User = {o, m}
  Founder = o
  Task = {t1}
  Comment = {c1}
  Request = {r1, r2}
  None = None
  Kinds = {"addMember", "updateMember", "removeMember", "createTask", "updateTask", "transitionStatus", "createComment", "markRead", "markAllRead"}
  Grants = {"ADMIN", "VIEWER"}
  MaxRetries = 1
SYMMETRY Symmetry
SPECIFICATION Spec
INVARIANTS
  OnlyMembersNamed
  OwnerRemains
PROPERTIES
  StatusLifecycle
  RemovalRespectsRank
CHECK_DEADLOCK FALSE
