CONSTANTS
  Slot = {1, 2, 3, 4}
  Upload = {u1, u2, u3}
  Deletion = {d1}
  Run = {c1}
  Content = {b1}
  Damaged = Damaged
  None = None
  TaskOf <- Tasks
  CreatorOf <- Creators
  Size <- Sizes
  TaskLimit = 1
  PendingLimit = 1
  WorkspacePendingLimit = 2
  WorkspaceBytes = 3
  Faults = {"crash", "storage", "db", "lost_ack", "late_put", "bypass", "slow_upload"}
  MaxHostileUploads = 2
  MaxReleases = 1
  HostileSlot = {1}
SYMMETRY Symmetry
SPECIFICATION Spec
CONSTRAINT Within
INVARIANTS
  QuotaRespected
PROPERTIES
  DeletionIsFinal
CHECK_DEADLOCK FALSE
