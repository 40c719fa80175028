CONSTANTS
  Slot = {1}
  Upload = {u1, u2, u3}
  Deletion = {d1, d2}
  Run = {c1}
  Content = {b1, b2}
  Damaged = Damaged
  None = None
  TaskOf <- Tasks
  CreatorOf <- Creators
  Size <- Sizes
  TaskLimit = 1
  PendingLimit = 1
  WorkspacePendingLimit = 1
  WorkspaceBytes = 1
  Faults = {"crash", "storage", "db", "bypass"}
SYMMETRY Symmetry
SPECIFICATION Spec
INVARIANTS
  AvailableHasObject
  NoOrphanObject
  CreatedMeansStored
PROPERTIES
  RemovedMeansErased
CHECK_DEADLOCK FALSE
