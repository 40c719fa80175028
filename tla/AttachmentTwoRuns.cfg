CONSTANTS
  Slot = {1}
  Upload = {u1, u2, u3}
  Deletion = {d1}
  Run = {c1, c2}
  Content = {b1}
  Damaged = Damaged
  None = None
  TaskOf <- Tasks
  CreatorOf <- Creators
  Size <- Sizes
  TaskLimit = 2
  PendingLimit = 2
  WorkspacePendingLimit = 2
  WorkspaceBytes = 2
  Faults = {"crash"}
SYMMETRY Symmetry
SPECIFICATION Spec
INVARIANTS
  AvailableHasObject
CHECK_DEADLOCK FALSE
