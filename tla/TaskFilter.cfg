CONSTANTS
  Task = {a, b}
  Status = {"BACKLOG", "IN_PROGRESS", "CANCELED"}
  Filter = {"ALL", "BACKLOG"}
  PageSize = 1
  MaxLists = 2
  MaxEvents = 2
  None = None
SPECIFICATION Spec
INVARIANTS
  CurrentFilterShown
CHECK_DEADLOCK FALSE
