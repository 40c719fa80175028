CONSTANTS
  t1 = t1
  t2 = t2
  s1 = s1
  s2 = s2
  alice = alice
  bob = bob
  ann = ann
  ben = ben
  abe = abe
  d = d
  e = e
  Tab = {t1, t2}
  Session = {s1, s2}
  Earlier = {s1}
  Owner <- MCOwner
  May <- MCMay
  WebLocks = TRUE
  Faults = {"network", "reload"}
  MaxRetries = 1
  MaxInbox = 1
  MaxFailures = 1
  None = None
  PageSize = 1
  Limit = 1
  Members <- MCMembers
  Query = {"", "n", "be"}
  Found <- MCFound
  Member = {ann, ben}
  Label <- MCLabel
  MaxBody = 5
  Task = {d, e}
  TaskStatus = {"BACKLOG", "IN_PROGRESS", "CANCELED"}
  Filter = {"CANCELED"}
  Workspace = {a, b, c}
  Project = {a, b, c}
  MaxNotifications = 2
  MaxComments = 4
  MaxRows = 2
  MaxFiles = 1
  MaxLists = 2
  MaxEvents = 3
  MaxTroubles = 2
SPECIFICATION ScreensSpec
SYMMETRY Interchangeable
INVARIANTS
  SnapshotMatchesToken
  EndedSessionsHidden
  NoSpinnerLeft
  CreatedNotReplaced
  ReadStateKept
  OneRowPerFile
  MentionsReadLabels
  ThreadUnbroken
  OfferedMatch
PROPERTIES
  NewerLoginKept
CHECK_DEADLOCK FALSE
