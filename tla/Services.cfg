CONSTANTS
  Job = {j1, j2, j3}
  Request <- MCRequest
  Subject = {g1, g2}
  Mail = {m1, m2}
  None = None
  Nothing = Nothing
  g1 = g1
  g2 = g2
  m1 = m1
  m2 = m2
  c1 = c1
  c2 = c2
  ip = ip
  id1 = id1
  id2 = id2
  Client = {c1, c2}
  Key = {ip, id1, id2}
  Plan <- MCPlan
  Limit <- MCLimit
  Window = 2
  Tab = {t1, t2}
  MaxStarts = 2
  MaxVisits = 2
  MaxBlocks = 3
  Signature = 2
  Letter = {"x", "y"}
  MaxSlug = 4
  MaxName = 5
  Fallback <- MCFallback
  Suffix <- MCSuffix
  Worker = {w1, w2}
  Session = {1, 2}
  BatchSize = 1
  MaxBatches = 2
  Budget = 0
  LockTicks = 2
  MaxFaults = 1
  MaxControls = 1
SPECIFICATION ServicesSpec
INVARIANTS
  LinkedByOwner
  AccountReachable
  RefusalIsReal
  WindowBound
  CodeMeetsItsVerifier
  UploadWhole
PROPERTIES
  KeyReopens
  NoAbandonedWriter
  EventuallyDeleted
  UploadAnswered
CHECK_DEADLOCK FALSE
