CONSTANTS
  Session = {s1}
  Request = {r1, r2, r3}
  User = {u1}
  None = None
  Grace = 1
  Lifetime = 3
  Retention = 0
  Second = 1
  Skews <- Synchronised
  MaxClock = 3
SPECIFICATION FairSpec
INVARIANTS
  OneSuccessorPerToken
  CurrentTokenUsable
  OnlySpentTokensRejected
  ReplayEvidence
PROPERTIES
  RefreshAnswered
CHECK_DEADLOCK FALSE
