SPECIFICATION FairSpec
CONSTANTS
  u1 = u1
  u2 = u2
  r1 = r1
  r2 = r2
  p1 = p1
  p2 = p2
  Loop = Loop
  Users <- OneUser
  Requests <- OneRequest
  Passwords <- TwoPasswords
  Unreachable <- NoUsers
  Operations <- AllOps
  Deployed <- OneUser
  IdleEnabled = FALSE
  MaxRevision = 1
  MaxFaults = 0
PROPERTY ConfigurationRollsPod
