SPECIFICATION FairSpec
CONSTANTS
  u1 = u1
  u2 = u2
  r1 = r1
  r2 = r2
  p1 = p1
  p2 = p2
  Loop = Loop
  Users <- TwoUsers
  Requests <- OneRequest
  Passwords <- TwoPasswords
  Unreachable <- SecondUser
  Operations <- AllOps
  Deployed <- OneUser
  IdleEnabled = TRUE
  MaxRevision = 1
  MaxFaults = 1
PROPERTY Converges
PROPERTY KeepsPromise
PROPERTY PurgeTakesEffect
