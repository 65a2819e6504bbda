SPECIFICATION ReadinessSpec
CONSTANTS
  u1 = u1
  r1 = r1
  c1 = c1
  p1 = p1
  p2 = p2
  Loop = Loop
  Users <- OneUser
  Requests <- ClientAdmin
  Clients <- OneClient
  Passwords <- TwoPasswords
  Unreachable <- NoUsers
  Operations <- StopOnly
  Deployed <- OneUser
  IdleEnabled = FALSE
  MaxRevision = 0
  MaxFaults = 0
INVARIANT WaitsForReadiness
