SPECIFICATION FairGateway
CONSTANTS
  u1 = u1
  r1 = r1
  c1 = c1
  p1 = p1
  p2 = p2
  Loop = Loop
  Users <- OneUser
  Requests <- ClientAdmin
  Clients <- OneClient
  Passwords <- TwoPasswords
  Unreachable <- NoUsers
  Operations <- PurgeOnly
  Deployed <- OneUser
  IdleEnabled = FALSE
  MaxRevision = 0
  MaxFaults = 1
INVARIANT GatewayTypeOK
INVARIANT CachedPasswordWorks
PROPERTY ClientServed
PROPERTY NeverBreaksPromise
