SPECIFICATION Spec
CONSTANTS
  u1 = u1
  u2 = u2
  r1 = r1
  r2 = r2
  p1 = p1
  p2 = p2
  Loop = Loop
  Users <- OneUser
  Requests <- TwoRequests
  Passwords <- TwoPasswords
  Unreachable <- NoUsers
  Operations <- RestartPurge
  Deployed <- NoUsers
  IdleEnabled = FALSE
  MaxRevision = 1
  MaxFaults = 0
SYMMETRY RequestSymmetry
INVARIANT TypeOK
INVARIANT DependenciesFirst
INVARIANT SecretHonest
INVARIANT PodPasswordCurrent
INVARIANT DatabaseLeads
INVARIANT CondemnedPodOutdated
PROPERTY SettledStays
