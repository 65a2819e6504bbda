SPECIFICATION FairSpec
CONSTANTS
  r1 = r1
  r2 = r2
  Requests <- TwoRequests
  Minute = 2
  IdleTimeout = 5
  MaxSkew = 1
  MaxDelay = 1
  MaxLost = 2
INVARIANT TypeOK
PROPERTY BusyStaysUp
PROPERTY IdleScalesDown
