SPECIFICATION FairSpec
CONSTANTS
  old = old
  new = new
  provision = provision
  Processes <- ThreeProcesses
  Known <- ThreeReleases
  Last = 3
  MaxFailures = 3
INVARIANT TypeOK
INVARIANT AppliedAsRecorded
INVARIANT NoGaps
INVARIANT ServesOnItsSchema
PROPERTY AllServe
