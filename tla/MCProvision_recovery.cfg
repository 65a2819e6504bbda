SPECIFICATION FairSpec
CONSTANTS
  root = root
  e1 = e1
  e2 = e2
  c1 = c1
  c2 = c2
  r1 = r1
  r2 = r2
  NoContent = NoContent
  Emails <- ThreeEmails
  Bootstrapped = root
  AdminName = "root"
  Names <- ThreeNames
  Contents <- TwoContents
  Runs <- TwoRuns
  Manifest <- Demoting
  ConsoleEdits <- Edits
  MaxFailures = 2
INVARIANT TypeOK
INVARIANT RecoveryAdminRemains
INVARIANT DoneMeansApplied
PROPERTY EventuallyDone
