SPECIFICATION FairSpec
CONSTANTS
  i1 = i1
  i2 = i2
  e1 = e1
  s1 = s1
  t1 = t1
  t2 = t2
  NoEmail = NoEmail
  NoThread = NoThread
  Ids <- TwoIds
  Emails <- OneEmail
  Subjects <- OneSubject
  Threads <- TwoThreads
  Choices <- Changing
  Handlers <- Overlapping
INVARIANT TypeOK
INVARIANT SingleBootstrap
PROPERTY LockReleased
PROPERTY LastAdminKept
