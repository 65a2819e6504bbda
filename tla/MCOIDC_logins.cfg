SPECIFICATION OIDCSpec
CONSTANTS
  ix = ix
  iy = iy
  s1 = s1
  s2 = s2
  p1 = p1
  p2 = p2
  t1 = t1
  t2 = t2
  b1 = b1
  q1 = q1
  q2 = q2
  a1 = a1
  NoIssuer = NoIssuer
  NoSecret = NoSecret
  Nobody = Nobody
  Issuers <- TwoIssuers
  Secrets <- TwoSecrets
  Tabs <- TwoTabs
  UserName <- OwnNames
  Registered <- Secret
  Admins <- OneAdmin
  Initial <- AtX
  Forms <- BackX
  Manifests <- AtY
  People <- TwoPeople
  Managed <- FirstPerson
  BrowserOf <- OneBrowser
  SubjectsOf <- Crossed
  MaxFlows = 2
SYMMETRY TabSymmetry
INVARIANT OIDCTypeOK
INVARIANT OwnAccount
INVARIANT VouchedFor
INVARIANT FirstSubjectStays
PROPERTY BlankKeepsSecret
