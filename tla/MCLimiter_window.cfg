SPECIFICATION FairSpec
CONSTANTS
  k1 = k1
  k2 = k2
  h1 = h1
  h2 = h2
  h3 = h3
  Keys <- TwoKeys
  Handlers <- ThreeHandlers
  Window = 3
  Limit = 3
INVARIANT TypeOK
INVARIANT AtMostLimit
INVARIANT FilterKeepsRecent
INVARIANT RefusedOnlyWhenFull
PROPERTY ShutOutEnds
