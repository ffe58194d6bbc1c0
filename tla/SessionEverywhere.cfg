SPECIFICATION Spec
CONSTANTS
  t1 = t1
  t2 = t2
  t3 = t3
  r1 = r1
  r2 = r2
  r3 = r3
  NoToken = NoToken
  NoRequest = NoRequest
  Token <- MCTokens3
  Roots <- MCTwoRoots
  Request <- MCTwo
  Serves <- MCEverywhere
  RotateAfter = 2
  Grace = 1
  Ttl = 5
  MaxTime = 2
  MayFail = TRUE
SYMMETRY MCRootSymmetry
PROPERTIES RevokeAllEndsCounted
