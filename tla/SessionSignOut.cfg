SPECIFICATION LastingSpec
CONSTANTS
  t1 = t1
  t2 = t2
  t3 = t3
  r1 = r1
  r2 = r2
  r3 = r3
  NoToken = NoToken
  NoRequest = NoRequest
  Token <- MCTokens3
  Roots <- MCOneRoot
  Request <- MCThree
  Serves <- MCSignOuts
  RotateAfter = 2
  Grace = 1
  Ttl = 3
  MaxTime = 3
  MayFail = TRUE
SYMMETRY MCTokenSymmetry
PROPERTIES RevokeEndsFamily
