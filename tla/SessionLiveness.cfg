SPECIFICATION FairSpec
CONSTANTS
  t1 = t1
  t2 = t2
  t3 = t3
  r1 = r1
  r2 = r2
  r3 = r3
  NoToken = NoToken
  NoRequest = NoRequest
  Token <- MCTokens3
  Roots <- MCOneRoot
  Request <- MCTwo
  Serves <- MCAlarm
  RotateAfter = 2
  Grace = 1
  Ttl = 5
  MaxTime = 4
  MayFail = FALSE
PROPERTY RevokersReturn
CHECK_DEADLOCK FALSE
