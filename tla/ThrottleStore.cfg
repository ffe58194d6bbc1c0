SPECIFICATION Spec
CONSTANTS
  ip1 = ip1
  ip2 = ip2
  both = both
  ip = ip
  email = email
  Key <- MCKeys
  Name <- MCNames
  Uses <- MCUses
  Limit <- MCLimit
  Ttl <- MCTtl
  Block <- MCTtl
  MaxKeys = 2
  ScanLimit = 1
  MinInterval = 2
  MaxTime = 5
SYMMETRY MCSymmetry
INVARIANTS WindowBound
PROPERTIES LiveKept FalseSaturationBrief
