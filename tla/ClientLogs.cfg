SPECIFICATION Spec
CONSTANTS
  office = office
  phone = phone
  Shared = Shared
  Blank = Blank
  NotAnAddress = NotAnAddress
  Network <- MCNetworks
  Pad <- MCPads
  Hops = 2
  Window = 2
  PruneInterval = 1
  ConfigRetry = 1
  Limit = 2
  SharedLimit = 3
  RecordLimit = 2
  SharedRecordLimit = 3
  MaxKeys = 1
  Unit <- MCUnits
  MaxTime = 4
  MaxArrivals = 4
  MaxReading = 2
SYMMETRY MCSymmetry
CHECK_DEADLOCK FALSE
INVARIANTS Ceilings TicketFindsItsEntry
PROPERTIES RetryAfterFrees KeepsLedger
