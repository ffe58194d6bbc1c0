SPECIFICATION Spec
CONSTANTS
  QueueSize = 2
  BatchSize = 2
  MaxRetries = 1
  FailureThreshold = 2
  InitThreshold = 2
  MaxRecords = 6
CHECK_DEADLOCK FALSE
INVARIANTS Accounted RemoteInOrder NobodyWaitsForIdle
PROPERTIES Settles KeepsDelivery
