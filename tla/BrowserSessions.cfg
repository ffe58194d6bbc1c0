SPECIFICATION Spec
CONSTANTS
  Slot = {s1, s2}
  RotateAfter = 3
  Grace = 2
  RetryAfter = 2
  IdleTimeout = 4
  Life = 1
  MaxTokens = 5
  MaxClock <- Horizon
  MaxLogins = 2
  MaxLosses = 1
  Kinds <- Doings
CHECK_DEADLOCK FALSE
INVARIANTS NoFalseAlarm ServedWhileSignedIn
PROPERTIES IdleFloor JarMovesForward KeepsLineage StaleJarHeals
