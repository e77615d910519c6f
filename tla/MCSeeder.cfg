SPECIFICATION Spec
CONSTANTS
  e1 = e1
  EntityIDs = {e1}
  TokenLives = {30000, 100000}
  RetryAfters = {0, 90000}
INVARIANTS
  TypeOK
  UpdatesSpaced
PROPERTIES
  TokenOutlivesRequest
  PauseKept
  EvictedLate
  Stops
CHECK_DEADLOCK FALSE
