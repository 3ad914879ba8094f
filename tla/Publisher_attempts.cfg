CONSTANTS
  Events = {a}
  NoEvent = none
  QUEUE_SIZE = 1
  MAX_REQUEUE = 5
  Timeouts = TRUE
  MaxCrashes = 1

SPECIFICATION Spec
CHECK_DEADLOCK FALSE
INVARIANT AttemptsAsDocumented
