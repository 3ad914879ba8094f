CONSTANTS
  Events = {a, b}
  NoEvent = none
  QUEUE_SIZE = 1
  MAX_REQUEUE = 2
  Timeouts = TRUE
  MaxCrashes = 2

SPECIFICATION FairSpec
CHECK_DEADLOCK FALSE
INVARIANT InOnePlace
INVARIANT OneFaultOneAttempt
PROPERTY Promise
