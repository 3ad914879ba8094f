CONSTANTS
  Callers = {c1, c2}
  Loggers = {l1}
  MainThread = main
  ReaperThread = reaper
  Pids = {1, 2}
  Nobody = nobody
  Debug = TRUE
  MaxStarts = 2

SPECIFICATION FairSpec
CHECK_DEADLOCK FALSE
INVARIANT OwnChild
PROPERTY MountEnds
PROPERTY ShutsDown
