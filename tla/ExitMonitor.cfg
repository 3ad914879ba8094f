CONSTANTS
  p1 = p1
  p2 = p2
  pump = pump
  other = other
  Procs = {p1, p2}
  PidOf <- FreshPids
  Ends <- TwoEnds
  Execs = {e1}
  Users = {pump, other}
  TopicOf <- PumpAndOther
  NoProc = none
  Cancels = TRUE

SPECIFICATION FairSpec
CHECK_DEADLOCK FALSE
INVARIANT DeliversSuffix
INVARIANT OwnCode
PROPERTY EveryExitTold
