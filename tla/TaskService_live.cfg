CONSTANTS
  p1 = p1
  p2 = p2
  p3 = p3
  Ids = {c1}
  ExecIds = {}
  InitProc = init
  Procs = {p1, p2}
  NoProc = none
  PidOf <- FreshPids
  Callers = {a, b}
  ChanCap = 1
  PrivatePidNs = {}
  Ops = {"create", "start", "delete", "wait"}
  Faults = {}
  Disciplined = TRUE

SPECIFICATION FairSpec
PROPERTY ExitReported
PROPERTY CallsReturn
CHECK_DEADLOCK FALSE
