CONSTANTS
  p1 = p1
  p2 = p2
  p3 = p3
  Ids = {c1}
  ExecIds = {e1}
  InitProc = init
  Procs = {p1, p2, p3}
  NoProc = none
  PidOf <- FreshPids
  Callers = {a, b}
  ChanCap = 1
  PrivatePidNs = {}
  Ops = {"create", "start", "exec", "delete", "wait", "shutdown"}
  Faults = {"kill"}
  Disciplined = TRUE

SPECIFICATION Spec
SYMMETRY ProcsAndCallers
INVARIANT ExitNotLost
INVARIANT NoOrphan
INVARIANT AnswersTruthful
PROPERTY RemovedIsDead
PROPERTY ShutdownIdle
CHECK_DEADLOCK FALSE
