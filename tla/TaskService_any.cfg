CONSTANTS
  p1 = p1
  p2 = p2
  p3 = p3
  Ids = {c1}
  ExecIds = {e1}
  InitProc = init
  Procs = {p1, p2, p3}
  NoProc = none
  PidOf <- FreshPids
  Callers = {a, b}
  ChanCap = 1
  PrivatePidNs = {c1}
  Ops = {"create", "start", "exec", "delete", "pause", "kill"}
  Faults = {"late", "timeout", "umount", "kill"}
  Disciplined = FALSE

SPECIFICATION Spec
SYMMETRY ProcsAndCallers
INVARIANT IInv
INVARIANT ExitRecordedRight
PROPERTY NoExitAfterDelete
CHECK_DEADLOCK FALSE
