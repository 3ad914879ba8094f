CONSTANTS
  Starts = {s1, s2, s3}
  NoServer = none
  Probes = 2
  MaxCrashes = 2

SPECIFICATION FairSpec
CHECK_DEADLOCK FALSE
INVARIANT Reachable
PROPERTY StartEnds
