CONSTANTS
  Shims = {s1, s2}
  Rootfses <- SomeRootfses
  Threads = {t1, t2}
  LoopDevs = {d1, d2}
  NoDev = nodev
  NoShim = none
  Faults = {"chdir", "status", "mount", "remount"}
  MaxKills = 1
  MaxExtra = 1

SPECIFICATION Spec
CHECK_DEADLOCK FALSE
INVARIANT LayersFound
INVARIANT Unmounts
INVARIANT LoopsFreed
PROPERTY MountedAsAsked
