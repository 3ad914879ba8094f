CONSTANTS
  Tasks = {t1, t2}
  Leader = t1
  Requests <- SomeRequests
  DefaultBinary = "runc"
  DefaultRoot <- Absolute
  NoName = ""
  NoFile = nofile
  Torn = torn
  Unset = unset
  Raw = raw
  NameOf <- Names
  OptionsIn <- Decoded
  Root = "/"
  Faults = {"create", "delete", "umount"}
  MaxKills = 2

SPECIFICATION CleanupSpec
CHECK_DEADLOCK FALSE
INVARIANT CleanupComplete
INVARIANT DeleteAnswers
INVARIANT RuncUnderstands
INVARIANT StartUnderstood
