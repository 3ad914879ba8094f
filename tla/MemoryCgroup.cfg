CONSTANTS
  MaxUnits = 2
  Requests <- AllRequests
  Unset = unset
  MaxOoms = 2
  MaxCalls = 2

SPECIFICATION FairSpec
CHECK_DEADLOCK FALSE
INVARIANT AppliedAsAsked
INVARIANT UpdateGraceful
INVARIANT StatsNotTorn
PROPERTY OomTrue
PROPERTY OomTold
