SPECIFICATION Spec
CONSTANTS
  Readers = {r1, r2}
  Torn = Torn
  MaxVersions = 2
  MaxClock = 2
  MaxFailures = 0
  MaxStops = 0
  MaxCrashes = 2
SYMMETRY Symmetry
INVARIANTS TypeOK SearchesWholeList LockAccounted MissedExplained
PROPERTY ImplementsSharedList
CHECK_DEADLOCK FALSE
