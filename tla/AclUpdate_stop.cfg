SPECIFICATION FairSpec
CONSTANTS
  Readers = {r1}
  Torn = Torn
  MaxVersions = 1
  MaxClock = 1
  MaxFailures = 0
  MaxStops = 1
  MaxCrashes = 0
PROPERTIES StopStops
CHECK_DEADLOCK FALSE
