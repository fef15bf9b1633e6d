SPECIFICATION FairSpec
CONSTANTS
  Readers = {r1}
  Torn = Torn
  MaxVersions = 2
  MaxClock = 2
  MaxFailures = 1
  MaxStops = 1
  MaxCrashes = 1
PROPERTIES ChangeArrives
CHECK_DEADLOCK FALSE
