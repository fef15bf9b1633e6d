SPECIFICATION Spec
CONSTANTS
  w1 = w1
  w2 = w2
  NoThread = NoThread
  Monitor = Monitor
  Torn = Torn
  Writers = {w1, w2}
  MaxWrites = 3
  MaxServerCrashes = 1
  MaxMonitorCrashes = 2
SYMMETRY Symmetry
INVARIANTS TypeOK OwnershipAccounted TornExplained NewestAnnounced DuplicatesBounded
 
