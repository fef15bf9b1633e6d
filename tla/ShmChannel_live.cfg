SPECIFICATION FairSpec
CONSTANTS
  w1 = w1
  w2 = w2
  NoThread = NoThread
  Monitor = Monitor
  Torn = Torn
  Writers = {w1, w2}
  MaxWrites = 2
  MaxServerCrashes = 0
  MaxMonitorCrashes = 1
PROPERTIES HookReturns EventuallyHanded
