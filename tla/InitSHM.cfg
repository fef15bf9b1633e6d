SPECIFICATION FairSpec
CONSTANTS
  h1 = h1
  h2 = h2
  h3 = h3
  NoThread = NoThread
  Hooks = {h1, h2, h3}
  MaxCalls = 3
  MaxStops = 1
CHECK_DEADLOCK FALSE
INVARIANTS TypeOK HalfBuiltHasBuilder LeakAfterReady FaultExplained
PROPERTIES ReadyIsFinal HookReturns
