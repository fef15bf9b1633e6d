SPECIFICATION Spec
CONSTANTS
  p1 = p1
  p2 = p2
  c1 = c1
  c2 = c2
  n1 = n1
  n2 = n2
  n3 = n3
  n4 = n4
  n5 = n5
  NULL = NULL
  Uninit = Uninit
  Producers = {p1, p2}
  Consumers = {c1, c2}
  Nodes = {n1, n2, n3, n4, n5}
  MaxSize = 4
  MaxAdds = 12
SYMMETRY Symmetry
INVARIANTS TypeOK FifoList WakeupsAccounted WokenFindsEntry FullHasWakeup
PROPERTY ImplementsFifo
