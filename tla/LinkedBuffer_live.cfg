SPECIFICATION FairSpec
CONSTANTS
  p1 = p1
  c1 = c1
  c2 = c2
  n1 = n1
  n2 = n2
  NULL = NULL
  Uninit = Uninit
  Producers = {p1}
  Consumers = {c1, c2}
  Nodes = {n1, n2}
  MaxSize = 2
  MaxAdds = 4
PROPERTIES FullDrains SignalDelivers
