SPECIFICATION Spec
CONSTANTS
  Bytes = 2
  MaxEntries = 3
  MaxRows = 4
  Tables <- AllTables
  Clients <- AllClients
  BitAnd <- AndBytes
CHECK_DEADLOCK FALSE
INVARIANTS TypeOK ComparatorIsOrder LeastDecides DropsSmallestMasks
