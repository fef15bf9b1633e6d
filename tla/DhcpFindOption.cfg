SPECIFICATION FairSpec
CONSTANTS
  Null = Null
  Inputs <- AllInputs
  MaxOptions = 3
  MaxRaw = 4
  Behind = 3
CHECK_DEADLOCK FALSE
INVARIANTS TypeOK FindsFirst FoundInside
PROPERTY Terminates
