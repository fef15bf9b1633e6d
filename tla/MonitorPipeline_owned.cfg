SPECIFICATION Spec
CONSTANTS
  Garbage = Garbage
  MaxSize = 2
  MaxEvents = 2
INVARIANT BufferOwned
