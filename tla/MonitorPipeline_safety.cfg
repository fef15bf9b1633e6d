SPECIFICATION Spec
CONSTANTS
  Garbage = Garbage
  MaxSize = 2
  MaxEvents = 3
INVARIANTS TypeOK FaithfulUnlessOvertaken NeverOlder
