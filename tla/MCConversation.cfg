SPECIFICATION Spec
CONSTANTS
  New = new
  Threads = {a, b}
  PageSize = 1
  MaxSends = 2
  MaxTexts = 2
  MaxEvents = 3
  MaxMessages = 2
INVARIANTS TypeOK SendsAreAccountedFor TextIsKept
PROPERTIES NothingGoesBack
SYMMETRY Symmetry
CHECK_DEADLOCK FALSE
