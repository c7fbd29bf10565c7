\* A message that was saved and never consumed, and the next Run.
CONSTANTS
  Runs = {r1, r2}
  Ids = {m1, m2, m3}
  Texts = {m1, m2}
  NoRun = NoRun
  NoId = NoId
SPECIFICATION Spec
SYMMETRY Symmetry
INVARIANTS MessagesStayWithTheirRun
CHECK_DEADLOCK FALSE
