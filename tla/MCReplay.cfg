\* A message that was reserved, saved and never written, and the next Run.
CONSTANTS
  Runs = {r1, r2}
  Ids = {m1, m2, m3}
  Texts = {m1, m2}
  NoRun = NoRun
  NoId = NoId
SPECIFICATION Spec
SYMMETRY Symmetry
INVARIANTS ReplayIsAccepted
CHECK_DEADLOCK FALSE
