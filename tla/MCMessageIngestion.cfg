\* Two Runs of one thread; two messages with text, one without.
CONSTANTS
  Runs = {r1, r2}
  Ids = {m1, m2, m3}
  Texts = {m1, m2}
  NoRun = NoRun
  NoId = NoId
SPECIFICATION Spec
SYMMETRY Symmetry
INVARIANTS TypeOK MessagesAreWhole
PROPERTIES NothingAfterTerminal
CHECK_DEADLOCK FALSE
