SPECIFICATION Spec
CONSTANTS
  None = none
  New = new
  Own = {t}
  Imported = {m}
  Conn = c
  MaxVersion = 2
  Refs = {r1, r2}
  MaxRev = 2
  MaxFile = 2
  MaxOpen = 2
  MaxCalls = 2
  MaxEnds = 2
SYMMETRY SameRefs
INVARIANTS TypeOK HandlesAreLive EventsAreComplete
PROPERTIES DraftsAreKept WritesAreSettled OpensWhatWasConfirmed
CHECK_DEADLOCK FALSE
