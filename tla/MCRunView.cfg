\* Two resumes, one failure, two requests of the user.
CONSTANTS
  MaxStage = 2
  MaxFailures = 1
  MaxAsks = 2
  MaxTries = 1
  MaxRequests = 2
SPECIFICATION Spec
INVARIANTS TypeOK RestAgrees
PROPERTIES NothingIsTakenBack NoBlindRepeat
CHECK_DEADLOCK FALSE
