\* Two runs after each other in one thread, two checkpoints, one message id.
CONSTANTS
  t1 = t1
  Threads = {t1}
  Runs = {r1, r2}
  ThreadOf <- OneThread
  Entries = {e1, e2}
  Messages = {m1}
  Checkpoints = {c1, c2}
  Amounts = {a1, a2}
  NoReport = NoReport
  NoCheckpoint = NoCheckpoint
  MaxSeq = 10
SPECIFICATION Spec
SYMMETRY Symmetry
INVARIANTS TypeOK OneActiveRun StatusFollowsFacts PausedIsDecidable UsageOfItsInvocation
  SequencesAreOwned RecoveryClosesWhatItRead
PROPERTIES TerminalIsFinal KeepsPromise
CHECK_DEADLOCK FALSE
