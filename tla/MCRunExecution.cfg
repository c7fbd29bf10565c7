\* Two runs of two invocations in one thread, two operations at a time.
CONSTANTS
  t1 = t1
  Threads = {t1}
  Runs = {r1, r2}
  ThreadOf <- OneThread
  Ops = {o1, o2}
  MaxRounds = 2
  NoOp = NoOp
  NoRun = NoRun
SPECIFICATION Spec
SYMMETRY Symmetry
INVARIANTS TypeOK EngineMatchesTables WaitsAreServed
